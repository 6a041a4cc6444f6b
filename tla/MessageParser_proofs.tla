------------------------ MODULE MessageParser_proofs ------------------------
(***************************************************************************)
(* Proofs about the parser of messages, for any definitions and buffers.   *)
(*                                                                         *)
(* The values keep their types, and the children of a value lie behind it  *)
(* and belong to no other, although their places are handed out before the *)
(* values are there (Inv).                                                 *)
(*                                                                         *)
(* While it parses a message that is whole the parser is on the course of  *)
(* the layout: each call in progress has what is left of its part in front *)
(* of it, and the parts lie one behind the other up to the end of the      *)
(* message (CourseInv).  So it neither throws nor passes the end.          *)
(*                                                                         *)
(* The values on the way have the trees of the layout: each value that was *)
(* visited is the leaf, the list or the object the layout has at its place,*)
(* and its children have the parts of that (TreeInv).  When the first call *)
(* is through with its fields, that is the message.                        *)
(*                                                                         *)
(* What was visited is read from bytes that the parser has passed          *)
(* (BehindOffset), so of a whole message nothing but the message is read.  *)
(***************************************************************************)
EXTENDS SchemaBuilder, FiniteSetTheorems, SequenceTheorems, Sums, TLAPS

\* How many of the first n members of definition d are fields.
FieldCount(d, n) == Cardinality({k \in 1..n : ~Definitions[d][k].const})

\* The places of the vector v that belong to frame f: how many were handed
\* out, and how many of them were visited.
Off(v, f) == v[f.at].children.offset
Places(v, f) ==
  IF f.fn = "initArray" THEN v[f.at].children.length
  ELSE FieldCount(f.def, IF f.loop = "emplace" THEN f.next - 1 ELSE Len(Definitions[f.def]))
Visited(f) ==
  IF f.fn = "initArray" THEN f.next - 1
  ELSE IF f.loop = "emplace" THEN 0 ELSE FieldCount(f.def, f.next - 1)
Own(v, f) == Off(v, f) .. Off(v, f) + Places(v, f) - 1
Waiting(v, f) == Off(v, f) + Visited(f) .. Off(v, f) + Places(v, f) - 1

IsEmplacing(f) == f.fn = "initObject" /\ f.loop = "emplace"

\* The members whose values wait to be visited, and what these values are.
Ahead(f) ==
  {k \in (IF f.loop = "emplace" THEN 1..f.next-1 ELSE f.next..Len(Definitions[f.def])) :
     ~Definitions[f.def][k].const}
Fresh(v, f) ==
  IF f.fn = "initArray"
  THEN \A k \in f.next..v[f.at].children.length : v[Off(v, f) + k - 1] = NewElement(f.field)
  ELSE \A k \in Ahead(f) :
         v[Off(v, f) + FieldCount(f.def, k - 1)] = NewField(Definitions[f.def][k])

\* A call in progress and its value.
FrameOK(v, f) ==
  /\ f.at \in 1..Len(v) /\ f.next \in Nat \ {0}
  /\ f.fn = "initObject" =>
       /\ v[f.at].type = "object"
       /\ f.next <= Len(Definitions[f.def]) + 1
       /\ v[f.at].children.length = Visited(f)
  /\ f.fn = "initArray" => v[f.at].type = "array" /\ f.next <= v[f.at].children.length + 1
  /\ f.at < Off(v, f) /\ Off(v, f) + Places(v, f) - 1 <= Len(v)
  /\ Fresh(v, f)

\* The calls in progress do not get in each other's way.
CallsApart(v, st) ==
  \A i \in 1..Len(st) :
    /\ \A p \in 1..Len(v) : p # st[i].at => Children(v, p) \cap Own(v, st[i]) = {}
    /\ \A j \in 1..Len(st) :
         /\ st[j].at \notin Waiting(v, st[i])
         /\ i # j => st[i].at # st[j].at /\ Own(v, st[i]) \cap Own(v, st[j]) = {}

\* Only the innermost call appends, at the end of the vector.
EmplacesLast(v, st) ==
  \A i \in 1..Len(st) : IsEmplacing(st[i]) =>
    i = Len(st) /\ Off(v, st[i]) + Places(v, st[i]) = Len(v) + 1

Arranged(v, st) ==
  /\ v \in Seq(RosValue) /\ st \in Seq(Frame)
  /\ Apart(v)
  /\ \A i \in 1..Len(st) : FrameOK(v, st[i])
  /\ CallsApart(v, st)
  /\ EmplacesLast(v, st)

RestOK ==
  /\ message \in Messages
  /\ data_ \in Seq(RosValue) /\ Apart(data_)
  /\ ros_values_offset_ = Len(ros_values_) + 1
  /\ message_buffer_offset_ \in Nat
  /\ stack # <<>> => message_buffer_offset_ \in Nat \ {0}
  /\ parsed_ \in BOOLEAN
  /\ outcome \in {"none", "thrown", "parsed"}

\* The inductive invariant.
Inv == Arranged(ros_values_, stack) /\ RestOK

----
(* Counting fields. *)

LEMMA MemberOf ==
  ASSUME NEW d \in DefNames, NEW k \in 1..Len(Definitions[d])
  PROVE  Definitions[d][k] \in Member
<1>1. Definitions[d] \in Seq(Member)
  BY DefinitionAssumption
<1> QED BY <1>1, ElementOfSeq

LEMMA MembersAreCounted == ASSUME NEW d \in DefNames PROVE Len(Definitions[d]) \in Nat
<1>1. Definitions[d] \in Seq(Member)
  BY DefinitionAssumption
<1> QED BY LenProperties

LEMMA CountNext ==
  ASSUME NEW d, NEW n \in Nat
  PROVE  /\ FieldCount(d, 0) = 0
         /\ FieldCount(d, n) \in Nat
         /\ FieldCount(d, n + 1) =
              IF Definitions[d][n + 1].const THEN FieldCount(d, n) ELSE FieldCount(d, n) + 1
<1> DEFINE S(m) == {k \in 1..m : ~Definitions[d][k].const}
<1>1. S(0) = {}
  OBVIOUS
<1>2. IsFiniteSet(S(n))
  <2>1. IsFiniteSet(1..n)
    BY FS_Interval
  <2>2. S(n) \in SUBSET (1..n)
    OBVIOUS
  <2> QED BY <2>1, <2>2, FS_Subset
<1>3. S(n + 1) = IF Definitions[d][n + 1].const THEN S(n) ELSE S(n) \cup {n + 1}
  <2>1. 1..n+1 = (1..n) \cup {n + 1} /\ n + 1 \notin 1..n
    OBVIOUS
  <2> QED BY <2>1
<1>4. n + 1 \notin S(n)
  OBVIOUS
<1> HIDE DEF S
<1>5. Cardinality(S(n)) \in Nat
  BY <1>2, FS_CardinalityType
<1>6. Cardinality(S(n) \cup {n + 1}) = Cardinality(S(n)) + 1
  BY <1>2, <1>4, FS_AddElement
<1>7. Cardinality(S(0)) = 0
  BY <1>1, FS_EmptySet
<1> QED BY <1>3, <1>5, <1>6, <1>7 DEF FieldCount, S

LEMMA CountMonotone ==
  ASSUME NEW d, NEW n \in Nat, NEW m \in 0..n
  PROVE  FieldCount(d, m) <= FieldCount(d, n)
<1> DEFINE S(i) == {k \in 1..i : ~Definitions[d][k].const}
<1>1. IsFiniteSet(S(n))
  <2>1. IsFiniteSet(1..n)
    BY FS_Interval
  <2>2. S(n) \in SUBSET (1..n)
    OBVIOUS
  <2> QED BY <2>1, <2>2, FS_Subset
<1>2. S(m) \in SUBSET S(n)
  OBVIOUS
<1> HIDE DEF S
<1>3. Cardinality(S(m)) <= Cardinality(S(n))
  BY <1>1, <1>2, FS_Subset
<1> QED BY <1>3 DEF FieldCount, S

\* A field before member n is one of the fields up to there.
LEMMA FieldBefore ==
  ASSUME NEW d, NEW n \in Nat, NEW k \in 1..n, ~Definitions[d][k].const
  PROVE  /\ FieldCount(d, k) = FieldCount(d, k - 1) + 1
         /\ FieldCount(d, k - 1) \in Nat /\ FieldCount(d, k) <= FieldCount(d, n)
<1>1. k - 1 \in Nat /\ (k - 1) + 1 = k /\ k \in 0..n
  OBVIOUS
<1>2. FieldCount(d, (k - 1) + 1) = FieldCount(d, k - 1) + 1 /\ FieldCount(d, k - 1) \in Nat
  BY CountNext
<1>3. FieldCount(d, k) <= FieldCount(d, n)
  BY CountMonotone
<1> QED BY <1>2, <1>3

----
(* Values and frames. *)

Childless(w) == w.type \in {"object", "array"} => w.children.length = 0

LEMMA ValueForms ==
  ASSUME NEW w \in RosValue
  PROVE  /\ w.type \in {"object", "array"} =>
              w.children.offset \in Nat /\ w.children.length \in Nat
         /\ \/ /\ w.type = "object"
               /\ \E o, l \in Nat, d \in DefNames :
                    w = [type |-> "object", children |-> [offset |-> o, length |-> l], def |-> d]
            \/ /\ w.type = "array"
               /\ \E o, l \in Nat :
                    w = [type |-> "array", children |-> [offset |-> o, length |-> l]]
            \/ /\ w.type = "primitive_array"
               /\ \E t \in Primitives, o, l \in Nat :
                    w = [type |-> "primitive_array", element_type |-> t, offset |-> o, length |-> l]
            \/ /\ w.type \in Primitives \cup {"string"}
               /\ \E o \in Nat : w = [type |-> w.type, offset |-> o]
<1>1. CASE w \in [type : Primitives \cup {"string"}, offset : Nat]
  <2>1. PICK t \in Primitives \cup {"string"}, o \in Nat : w = [type |-> t, offset |-> o]
    BY <1>1
  <2>2. w.type = t /\ t \notin {"object", "array"}
    BY <2>1, DefinitionAssumption
  <2> QED BY <2>1, <2>2
<1>2. CASE w \in [type : {"object"}, children : List, def : DefNames]
  <2>1. PICK c \in List, d \in DefNames : w = [type |-> "object", children |-> c, def |-> d]
    BY <1>2
  <2>2. PICK o \in Nat, l \in Nat : c = [offset |-> o, length |-> l]
    BY DEF List
  <2> QED BY <2>1, <2>2
<1>3. CASE w \in [type : {"array"}, children : List]
  <2>1. PICK c \in List : w = [type |-> "array", children |-> c]
    BY <1>3
  <2>2. PICK o \in Nat, l \in Nat : c = [offset |-> o, length |-> l]
    BY DEF List
  <2> QED BY <2>1, <2>2
<1>4. CASE w \in [type : {"primitive_array"}, element_type : Primitives, offset : Nat, length : Nat]
  <2>1. PICK t \in Primitives, o \in Nat, l \in Nat :
          w = [type |-> "primitive_array", element_type |-> t, offset |-> o, length |-> l]
    BY <1>4
  <2> QED BY <2>1
<1> QED BY <1>1, <1>2, <1>3, <1>4 DEF RosValue

LEMMA MakeValue ==
  ASSUME NEW o \in Nat, NEW l \in Nat
  PROVE  /\ \A d \in DefNames :
              [type |-> "object", children |-> [offset |-> o, length |-> l], def |-> d] \in RosValue
         /\ [type |-> "array", children |-> [offset |-> o, length |-> l]] \in RosValue
         /\ \A t \in Primitives :
              [type |-> "primitive_array", element_type |-> t, offset |-> o, length |-> l] \in RosValue
         /\ \A t \in Primitives \cup {"string"} : [type |-> t, offset |-> o] \in RosValue
<1>1. [offset |-> o, length |-> l] \in List
  BY DEF List
<1> QED BY <1>1 DEF RosValue

LEMMA ElementValue ==
  ASSUME NEW f \in Member
  PROVE  /\ NewElement(f) \in RosValue /\ Childless(NewElement(f))
         /\ NewElement(f).type = f.type /\ f.of \in DefNames
<1>1. f.type \in Type /\ f.of \in DefNames
  BY DEF Member
<1>2. CASE f.type = "object"
  <2>1. NewElement(f) = [type |-> "object", children |-> [offset |-> 0, length |-> 0], def |-> f.of]
    BY <1>2 DEF NewElement, NoList
  <2>2. NewElement(f) \in RosValue
    BY <1>1, <2>1, MakeValue
  <2> QED BY <1>1, <1>2, <2>1, <2>2 DEF Childless
<1>3. CASE f.type # "object"
  <2>1. NewElement(f) = [type |-> f.type, offset |-> 0] /\ f.type \in Primitives \cup {"string"}
    BY <1>1, <1>3 DEF NewElement, Type
  <2>2. NewElement(f) \in RosValue
    BY <2>1, MakeValue
  <2>3. f.type \notin {"object", "array"}
    BY <2>1, DefinitionAssumption
  <2> QED BY <1>1, <2>1, <2>2, <2>3 DEF Childless
<1> QED BY <1>2, <1>3

LEMMA FieldValue ==
  ASSUME NEW f \in Member
  PROVE  /\ NewField(f) \in RosValue /\ Childless(NewField(f))
         /\ NewField(f).type \in Primitives \cup {"string", "object"} => NewField(f).type = f.type
         /\ NewField(f).type = "primitive_array" => f.type \in Primitives
<1>1. f.type \in Primitives \cup {"string", "object"}
  BY DEF Member, Type
<1>2. CASE ArraySize(f) = 0
  <2>1. NewField(f) = NewElement(f)
    BY <1>2 DEF NewField
  <2>2. NewElement(f).type # "primitive_array"
    BY <1>1, ElementValue, DefinitionAssumption
  <2> QED BY <2>1, <2>2, ElementValue
<1>3. CASE ArraySize(f) # 0 /\ f.type \in {"object", "string"}
  <2>1. NewField(f) = [type |-> "array", children |-> [offset |-> 0, length |-> 0]]
    BY <1>3 DEF NewField, NoList
  <2>2. NewField(f) \in RosValue
    BY <2>1, MakeValue
  <2>3. "array" \notin Primitives \cup {"string", "object"}
    BY DefinitionAssumption
  <2> QED BY <2>1, <2>2, <2>3 DEF Childless
<1>4. CASE ArraySize(f) # 0 /\ f.type \notin {"object", "string"}
  <2>1. /\ NewField(f) =
             [type |-> "primitive_array", element_type |-> f.type, offset |-> 0, length |-> 0]
        /\ f.type \in Primitives
    BY <1>1, <1>4 DEF NewField
  <2>2. NewField(f) \in RosValue
    BY <2>1, MakeValue
  <2>3. "primitive_array" \notin Primitives \cup {"string", "object"}
    BY DefinitionAssumption
  <2> QED BY <2>1, <2>2, <2>3 DEF Childless
<1> QED BY <1>2, <1>3, <1>4

LEMMA FrameForms ==
  ASSUME NEW f \in Frame
  PROVE  /\ f.fn \in {"initObject", "initArray"} /\ f.at \in Nat /\ f.next \in Nat
         /\ f.fn = "initObject" =>
              /\ f.def \in DefNames /\ f.loop \in {"emplace", "init"}
              /\ f = [fn |-> "initObject", at |-> f.at, def |-> f.def, loop |-> f.loop,
                      next |-> f.next]
         /\ f.fn = "initArray" =>
              /\ f.field \in Member
              /\ f = [fn |-> "initArray", at |-> f.at, field |-> f.field, next |-> f.next]
<1>1. CASE f \in [fn : {"initObject"}, at : Nat, def : DefNames, loop : {"emplace", "init"}, next : Nat]
  BY <1>1
<1>2. CASE f \in [fn : {"initArray"}, at : Nat, field : Member, next : Nat]
  BY <1>2
<1> QED BY <1>2 DEF Frame

LEMMA NextTurn ==
  ASSUME NEW f \in Frame, NEW g, g = [f EXCEPT !.next = @ + 1]
  PROVE  /\ g \in Frame
         /\ g.fn = f.fn /\ g.at = f.at /\ g.next = f.next + 1
         /\ f.fn = "initObject" => g.def = f.def /\ g.loop = f.loop
         /\ f.fn = "initArray" => g.field = f.field
<1>1. CASE f.fn = "initObject"
  <2>1. PICK a \in Nat, d \in DefNames, l \in {"emplace", "init"}, n \in Nat :
          f = [fn |-> "initObject", at |-> a, def |-> d, loop |-> l, next |-> n]
    BY <1>1, FrameForms
  <2>2. g = [fn |-> "initObject", at |-> a, def |-> d, loop |-> l, next |-> n + 1]
    BY <2>1
  <2> QED BY <2>1, <2>2 DEF Frame
<1>2. CASE f.fn = "initArray"
  <2>1. PICK a \in Nat, m \in Member, n \in Nat :
          f = [fn |-> "initArray", at |-> a, field |-> m, next |-> n]
    BY <1>2, FrameForms
  <2>2. g = [fn |-> "initArray", at |-> a, field |-> m, next |-> n + 1]
    BY <2>1
  <2> QED BY <2>1, <2>2 DEF Frame
<1> QED BY <1>1, <1>2, FrameForms

\* Where the children of the value of a call are.
LEMMA OwnPlaces ==
  ASSUME NEW v \in Seq(RosValue), NEW f \in Frame, FrameOK(v, f)
  PROVE  /\ Off(v, f) \in Nat /\ Places(v, f) \in Nat /\ Visited(f) \in Nat
         /\ Visited(f) <= Places(v, f)
         /\ Waiting(v, f) \subseteq Own(v, f)
         /\ Own(v, f) \subseteq f.at+1..Len(v)
         /\ Children(v, f.at) = IF f.fn = "initObject"
                                THEN Off(v, f) .. Off(v, f) + Visited(f) - 1 ELSE Own(v, f)
         /\ Children(v, f.at) \subseteq Own(v, f)
<1>1. /\ v[f.at] \in RosValue /\ v[f.at].type \in {"object", "array"}
      /\ f.at \in Nat /\ f.next \in Nat \ {0} /\ Len(v) \in Nat
  BY FrameForms, ElementOfSeq, LenProperties DEF FrameOK
<1>2. v[f.at].children.offset \in Nat /\ v[f.at].children.length \in Nat
  BY <1>1, ValueForms
<1>3. Places(v, f) \in Nat /\ Visited(f) \in Nat /\ Visited(f) <= Places(v, f)
  <2>1. CASE f.fn = "initArray"
    BY <1>2, <2>1 DEF FrameOK, Places, Visited
  <2>2. CASE f.fn = "initObject"
    <3>1. f.def \in DefNames /\ f.loop \in {"emplace", "init"} /\ Len(Definitions[f.def]) \in Nat
      BY <2>2, FrameForms, MembersAreCounted
    <3>2. f.next - 1 \in 0..Len(Definitions[f.def])
      BY <2>2, <3>1 DEF FrameOK
    <3>3. /\ FieldCount(f.def, f.next - 1) \in Nat
          /\ FieldCount(f.def, Len(Definitions[f.def])) \in Nat
      <4>1. f.next - 1 \in Nat
        BY <3>2
      <4>2. FieldCount(f.def, f.next - 1) \in Nat
        BY <4>1, CountNext
      <4>3. FieldCount(f.def, Len(Definitions[f.def])) \in Nat
        BY CountNext
      <4> QED BY <4>2, <4>3
    <3>4. FieldCount(f.def, f.next - 1) <= FieldCount(f.def, Len(Definitions[f.def]))
      BY <3>2, CountMonotone
    <3> QED BY <2>2, <3>1, <3>3, <3>4 DEF Places, Visited
  <2> QED BY <2>1, <2>2, FrameForms
<1>4. Off(v, f) \in Nat
  BY <1>2 DEF Off
<1>5. Waiting(v, f) \subseteq Own(v, f)
  BY <1>3, <1>4 DEF Waiting, Own
<1>6. Own(v, f) \subseteq f.at+1..Len(v)
  BY <1>3, <1>4 DEF Own, FrameOK
<1>7. Children(v, f.at) = IF f.fn = "initObject"
                          THEN Off(v, f) .. Off(v, f) + Visited(f) - 1 ELSE Own(v, f)
  <2>1. CASE f.fn = "initArray"
    BY <1>1, <2>1 DEF Children, Off, Own, Places
  <2>2. CASE f.fn = "initObject"
    BY <2>2 DEF Children, Off, FrameOK
  <2> QED BY <2>1, <2>2, FrameForms
<1>8. Children(v, f.at) \subseteq Own(v, f)
  BY <1>3, <1>4, <1>7 DEF Own
<1> QED BY <1>3, <1>4, <1>5, <1>6, <1>7, <1>8

\* The places of the members ahead wait to be visited.
LEMMA AheadWaits ==
  ASSUME NEW v \in Seq(RosValue), NEW f \in Frame, FrameOK(v, f)
  PROVE  /\ f.fn = "initObject" => \A k \in Ahead(f) :
              /\ FieldCount(f.def, k - 1) \in Nat
              /\ Off(v, f) + FieldCount(f.def, k - 1) \in Waiting(v, f)
         /\ f.fn = "initArray" => \A k \in f.next..v[f.at].children.length :
              Off(v, f) + k - 1 \in Waiting(v, f)
<1>0. Off(v, f) \in Nat /\ Places(v, f) \in Nat /\ Visited(f) \in Nat /\ f.next \in Nat \ {0}
  BY OwnPlaces DEF FrameOK
<1>1. ASSUME f.fn = "initArray", NEW k \in f.next..v[f.at].children.length
      PROVE  Off(v, f) + k - 1 \in Waiting(v, f)
  <2>1. Places(v, f) = v[f.at].children.length /\ Visited(f) = f.next - 1
    BY <1>1 DEF Places, Visited
  <2>2. PICK o \in Nat, n \in Nat, i \in Nat \ {0} :
          o = Off(v, f) /\ n = Places(v, f) /\ i = f.next
    BY <1>0
  <2>3. k \in i..n
    BY <2>1, <2>2
  <2>4. o + k - 1 \in o + (i - 1) .. o + n - 1
    BY <2>3
  <2> QED BY <2>1, <2>2, <2>4 DEF Waiting
<1>2. ASSUME f.fn = "initObject", NEW k \in Ahead(f)
      PROVE  /\ FieldCount(f.def, k - 1) \in Nat
             /\ Off(v, f) + FieldCount(f.def, k - 1) \in Waiting(v, f)
  <2> DEFINE d == f.def
             n == IF f.loop = "emplace" THEN f.next - 1 ELSE Len(Definitions[d])
  <2>1. d \in DefNames /\ f.loop \in {"emplace", "init"} /\ Len(Definitions[d]) \in Nat
    BY <1>2, FrameForms, MembersAreCounted
  <2>2. n \in Nat /\ k \in 1..n /\ ~Definitions[d][k].const
    BY <1>0, <1>2, <2>1 DEF Ahead
  <2>3. Places(v, f) = FieldCount(d, n)
    BY <1>2 DEF Places
  <2>4. /\ FieldCount(d, k) = FieldCount(d, k - 1) + 1
        /\ FieldCount(d, k - 1) \in Nat /\ FieldCount(d, k) <= FieldCount(d, n)
    BY <2>2, FieldBefore
  <2>5. Visited(f) <= FieldCount(d, k - 1)
    <3>1. CASE f.loop = "emplace"
      BY <1>2, <2>4, <3>1 DEF Visited
    <3>2. CASE f.loop # "emplace"
      <4>1. k \in f.next..Len(Definitions[d])
        BY <3>2 DEF Ahead
      <4>2. k - 1 \in Nat /\ f.next - 1 \in 0..k-1
        BY <1>0, <4>1, <2>1
      <4>3. FieldCount(d, f.next - 1) <= FieldCount(d, k - 1)
        BY <4>2, CountMonotone
      <4> QED BY <1>2, <3>2, <4>3 DEF Visited
    <3> QED BY <3>1, <3>2
  <2> HIDE DEF d, n
  <2>6. FieldCount(d, k - 1) \in 0..Places(v, f)-1
    BY <1>0, <2>3, <2>4
  <2>7. Off(v, f) + FieldCount(d, k - 1) \in Waiting(v, f)
    BY <1>0, <2>5, <2>6 DEF Waiting
  <2> QED BY <2>4, <2>7 DEF d
<1> QED BY <1>1, <1>2

\* A call below sees nothing of what is done to other values.
LEMMA FrameKept ==
  ASSUME NEW v \in Seq(RosValue), NEW w \in Seq(RosValue), NEW f \in Frame, FrameOK(v, f),
         Len(v) <= Len(w),
         w[f.at].type = v[f.at].type, w[f.at].children = v[f.at].children,
         \A x \in Waiting(v, f) : w[x] = v[x]
  PROVE  /\ FrameOK(w, f)
         /\ Off(w, f) = Off(v, f) /\ Places(w, f) = Places(v, f)
         /\ Own(w, f) = Own(v, f) /\ Waiting(w, f) = Waiting(v, f)
<1>1. Off(w, f) = Off(v, f) /\ Places(w, f) = Places(v, f)
  BY DEF Off, Places
<1>2. Own(w, f) = Own(v, f) /\ Waiting(w, f) = Waiting(v, f)
  BY <1>1 DEF Own, Waiting
<1>3. Fresh(w, f)
  <2>1. Fresh(v, f)
    BY DEF FrameOK
  <2>2. CASE f.fn = "initArray"
    <3>1. \A k \in f.next..v[f.at].children.length : Off(v, f) + k - 1 \in Waiting(v, f)
      BY <2>2, AheadWaits
    <3> QED BY <1>1, <2>1, <2>2, <3>1 DEF Fresh
  <2>3. CASE f.fn # "initArray"
    <3>1. \A k \in Ahead(f) : Off(v, f) + FieldCount(f.def, k - 1) \in Waiting(v, f)
      BY <2>3, AheadWaits, FrameForms
    <3> QED BY <1>1, <2>1, <2>3, <3>1 DEF Fresh
  <2> QED BY <2>2, <2>3
<1>4. Len(v) \in Nat /\ Len(w) \in Nat /\ Off(v, f) \in Nat /\ Places(v, f) \in Nat
  BY OwnPlaces
<1>5. f.at \in 1..Len(w) /\ Off(w, f) + Places(w, f) - 1 <= Len(w)
  BY <1>1, <1>4 DEF FrameOK
<1> QED BY <1>1, <1>2, <1>3, <1>5 DEF FrameOK

----
(* The innermost call f takes a turn; g is its frame afterwards. *)

\* It is at a field or an element that is to be initialised.
AtTurn(v, f) ==
  /\ ~IsEmplacing(f)
  /\ f.fn = "initObject" =>
       f.next <= Len(Definitions[f.def]) /\ ~Definitions[f.def][f.next].const
  /\ f.fn = "initArray" => f.next <= v[f.at].children.length

\* The value of this turn, and what it was made for.
Turn(v, f) == Off(v, f) + Visited(f)
Made(f) == IF f.fn = "initObject" THEN NewField(Definitions[f.def][f.next]) ELSE NewElement(f.field)

\* w is v after the turn.
Turned(v, w, f) ==
  /\ Len(w) = Len(v)
  /\ \A p \in 1..Len(v) : p # Turn(v, f) /\ p # f.at => w[p] = v[p]
  /\ w[f.at].type = v[f.at].type
  /\ w[f.at].children.offset = v[f.at].children.offset
  /\ w[f.at].children.length =
       v[f.at].children.length + (IF f.fn = "initObject" THEN 1 ELSE 0)

LEMMA TurnIsMade ==
  ASSUME NEW v \in Seq(RosValue), NEW f \in Frame, FrameOK(v, f), AtTurn(v, f)
  PROVE  /\ Turn(v, f) \in Waiting(v, f) /\ Turn(v, f) \in 1..Len(v)
         /\ v[Turn(v, f)] = Made(f)
         /\ Turn(v, f) > f.at
<1>0. /\ Off(v, f) \in Nat /\ Places(v, f) \in Nat /\ Visited(f) \in Nat /\ f.next \in Nat \ {0}
      /\ Waiting(v, f) \subseteq Own(v, f) /\ Own(v, f) \subseteq f.at+1..Len(v)
      /\ f.at \in Nat /\ Len(v) \in Nat
  BY OwnPlaces, FrameForms, LenProperties DEF FrameOK
<1>1. CASE f.fn = "initArray"
  <2>1. f.next \in f.next..v[f.at].children.length
    <3>1. v[f.at].children.length \in Nat
      BY <1>0, <1>1 DEF Places
    <3> QED BY <1>0, <1>1, <3>1 DEF AtTurn
  <2>2. Turn(v, f) = Off(v, f) + f.next - 1
    BY <1>1 DEF Turn, Visited
  <2>3. Turn(v, f) \in Waiting(v, f)
    BY <1>1, <2>1, <2>2, AheadWaits
  <2>4. v[Turn(v, f)] = NewElement(f.field)
    BY <1>1, <2>1, <2>2 DEF FrameOK, Fresh
  <2> QED BY <1>0, <1>1, <2>3, <2>4 DEF Made
<1>2. CASE f.fn = "initObject"
  <2>1. f.next \in Ahead(f)
    <3>1. Len(Definitions[f.def]) \in Nat
      BY FrameForms, MembersAreCounted
    <3>2. f.loop # "emplace"
      BY <1>2 DEF AtTurn, IsEmplacing
    <3> QED BY <1>0, <1>2, <3>1, <3>2 DEF AtTurn, Ahead
  <2>2. Turn(v, f) = Off(v, f) + FieldCount(f.def, f.next - 1)
    BY <1>2 DEF Turn, Visited, AtTurn, IsEmplacing
  <2>3. Turn(v, f) \in Waiting(v, f)
    BY <1>2, <2>1, <2>2, AheadWaits
  <2>4. v[Turn(v, f)] = NewField(Definitions[f.def][f.next])
    BY <1>2, <2>1, <2>2 DEF FrameOK, Fresh
  <2> QED BY <1>0, <1>2, <2>3, <2>4 DEF Made
<1> QED BY <1>1, <1>2, FrameForms

\* The frame with the next turn.
Stepped(f) == [f EXCEPT !.next = @ + 1]

LEMMA FrameTurned ==
  ASSUME NEW v \in Seq(RosValue), NEW w \in Seq(RosValue), NEW f \in Frame, NEW g \in Frame,
         FrameOK(v, f), AtTurn(v, f), Turned(v, w, f),
         f.at \notin Waiting(v, f), g = Stepped(f)
  PROVE  /\ FrameOK(w, g) /\ Own(w, g) = Own(v, f)
         /\ Waiting(w, g) = Waiting(v, f) \ {Turn(v, f)}
<1>0. /\ Off(v, f) \in Nat /\ Places(v, f) \in Nat /\ Visited(f) \in Nat /\ f.next \in Nat \ {0}
      /\ Waiting(v, f) \subseteq Own(v, f) /\ Own(v, f) \subseteq f.at+1..Len(v)
      /\ f.at \in 1..Len(v) /\ Len(v) \in Nat
  BY OwnPlaces, LenProperties DEF FrameOK
<1>1. /\ g.fn = f.fn /\ g.at = f.at /\ g.next = f.next + 1
      /\ f.fn = "initObject" => g.def = f.def /\ g.loop = f.loop
      /\ f.fn = "initArray" => g.field = f.field
  BY DEF Stepped
<1>2. Off(w, g) = Off(v, f) /\ Places(w, g) = Places(v, f)
  <2>1. Off(w, g) = Off(v, f)
    BY <1>1 DEF Off, Turned
  <2>2. CASE f.fn = "initArray"
    BY <1>0, <1>1, <2>1, <2>2 DEF Places, Turned
  <2>3. CASE f.fn = "initObject"
    BY <1>1, <2>1, <2>3 DEF Places, AtTurn, IsEmplacing
  <2> QED BY <2>2, <2>3, FrameForms
<1>3. Visited(g) = Visited(f) + 1
  <2>1. CASE f.fn = "initArray"
    BY <1>0, <1>1, <2>1 DEF Visited
  <2>2. CASE f.fn = "initObject"
    <3>1. f.next - 1 \in Nat /\ (f.next - 1) + 1 = f.next /\ (f.next + 1) - 1 = f.next
      BY <1>0
    <3>2. FieldCount(f.def, (f.next - 1) + 1) = FieldCount(f.def, f.next - 1) + 1
      <4>1. ~Definitions[f.def][(f.next - 1) + 1].const
        BY <2>2, <3>1 DEF AtTurn
      <4> QED BY <3>1, <4>1, CountNext
    <3> QED BY <1>1, <2>2, <3>1, <3>2 DEF Visited, AtTurn, IsEmplacing
  <2> QED BY <2>1, <2>2, FrameForms
<1>4. Own(w, g) = Own(v, f) /\ Waiting(w, g) = Waiting(v, f) \ {Turn(v, f)}
  <2>1. Own(w, g) = Own(v, f)
    BY <1>2 DEF Own
  <2>2. PICK o \in Nat, n \in Nat, i \in Nat :
          o = Off(v, f) /\ n = Places(v, f) /\ i = Visited(f)
    BY <1>0
  <2>3. o + (i + 1) .. o + n - 1 = (o + i .. o + n - 1) \ {o + i}
    OBVIOUS
  <2>4. Waiting(w, g) = o + (i + 1) .. o + n - 1
    BY <1>2, <1>3, <2>2 DEF Waiting
  <2>5. Waiting(v, f) = o + i .. o + n - 1 /\ Turn(v, f) = o + i
    BY <2>2 DEF Waiting, Turn
  <2> QED BY <2>1, <2>3, <2>4, <2>5
<1>5. \A p \in Waiting(v, f) : p # Turn(v, f) => w[p] = v[p]
  BY <1>0 DEF Turned
<1>6. Fresh(w, g)
  <2>1. Fresh(v, f)
    BY DEF FrameOK
  <2>2. CASE f.fn = "initArray"
    <3>1. ASSUME NEW k \in g.next..w[g.at].children.length
          PROVE  w[Off(w, g) + k - 1] = NewElement(g.field)
      <4>1. /\ v[f.at].children.length \in Nat
            /\ w[f.at].children.length = v[f.at].children.length
        BY <1>0, <2>2 DEF Places, Turned
      <4>2. k \in f.next..v[f.at].children.length /\ k # f.next /\ k \in Nat
        BY <1>0, <1>1, <4>1
      <4>3. Off(v, f) + k - 1 \in Waiting(v, f)
        BY <2>2, <4>2, AheadWaits
      <4>4. Off(v, f) + k - 1 # Turn(v, f)
        BY <1>0, <2>2, <4>2 DEF Turn, Visited
      <4>5. v[Off(v, f) + k - 1] = NewElement(f.field)
        BY <2>1, <2>2, <4>2 DEF Fresh
      <4> QED BY <1>1, <1>2, <1>5, <2>2, <4>3, <4>4, <4>5
    <3> QED BY <1>1, <2>2, <3>1 DEF Fresh
  <2>3. CASE f.fn = "initObject"
    <3>0. Len(Definitions[f.def]) \in Nat /\ f.loop # "emplace" /\ f.loop = g.loop /\ g.def = f.def
      BY <1>1, <2>3, FrameForms, MembersAreCounted DEF AtTurn, IsEmplacing
    <3>1. ASSUME NEW k \in Ahead(g)
          PROVE  w[Off(w, g) + FieldCount(g.def, k - 1)] = NewField(Definitions[g.def][k])
      <4>1. k \in f.next+1..Len(Definitions[f.def]) /\ ~Definitions[f.def][k].const
        BY <1>1, <3>0 DEF Ahead
      <4>2. k \in Ahead(f)
        BY <1>0, <3>0, <4>1 DEF Ahead
      <4>3. Off(v, f) + FieldCount(f.def, k - 1) \in Waiting(v, f) /\ FieldCount(f.def, k - 1) \in Nat
        BY <2>3, <4>2, AheadWaits
      <4>4. FieldCount(f.def, k - 1) > Visited(f)
        <5>1. k - 1 \in Nat /\ f.next \in 0..k-1
          BY <1>0, <3>0, <4>1
        <5>2. FieldCount(f.def, f.next) <= FieldCount(f.def, k - 1)
          BY <5>1, CountMonotone
        <5>3. FieldCount(f.def, f.next) = Visited(f) + 1
          <6>1. (f.next + 1) - 1 = f.next
            BY <1>0
          <6> QED BY <1>1, <1>3, <2>3, <3>0, <6>1 DEF Visited
        <5> QED BY <1>0, <4>3, <5>2, <5>3
      <4>5. Off(v, f) + FieldCount(f.def, k - 1) # Turn(v, f)
        BY <1>0, <4>3, <4>4 DEF Turn
      <4>6. v[Off(v, f) + FieldCount(f.def, k - 1)] = NewField(Definitions[f.def][k])
        BY <2>1, <2>3, <4>2 DEF Fresh
      <4> QED BY <1>2, <1>5, <3>0, <4>3, <4>5, <4>6
    <3> QED BY <1>1, <2>3, <3>1 DEF Fresh
  <2> QED BY <2>2, <2>3, FrameForms
<1>7. FrameOK(w, g)
  <2>1. g.fn = "initObject" =>
          /\ w[g.at].type = "object"
          /\ g.next <= Len(Definitions[g.def]) + 1
          /\ w[g.at].children.length = Visited(g)
    <3> SUFFICES ASSUME f.fn = "initObject"
                 PROVE  /\ w[f.at].type = "object"
                        /\ g.next <= Len(Definitions[f.def]) + 1
                        /\ w[f.at].children.length = Visited(g)
      BY <1>1
    <3>1. Len(Definitions[f.def]) \in Nat
      BY MembersAreCounted
    <3>2. w[f.at].type = "object"
      BY DEF FrameOK, Turned
    <3>3. g.next <= Len(Definitions[f.def]) + 1
      <4>1. f.next <= Len(Definitions[f.def])
        BY DEF AtTurn
      <4> QED BY <1>0, <1>1, <3>1, <4>1
    <3>4. w[f.at].children.length = Visited(g)
      <4>1. v[f.at].children.length = Visited(f)
        BY DEF FrameOK
      <4>2. w[f.at].children.length = v[f.at].children.length + 1
        BY DEF Turned
      <4> QED BY <1>3, <4>1, <4>2
    <3> QED BY <3>2, <3>3, <3>4
  <2>2. g.fn = "initArray" => w[g.at].type = "array" /\ g.next <= w[g.at].children.length + 1
    <3> SUFFICES ASSUME f.fn = "initArray"
                 PROVE  w[f.at].type = "array" /\ g.next <= w[f.at].children.length + 1
      BY <1>1
    <3>1. v[f.at].children.length \in Nat /\ w[f.at].children.length = v[f.at].children.length
      BY <1>0 DEF Places, Turned
    <3> QED BY <1>1, <3>1, SMTT(30) DEF FrameOK, AtTurn, Turned
  <2>3. g.at \in 1..Len(w) /\ g.next \in Nat \ {0}
    BY <1>0, <1>1 DEF Turned
  <2>4. g.at < Off(w, g) /\ Off(w, g) + Places(w, g) - 1 <= Len(w)
    BY <1>1, <1>2 DEF FrameOK, Turned
  <2> QED BY <1>6, <2>1, <2>2, <2>3, <2>4 DEF FrameOK
<1> QED BY <1>4, <1>7

----
(***************************************************************************)
(* The arrangement is kept when only the innermost call changes: it keeps *)
(* its places or takes new ones behind the vector, the calls below keep *)
(* theirs, and nobody else gets children. *)
(***************************************************************************)
Kept(v, w, f) ==
  /\ FrameOK(w, f) /\ ~IsEmplacing(f)
  /\ Own(w, f) = Own(v, f) /\ Waiting(w, f) = Waiting(v, f)

LEMMA TopChanged ==
  ASSUME NEW v, NEW st, Arranged(v, st), NEW n \in Nat \ {0}, n = Len(st),
         NEW w \in Seq(RosValue), NEW su \in Seq(Frame), Len(su) = n, Len(v) <= Len(w),
         \A i \in 1..n-1 : su[i] = st[i] /\ Kept(v, w, st[i]),
         FrameOK(w, su[n]), su[n].at = st[n].at,
         Own(w, su[n]) \subseteq Own(v, st[n]) \cup Len(v)+1..Len(w),
         Waiting(w, su[n]) \subseteq Waiting(v, st[n]) \cup Len(v)+1..Len(w),
         IsEmplacing(su[n]) => Off(w, su[n]) + Places(w, su[n]) = Len(w) + 1,
         \A p \in 1..Len(v) : p # st[n].at => Children(w, p) \subseteq Children(v, p),
         \A p \in Len(v)+1..Len(w) : Children(w, p) = {}
  PROVE  Arranged(w, su)
<1> DEFINE a == st[n].at
           New == Len(v)+1..Len(w)
           Old == 1..Len(v)
<1>1. /\ v \in Seq(RosValue) /\ st \in Seq(Frame) /\ Len(v) \in Nat /\ Len(w) \in Nat
      /\ DOMAIN v = Old /\ DOMAIN w = 1..Len(w)
      /\ Old \cap New = {} /\ 1..Len(w) = Old \cup New
  BY DEF Arranged
<1>2. ASSUME NEW i \in 1..n
      PROVE  /\ st[i] \in Frame /\ FrameOK(v, st[i]) /\ st[i].at \in Old
             /\ Own(v, st[i]) \subseteq Old /\ Waiting(v, st[i]) \subseteq Own(v, st[i])
             /\ su[i] \in Frame /\ FrameOK(w, su[i]) /\ su[i].at = st[i].at
             /\ Own(w, su[i]) \subseteq 1..Len(w)
             /\ i # n => Own(w, su[i]) = Own(v, st[i]) /\ Waiting(w, su[i]) = Waiting(v, st[i])
  <2>1. st[i] \in Frame /\ FrameOK(v, st[i]) /\ su[i] \in Frame
    BY ElementOfSeq DEF Arranged
  <2>2. i # n => i \in 1..n-1
    OBVIOUS
  <2>3. FrameOK(w, su[i]) /\ su[i].at = st[i].at
    BY DEF Kept
  <2>4. i # n => Own(w, su[i]) = Own(v, st[i]) /\ Waiting(w, su[i]) = Waiting(v, st[i])
    BY DEF Kept
  <2>5. st[i].at \in Old
    BY <2>1 DEF FrameOK
  <2>6. /\ Own(v, st[i]) \subseteq st[i].at+1..Len(v) /\ Waiting(v, st[i]) \subseteq Own(v, st[i])
        /\ Own(w, su[i]) \subseteq su[i].at+1..Len(w)
    BY <1>1, <2>1, <2>3, OwnPlaces
  <2>7. Own(v, st[i]) \subseteq Old /\ Own(w, su[i]) \subseteq 1..Len(w)
    BY <2>3, <2>5, <2>6
  <2> QED BY <2>1, <2>3, <2>4, <2>5, <2>6, <2>7
<1>3. n \in 1..n
  OBVIOUS
<1>4. /\ Children(w, a) \subseteq Own(w, su[n])
      /\ Children(w, a) \subseteq a+1..Len(w)
  <2>1. /\ Children(w, su[n].at) \subseteq Own(w, su[n])
        /\ Own(w, su[n]) \subseteq su[n].at+1..Len(w)
    BY <1>3, OwnPlaces
  <2> QED BY <2>1
<1>5. /\ \A p \in Old : Children(v, p) \subseteq p+1..Len(v)
      /\ \A p, q \in Old : p # q => Children(v, p) \cap Children(v, q) = {}
  BY <1>1 DEF Arranged, Apart
<1>6. \A p \in Old : Children(v, p) \subseteq Old
  BY <1>5
<1>7. /\ \A i \in 1..n : \A p \in Old : p # st[i].at => Children(v, p) \cap Own(v, st[i]) = {}
      /\ \A i, j \in 1..n : st[j].at \notin Waiting(v, st[i])
      /\ \A i, j \in 1..n : i # j =>
           st[i].at # st[j].at /\ Own(v, st[i]) \cap Own(v, st[j]) = {}
  BY DEF Arranged, CallsApart
<1> HIDE DEF New, Old
<1>8. Apart(w)
  <2>1. ASSUME NEW p \in 1..Len(w)
        PROVE  Children(w, p) \subseteq p+1..Len(w)
    <3>1. CASE p = a
      BY <1>4, <3>1
    <3>2. CASE p \in Old /\ p # a
      BY <1>5, <3>2 DEF Old
    <3>3. CASE p \in New
      BY <3>3 DEF New
    <3> QED BY <1>1, <3>1, <3>2, <3>3
  <2>2. ASSUME NEW p \in 1..Len(w), NEW q \in 1..Len(w), p # q, q # a
        PROVE  Children(w, p) \cap Children(w, q) = {}
    <3>1. CASE q \in New
      BY <3>1 DEF New
    <3>2. CASE q \in Old /\ p \in New
      BY <3>2 DEF New
    <3>3. CASE q \in Old /\ p \in Old /\ p # a
      <4>1. Children(w, p) \subseteq Children(v, p) /\ Children(w, q) \subseteq Children(v, q)
        BY <2>2, <3>3 DEF Old
      <4> QED BY <1>5, <2>2, <3>3, <4>1
    <3>4. CASE q \in Old /\ p = a
      <4>1. Children(w, q) \subseteq Children(v, q)
        BY <2>2, <3>4 DEF Old
      <4>2. Children(v, q) \cap Own(v, st[n]) = {} /\ Children(v, q) \subseteq Old
        BY <1>6, <1>7, <2>2, <3>4
      <4>3. Children(w, a) \subseteq Own(v, st[n]) \cup New
        BY <1>4 DEF New
      <4> QED BY <1>1, <3>4, <4>1, <4>2, <4>3
    <3> QED BY <1>1, <3>1, <3>2, <3>3, <3>4
  <2> QED BY <1>1, <2>1, <2>2 DEF Apart
<1>9. CallsApart(w, su)
  <2>1. ASSUME NEW i \in 1..n, NEW p \in 1..Len(w), p # su[i].at
        PROVE  Children(w, p) \cap Own(w, su[i]) = {}
    <3>1. CASE p \in New
      BY <3>1 DEF New
    <3>2. CASE p = a
      <4>1. i # n
        BY <1>3, <2>1, <3>2
      <4>2. Own(v, st[i]) \cap Own(v, st[n]) = {} /\ Own(v, st[i]) \subseteq Old
        BY <1>2, <1>3, <1>7, <4>1
      <4>3. Children(w, a) \subseteq Own(v, st[n]) \cup New
        BY <1>4 DEF New
      <4>4. Own(w, su[i]) = Own(v, st[i])
        BY <1>2, <4>1
      <4> QED BY <1>1, <3>2, <4>2, <4>3, <4>4
    <3>3. CASE p \in Old /\ p # a
      <4>1. Children(w, p) \subseteq Children(v, p) /\ Children(v, p) \subseteq Old
        BY <1>6, <3>3 DEF Old
      <4>2. Children(v, p) \cap Own(v, st[i]) = {}
        BY <1>7, <2>1, <3>3
      <4>3. Own(w, su[i]) \subseteq Own(v, st[i]) \cup New
        BY <1>2 DEF New
      <4> QED BY <1>1, <4>1, <4>2, <4>3
    <3> QED BY <1>1, <3>1, <3>2, <3>3
  <2>2. ASSUME NEW i \in 1..n, NEW j \in 1..n
        PROVE  /\ su[j].at \notin Waiting(w, su[i])
               /\ i # j => su[i].at # su[j].at
    <3>1. Waiting(w, su[i]) \subseteq Waiting(v, st[i]) \cup New
      BY <1>2 DEF New
    <3>2. su[j].at = st[j].at /\ st[j].at \in Old /\ su[i].at = st[i].at
      BY <1>2
    <3> QED BY <1>1, <1>7, <3>1, <3>2
  <2>3. ASSUME NEW i \in 1..n, NEW j \in 1..n, i # j, i # n
        PROVE  Own(w, su[i]) \cap Own(w, su[j]) = {}
    <3>1. Own(w, su[i]) = Own(v, st[i]) /\ Own(v, st[i]) \subseteq Old
      BY <1>2, <2>3
    <3>2. Own(w, su[j]) \subseteq Own(v, st[j]) \cup New
      BY <1>2 DEF New
    <3>3. Own(v, st[i]) \cap Own(v, st[j]) = {}
      BY <1>7, <2>3
    <3> QED BY <1>1, <3>1, <3>2, <3>3
  <2>4. ASSUME NEW i \in 1..n, NEW j \in 1..n, i # j
        PROVE  Own(w, su[i]) \cap Own(w, su[j]) = {}
    <3>1. i # n \/ j # n
      BY <2>4
    <3> QED BY <2>3, <2>4, <3>1
  <2> QED BY <2>1, <2>2, <2>4 DEF CallsApart
<1>10. EmplacesLast(w, su)
  <2> SUFFICES ASSUME NEW i \in 1..n, IsEmplacing(su[i])
               PROVE  i = n /\ Off(w, su[i]) + Places(w, su[i]) = Len(w) + 1
    BY DEF EmplacesLast
  <2>1. CASE i # n
    <3>1. i \in 1..n-1
      BY <2>1
    <3>2. ~IsEmplacing(su[i])
      BY <3>1 DEF Kept
    <3> QED BY <3>2
  <2> QED BY <2>1
<1>11. \A i \in 1..Len(su) : FrameOK(w, su[i])
  BY <1>2
<1> QED BY <1>8, <1>9, <1>10, <1>11 DEF Arranged

\* What is arranged, of one call and of another.
LEMMA CallOf ==
  ASSUME NEW v, NEW st, Arranged(v, st), NEW i \in 1..Len(st)
  PROVE  /\ v \in Seq(RosValue) /\ st[i] \in Frame /\ FrameOK(v, st[i])
         /\ st[i].at \in 1..Len(v) /\ Len(v) \in Nat /\ Len(st) \in Nat
         /\ Own(v, st[i]) \subseteq 1..Len(v) /\ Waiting(v, st[i]) \subseteq Own(v, st[i])
         /\ i # Len(st) => ~IsEmplacing(st[i])
         /\ \A j \in 1..Len(st) :
              /\ st[j].at \notin Waiting(v, st[i])
              /\ i # j => st[i].at # st[j].at /\ Own(v, st[i]) \cap Own(v, st[j]) = {}
<1>1. /\ v \in Seq(RosValue) /\ st[i] \in Frame /\ FrameOK(v, st[i]) /\ Len(v) \in Nat
      /\ Len(st) \in Nat
  BY LenProperties DEF Arranged
<1>2. st[i].at \in 1..Len(v)
  BY <1>1 DEF FrameOK
<1>3. Own(v, st[i]) \subseteq st[i].at+1..Len(v) /\ Waiting(v, st[i]) \subseteq Own(v, st[i])
  BY <1>1, OwnPlaces
<1>4. Own(v, st[i]) \subseteq 1..Len(v)
  BY <1>2, <1>3
<1> QED BY <1>1, <1>2, <1>3, <1>4 DEF Arranged, EmplacesLast, CallsApart

\* A turn that does not call deeper.
LEMMA TurnKeeps ==
  ASSUME NEW v, NEW st, Arranged(v, st), NEW n \in Nat \ {0}, n = Len(st),
         AtTurn(v, st[n]), NEW w \in Seq(RosValue), Turned(v, w, st[n]),
         Childless(w[Turn(v, st[n])]),
         NEW su \in Seq(Frame), Len(su) = n,
         \A i \in 1..n-1 : su[i] = st[i], su[n] = [st[n] EXCEPT !.next = @ + 1]
  PROVE  /\ Arranged(w, su)
         /\ Turn(v, st[n]) \in 1..Len(w)
         /\ \A i \in 1..n : /\ su[i].at # Turn(v, st[n]) /\ ~IsEmplacing(su[i])
                            /\ Turn(v, st[n]) \notin Waiting(w, su[i])
<1> DEFINE f == st[n]
           x == Turn(v, f)
<1>1. n \in 1..n
  OBVIOUS
<1>2. /\ f \in Frame /\ FrameOK(v, f) /\ f.at \notin Waiting(v, f) /\ v \in Seq(RosValue)
      /\ Waiting(v, f) \subseteq Own(v, f) /\ f.at \in 1..Len(v) /\ Len(v) \in Nat
      /\ su[n] \in Frame /\ ~IsEmplacing(f)
  BY <1>1, CallOf, ElementOfSeq DEF AtTurn
<1>3. x \in Waiting(v, f) /\ x \in 1..Len(v) /\ x # f.at
  BY <1>2, TurnIsMade
<1>4. /\ FrameOK(w, su[n]) /\ Own(w, su[n]) = Own(v, f)
      /\ Waiting(w, su[n]) = Waiting(v, f) \ {x}
  <2>1. PICK a : a = f
    OBVIOUS
  <2>2. PICK g : g = su[n]
    OBVIOUS
  <2>3. /\ v \in Seq(RosValue) /\ a \in Frame /\ g \in Frame /\ FrameOK(v, a)
        /\ a.at \notin Waiting(v, a)
    BY <1>2, <2>1, <2>2
  <2>4. AtTurn(v, a) /\ Turned(v, w, a)
    BY <2>1
  <2>5. g = Stepped(a)
    BY <2>1, <2>2 DEF Stepped
  <2>6. /\ FrameOK(w, g) /\ Own(w, g) = Own(v, a)
        /\ Waiting(w, g) = Waiting(v, a) \ {Turn(v, a)}
    BY <2>3, <2>4, <2>5, FrameTurned
  <2> QED BY <2>1, <2>2, <2>6
<1>5. /\ su[n].at = f.at /\ ~IsEmplacing(su[n])
  BY <1>2, NextTurn, FrameForms DEF IsEmplacing
<1>6. Len(w) = Len(v) /\ \A p \in 1..Len(v) : p # x /\ p # f.at => w[p] = v[p]
  BY DEF Turned
<1>7. ASSUME NEW i \in 1..n-1
      PROVE  /\ Kept(v, w, st[i]) /\ st[i].at # x /\ x \notin Waiting(w, st[i])
  <2>0. i \in 1..n /\ i # n
    OBVIOUS
  <2>a. i \in 1..Len(st) /\ n \in 1..Len(st) /\ i # Len(st)
    BY <2>0
  <2>b. /\ st[i] \in Frame /\ FrameOK(v, st[i]) /\ ~IsEmplacing(st[i])
        /\ st[i].at \in 1..Len(v)
        /\ Own(v, st[i]) \subseteq 1..Len(v) /\ Waiting(v, st[i]) \subseteq Own(v, st[i])
    BY <2>a, CallOf
  <2>c. /\ st[i].at # st[n].at /\ st[n].at \notin Waiting(v, st[i])
        /\ Own(v, st[i]) \cap Own(v, st[n]) = {}
    BY <2>a DEF Arranged, CallsApart
  <2>1. /\ st[i] \in Frame /\ FrameOK(v, st[i]) /\ ~IsEmplacing(st[i])
        /\ st[i].at \in 1..Len(v) /\ st[i].at # f.at
        /\ Own(v, st[i]) \subseteq 1..Len(v) /\ Waiting(v, st[i]) \subseteq Own(v, st[i])
        /\ f.at \notin Waiting(v, st[i]) /\ Own(v, st[i]) \cap Own(v, f) = {}
    BY <2>b, <2>c
  <2>2. st[i].at # x
    <3>1. st[i].at \notin Waiting(v, f)
      BY <2>0, CallOf
    <3> QED BY <1>3, <3>1
  <2>3. w[st[i].at] = v[st[i].at]
    BY <1>6, <2>1, <2>2
  <2>4. x \notin Own(v, st[i])
    BY <1>2, <1>3, <2>1
  <2>5. \A y \in Waiting(v, st[i]) : w[y] = v[y]
    BY <1>6, <2>1, <2>4
  <2>6. Len(v) <= Len(w)
    BY <1>6
  <2>7. /\ FrameOK(w, st[i])
        /\ Own(w, st[i]) = Own(v, st[i]) /\ Waiting(w, st[i]) = Waiting(v, st[i])
    <3>1. PICK h \in Frame : h = st[i]
      BY <2>1
    <3>2. v \in Seq(RosValue) /\ w \in Seq(RosValue) /\ Len(v) <= Len(w) /\ FrameOK(v, h)
          /\ w[h.at].type = v[h.at].type /\ w[h.at].children = v[h.at].children
          /\ \A y \in Waiting(v, h) : w[y] = v[y]
      BY <1>2, <2>1, <2>3, <2>5, <2>6, <3>1
    <3>3. FrameOK(w, h) /\ Own(w, h) = Own(v, h) /\ Waiting(w, h) = Waiting(v, h)
      BY <3>2, FrameKept
    <3> QED BY <3>1, <3>3
  <2> QED BY <2>1, <2>2, <2>4, <2>7 DEF Kept
<1>8. ASSUME NEW p \in 1..Len(v), p # f.at
      PROVE  Children(w, p) \subseteq Children(v, p)
  <2>1. CASE p = x
    <3>1. w[x] \in RosValue
      BY <1>3, <1>6, ElementOfSeq
    <3>2. w[x].type \in {"object", "array"} =>
            w[x].children.offset \in Nat /\ w[x].children.length = 0
      BY <3>1, ValueForms DEF Childless
    <3>3. Children(w, x) = {}
      BY <3>2 DEF Children
    <3> QED BY <2>1, <3>3
  <2>2. CASE p # x
    BY <1>6, <1>8, <2>2 DEF Children
  <2> QED BY <2>1, <2>2
<1>9. Arranged(w, su)
  <2>1. \A i \in 1..n-1 : su[i] = st[i] /\ Kept(v, w, st[i])
    BY <1>7
  <2>2. Len(v) <= Len(w) /\ \A p \in Len(v)+1..Len(w) : Children(w, p) = {}
    BY <1>6
  <2>3. /\ Own(w, su[n]) \subseteq Own(v, st[n]) \cup Len(v)+1..Len(w)
        /\ Waiting(w, su[n]) \subseteq Waiting(v, st[n]) \cup Len(v)+1..Len(w)
    BY <1>4
  <2>4. su[n].at = st[n].at /\ ~IsEmplacing(su[n]) /\ FrameOK(w, su[n])
    BY <1>4, <1>5
  <2>5. \A p \in 1..Len(v) : p # st[n].at => Children(w, p) \subseteq Children(v, p)
    BY <1>8
  <2> HIDE DEF f, x
  <2> QED BY <2>1, <2>2, <2>3, <2>4, <2>5, TopChanged
<1>10. ASSUME NEW i \in 1..n
       PROVE  su[i].at # x /\ ~IsEmplacing(su[i]) /\ x \notin Waiting(w, su[i])
  <2>1. CASE i = n
    BY <1>3, <1>4, <1>5, <2>1
  <2>2. CASE i # n
    <3>1. i \in 1..n-1
      BY <2>2
    <3> QED BY <1>7, <3>1 DEF Kept
  <2> QED BY <2>1, <2>2
<1> QED BY <1>3, <1>6, <1>9, <1>10

\* The vector stays, and the innermost call goes on at the same places.
LEMMA TopGoesOn ==
  ASSUME NEW v, NEW st, Arranged(v, st), NEW n \in Nat \ {0}, n = Len(st),
         NEW su \in Seq(Frame), Len(su) = n, \A i \in 1..n-1 : su[i] = st[i],
         FrameOK(v, su[n]), su[n].at = st[n].at,
         Own(v, su[n]) = Own(v, st[n]), Waiting(v, su[n]) = Waiting(v, st[n]),
         IsEmplacing(su[n]) => Off(v, su[n]) + Places(v, su[n]) = Len(v) + 1
  PROVE  Arranged(v, su)
<1>1. v \in Seq(RosValue) /\ Len(v) \in Nat
  BY CallOf
<1>2. ASSUME NEW i \in 1..n-1
      PROVE  su[i] = st[i] /\ Kept(v, v, st[i])
  <2>1. i \in 1..n /\ i # n
    OBVIOUS
  <2>2. FrameOK(v, st[i]) /\ ~IsEmplacing(st[i])
    BY <2>1, CallOf
  <2> QED BY <2>2 DEF Kept
<1>3. /\ Len(v) <= Len(v) /\ Len(v)+1..Len(v) = {}
      /\ \A p \in Len(v)+1..Len(v) : Children(v, p) = {}
      /\ Own(v, su[n]) \subseteq Own(v, st[n]) \cup Len(v)+1..Len(v)
      /\ Waiting(v, su[n]) \subseteq Waiting(v, st[n]) \cup Len(v)+1..Len(v)
  BY <1>1
<1> QED BY <1>1, <1>2, <1>3, TopChanged

\* initArray or initObject returns.
LEMMA PopKeeps ==
  ASSUME NEW v, NEW st, Arranged(v, st), NEW n \in Nat \ {0}, n = Len(st),
         ~IsEmplacing(st[n]),
         NEW su \in Seq(Frame), Len(su) = n - 1, \A i \in 1..n-1 : su[i] = st[i]
  PROVE  Arranged(v, su)
<1>1. \A i \in 1..n-1 : i \in 1..n /\ i # n
  OBVIOUS
<1>2. ~ \E i \in 1..n-1 : IsEmplacing(su[i])
  BY CallOf
<1>3. \A i \in 1..Len(su) : FrameOK(v, su[i])
  BY CallOf
<1>4. CallsApart(v, su)
  BY <1>1 DEF CallsApart, Arranged
<1>5. EmplacesLast(v, su)
  BY <1>2 DEF EmplacesLast
<1> QED BY <1>4, <1>5 DEF Arranged

\* A call is entered for value x: it takes new places behind the vector v.
LEMMA PushKeeps ==
  ASSUME NEW v, NEW st, Arranged(v, st), NEW x \in 1..Len(v), Children(v, x) = {},
         \A i \in 1..Len(st) : /\ st[i].at # x /\ ~IsEmplacing(st[i])
                               /\ x \notin Waiting(v, st[i]),
         NEW w \in Seq(RosValue), Len(v) <= Len(w),
         \A p \in 1..Len(v) : p # x => w[p] = v[p],
         \A p \in Len(v)+1..Len(w) : Children(w, p) = {},
         NEW f \in Frame, f.at = x, FrameOK(w, f),
         Off(w, f) = Len(v) + 1, Off(w, f) + Places(w, f) = Len(w) + 1
  PROVE  Arranged(w, Append(st, f))
<1> DEFINE n == Len(st)
           su == Append(st, f)
           New == Len(v)+1..Len(w)
           Old == 1..Len(v)
<1>1. /\ v \in Seq(RosValue) /\ st \in Seq(Frame) /\ Len(v) \in Nat /\ Len(w) \in Nat /\ n \in Nat
      /\ DOMAIN v = Old /\ DOMAIN w = 1..Len(w)
      /\ Old \cap New = {} /\ 1..Len(w) = Old \cup New
  BY DEF Arranged
<1>2. /\ su \in Seq(Frame) /\ Len(su) = n + 1 /\ su[n + 1] = f
      /\ \A i \in 1..n : su[i] = st[i]
      /\ \A i \in 1..n+1 : i # n + 1 => i \in 1..n
  BY <1>1, AppendProperties
<1>3. ASSUME NEW i \in 1..n
      PROVE  /\ st[i] \in Frame /\ st[i].at \in Old /\ st[i].at # x /\ ~IsEmplacing(st[i])
             /\ Own(v, st[i]) \subseteq Old /\ Waiting(v, st[i]) \subseteq Old
             /\ x \notin Waiting(v, st[i])
             /\ FrameOK(w, st[i]) /\ Own(w, st[i]) = Own(v, st[i])
             /\ Waiting(w, st[i]) = Waiting(v, st[i])
  <2>1. /\ st[i] \in Frame /\ FrameOK(v, st[i]) /\ st[i].at \in Old
        /\ Own(v, st[i]) \subseteq Old /\ Waiting(v, st[i]) \subseteq Own(v, st[i])
    BY CallOf
  <2>2. w[st[i].at] = v[st[i].at]
    BY <2>1
  <2>3. \A y \in Waiting(v, st[i]) : w[y] = v[y]
    BY <2>1
  <2>4. /\ FrameOK(w, st[i])
        /\ Own(w, st[i]) = Own(v, st[i]) /\ Waiting(w, st[i]) = Waiting(v, st[i])
    <3>1. PICK h \in Frame : h = st[i]
      BY <2>1
    <3>2. v \in Seq(RosValue) /\ w \in Seq(RosValue) /\ Len(v) <= Len(w) /\ FrameOK(v, h)
          /\ w[h.at].type = v[h.at].type /\ w[h.at].children = v[h.at].children
          /\ \A y \in Waiting(v, h) : w[y] = v[y]
      BY <1>1, <2>1, <2>2, <2>3, <3>1
    <3>3. FrameOK(w, h) /\ Own(w, h) = Own(v, h) /\ Waiting(w, h) = Waiting(v, h)
      BY <3>2, FrameKept
    <3> QED BY <3>1, <3>3
  <2> QED BY <2>1, <2>4
<1>4. /\ Own(w, f) = New /\ Waiting(w, f) \subseteq New
      /\ Children(w, x) \subseteq New /\ Children(w, x) \subseteq x+1..Len(w)
  <2>1. /\ Waiting(w, f) \subseteq Own(w, f) /\ Own(w, f) \subseteq f.at+1..Len(w)
        /\ Children(w, f.at) \subseteq Own(w, f) /\ Places(w, f) \in Nat
    BY OwnPlaces
  <2>2. Off(w, f) + Places(w, f) - 1 = Len(w)
    BY <2>1
  <2>3. Own(w, f) = New
    BY <2>2 DEF Own
  <2> QED BY <2>1, <2>3
<1>5. /\ \A p \in Old : Children(v, p) \subseteq p+1..Len(v)
      /\ \A p, q \in Old : p # q => Children(v, p) \cap Children(v, q) = {}
  BY <1>1 DEF Arranged, Apart
<1>6. \A p \in Old : p # x => Children(w, p) = Children(v, p) /\ Children(v, p) \subseteq Old
  BY <1>5 DEF Children
<1>7. /\ \A i \in 1..n : \A p \in Old : p # st[i].at => Children(v, p) \cap Own(v, st[i]) = {}
      /\ \A i, j \in 1..n : st[j].at \notin Waiting(v, st[i])
      /\ \A i, j \in 1..n : i # j =>
           st[i].at # st[j].at /\ Own(v, st[i]) \cap Own(v, st[j]) = {}
  BY DEF Arranged, CallsApart
<1>8. x \in Old
  OBVIOUS
<1> HIDE DEF New, Old, su, n
<1>9. Apart(w)
  <2>1. ASSUME NEW p \in 1..Len(w)
        PROVE  Children(w, p) \subseteq p+1..Len(w)
    <3>1. CASE p = x
      BY <1>4, <3>1
    <3>2. CASE p \in Old /\ p # x
      <4>1. Children(w, p) \subseteq p+1..Len(v)
        BY <1>5, <1>6, <3>2
      <4> QED BY <4>1
    <3>3. CASE p \in New
      BY <3>3 DEF New
    <3> QED BY <1>1, <3>1, <3>2, <3>3
  <2>2. ASSUME NEW p \in 1..Len(w), NEW q \in 1..Len(w), p # q, q # x
        PROVE  Children(w, p) \cap Children(w, q) = {}
    <3>1. CASE q \in New \/ p \in New
      BY <3>1 DEF New
    <3>2. CASE q \in Old /\ p \in Old /\ p # x
      BY <1>5, <1>6, <2>2, <3>2
    <3>3. CASE q \in Old /\ p = x
      BY <1>1, <1>4, <1>6, <2>2, <3>3
    <3> QED BY <1>1, <3>1, <3>2, <3>3
  <2> QED BY <1>1, <2>1, <2>2 DEF Apart
<1>10. CallsApart(w, su)
  <2>1. ASSUME NEW i \in 1..n+1, NEW p \in 1..Len(w), p # su[i].at
        PROVE  Children(w, p) \cap Own(w, su[i]) = {}
    <3>1. CASE p \in New
      BY <3>1 DEF New
    <3>2. CASE p \in Old /\ i = n + 1
      <4>1. p # x
        BY <1>2, <2>1, <3>2
      <4> QED BY <1>1, <1>2, <1>4, <1>6, <3>2, <4>1
    <3>3. CASE p \in Old /\ i # n + 1 /\ p # x
      <4>1. i \in 1..n /\ su[i] = st[i]
        BY <1>2, <3>3
      <4> QED BY <1>3, <1>6, <1>7, <2>1, <3>3, <4>1
    <3>4. CASE i # n + 1 /\ p = x
      <4>1. i \in 1..n /\ su[i] = st[i]
        BY <1>2, <3>4
      <4> QED BY <1>1, <1>3, <1>4, <3>4, <4>1
    <3> QED BY <1>1, <3>1, <3>2, <3>3, <3>4
  <2>2. ASSUME NEW i \in 1..n+1, NEW j \in 1..n+1
        PROVE  su[j].at \notin Waiting(w, su[i])
    <3>0. su[j].at \in Old
      BY <1>2, <1>3, <1>8
    <3>1. CASE i = n + 1
      BY <1>1, <1>2, <1>4, <3>0, <3>1
    <3>2. CASE i # n + 1
      BY <1>2, <1>3, <1>7, <3>2
    <3> QED BY <3>1, <3>2
  <2>3. ASSUME NEW i \in 1..n, NEW j \in 1..n+1, i # j
        PROVE  /\ su[i].at # su[j].at /\ su[j].at # su[i].at
               /\ Own(w, su[i]) \cap Own(w, su[j]) = {} /\ Own(w, su[j]) \cap Own(w, su[i]) = {}
    <3>1. CASE j = n + 1
      BY <1>1, <1>2, <1>3, <1>4, <3>1
    <3>2. CASE j # n + 1
      <4>1. i \in 1..n /\ j \in 1..n /\ su[i] = st[i] /\ su[j] = st[j]
        BY <1>2, <3>2
      <4>2. Own(w, su[i]) = Own(v, st[i]) /\ Own(w, su[j]) = Own(v, st[j])
        BY <1>3, <4>1
      <4>3. st[i].at # st[j].at /\ Own(v, st[i]) \cap Own(v, st[j]) = {}
        BY <1>7, <2>3, <4>1
      <4> QED BY <4>1, <4>2, <4>3
    <3> QED BY <3>1, <3>2
  <2>4. ASSUME NEW i \in 1..n+1, NEW j \in 1..n+1, i # j
        PROVE  su[i].at # su[j].at /\ Own(w, su[i]) \cap Own(w, su[j]) = {}
    <3>1. CASE i \in 1..n
      BY <2>3, <2>4, <3>1
    <3>2. CASE j \in 1..n
      BY <2>3, <2>4, <3>2
    <3> QED BY <1>2, <2>4, <3>1, <3>2
  <2> QED BY <1>2, <2>1, <2>2, <2>4 DEF CallsApart
<1>11. EmplacesLast(w, su)
  <2>1. \A i \in 1..n+1 : IsEmplacing(su[i]) => i = n + 1
    BY <1>2, <1>3
  <2> QED BY <1>2, <2>1 DEF EmplacesLast
<1>12. \A i \in 1..Len(su) : FrameOK(w, su[i])
  BY <1>2, <1>3
<1> QED BY <1>9, <1>10, <1>11, <1>12 DEF Arranged, su

----
(* What the steps write. *)

\* Another frame in place of the last one.
LEMMA TopReplaced ==
  ASSUME NEW st \in Seq(Frame), st # <<>>, NEW n, n = Len(st), NEW g \in Frame,
         NEW su, su = Append(SubSeq(st, 1, n - 1), g)
  PROVE  /\ n \in Nat \ {0} /\ st[n] \in Frame
         /\ su \in Seq(Frame) /\ Len(su) = n /\ su[n] = g /\ \A i \in 1..n-1 : su[i] = st[i]
         /\ SubSeq(st, 1, n - 1) \in Seq(Frame) /\ Len(SubSeq(st, 1, n - 1)) = n - 1
         /\ \A i \in 1..n-1 : SubSeq(st, 1, n - 1)[i] = st[i]
<1>1. n \in Nat \ {0}
  BY LenProperties
<1>2. st[n] \in Frame
  <2>1. n \in 1..Len(st)
    BY <1>1
  <2> QED BY ElementOfSeq
<1> DEFINE t == SubSeq(st, 1, n - 1)
<1>3. t \in Seq(Frame) /\ Len(t) = n - 1 /\ \A i \in 1..n-1 : t[i] = st[i]
  <2>1. 1 \in 1..Len(st)+1 /\ n - 1 \in 1-1..Len(st)
    BY <1>1
  <2>2. t \in Seq(Frame) /\ Len(t) = (IF 1 <= n - 1 THEN (n - 1) - 1 + 1 ELSE 0)
    BY SubSeqProperties
  <2>3. \A i \in 1..(n-1)-1+1 : t[i] = st[1 + i - 1]
    BY SubSeqProperties
  <2>4. \A i \in 1..n-1 : i \in 1..(n-1)-1+1 /\ 1 + i - 1 = i
    BY <1>1
  <2> QED BY <2>2, <2>3, <2>4
<1> HIDE DEF t
<1>4. /\ Append(t, g) \in Seq(Frame) /\ Len(Append(t, g)) = Len(t) + 1
      /\ \A i \in 1..Len(t) : Append(t, g)[i] = t[i]
      /\ Append(t, g)[Len(t) + 1] = g
  BY <1>3, AppendProperties
<1>5. su = Append(t, g) /\ Len(t) + 1 = n
  BY <1>3 DEF t
<1> QED BY <1>2, <1>3, <1>4, <1>5 DEF t

CountedIn(v, f) == IF f.fn = "initObject" THEN [v EXCEPT ![f.at].children.length = @ + 1] ELSE v

\* The field is counted.
LEMMA FieldCounted ==
  ASSUME NEW v \in Seq(RosValue), NEW f \in Frame, FrameOK(v, f), NEW c, c = CountedIn(v, f)
  PROVE  /\ c \in Seq(RosValue) /\ Len(c) = Len(v)
         /\ \A p \in 1..Len(v) : p # f.at => c[p] = v[p]
         /\ c[f.at].type = v[f.at].type
         /\ c[f.at].children.offset = v[f.at].children.offset
         /\ c[f.at].children.length =
              v[f.at].children.length + (IF f.fn = "initObject" THEN 1 ELSE 0)
<1>0. /\ f.at \in 1..Len(v) /\ v[f.at] \in RosValue /\ DOMAIN v = 1..Len(v)
      /\ v[f.at].type \in {"object", "array"}
      /\ v[f.at].children.offset \in Nat /\ v[f.at].children.length \in Nat
  <2>1. f.at \in 1..Len(v) /\ v[f.at].type \in {"object", "array"}
    BY FrameForms DEF FrameOK
  <2>2. v[f.at] \in RosValue
    BY <2>1, ElementOfSeq
  <2> QED BY <2>1, <2>2, ValueForms, LenProperties
<1>1. CASE f.fn = "initObject"
  <2>1. v[f.at].type = "object"
    BY <1>1 DEF FrameOK
  <2>2. PICK o \in Nat, l \in Nat, d \in DefNames :
          v[f.at] = [type |-> "object", children |-> [offset |-> o, length |-> l], def |-> d]
    <3>1. v[f.at].type \notin Primitives \cup {"string", "array", "primitive_array"}
      BY <2>1, DefinitionAssumption
    <3> QED BY <1>0, <3>1, ValueForms
  <2> DEFINE e == [type |-> "object", children |-> [offset |-> o, length |-> l + 1], def |-> d]
  <2>3. e \in RosValue
    <3>1. o \in Nat /\ l + 1 \in Nat /\ d \in DefNames
      OBVIOUS
    <3> QED BY <3>1, MakeValue
  <2>4. [v[f.at] EXCEPT !.children.length = @ + 1] = e
    BY <2>2
  <2>5. c = [v EXCEPT ![f.at] = e]
    BY <1>1, <2>4 DEF CountedIn
  <2>6. /\ e.type = "object" /\ e.children.offset = o /\ e.children.length = l + 1
        /\ v[f.at].children.offset = o /\ v[f.at].children.length = l
    BY <2>2
  <2> HIDE DEF e
  <2>7. c \in Seq(RosValue) /\ Len(c) = Len(v)
    BY <1>0, <2>3, <2>5, ExceptSeq
  <2>8. c[f.at] = e /\ \A p \in 1..Len(v) : p # f.at => c[p] = v[p]
    BY <1>0, <2>5
  <2> QED BY <1>1, <2>1, <2>6, <2>7, <2>8
<1>2. CASE f.fn # "initObject"
  BY <1>0, <1>2 DEF CountedIn
<1> QED BY <1>1, <1>2

\* The vector v with the field counted and e as the value of the turn.
Written(v, f, e) == [CountedIn(v, f) EXCEPT ![Turn(v, f)] = e]

LEMMA TurnTaken ==
  ASSUME NEW v, NEW st, Arranged(v, st), NEW n \in Nat \ {0}, n = Len(st), AtTurn(v, st[n]),
         NEW e \in RosValue, Childless(e),
         NEW w, w = Written(v, st[n], e)
  PROVE  /\ w \in Seq(RosValue) /\ Len(w) = Len(v) /\ Turned(v, w, st[n])
         /\ w[Turn(v, st[n])] = e /\ Turn(v, st[n]) \in 1..Len(v)
<1>1. st[n] \in Frame /\ FrameOK(v, st[n]) /\ v \in Seq(RosValue)
      /\ st[n].at \in 1..Len(v) /\ Len(v) \in Nat
  <2>1. n \in 1..Len(st)
    OBVIOUS
  <2> QED BY CallOf
<1>2. Turn(v, st[n]) \in 1..Len(v) /\ Turn(v, st[n]) # st[n].at
  <2>1. Turn(v, st[n]) \in 1..Len(v) /\ Turn(v, st[n]) > st[n].at
    BY <1>1, TurnIsMade
  <2> QED BY <2>1
<1> DEFINE f == st[n]
<1>3. PICK c : c = CountedIn(v, f)
  OBVIOUS
<1>4. /\ c \in Seq(RosValue) /\ Len(c) = Len(v)
      /\ \A p \in 1..Len(v) : p # f.at => c[p] = v[p]
      /\ c[f.at].type = v[f.at].type
      /\ c[f.at].children.offset = v[f.at].children.offset
      /\ c[f.at].children.length = v[f.at].children.length + (IF f.fn = "initObject" THEN 1 ELSE 0)
  BY <1>1, <1>3, FieldCounted
<1>5. /\ w \in Seq(RosValue) /\ Len(w) = Len(v) /\ w[Turn(v, f)] = e
      /\ \A p \in 1..Len(v) : p # Turn(v, f) => w[p] = c[p]
  <2>1. PICK x : x = Turn(v, f)
    OBVIOUS
  <2>2. x \in 1..Len(c) /\ c \in Seq(RosValue) /\ Len(c) = Len(v)
    BY <1>2, <1>4, <2>1
  <2>3. w = [c EXCEPT ![x] = e]
    BY <1>3, <2>1 DEF Written
  <2>4. [c EXCEPT ![x] = e] \in Seq(RosValue)
    BY <2>2, ExceptSeq
  <2>5. Len([c EXCEPT ![x] = e]) = Len(c)
    BY ExceptSeq
  <2>6. DOMAIN c = 1..Len(c)
    BY LenProperties
  <2>7. w[x] = e /\ \A p \in 1..Len(v) : p # x => w[p] = c[p]
    BY <2>2, <2>3, <2>6
  <2> QED BY <2>1, <2>2, <2>3, <2>4, <2>5, <2>7
<1>6. Turned(v, w, f)
  BY <1>1, <1>2, <1>4, <1>5 DEF Turned
<1> QED BY <1>2, <1>5, <1>6

----
(* The loops of initObject. *)

LEMMA FieldAppended ==
  ASSUME NEW v \in Seq(RosValue), NEW m \in Member
  PROVE  /\ Append(v, NewField(m)) \in Seq(RosValue)
         /\ Len(Append(v, NewField(m))) = Len(v) + 1
         /\ \A p \in 1..Len(v) : Append(v, NewField(m))[p] = v[p]
         /\ Append(v, NewField(m))[Len(v) + 1] = NewField(m)
<1>1. NewField(m) \in RosValue
  BY FieldValue
<1> QED BY <1>1, AppendProperties

\* w is the vector v with the next field of frame f, unless it is a constant.
Appended(v, w, f) ==
  IF Definitions[f.def][f.next].const
  THEN Len(w) = Len(v) /\ \A p \in 1..Len(v) : w[p] = v[p]
  ELSE /\ Len(w) = Len(v) + 1 /\ \A p \in 1..Len(v) : w[p] = v[p]
       /\ w[Len(v) + 1] = NewField(Definitions[f.def][f.next])

\* initObject appends the next field, unless it is a constant.
LEMMA EmplaceKeeps ==
  ASSUME NEW v, NEW st, Arranged(v, st), NEW n \in Nat \ {0}, n = Len(st),
         IsEmplacing(st[n]), st[n].next <= Len(Definitions[st[n].def]),
         NEW w \in Seq(RosValue), Appended(v, w, st[n]),
         NEW su \in Seq(Frame), Len(su) = n,
         \A i \in 1..n-1 : su[i] = st[i], su[n] = [st[n] EXCEPT !.next = @ + 1]
  PROVE  Arranged(w, su)
<1>1. PICK f, g : f = st[n] /\ g = su[n]
  OBVIOUS
<1>3. /\ f \in Frame /\ FrameOK(v, f) /\ v \in Seq(RosValue) /\ Len(v) \in Nat
      /\ Own(v, f) \subseteq 1..Len(v) /\ Waiting(v, f) \subseteq Own(v, f)
      /\ f.at \in 1..Len(v)
  <2>1. n \in 1..Len(st)
    OBVIOUS
  <2> QED BY <1>1, <2>1, CallOf
<1>4. f.fn = "initObject" /\ f.loop = "emplace"
  BY <1>1 DEF IsEmplacing
<1>5. /\ f.def \in DefNames /\ Len(Definitions[f.def]) \in Nat /\ f.next \in Nat \ {0}
      /\ f.next \in 1..Len(Definitions[f.def])
  <2>1. f.def \in DefNames /\ f.next \in Nat \ {0}
    BY <1>3, <1>4, FrameForms DEF FrameOK
  <2> QED BY <1>1, <2>1, MembersAreCounted
<1>6. g.fn = f.fn /\ g.at = f.at /\ g.next = f.next + 1 /\ g.def = f.def /\ g.loop = f.loop
      /\ g \in Frame
  BY <1>1, <1>3, <1>4, NextTurn
<1>7. /\ Off(v, f) \in Nat /\ Places(v, f) \in Nat /\ Visited(f) = 0
      /\ Off(v, f) + Places(v, f) = Len(v) + 1 /\ Places(v, f) = FieldCount(f.def, f.next - 1)
  <2>1. Off(v, f) + Places(v, f) = Len(v) + 1
    <3>1. n \in 1..Len(st)
      OBVIOUS
    <3> QED BY <1>1, <3>1 DEF Arranged, EmplacesLast
  <2>2. Visited(f) = 0 /\ Places(v, f) = FieldCount(f.def, f.next - 1)
    BY <1>4 DEF Visited, Places
  <2> QED BY <1>3, <2>1, <2>2, OwnPlaces
<1>8. PICK m : m = Definitions[f.def][f.next]
  OBVIOUS
<1>a. m \in Member
  BY <1>5, <1>8, MemberOf
<1>b. PICK c \in 0..1 : c = IF m.const THEN 0 ELSE 1
  OBVIOUS
<1>9. /\ Len(w) = Len(v) + c /\ \A p \in 1..Len(v) : w[p] = v[p]
      /\ ~m.const => c = 1 /\ w[Len(v) + 1] = NewField(m)
      /\ m.const => c = 0
  <2>1. CASE m.const
    BY <1>1, <1>3, <1>8, <1>b, <2>1 DEF Appended
  <2>2. CASE ~m.const
    BY <1>1, <1>3, <1>8, <1>b, <2>2 DEF Appended
  <2> QED BY <2>1, <2>2
<1>10. Len(v) <= Len(w) /\ Len(w) \in Nat
  BY <1>9
<1>11. /\ Off(w, g) = Off(v, f) /\ Visited(g) = 0
       /\ Places(w, g) = Places(v, f) + c /\ Places(w, g) \in Nat
  <2>1. f.next - 1 \in Nat /\ (f.next - 1) + 1 = f.next /\ (f.next + 1) - 1 = f.next
    BY <1>5
  <2>2. FieldCount(f.def, (f.next - 1) + 1) =
          IF Definitions[f.def][(f.next - 1) + 1].const
          THEN FieldCount(f.def, f.next - 1) ELSE FieldCount(f.def, f.next - 1) + 1
    BY <2>1, CountNext
  <2>3. FieldCount(f.def, f.next) =
          IF m.const THEN FieldCount(f.def, f.next - 1) ELSE FieldCount(f.def, f.next - 1) + 1
    BY <1>8, <2>1, <2>2
  <2>4. Places(w, g) = FieldCount(f.def, f.next) /\ Visited(g) = 0
    BY <1>4, <1>6, <2>1 DEF Places, Visited
  <2>5. Off(w, g) = Off(v, f)
    BY <1>3, <1>6, <1>9 DEF Off
  <2>6. CASE m.const
    BY <1>7, <1>9, <2>3, <2>4, <2>5, <2>6
  <2>7. CASE ~m.const
    BY <1>7, <1>9, <2>3, <2>4, <2>5, <2>7
  <2> QED BY <2>6, <2>7
<1>12. Off(w, g) + Places(w, g) = Len(w) + 1
  BY <1>7, <1>9, <1>11
<1>13. Fresh(w, g)
  <2>1. \A k \in Ahead(f) : v[Off(v, f) + FieldCount(f.def, k - 1)] = NewField(Definitions[f.def][k])
    BY <1>3, <1>4 DEF FrameOK, Fresh
  <2>2. \A k \in Ahead(f) : Off(v, f) + FieldCount(f.def, k - 1) \in 1..Len(v)
    <3>1. \A k \in Ahead(f) : Off(v, f) + FieldCount(f.def, k - 1) \in Waiting(v, f)
      BY <1>3, <1>4, AheadWaits
    <3> QED BY <1>3, <3>1
  <2>3. ASSUME NEW k \in Ahead(g)
        PROVE  w[Off(w, g) + FieldCount(g.def, k - 1)] = NewField(Definitions[g.def][k])
    <3>1. k \in 1..f.next /\ ~Definitions[f.def][k].const
      <4>1. (f.next + 1) - 1 = f.next
        BY <1>5
      <4> QED BY <1>4, <1>6, <4>1 DEF Ahead
    <3>2. CASE k = f.next
      <4>1. ~m.const /\ Off(w, g) + FieldCount(f.def, k - 1) = Len(v) + 1
        BY <1>7, <1>8, <1>11, <3>1, <3>2
      <4> QED BY <1>6, <1>8, <1>9, <3>2, <4>1
    <3>3. CASE k # f.next
      <4>1. k \in 1..f.next-1
        BY <1>5, <3>1, <3>3
      <4>2. k \in Ahead(f)
        BY <1>4, <3>1, <4>1 DEF Ahead
      <4> QED BY <1>6, <1>9, <1>11, <2>1, <2>2, <4>2
    <3> QED BY <3>2, <3>3
  <2> QED BY <1>4, <1>6, <2>3 DEF Fresh
<1>14. FrameOK(w, g)
  <2>1. g.at \in 1..Len(w) /\ g.next \in Nat \ {0}
    BY <1>3, <1>5, <1>6, <1>10
  <2>2. w[g.at].type = "object" /\ w[g.at].children.length = 0
    BY <1>3, <1>4, <1>6, <1>7, <1>9 DEF FrameOK
  <2>3. g.next <= Len(Definitions[g.def]) + 1
    BY <1>5, <1>6
  <2>4. g.at < Off(w, g) /\ Off(w, g) + Places(w, g) - 1 <= Len(w)
    <3>1. f.at < Off(v, f)
      BY <1>3 DEF FrameOK
    <3> QED BY <1>6, <1>7, <1>10, <1>11, <1>12, <3>1
  <2> QED BY <1>4, <1>6, <1>11, <1>13, <2>1, <2>2, <2>3, <2>4 DEF FrameOK
<1>15. /\ Own(w, g) \subseteq Own(v, f) \cup Len(v)+1..Len(w)
       /\ Waiting(w, g) \subseteq Waiting(v, f) \cup Len(v)+1..Len(w)
  <2>1. /\ Own(v, f) = Off(v, f) .. Len(v) /\ Waiting(v, f) = Off(v, f) .. Len(v)
        /\ Own(w, g) = Off(v, f) .. Len(w) /\ Waiting(w, g) = Off(v, f) .. Len(w)
    <3>1. Off(v, f) + Places(v, f) - 1 = Len(v) /\ Off(w, g) + Places(w, g) - 1 = Len(w)
      BY <1>7, <1>10, <1>11, <1>12, SMTT(30)
    <3>2. Off(v, f) + Visited(f) = Off(v, f) /\ Off(w, g) + Visited(g) = Off(w, g)
      BY <1>7, <1>11
    <3>3. Own(v, f) = Off(v, f) .. Len(v) /\ Waiting(v, f) = Off(v, f) .. Len(v)
      BY <3>1, <3>2 DEF Own, Waiting
    <3>4. Own(w, g) = Off(w, g) .. Len(w) /\ Waiting(w, g) = Off(w, g) .. Len(w)
      BY <3>1, <3>2 DEF Own, Waiting
    <3> QED BY <1>11, <3>3, <3>4
  <2>2. \A y \in Off(v, f)..Len(w) : y \in Off(v, f)..Len(v) \/ y \in Len(v)+1..Len(w)
    BY <1>7, <1>10
  <2> QED BY <2>1, <2>2
<1>16. ASSUME NEW i \in 1..n-1
       PROVE  su[i] = st[i] /\ Kept(v, w, st[i])
  <2>1. i \in 1..Len(st) /\ i # Len(st)
    OBVIOUS
  <2>2. /\ st[i] \in Frame /\ FrameOK(v, st[i]) /\ ~IsEmplacing(st[i])
        /\ st[i].at \in 1..Len(v)
        /\ Own(v, st[i]) \subseteq 1..Len(v) /\ Waiting(v, st[i]) \subseteq Own(v, st[i])
    BY <2>1, CallOf
  <2>3. w[st[i].at] = v[st[i].at] /\ \A y \in Waiting(v, st[i]) : w[y] = v[y]
    BY <1>9, <2>2
  <2>4. /\ FrameOK(w, st[i])
        /\ Own(w, st[i]) = Own(v, st[i]) /\ Waiting(w, st[i]) = Waiting(v, st[i])
    BY <1>3, <1>9, <1>10, <2>2, <2>3, FrameKept, SMTT(30)
  <2> QED BY <2>2, <2>4 DEF Kept
<1>17. \A p \in 1..Len(v) : Children(w, p) = Children(v, p)
  BY <1>9 DEF Children
<1>18. \A p \in Len(v)+1..Len(w) : Children(w, p) = {}
  <2>1. CASE m.const
    BY <1>9, <2>1
  <2>2. CASE ~m.const
    <3>1. Len(w) = Len(v) + 1 /\ w[Len(v) + 1] = NewField(m)
      BY <1>9, <2>2
    <3>2. Children(w, Len(v) + 1) = {}
      <4>1. PICK e : e = NewField(m)
        OBVIOUS
      <4>2. e \in RosValue /\ Childless(e)
        BY <1>a, <4>1, FieldValue
      <4>3. e.type \in {"object", "array"} =>
              e.children.offset \in Nat /\ e.children.length = 0
        BY <4>2, ValueForms DEF Childless
      <4>4. w[Len(v) + 1] = e
        BY <3>1, <4>1
      <4> QED BY <4>3, <4>4 DEF Children
    <3> QED BY <3>1, <3>2
  <2> QED BY <2>1, <2>2
<1> QED
  <2>1. /\ FrameOK(w, su[n]) /\ su[n].at = st[n].at
        /\ Own(w, su[n]) \subseteq Own(v, st[n]) \cup Len(v)+1..Len(w)
        /\ Waiting(w, su[n]) \subseteq Waiting(v, st[n]) \cup Len(v)+1..Len(w)
    BY <1>1, <1>6, <1>14, <1>15
  <2>2. Off(w, su[n]) + Places(w, su[n]) = Len(w) + 1
    BY <1>1, <1>12
  <2>3. \A p \in 1..Len(v) : p # st[n].at => Children(w, p) \subseteq Children(v, p)
    BY <1>17
  <2> QED BY <1>10, <1>16, <1>18, <2>1, <2>2, <2>3, TopChanged

\* initObject passes a constant.
LEMMA SkipKeeps ==
  ASSUME NEW v, NEW st, Arranged(v, st), NEW n \in Nat \ {0}, n = Len(st),
         st[n].fn = "initObject", ~IsEmplacing(st[n]),
         st[n].next <= Len(Definitions[st[n].def]), Definitions[st[n].def][st[n].next].const,
         NEW su \in Seq(Frame), Len(su) = n,
         \A i \in 1..n-1 : su[i] = st[i], su[n] = [st[n] EXCEPT !.next = @ + 1]
  PROVE  Arranged(v, su)
<1>1. PICK f, g : f = st[n] /\ g = su[n]
  OBVIOUS
<1>3. FrameOK(v, f) /\ f \in Frame
  <2>1. n \in 1..Len(st)
    OBVIOUS
  <2> QED BY <1>1, <2>1, CallOf
<1>4. f.fn = "initObject" /\ f.loop = "init"
  BY <1>1, <1>3, FrameForms DEF IsEmplacing
<1>5. /\ f.def \in DefNames /\ Len(Definitions[f.def]) \in Nat /\ f.next \in Nat \ {0}
      /\ f.next \in 1..Len(Definitions[f.def])
  <2>1. f.def \in DefNames /\ f.next \in Nat \ {0}
    BY <1>3, <1>4, FrameForms DEF FrameOK
  <2> QED BY <1>1, <2>1, MembersAreCounted
<1>6. /\ g.fn = f.fn /\ g.at = f.at /\ g.next = f.next + 1 /\ g.def = f.def /\ g.loop = f.loop
  BY <1>1, <1>3, <1>4, NextTurn
<1>7. Off(v, g) = Off(v, f) /\ Places(v, g) = Places(v, f) /\ Visited(g) = Visited(f)
  <2>1. f.next - 1 \in Nat /\ (f.next - 1) + 1 = f.next /\ (f.next + 1) - 1 = f.next
    BY <1>5
  <2>2. FieldCount(f.def, (f.next - 1) + 1) =
          IF Definitions[f.def][(f.next - 1) + 1].const
          THEN FieldCount(f.def, f.next - 1) ELSE FieldCount(f.def, f.next - 1) + 1
    BY <2>1, CountNext
  <2>3. FieldCount(f.def, f.next) = FieldCount(f.def, f.next - 1)
    BY <1>1, <2>1, <2>2
  <2> QED BY <1>4, <1>6, <2>1, <2>3 DEF Off, Places, Visited
<1>8. Own(v, g) = Own(v, f) /\ Waiting(v, g) = Waiting(v, f)
  BY <1>7 DEF Own, Waiting
<1>9. Fresh(v, g)
  <2>1. Ahead(g) \subseteq Ahead(f)
    BY <1>4, <1>5, <1>6 DEF Ahead
  <2>2. \A k \in Ahead(f) : v[Off(v, f) + FieldCount(f.def, k - 1)] = NewField(Definitions[f.def][k])
    BY <1>3, <1>4 DEF FrameOK, Fresh
  <2> QED BY <1>4, <1>6, <1>7, <2>1, <2>2 DEF Fresh
<1>10. FrameOK(v, g)
  <2>1. /\ v[f.at].type = "object" /\ v[f.at].children.length = Visited(f)
        /\ f.at \in 1..Len(v) /\ f.at < Off(v, f) /\ Off(v, f) + Places(v, f) - 1 <= Len(v)
    BY <1>3, <1>4 DEF FrameOK
  <2>2. g.next \in Nat \ {0} /\ g.next <= Len(Definitions[g.def]) + 1 /\ g.fn # "initArray"
    BY <1>4, <1>5, <1>6
  <2> QED BY <1>6, <1>7, <1>9, <2>1, <2>2 DEF FrameOK
<1>11. /\ FrameOK(v, su[n]) /\ su[n].at = st[n].at
       /\ Own(v, su[n]) = Own(v, st[n]) /\ Waiting(v, su[n]) = Waiting(v, st[n])
       /\ ~IsEmplacing(su[n])
  BY <1>1, <1>4, <1>6, <1>8, <1>10 DEF IsEmplacing
<1> QED BY <1>11, TopGoesOn, ZenonT(40)

\* The frame when initObject goes over to its second loop.
Begun(f) == [f EXCEPT !.loop = "init", !.next = 1]

LEMMA LoopBegun ==
  ASSUME NEW f \in Frame, f.fn = "initObject", NEW g, g = Begun(f)
  PROVE  /\ g \in Frame /\ g.fn = "initObject" /\ g.at = f.at /\ g.def = f.def
         /\ g.loop = "init" /\ g.next = 1
<1>1. /\ f = [fn |-> "initObject", at |-> f.at, def |-> f.def, loop |-> f.loop, next |-> f.next]
      /\ f.at \in Nat /\ f.def \in DefNames
  BY FrameForms
<1>2. PICK a \in Nat, d \in DefNames, l \in {f.loop}, k \in {f.next} :
        f = [fn |-> "initObject", at |-> a, def |-> d, loop |-> l, next |-> k]
  BY <1>1
<1>3. PICK h : h = [f EXCEPT !.loop = "init"]
  OBVIOUS
<1>4. h = [fn |-> "initObject", at |-> a, def |-> d, loop |-> "init", next |-> k]
  BY <1>2, <1>3
<1>5. [h EXCEPT !.next = 1] =
        [fn |-> "initObject", at |-> a, def |-> d, loop |-> "init", next |-> 1]
  BY <1>4
<1>6. g = [h EXCEPT !.next = 1]
  BY <1>3 DEF Begun
<1>7. g = [fn |-> "initObject", at |-> a, def |-> d, loop |-> "init", next |-> 1]
  BY <1>5, <1>6
<1>8. g \in Frame
  BY <1>7 DEF Frame
<1>9. g.fn = "initObject" /\ g.at = a /\ g.def = d /\ g.loop = "init" /\ g.next = 1
  BY <1>7
<1>10. f.at = a /\ f.def = d
  BY <1>2
<1> QED BY <1>8, <1>9, <1>10

\* All fields are appended: initObject starts to visit them.
LEMMA AllEmplacedKeeps ==
  ASSUME NEW v, NEW st, Arranged(v, st), NEW n \in Nat \ {0}, n = Len(st),
         IsEmplacing(st[n]), st[n].next > Len(Definitions[st[n].def]),
         NEW su \in Seq(Frame), Len(su) = n, \A i \in 1..n-1 : su[i] = st[i],
         su[n] = Begun(st[n])
  PROVE  Arranged(v, su)
<1>1. PICK f, g : f = st[n] /\ g = su[n]
  OBVIOUS
<1>3. FrameOK(v, f) /\ f \in Frame
  <2>1. n \in 1..Len(st)
    OBVIOUS
  <2> QED BY <1>1, <2>1, CallOf
<1>4. f.fn = "initObject" /\ f.loop = "emplace"
  BY <1>1 DEF IsEmplacing
<1>5. /\ f.def \in DefNames /\ Len(Definitions[f.def]) \in Nat
      /\ f.next = Len(Definitions[f.def]) + 1
  <2>1. f.def \in DefNames /\ f.next \in Nat /\ f.next <= Len(Definitions[f.def]) + 1
    BY <1>3, <1>4, FrameForms DEF FrameOK
  <2>2. Len(Definitions[f.def]) \in Nat /\ f.next > Len(Definitions[f.def])
    BY <1>1, <2>1, MembersAreCounted
  <2> QED BY <2>1, <2>2
<1>6. g.fn = f.fn /\ g.at = f.at /\ g.next = 1 /\ g.def = f.def /\ g.loop = "init"
  <2>1. g = Begun(f)
    BY <1>1
  <2> QED BY <1>3, <1>4, <2>1, LoopBegun
<1>7. Off(v, g) = Off(v, f) /\ Places(v, g) = Places(v, f) /\ Visited(g) = 0 /\ Visited(f) = 0
  <2>1. f.next - 1 = Len(Definitions[f.def]) /\ FieldCount(f.def, 0) = 0
    BY <1>5, CountNext
  <2> QED BY <1>4, <1>6, <2>1 DEF Off, Places, Visited
<1>8. Own(v, g) = Own(v, f) /\ Waiting(v, g) = Waiting(v, f)
  BY <1>7 DEF Own, Waiting
<1>9. Fresh(v, g)
  <2>1. Ahead(g) \subseteq Ahead(f)
    BY <1>4, <1>5, <1>6 DEF Ahead
  <2>2. \A k \in Ahead(f) : v[Off(v, f) + FieldCount(f.def, k - 1)] = NewField(Definitions[f.def][k])
    BY <1>3, <1>4 DEF FrameOK, Fresh
  <2> QED BY <1>4, <1>6, <1>7, <2>1, <2>2 DEF Fresh
<1>10. FrameOK(v, g)
  BY <1>3, <1>4, <1>5, <1>6, <1>7, <1>9 DEF FrameOK
<1>11. /\ FrameOK(v, su[n]) /\ su[n].at = st[n].at
       /\ Own(v, su[n]) = Own(v, st[n]) /\ Waiting(v, su[n]) = Waiting(v, st[n])
       /\ ~IsEmplacing(su[n])
  BY <1>1, <1>6, <1>8, <1>10 DEF IsEmplacing
<1> QED BY <1>11, TopGoesOn

----
(* Calls of initObject and initArray. *)

LEMMA ObjectEntered ==
  ASSUME NEW v, NEW st, Arranged(v, st), NEW x \in 1..Len(v), Children(v, x) = {},
         \A i \in 1..Len(st) : /\ st[i].at # x /\ ~IsEmplacing(st[i])
                               /\ x \notin Waiting(v, st[i]),
         NEW d \in DefNames,
         NEW w \in Seq(RosValue), Len(w) = Len(v), \A p \in 1..Len(v) : p # x => w[p] = v[p],
         w[x].type = "object",
         w[x].children.offset = Len(v) + 1, w[x].children.length = 0
  PROVE  Arranged(w, Append(st, ObjectFrame(x, d)))
<1>1. PICK f : f = ObjectFrame(x, d)
  OBVIOUS
<1>2. Len(v) \in Nat /\ x \in Nat
  <2>1. v \in Seq(RosValue)
    BY DEF Arranged
  <2> QED BY LenProperties
<1>3. /\ f.fn = "initObject" /\ f.at = x /\ f.def = d /\ f.loop = "emplace" /\ f.next = 1
      /\ f \in Frame
  BY <1>1, <1>2 DEF ObjectFrame, Frame
<1>4. Off(w, f) = Len(v) + 1 /\ Visited(f) = 0 /\ Places(w, f) = 0
  <2>1. FieldCount(d, 0) = 0
    BY CountNext
  <2> QED BY <1>3, <2>1 DEF Off, Visited, Places
<1>5. Fresh(w, f)
  BY <1>3 DEF Fresh, Ahead
<1>6. Len(Definitions[d]) \in Nat
  BY MembersAreCounted
<1>7. FrameOK(w, f)
  BY <1>3, <1>4, <1>5, <1>6 DEF FrameOK
<1>8. /\ Len(v) <= Len(w) /\ \A p \in Len(v)+1..Len(w) : Children(w, p) = {}
      /\ Off(w, f) + Places(w, f) = Len(w) + 1
  BY <1>4
<1>9. Arranged(w, Append(st, f))
  BY <1>3, <1>4, <1>7, <1>8, PushKeeps
<1> QED BY <1>1, <1>9

LEMMA ArrayEntered ==
  ASSUME NEW v, NEW st, Arranged(v, st), NEW x \in 1..Len(v), Children(v, x) = {},
         \A i \in 1..Len(st) : /\ st[i].at # x /\ ~IsEmplacing(st[i])
                               /\ x \notin Waiting(v, st[i]),
         NEW fd \in Member, NEW m \in Nat,
         NEW w \in Seq(RosValue), Len(w) = Len(v) + m,
         \A p \in 1..Len(v) : p # x => w[p] = v[p],
         \A k \in 1..m : w[Len(v) + k] = NewElement(fd),
         w[x].type = "array",
         w[x].children.offset = Len(v) + 1, w[x].children.length = m
  PROVE  Arranged(w, Append(st, ArrayFrame(x, fd)))
<1>1. PICK f : f = ArrayFrame(x, fd)
  OBVIOUS
<1>2. Len(v) \in Nat /\ x \in Nat
  <2>1. v \in Seq(RosValue)
    BY DEF Arranged
  <2> QED BY LenProperties
<1>3. /\ f.fn = "initArray" /\ f.at = x /\ f.field = fd /\ f.next = 1 /\ f \in Frame
      /\ ~IsEmplacing(f)
  BY <1>1, <1>2 DEF ArrayFrame, Frame, IsEmplacing
<1>4. Off(w, f) = Len(v) + 1 /\ Visited(f) = 0 /\ Places(w, f) = m
  BY <1>3 DEF Off, Visited, Places
<1>5. Fresh(w, f)
  <2>1. \A k \in 1..m : (Len(v) + 1) + k - 1 = Len(v) + k
    BY <1>2
  <2>2. \A k \in 1..m : w[(Len(v) + 1) + k - 1] = NewElement(fd)
    BY <2>1
  <2> QED BY <1>3, <1>4, <2>2 DEF Fresh
<1>6. FrameOK(w, f)
  <2>1. f.at \in 1..Len(w) /\ f.next \in Nat \ {0}
    BY <1>3
  <2>2. w[f.at].type = "array" /\ f.next <= w[f.at].children.length + 1
    BY <1>3
  <2>3. f.at < Off(w, f) /\ Off(w, f) + Places(w, f) - 1 <= Len(w)
    BY <1>3, <1>4
  <2> QED BY <1>3, <1>5, <2>1, <2>2, <2>3 DEF FrameOK
<1>7. \A p \in Len(v)+1..Len(w) : Children(w, p) = {}
  <2> SUFFICES ASSUME NEW p \in Len(v)+1..Len(w)
               PROVE  Children(w, p) = {}
    OBVIOUS
  <2>1. PICK k \in 1..m : p = Len(v) + k
    <3>1. p - Len(v) \in 1..m /\ p = Len(v) + (p - Len(v))
      BY <1>2
    <3> QED BY <3>1
  <2>2. PICK e : e = NewElement(fd)
    OBVIOUS
  <2>3. e \in RosValue /\ Childless(e)
    BY <2>2, ElementValue
  <2>4. e.type \in {"object", "array"} => e.children.offset \in Nat /\ e.children.length = 0
    BY <2>3, ValueForms DEF Childless
  <2>5. w[p] = e
    BY <2>1, <2>2
  <2> QED BY <2>4, <2>5 DEF Children
<1>8. Len(v) <= Len(w) /\ Off(w, f) + Places(w, f) = Len(w) + 1
  <2>1. PICK l \in Nat : l = Len(v)
    BY <1>2
  <2>2. Len(w) = l + m /\ Off(w, f) = l + 1 /\ l <= l + m /\ (l + 1) + m = (l + m) + 1
    BY <1>4, <2>1
  <2> QED BY <1>4, <2>1, <2>2
<1>9. Arranged(w, Append(st, f))
  BY <1>3, <1>4, <1>6, <1>7, <1>8, PushKeeps
<1> QED BY <1>1, <1>9

LEMMA NothingArranged == Arranged(<<>>, <<>>)
  BY DEF Arranged, Apart, CallsApart, EmplacesLast

----
(* Turns of the innermost call. *)

\* The assignments to the members of value x of vector c.
SetOffset(c, x, o) == [c EXCEPT ![x].offset = o]
SetChildren(c, x, o, l) == [c EXCEPT ![x].children = [offset |-> o, length |-> l]]
SetBlob(c, x, o, l) == [c EXCEPT ![x].length = l, ![x].offset = o]
SetValue(c, x, e) == [c EXCEPT ![x] = e]

LEMMA PlaceWritten ==
  ASSUME NEW c \in Seq(RosValue), NEW x \in 1..Len(c), NEW o \in Nat, NEW l \in Nat
  PROVE  /\ c[x].type \in Primitives \cup {"string"} =>
              SetOffset(c, x, o) = SetValue(c, x, [type |-> c[x].type, offset |-> o])
         /\ c[x].type = "object" =>
              /\ c[x].def \in DefNames
              /\ SetChildren(c, x, o, l) =
                   SetValue(c, x, [type |-> "object", children |-> [offset |-> o, length |-> l],
                                   def |-> c[x].def])
         /\ c[x].type = "array" =>
              SetChildren(c, x, o, l) =
                SetValue(c, x, [type |-> "array", children |-> [offset |-> o, length |-> l]])
         /\ c[x].type = "primitive_array" =>
              /\ c[x].element_type \in Primitives
              /\ SetBlob(c, x, o, l) =
                   SetValue(c, x, [type |-> "primitive_array", element_type |-> c[x].element_type,
                                   offset |-> o, length |-> l])
<1>1. PICK r : r = c[x]
  OBVIOUS
<1>2. r \in RosValue /\ DOMAIN c = 1..Len(c)
  BY <1>1, ElementOfSeq, LenProperties
<1>3. CASE r.type = "object"
  <2>1. r.type \notin Primitives \cup {"string", "array", "primitive_array"}
    BY <1>3, DefinitionAssumption
  <2>2. PICK o1 \in Nat, l1 \in Nat, d \in DefNames :
          r = [type |-> "object", children |-> [offset |-> o1, length |-> l1], def |-> d]
    BY <1>2, <2>1, ValueForms
  <2>3. [r EXCEPT !.children = [offset |-> o, length |-> l]] =
          [type |-> "object", children |-> [offset |-> o, length |-> l], def |-> r.def]
    BY <2>2
  <2>4. [c EXCEPT ![x].children = [offset |-> o, length |-> l]] =
          [c EXCEPT ![x] = [r EXCEPT !.children = [offset |-> o, length |-> l]]]
    BY <1>1, <1>2
  <2>5. r.def \in DefNames
    BY <2>2
  <2> QED BY <1>1, <2>1, <2>3, <2>4, <2>5 DEF SetChildren, SetValue
<1>4. CASE r.type = "array"
  <2>1. r.type \notin Primitives \cup {"string", "object", "primitive_array"}
    BY <1>4, DefinitionAssumption
  <2>2. PICK o1 \in Nat, l1 \in Nat :
          r = [type |-> "array", children |-> [offset |-> o1, length |-> l1]]
    BY <1>2, <2>1, ValueForms
  <2>3. [r EXCEPT !.children = [offset |-> o, length |-> l]] =
          [type |-> "array", children |-> [offset |-> o, length |-> l]]
    BY <2>2
  <2>4. [c EXCEPT ![x].children = [offset |-> o, length |-> l]] =
          [c EXCEPT ![x] = [r EXCEPT !.children = [offset |-> o, length |-> l]]]
    BY <1>1, <1>2
  <2> QED BY <1>1, <2>1, <2>3, <2>4 DEF SetChildren, SetValue
<1>5. CASE r.type = "primitive_array"
  <2>1. r.type \notin Primitives \cup {"string", "object", "array"}
    BY <1>5, DefinitionAssumption
  <2>2. PICK t \in Primitives, o1 \in Nat, l1 \in Nat :
          r = [type |-> "primitive_array", element_type |-> t, offset |-> o1, length |-> l1]
    BY <1>2, <2>1, ValueForms
  <2>3. [[r EXCEPT !.length = l] EXCEPT !.offset = o] =
          [type |-> "primitive_array", element_type |-> r.element_type, offset |-> o, length |-> l]
    <3>1. PICK q : q = [r EXCEPT !.length = l]
      OBVIOUS
    <3>2. q = [type |-> "primitive_array", element_type |-> t, offset |-> o1, length |-> l]
      BY <2>2, <3>1
    <3>3. [q EXCEPT !.offset = o] =
            [type |-> "primitive_array", element_type |-> t, offset |-> o, length |-> l]
      BY <3>2
    <3> QED BY <3>1, <3>3
  <2>4. [c EXCEPT ![x].length = l, ![x].offset = o] =
          [c EXCEPT ![x] = [[r EXCEPT !.length = l] EXCEPT !.offset = o]]
    BY <1>1, <1>2
  <2>5. r.element_type \in Primitives
    BY <2>2
  <2> QED BY <1>1, <2>1, <2>3, <2>4, <2>5 DEF SetBlob, SetValue
<1>6. CASE r.type \in Primitives \cup {"string"}
  <2>1. r.type \notin {"object", "array", "primitive_array"}
    BY <1>6, DefinitionAssumption
  <2>2. PICK o1 \in Nat : r = [type |-> r.type, offset |-> o1]
    BY <1>2, <2>1, ValueForms
  <2>3. [r EXCEPT !.offset = o] = [type |-> r.type, offset |-> o]
    BY <2>2
  <2>4. [c EXCEPT ![x].offset = o] = [c EXCEPT ![x] = [r EXCEPT !.offset = o]]
    BY <1>1, <1>2
  <2> QED BY <1>1, <2>1, <2>3, <2>4 DEF SetOffset, SetValue
<1> QED BY <1>2, <1>3, <1>4, <1>5, <1>6, ValueForms

\* The stack st with the next turn of the innermost call.
Onward(st) == Append(SubSeq(st, 1, Len(st) - 1), [st[Len(st)] EXCEPT !.next = @ + 1])

\* The turn is over when the value is written.
LEMMA TurnOver ==
  ASSUME NEW v, NEW st, Arranged(v, st), NEW n \in Nat \ {0}, n = Len(st), AtTurn(v, st[n]),
         NEW e \in RosValue, Childless(e), NEW w, NEW su
  PROVE  /\ w = Written(v, st[n], e)
         /\ su = Onward(st)
         => /\ Arranged(w, su) /\ Len(w) = Len(v) /\ Len(su) = n
            /\ Children(w, Turn(v, st[n])) = {}
            /\ \A i \in 1..n : /\ su[i].at # Turn(v, st[n]) /\ ~IsEmplacing(su[i])
                               /\ Turn(v, st[n]) \notin Waiting(w, su[i])
<1>1. ASSUME w = Written(v, st[n], e),
             su = Onward(st)
      PROVE  /\ Arranged(w, su) /\ Len(w) = Len(v) /\ Len(su) = n
             /\ Children(w, Turn(v, st[n])) = {}
             /\ \A i \in 1..n : /\ su[i].at # Turn(v, st[n]) /\ ~IsEmplacing(su[i])
                                /\ Turn(v, st[n]) \notin Waiting(w, su[i])
  <2>1. /\ w \in Seq(RosValue) /\ Len(w) = Len(v) /\ Turned(v, w, st[n])
        /\ w[Turn(v, st[n])] = e
    BY <1>1, TurnTaken
  <2>2. st \in Seq(Frame) /\ st # <<>>
    BY DEF Arranged
  <2>3. [st[n] EXCEPT !.next = @ + 1] \in Frame
    <3>1. n \in 1..Len(st)
      OBVIOUS
    <3>2. st[n] \in Frame
      BY <2>2, <3>1, ElementOfSeq
    <3> QED BY <3>2, NextTurn
  <2>4. /\ su \in Seq(Frame) /\ Len(su) = n /\ su[n] = [st[n] EXCEPT !.next = @ + 1]
        /\ \A i \in 1..n-1 : su[i] = st[i]
    BY <1>1, <2>2, <2>3, TopReplaced DEF Onward
  <2>5. Childless(w[Turn(v, st[n])])
    BY <2>1
  <2>6. /\ Arranged(w, su)
        /\ \A i \in 1..n : /\ su[i].at # Turn(v, st[n]) /\ ~IsEmplacing(su[i])
                           /\ Turn(v, st[n]) \notin Waiting(w, su[i])
    BY <2>1, <2>4, <2>5, TurnKeeps, SMTT(30)
  <2>7. Children(w, Turn(v, st[n])) = {}
    <3>1. e.type \in {"object", "array"} => e.children.offset \in Nat /\ e.children.length = 0
      BY ValueForms DEF Childless
    <3> QED BY <2>1, <3>1 DEF Children
  <2> QED BY <2>1, <2>4, <2>6, <2>7
<1> QED BY <1>1

LEMMA TheTurn ==
  ASSUME Inv, AtField
  PROVE  /\ Len(stack) \in Nat \ {0} /\ stack \in Seq(Frame) /\ Top \in Frame
         /\ AtTurn(ros_values_, Top)
         /\ Target = Turn(ros_values_, Top) /\ Counted = CountedIn(ros_values_, Top)
         /\ ros_values_ \in Seq(RosValue) /\ Len(ros_values_) \in Nat
         /\ Target \in 1..Len(ros_values_)
         /\ Counted \in Seq(RosValue) /\ Len(Counted) = Len(ros_values_)
         /\ Counted[Target] = ros_values_[Target]
         /\ Field \in Member /\ Field.of \in DefNames
         /\ ros_values_[Target] \in RosValue /\ Childless(ros_values_[Target])
         /\ TargetType \in Primitives => Field.type = TargetType
         /\ TargetType = "primitive_array" => Field.type \in Primitives
<1>1. stack \in Seq(Frame) /\ ros_values_ \in Seq(RosValue) /\ stack # <<>>
  BY DEF Inv, Arranged, AtField, Initialising
<1>2. Len(stack) \in Nat \ {0} /\ Len(ros_values_) \in Nat
  BY <1>1, EmptySeq, LenProperties
<1>3. PICK f, v : f = Top /\ v = ros_values_
  OBVIOUS
<1>5. f \in Frame /\ FrameOK(v, f) /\ v \in Seq(RosValue)
  <2>1. Len(stack) \in 1..Len(stack)
    BY <1>2
  <2> QED BY <1>3, <2>1, ElementOfSeq DEF Top, Inv, Arranged
<1>6. f.fn \in {"initObject", "initArray"} /\ f.next \in Nat \ {0}
  BY <1>5, FrameForms DEF FrameOK
<1>7. AtTurn(v, f)
  BY <1>3, <1>6 DEF AtField, Initialising, Emplacing, Turns, MembersOf, Field, AtTurn, IsEmplacing
<1>8. Turn(v, f) \in 1..Len(v) /\ v[Turn(v, f)] = Made(f) /\ Turn(v, f) > f.at
  BY <1>5, <1>7, TurnIsMade
<1>9. Target = Turn(v, f)
  <2>1. CASE f.fn = "initObject"
    <3>1. v[f.at].children.length = Visited(f)
      BY <1>5, <2>1 DEF FrameOK
    <3> QED BY <1>3, <2>1, <3>1 DEF Target, Turn, Off
  <2>2. CASE f.fn # "initObject"
    <3>1. Visited(f) = f.next - 1
      BY <1>6, <2>2 DEF Visited
    <3>2. Off(v, f) \in Nat
      BY <1>5, OwnPlaces
    <3>3. Target = v[f.at].children.offset + f.next - 1
      BY <1>3, <2>2 DEF Target
    <3> QED BY <3>1, <3>2, <3>3 DEF Turn, Off
  <2> QED BY <2>1, <2>2
<1>10. Field \in Member
  <2>1. CASE f.fn = "initObject"
    <3>1. f.next \in 1..Len(Definitions[f.def]) /\ f.def \in DefNames
      <4>1. f.def \in DefNames /\ Len(Definitions[f.def]) \in Nat
        BY <1>5, <2>1, FrameForms, MembersAreCounted
      <4> QED BY <1>6, <1>7, <2>1, <4>1 DEF AtTurn
    <3> QED BY <1>3, <2>1, <3>1, MemberOf DEF Field, MembersOf
  <2>2. CASE f.fn # "initObject"
    BY <1>3, <1>5, <1>6, <2>2, FrameForms DEF Field
  <2> QED BY <2>1, <2>2
<1>11. Made(f) = NewField(Field) \/ Made(f) = NewElement(Field)
  BY <1>3 DEF Made, Field, MembersOf
<1>12. /\ Made(f) \in RosValue /\ Childless(Made(f)) /\ Field.of \in DefNames
       /\ Made(f).type \in Primitives => Field.type = Made(f).type
       /\ Made(f).type = "primitive_array" => Field.type \in Primitives
  <2>1. CASE Made(f) = NewField(Field)
    BY <1>10, <2>1, FieldValue, ElementValue
  <2>2. CASE Made(f) = NewElement(Field)
    <3>1. Field.type # "primitive_array"
      BY <1>10, DefinitionAssumption DEF Member, Type
    <3> QED BY <1>10, <2>2, <3>1, ElementValue
  <2> QED BY <1>11, <2>1, <2>2
<1>13. PICK c : c = CountedIn(v, f)
  OBVIOUS
<1>14. Counted = c
  BY <1>3, <1>13 DEF Counted, CountedIn
<1>15. /\ c \in Seq(RosValue) /\ Len(c) = Len(v)
       /\ \A p \in 1..Len(v) : p # f.at => c[p] = v[p]
  BY <1>5, <1>13, FieldCounted
<1>16. c[Turn(v, f)] = v[Turn(v, f)]
  <2>1. f.at \in Nat /\ Turn(v, f) # f.at
    BY <1>5, <1>8, FrameForms
  <2> QED BY <1>8, <1>15, <2>1
<1> QED BY <1>1, <1>2, <1>3, <1>5, <1>7, <1>8, <1>9, <1>10, <1>12, <1>13, <1>14, <1>15, <1>16
  DEF TargetType

\* What the length found at the present offset, or of the type, may be.
LEMMA LengthRead ==
  ASSUME Inv, AtField, Dynamic => LengthThere
  PROVE  /\ LengthThere => Buffer[message_buffer_offset_] \in Nat
         /\ ArrayLength \in Nat /\ ElementsStart \in Nat \ {0}
         /\ message_buffer_offset_ \in Nat \ {0}
<1>1. message_buffer_offset_ \in Nat \ {0}
  BY DEF Inv, RestOK, AtField, Initialising
<1>2. Buffer \in Seq(Nat)
  BY MessageAssumption DEF Inv, RestOK, Buffer
<1>3. ASSUME LengthThere PROVE Buffer[message_buffer_offset_] \in Nat
  <2>1. message_buffer_offset_ \in 1..Len(Buffer)
    BY <1>1, <1>2, <1>3, LenProperties DEF LengthThere
  <2> QED BY <1>2, <2>1, ElementOfSeq
<1>4. ArrayLength \in Nat
  <2>1. CASE Dynamic
    BY <1>3, <2>1 DEF ArrayLength
  <2>2. CASE ~Dynamic
    <3>1. Field \in Member
      BY TheTurn
    <3>2. Field.n \in Nat
      BY <3>1 DEF Member
    <3> QED BY <2>2, <3>2 DEF ArrayLength, Dynamic, ArraySize
  <2> QED BY <2>1, <2>2
<1>5. ElementsStart \in Nat \ {0}
  BY <1>1 DEF ElementsStart, LengthSize
<1> QED BY <1>1, <1>3, <1>4, <1>5

\* The vector with the value of the turn.
Result(e) == [Counted EXCEPT ![Target] = e]

\* The innermost call goes on after value e was written.
LEMMA ValueInitialised ==
  ASSUME Inv, AtField, NEW e \in RosValue, Childless(e), NEW w, NEW su
  PROVE  w = Result(e) /\ su = Advanced =>
           /\ Arranged(w, su) /\ Len(w) = Len(ros_values_) /\ Len(su) = Len(stack)
           /\ Children(w, Target) = {}
           /\ \A i \in 1..Len(su) : /\ su[i].at # Target /\ ~IsEmplacing(su[i])
                                    /\ Target \notin Waiting(w, su[i])
<1>1. PICK v, st, n : v = ros_values_ /\ st = stack /\ n = Len(st)
  OBVIOUS
<1>4. Arranged(v, st) /\ n \in Nat \ {0} /\ AtTurn(v, st[n])
  BY <1>1, TheTurn DEF Inv, Top
<1>5. ASSUME w = Result(e), su = Advanced
      PROVE  /\ w = Written(v, st[n], e)
             /\ su = Onward(st)
  <2>1. Target = Turn(v, st[n]) /\ Counted = CountedIn(v, st[n])
    BY <1>1, TheTurn DEF Top
  <2>2. w = Written(v, st[n], e)
    BY <1>5, <2>1 DEF Written, Result
  <2>3. su = Onward(st)
    BY <1>1, <1>5 DEF Advanced, Below, Top, Onward
  <2> QED BY <2>2, <2>3
<1>6. ASSUME w = Result(e), su = Advanced
      PROVE  /\ Arranged(w, su) /\ Len(w) = Len(v) /\ Len(su) = n
             /\ Children(w, Turn(v, st[n])) = {}
             /\ \A i \in 1..n : /\ su[i].at # Turn(v, st[n]) /\ ~IsEmplacing(su[i])
                                /\ Turn(v, st[n]) \notin Waiting(w, su[i])
  <2>1. /\ w = Written(v, st[n], e)
        /\ su = Onward(st)
    BY <1>5, <1>6
  <2> QED BY <1>1, <1>4, <2>1, TurnOver
<1>7. Turn(v, st[n]) = Target
  BY <1>1, TheTurn DEF Top
<1> QED BY <1>1, <1>6, <1>7

\* The innermost call is about to enter one for the value of its turn.
LEMMA ReadyToEnter ==
  ASSUME Inv, AtField
  PROVE  /\ Arranged(Counted, Advanced) /\ Len(Advanced) = Len(stack)
         /\ Children(Counted, Target) = {}
         /\ \A i \in 1..Len(Advanced) :
              /\ Advanced[i].at # Target /\ ~IsEmplacing(Advanced[i])
              /\ Target \notin Waiting(Counted, Advanced[i])
<1>1. PICK e, c, x, su : e = ros_values_[Target] /\ c = Counted /\ x = Target /\ su = Advanced
  OBVIOUS
<1>5. e \in RosValue /\ Childless(e) /\ c[x] = e /\ c \in Seq(RosValue) /\ x \in 1..Len(c)
  BY <1>1, TheTurn
<1>6. c = [c EXCEPT ![x] = e]
  <2>1. \A j \in 1..Len(c) : [c EXCEPT ![x] = e][j] = c[j]
    BY <1>5, ExceptSeq
  <2>2. [c EXCEPT ![x] = e] \in Seq(RosValue) /\ Len([c EXCEPT ![x] = e]) = Len(c)
    BY <1>5, ExceptSeq
  <2> QED BY <2>1, <2>2, SeqEqual
<1>7. c = Result(e)
  BY <1>1, <1>6 DEF Result
<1>8. /\ Arranged(c, su) /\ Len(su) = Len(stack)
      /\ Children(c, Target) = {}
      /\ \A i \in 1..Len(su) : /\ su[i].at # Target /\ ~IsEmplacing(su[i])
                               /\ Target \notin Waiting(c, su[i])
  BY <1>1, <1>5, <1>7, ValueInitialised
<1> QED BY <1>1, <1>8

\* The turn writes e, and no other place behind the calls.
TurnWrites(w, e) ==
  \A p \in 1..Len(ros_values_) : w[p] = IF p = Target THEN e ELSE Counted[p]

LEMMA InitObjectKeeps ==
  ASSUME Inv, InitObject
  PROVE  /\ Arranged(ros_values_', stack') /\ Len(ros_values_') = Len(ros_values_)
         /\ TurnWrites(ros_values_',
              [type |-> "object", def |-> ros_values_[Target].def,
               children |-> [offset |-> Len(ros_values_) + 1, length |-> 0]])
<1>1. AtField /\ TargetType = "object"
  BY DEF InitObject
<1>2. PICK c, x, o, su, d :
       /\ c = Counted /\ x = Target /\ o = ros_values_offset_ /\ su = Advanced /\ d = Field.of
  OBVIOUS
<1>7. /\ c \in Seq(RosValue) /\ x \in 1..Len(c) /\ Len(c) = Len(ros_values_) /\ Len(c) \in Nat
      /\ c[x].type = "object" /\ d \in DefNames /\ o \in Nat /\ o = Len(c) + 1
  <2>1. ros_values_offset_ = Len(ros_values_) + 1
    BY DEF Inv, RestOK
  <2> QED BY <1>1, <1>2, <2>1, TheTurn DEF TargetType
<1>8. /\ Arranged(c, su) /\ Children(c, x) = {}
      /\ \A i \in 1..Len(su) : su[i].at # x /\ ~IsEmplacing(su[i]) /\ x \notin Waiting(c, su[i])
  BY <1>1, <1>2, ReadyToEnter
<1>9. PICK w : w = ros_values_'
  OBVIOUS
<1>10. PICK e : e = [type |-> "object", children |-> [offset |-> o, length |-> 0],
                     def |-> c[x].def]
  OBVIOUS
<1>11. w = [c EXCEPT ![x] = e] /\ e \in RosValue
  <2>1. /\ c[x].def \in DefNames
        /\ SetChildren(c, x, o, 0) =
             SetValue(c, x, [type |-> "object", children |-> [offset |-> o, length |-> 0],
                             def |-> c[x].def])
    <3>1. 0 \in Nat
      OBVIOUS
    <3> QED BY <1>7, <3>1, PlaceWritten, ZenonT(40)
  <2>2. w = SetChildren(c, x, o, 0)
    BY <1>2, <1>9 DEF InitObject, SetChildren
  <2>3. e \in RosValue
    BY <1>7, <1>10, <2>1, MakeValue
  <2> QED BY <1>10, <2>1, <2>2, <2>3 DEF SetValue
<1>12. /\ w \in Seq(RosValue) /\ Len(w) = Len(c) /\ \A p \in 1..Len(c) : p # x => w[p] = c[p]
       /\ w[x] = e
  <2>1. /\ [c EXCEPT ![x] = e] \in Seq(RosValue) /\ Len([c EXCEPT ![x] = e]) = Len(c)
        /\ \A j \in 1..Len(c) : [c EXCEPT ![x] = e][j] = IF j = x THEN e ELSE c[j]
    BY <1>7, <1>11, ExceptSeq
  <2> QED BY <1>11, <2>1
<1>13. e.type = "object" /\ e.children.offset = Len(c) + 1 /\ e.children.length = 0
  BY <1>7, <1>10
<1>14. Arranged(w, Append(su, ObjectFrame(x, d)))
  BY <1>7, <1>8, <1>12, <1>13, ObjectEntered
<1>15. stack' = Append(su, ObjectFrame(x, d))
  BY <1>2 DEF InitObject
<1>16. TurnWrites(w, [type |-> "object", def |-> ros_values_[Target].def,
                      children |-> [offset |-> Len(ros_values_) + 1, length |-> 0]])
  <2>1. c[x] = ros_values_[x]
    BY <1>1, <1>2, TheTurn
  <2>2. e = [type |-> "object", def |-> ros_values_[x].def,
             children |-> [offset |-> Len(ros_values_) + 1, length |-> 0]]
    BY <1>7, <1>10, <2>1
  <2> QED BY <1>2, <1>7, <1>12, <2>2 DEF TurnWrites
<1> QED BY <1>7, <1>9, <1>12, <1>14, <1>15, <1>16

LEMMA InitArrayKeeps ==
  ASSUME Inv, InitArray
  PROVE  /\ Arranged(ros_values_', stack') /\ Len(ros_values_') = Len(ros_values_) + ArrayLength
         /\ TurnWrites(ros_values_',
              [type |-> "array",
               children |-> [offset |-> Len(ros_values_) + 1, length |-> ArrayLength]])
<1>1. AtField /\ TargetType = "array" /\ (Dynamic => LengthThere)
  BY DEF InitArray
<1>2. PICK c, x, o, su, f, m :
       /\ c = Counted /\ x = Target /\ o = ros_values_offset_ /\ su = Advanced /\ f = Field
       /\ m = ArrayLength
  OBVIOUS
<1>7. /\ c \in Seq(RosValue) /\ x \in 1..Len(c) /\ Len(c) = Len(ros_values_) /\ Len(c) \in Nat
      /\ c[x].type = "array" /\ f \in Member /\ o \in Nat /\ o = Len(c) + 1 /\ m \in Nat
  <2>1. ros_values_offset_ = Len(ros_values_) + 1
    BY DEF Inv, RestOK
  <2>2. m \in Nat
    BY <1>1, <1>2, LengthRead
  <2> QED BY <1>1, <1>2, <2>1, <2>2, TheTurn DEF TargetType
<1>8. /\ Arranged(c, su) /\ Children(c, x) = {}
      /\ \A i \in 1..Len(su) : su[i].at # x /\ ~IsEmplacing(su[i]) /\ x \notin Waiting(c, su[i])
  BY <1>1, <1>2, ReadyToEnter
<1>9. PICK w, e, u, t :
       /\ w = ros_values_' /\ e = [type |-> "array", children |-> [offset |-> o, length |-> m]]
       /\ u = [c EXCEPT ![x] = e] /\ t = [k \in 1..m |-> NewElement(f)]
  OBVIOUS
<1>13. w = u \o t /\ e \in RosValue
  <2>1. SetChildren(c, x, o, m) =
          SetValue(c, x, [type |-> "array", children |-> [offset |-> o, length |-> m]])
    BY <1>7, PlaceWritten
  <2>2. w = SetChildren(c, x, o, m) \o t
    BY <1>2, <1>9, <1>9 DEF InitArray, SetChildren
  <2>3. e \in RosValue
    BY <1>7, <1>9, MakeValue
  <2> QED BY <1>9, <2>1, <2>2, <2>3 DEF SetValue
<1>14. /\ u \in Seq(RosValue) /\ Len(u) = Len(c) /\ \A p \in 1..Len(c) : p # x => u[p] = c[p]
       /\ u[x] = e
  <2>1. /\ [c EXCEPT ![x] = e] \in Seq(RosValue) /\ Len([c EXCEPT ![x] = e]) = Len(c)
        /\ \A j \in 1..Len(c) : [c EXCEPT ![x] = e][j] = IF j = x THEN e ELSE c[j]
    BY <1>7, <1>13, ExceptSeq
  <2> QED BY <1>9, <2>1
<1>15. t \in Seq(RosValue) /\ Len(t) = m /\ \A k \in 1..m : t[k] = NewElement(f)
  <2>1. NewElement(f) \in RosValue
    BY <1>7, ElementValue
  <2>2. t \in Seq(RosValue)
    BY <1>7, <1>9, <2>1
  <2>3. DOMAIN t = 1..m /\ \A k \in 1..m : t[k] = NewElement(f)
    BY <1>9
  <2>4. Len(t) \in Nat /\ DOMAIN t = 1..Len(t)
    BY LenProperties
  <2>5. Len(t) = m
    BY <1>7, <2>3, <2>4
  <2> QED BY <2>2, <2>3, <2>5
<1>16. /\ w \in Seq(RosValue) /\ Len(w) = Len(c) + m
       /\ \A p \in 1..Len(c) : w[p] = u[p]
       /\ \A k \in 1..m : w[Len(c) + k] = t[k]
  <2>1. /\ u \o t \in Seq(RosValue) /\ Len(u \o t) = Len(u) + Len(t)
        /\ \A i \in 1..Len(u)+Len(t) : (u \o t)[i] = IF i <= Len(u) THEN u[i] ELSE t[i - Len(u)]
    BY <1>14, <1>15, ConcatProperties
  <2>2. /\ w \in Seq(RosValue) /\ Len(w) = Len(c) + m
        /\ \A i \in 1..Len(c)+m : w[i] = IF i <= Len(c) THEN u[i] ELSE t[i - Len(c)]
    BY <1>13, <1>14, <1>15, <2>1
  <2>3. \A p \in 1..Len(c) : p \in 1..Len(c)+m /\ p <= Len(c)
    BY <1>7
  <2>4. \A k \in 1..m : /\ Len(c) + k \in 1..Len(c)+m /\ ~(Len(c) + k <= Len(c))
                        /\ Len(c) + k - Len(c) = k
    BY <1>7
  <2> QED BY <2>2, <2>3, <2>4
<1>17. /\ \A p \in 1..Len(c) : p # x => w[p] = c[p]
       /\ \A k \in 1..m : w[Len(c) + k] = NewElement(f)
       /\ w[x] = e
  BY <1>7, <1>14, <1>15, <1>16
<1>18. e.type = "array" /\ e.children.offset = Len(c) + 1 /\ e.children.length = m
  BY <1>7, <1>9
<1>19. Arranged(w, Append(su, ArrayFrame(x, f)))
  BY <1>7, <1>8, <1>16, <1>17, <1>18, ArrayEntered
<1>20. stack' = Append(su, ArrayFrame(x, f))
  BY <1>2 DEF InitArray
<1>21. TurnWrites(w, [type |-> "array",
                      children |-> [offset |-> Len(ros_values_) + 1, length |-> ArrayLength]])
  <2>1. e = [type |-> "array",
             children |-> [offset |-> Len(ros_values_) + 1, length |-> ArrayLength]]
    BY <1>7, <1>9, <1>2
  <2> QED BY <1>2, <1>7, <1>17, <2>1 DEF TurnWrites
<1> QED BY <1>7, <1>9, <1>16, <1>19, <1>20, <1>21, <1>2

\* A primitive, a string, or an array of primitives, of which o is the place.
LEMMA ScalarKeeps ==
  ASSUME Inv, AtField, stack' = Advanced, NEW o \in Nat, NEW l \in Nat,
         \/ /\ TargetType \in Primitives \cup {"string"}
            /\ ros_values_' = SetOffset(Counted, Target, o)
         \/ /\ TargetType = "primitive_array"
            /\ ros_values_' = SetBlob(Counted, Target, o, l)
  PROVE  /\ Arranged(ros_values_', stack') /\ Len(ros_values_') = Len(ros_values_)
         /\ TargetType \in Primitives \cup {"string"} =>
              TurnWrites(ros_values_', [type |-> TargetType, offset |-> o])
         /\ TargetType = "primitive_array" =>
              TurnWrites(ros_values_', [type |-> "primitive_array", offset |-> o, length |-> l,
                                        element_type |-> ros_values_[Target].element_type])
<1>1. PICK c, x : c = Counted /\ x = Target
  OBVIOUS
<1>3. c \in Seq(RosValue) /\ x \in 1..Len(c) /\ c[x].type = TargetType
  BY <1>1, TheTurn DEF TargetType
<1>4. PICK w, su : w = ros_values_' /\ su = stack'
  OBVIOUS
<1>0. ros_values_[x] = c[x] /\ Len(c) = Len(ros_values_)
  BY <1>1, TheTurn
<1>6. \E e \in RosValue :
        /\ Childless(e) /\ w = SetValue(c, x, e)
        /\ TargetType \in Primitives \cup {"string"} => e = [type |-> TargetType, offset |-> o]
        /\ TargetType = "primitive_array" =>
             e = [type |-> "primitive_array", offset |-> o, length |-> l,
                  element_type |-> ros_values_[x].element_type]
  <2>1. CASE /\ TargetType \in Primitives \cup {"string"}
             /\ ros_values_' = SetOffset(Counted, Target, o)
    <3>1. PICK e : e = [type |-> c[x].type, offset |-> o]
      OBVIOUS
    <3>2. e \in RosValue
      BY <1>3, <2>1, <3>1, MakeValue
    <3>3. Childless(e)
      <4>1. e.type = c[x].type /\ e.type \notin {"object", "array"}
        BY <1>3, <2>1, <3>1, DefinitionAssumption
      <4> QED BY <4>1 DEF Childless
    <3>4. SetOffset(c, x, o) = SetValue(c, x, [type |-> c[x].type, offset |-> o])
      BY <1>3, <2>1, PlaceWritten
    <3>5. w = SetValue(c, x, e)
      BY <1>1, <1>4, <2>1, <3>1, <3>4
    <3>6. TargetType # "primitive_array"
      BY <2>1, DefinitionAssumption
    <3> QED BY <1>3, <3>1, <3>2, <3>3, <3>5, <3>6
  <2>2. CASE /\ TargetType = "primitive_array"
             /\ ros_values_' = SetBlob(Counted, Target, o, l)
    <3>1. PICK e : e = [type |-> "primitive_array", element_type |-> c[x].element_type,
                        offset |-> o, length |-> l]
      OBVIOUS
    <3>2. /\ c[x].element_type \in Primitives
          /\ SetBlob(c, x, o, l) =
               SetValue(c, x, [type |-> "primitive_array", element_type |-> c[x].element_type,
                               offset |-> o, length |-> l])
      <4>1. c \in Seq(RosValue) /\ x \in 1..Len(c) /\ c[x].type = "primitive_array"
        BY <1>3, <2>2
      <4>2. c[x].element_type \in Primitives
        BY <4>1, PlaceWritten
      <4>3. SetBlob(c, x, o, l) =
               SetValue(c, x, [type |-> "primitive_array", element_type |-> c[x].element_type,
                               offset |-> o, length |-> l])
        BY <4>1, PlaceWritten
      <4> QED BY <4>2, <4>3
    <3>3. e \in RosValue
      BY <3>1, <3>2, MakeValue
    <3>4. Childless(e)
      BY <3>1 DEF Childless
    <3>5. w = SetValue(c, x, e)
      BY <1>1, <1>4, <2>2, <3>1, <3>2
    <3>6. TargetType \notin Primitives \cup {"string"}
      BY <2>2, DefinitionAssumption
    <3>7. e = [type |-> "primitive_array", offset |-> o, length |-> l,
               element_type |-> ros_values_[x].element_type]
      BY <1>0, <3>1
    <3> QED BY <3>3, <3>4, <3>5, <3>6, <3>7
  <2> QED BY <2>1, <2>2
<1>7. PICK e \in RosValue :
        /\ Childless(e) /\ w = SetValue(c, x, e)
        /\ TargetType \in Primitives \cup {"string"} => e = [type |-> TargetType, offset |-> o]
        /\ TargetType = "primitive_array" =>
             e = [type |-> "primitive_array", offset |-> o, length |-> l,
                  element_type |-> ros_values_[x].element_type]
  BY <1>6
<1>8. w = Result(e) /\ su = Advanced
  BY <1>1, <1>4, <1>7 DEF SetValue, Result
<1>9. Arranged(w, su) /\ Len(w) = Len(ros_values_)
  BY <1>7, <1>8, ValueInitialised
<1>10. TurnWrites(w, e)
  <2>1. \A p \in 1..Len(c) : [c EXCEPT ![x] = e][p] = IF p = x THEN e ELSE c[p]
    BY <1>7, ExceptSeq
  <2> QED BY <1>0, <1>1, <1>7, <2>1 DEF TurnWrites, SetValue
<1> QED BY <1>1, <1>4, <1>7, <1>9, <1>10

LEMMA InitPrimitiveKeeps ==
  ASSUME Inv, InitPrimitive
  PROVE  /\ Arranged(ros_values_', stack') /\ Len(ros_values_') = Len(ros_values_)
         /\ message_buffer_offset_' \in Nat \ {0}
<1>1. AtField /\ TargetType \in Primitives /\ stack' = Advanced
  BY DEF InitPrimitive
<1>2. message_buffer_offset_ \in Nat \ {0}
  BY <1>1 DEF Inv, RestOK, AtField, Initialising
<1>3. Field.type \in Primitives
  BY <1>1, TheTurn
<1>4. PrimitiveSize[Field.type] \in Nat
  BY <1>3, DefinitionAssumption
<1>5. message_buffer_offset_' \in Nat \ {0}
  BY <1>2, <1>4 DEF InitPrimitive
<1>6. ros_values_' = SetOffset(Counted, Target, message_buffer_offset_)
  BY DEF InitPrimitive, SetOffset
<1>7. 0 \in Nat /\ message_buffer_offset_ \in Nat
  BY <1>2
<1> QED BY <1>1, <1>5, <1>6, <1>7, ScalarKeeps

LEMMA InitStringKeeps ==
  ASSUME Inv, InitString
  PROVE  /\ Arranged(ros_values_', stack') /\ Len(ros_values_') = Len(ros_values_)
         /\ message_buffer_offset_' \in Nat \ {0}
<1>1. AtField /\ TargetType = "string" /\ stack' = Advanced /\ LengthThere
  BY DEF InitString
<1>2. Buffer[message_buffer_offset_] \in Nat /\ message_buffer_offset_ \in Nat \ {0}
  BY <1>1, LengthRead
<1>3. message_buffer_offset_' \in Nat \ {0}
  BY <1>2 DEF InitString, LengthSize
<1>4. ros_values_' = SetOffset(Counted, Target, message_buffer_offset_)
  BY DEF InitString, SetOffset
<1>5. 0 \in Nat /\ message_buffer_offset_ \in Nat
  BY <1>2
<1> QED BY <1>1, <1>3, <1>4, <1>5, ScalarKeeps

LEMMA InitPrimitiveArrayKeeps ==
  ASSUME Inv, InitPrimitiveArray
  PROVE  /\ Arranged(ros_values_', stack') /\ Len(ros_values_') = Len(ros_values_)
         /\ message_buffer_offset_' \in Nat \ {0}
<1>1. AtField /\ TargetType = "primitive_array" /\ stack' = Advanced /\ (Dynamic => LengthThere)
  BY DEF InitPrimitiveArray
<1>2. ArrayLength \in Nat /\ ElementsStart \in Nat \ {0}
  BY <1>1, LengthRead
<1>3. PrimitiveSize[Field.type] \in Nat
  <2>1. Field.type \in Primitives
    BY <1>1, TheTurn
  <2> QED BY <2>1, DefinitionAssumption
<1>4. message_buffer_offset_' \in Nat \ {0}
  <2>1. PICK a \in Nat, b \in Nat, o \in Nat \ {0} :
          a = ArrayLength /\ b = PrimitiveSize[Field.type] /\ o = ElementsStart
    BY <1>2, <1>3
  <2>2. a * b \in Nat
    OBVIOUS
  <2>3. o + a * b \in Nat \ {0}
    BY <2>2
  <2> QED BY <2>1, <2>3 DEF InitPrimitiveArray
<1>5. ros_values_' = SetBlob(Counted, Target, ElementsStart, ArrayLength)
  BY DEF InitPrimitiveArray, SetBlob
<1>6. ElementsStart \in Nat
  BY <1>2
<1> QED BY <1>1, <1>2, <1>4, <1>5, <1>6, ScalarKeeps

LEMMA EmplaceFieldKeeps ==
  ASSUME Inv, EmplaceField
  PROVE  /\ Arranged(ros_values_', stack') /\ ros_values_offset_' = Len(ros_values_') + 1
         /\ Appended(ros_values_, ros_values_', Top)
<1>1. PICK v, st, n, w, su, f :
       /\ v = ros_values_ /\ st = stack /\ n = Len(st) /\ w = ros_values_' /\ su = stack'
       /\ f = st[n]
  OBVIOUS
<1>7. /\ Arranged(v, st) /\ v \in Seq(RosValue) /\ st \in Seq(Frame) /\ st # <<>>
      /\ ros_values_offset_ = Len(v) + 1 /\ Len(v) \in Nat
  BY <1>1, LenProperties DEF Inv, RestOK, Arranged, EmplaceField, Emplacing
<1>8. n \in Nat \ {0} /\ f \in Frame
  <2>1. n \in Nat \ {0}
    BY <1>1, <1>7, EmptySeq, LenProperties
  <2>2. n \in 1..Len(st)
    BY <1>1, <2>1
  <2> QED BY <1>1, <1>7, <2>1, <2>2, ElementOfSeq
<1>9. f = Top /\ f.fn = "initObject" /\ f.loop = "emplace" /\ f.next <= Len(Definitions[f.def])
  BY <1>1 DEF EmplaceField, Emplacing, Top, MembersOf
<1>10. PICK m : m = Definitions[f.def][f.next]
  OBVIOUS
<1>11. m \in Member
  <2>1. f.next \in Nat \ {0}
    <3>1. n \in 1..Len(st)
      BY <1>1, <1>8
    <3>2. FrameOK(v, st[n])
      BY <1>7, <3>1, CallOf
    <3> QED BY <1>1, <3>2 DEF FrameOK
  <2>2. f.def \in DefNames /\ Len(Definitions[f.def]) \in Nat
    BY <1>8, <1>9, FrameForms, MembersAreCounted
  <2>3. f.next \in 1..Len(Definitions[f.def])
    BY <1>9, <2>1, <2>2
  <2> QED BY <1>10, <2>2, <2>3, MemberOf
<1>12. IF m.const THEN w = v /\ ros_values_offset_' = ros_values_offset_
       ELSE w = Append(v, NewField(m)) /\ ros_values_offset_' = ros_values_offset_ + 1
  BY <1>1, <1>9, <1>10 DEF EmplaceField, MembersOf
<1>13. w \in Seq(RosValue) /\ Appended(v, w, f) /\ ros_values_offset_' = Len(w) + 1
  <2>1. CASE m.const
    BY <1>7, <1>10, <1>12, <2>1 DEF Appended
  <2>2. CASE ~m.const
    <3>1. w = Append(v, NewField(m)) /\ ros_values_offset_' = ros_values_offset_ + 1
      BY <1>12, <2>2
    <3>2. /\ w \in Seq(RosValue) /\ Len(w) = Len(v) + 1 /\ \A p \in 1..Len(v) : w[p] = v[p]
          /\ w[Len(v) + 1] = NewField(m)
      BY <1>7, <1>11, <3>1, FieldAppended
    <3>3. Appended(v, w, f)
      BY <1>10, <2>2, <3>2 DEF Appended
    <3> QED BY <1>7, <3>1, <3>2, <3>3
  <2> QED BY <2>1, <2>2
<1>14. PICK g : g = [f EXCEPT !.next = @ + 1]
  OBVIOUS
<1>15. g \in Frame
  BY <1>8, <1>14, NextTurn
<1>16. su = Append(SubSeq(st, 1, n - 1), g)
  BY <1>1, <1>9, <1>14 DEF EmplaceField, Advanced, Below
<1>17. su \in Seq(Frame) /\ Len(su) = n /\ su[n] = g /\ \A i \in 1..n-1 : su[i] = st[i]
  BY <1>1, <1>7, <1>15, <1>16, TopReplaced
<1>18. Arranged(w, su)
  <2>1. IsEmplacing(st[n]) /\ st[n].next <= Len(Definitions[st[n].def]) /\ Appended(v, w, st[n])
    BY <1>1, <1>9, <1>13 DEF IsEmplacing
  <2>2. su[n] = [st[n] EXCEPT !.next = @ + 1]
    BY <1>1, <1>14, <1>17
  <2>3. /\ Arranged(v, st) /\ n \in Nat \ {0} /\ n = Len(st) /\ w \in Seq(RosValue)
        /\ su \in Seq(Frame) /\ Len(su) = n /\ \A i \in 1..n-1 : su[i] = st[i]
    BY <1>1, <1>7, <1>8, <1>13, <1>17
  <2> QED BY <2>1, <2>2, <2>3, EmplaceKeeps
<1> QED BY <1>1, <1>9, <1>13, <1>18

LEMMA AllEmplacedGoesOn ==
  ASSUME Inv, AllEmplaced
  PROVE  Arranged(ros_values_, stack')
<1>1. PICK v, st, n, su, f :
       /\ v = ros_values_ /\ st = stack /\ n = Len(st) /\ su = stack' /\ f = st[n]
  OBVIOUS
<1>7. Arranged(v, st) /\ st \in Seq(Frame) /\ st # <<>>
  BY <1>1 DEF Inv, Arranged, AllEmplaced, Emplacing
<1>8. n \in Nat \ {0} /\ f \in Frame
  <2>1. n \in Nat \ {0}
    BY <1>1, <1>7, EmptySeq, LenProperties
  <2>2. n \in 1..Len(st)
    BY <1>1, <2>1
  <2> QED BY <1>1, <1>7, <2>1, <2>2, ElementOfSeq
<1>9. f = Top /\ f.fn = "initObject" /\ f.loop = "emplace" /\ f.next > Len(Definitions[f.def])
  BY <1>1 DEF AllEmplaced, Emplacing, Top, MembersOf
<1>14. PICK g : g = Begun(f)
  OBVIOUS
<1>15. g \in Frame
  BY <1>8, <1>9, <1>14, LoopBegun
<1>16. su = Append(SubSeq(st, 1, n - 1), g)
  BY <1>1, <1>9, <1>14 DEF AllEmplaced, Below, Begun
<1>17. su \in Seq(Frame) /\ Len(su) = n /\ su[n] = g /\ \A i \in 1..n-1 : su[i] = st[i]
  BY <1>1, <1>7, <1>15, <1>16, TopReplaced
<1>18. Arranged(v, su)
  <2>1. IsEmplacing(st[n]) /\ st[n].next > Len(Definitions[st[n].def])
    BY <1>1, <1>9 DEF IsEmplacing
  <2>2. su[n] = Begun(st[n])
    BY <1>1, <1>14, <1>17
  <2> QED BY <1>1, <1>7, <1>8, <1>17, <2>1, <2>2, AllEmplacedKeeps
<1> QED BY <1>1, <1>18

LEMMA SkipConstantGoesOn ==
  ASSUME Inv, SkipConstant
  PROVE  Arranged(ros_values_, stack')
<1>1. PICK v, st, n, su, f :
       /\ v = ros_values_ /\ st = stack /\ n = Len(st) /\ su = stack' /\ f = st[n]
  OBVIOUS
<1>7. Arranged(v, st) /\ st \in Seq(Frame) /\ st # <<>>
  BY <1>1 DEF Inv, Arranged, SkipConstant, Initialising
<1>8. n \in Nat \ {0} /\ f \in Frame
  <2>1. n \in Nat \ {0}
    BY <1>1, <1>7, EmptySeq, LenProperties
  <2>2. n \in 1..Len(st)
    BY <1>1, <2>1
  <2> QED BY <1>1, <1>7, <2>1, <2>2, ElementOfSeq
<1>9. /\ f = Top /\ f.fn = "initObject" /\ ~IsEmplacing(f) /\ f.next <= Len(Definitions[f.def])
      /\ Definitions[f.def][f.next].const
  BY <1>1 DEF SkipConstant, Initialising, Emplacing, Turns, Top, MembersOf, IsEmplacing
<1>14. PICK g : g = [f EXCEPT !.next = @ + 1]
  OBVIOUS
<1>15. g \in Frame
  BY <1>8, <1>14, NextTurn
<1>16. su = Append(SubSeq(st, 1, n - 1), g)
  BY <1>1, <1>9, <1>14 DEF SkipConstant, Advanced, Below
<1>17. su \in Seq(Frame) /\ Len(su) = n /\ su[n] = g /\ \A i \in 1..n-1 : su[i] = st[i]
  BY <1>1, <1>7, <1>15, <1>16, TopReplaced
<1>18. Arranged(v, su)
  <2>1. /\ st[n].fn = "initObject" /\ ~IsEmplacing(st[n])
        /\ st[n].next <= Len(Definitions[st[n].def]) /\ Definitions[st[n].def][st[n].next].const
    BY <1>1, <1>9
  <2>2. su[n] = [st[n] EXCEPT !.next = @ + 1]
    BY <1>1, <1>14, <1>17
  <2> QED BY <1>1, <1>7, <1>8, <1>17, <2>1, <2>2, SkipKeeps
<1> QED BY <1>1, <1>18

LEMMA ReturnKeeps ==
  ASSUME Inv, Return
  PROVE  Arranged(ros_values_, stack')
<1>1. PICK v, st, n, su : v = ros_values_ /\ st = stack /\ n = Len(st) /\ su = stack'
  OBVIOUS
<1>5. Arranged(v, st) /\ st \in Seq(Frame) /\ st # <<>> /\ ~IsEmplacing(st[n])
  BY <1>1
  DEF Inv, Arranged, Return, Finished, Initialising, Emplacing, Top, IsEmplacing
<1>6. n \in Nat \ {0} /\ n \in 1..Len(st)
  BY <1>1, <1>5, EmptySeq, LenProperties
<1>7. st[n] \in Frame
  BY <1>5, <1>6, ElementOfSeq
<1>8. su = SubSeq(st, 1, n - 1)
  BY <1>1 DEF Return, Below
<1>9. su \in Seq(Frame) /\ Len(su) = n - 1 /\ \A i \in 1..n-1 : su[i] = st[i]
  <2>1. PICK su2 : su2 = Append(SubSeq(st, 1, n - 1), st[n])
    OBVIOUS
  <2> QED BY <1>1, <1>5, <1>7, <1>8, <2>1, TopReplaced
<1>10. Arranged(v, su)
  BY <1>1, <1>5, <1>6, <1>9, PopKeeps
<1> QED BY <1>1, <1>10

LEMMA HydrateKeeps ==
  ASSUME Inv, Hydrate
  PROVE  /\ Arranged(ros_values_', stack') /\ ros_values_offset_' = Len(ros_values_') + 1
         /\ message_buffer_offset_' \in Nat \ {0}
<1>1. PICK d : d = message.msg_def_
  OBVIOUS
<1>2. d \in DefNames /\ message_buffer_offset_' \in Nat \ {0}
  <2>1. message \in Messages
    BY DEF Inv, RestOK
  <2>2. message.raw_buffer_offset \in 1..Len(message.raw_buffer) + 1
    BY <2>1, MessageAssumption
  <2>3. Len(message.raw_buffer) \in Nat
    BY MessageAssumption, LenProperties
  <2> QED BY <1>1, <2>1, <2>2, <2>3, MessageAssumption DEF Hydrate
<1>3. PICK e : e = [type |-> "object", children |-> [offset |-> 2, length |-> 0], def |-> d]
  OBVIOUS
<1>4. e \in RosValue
  <2>1. 2 \in Nat /\ 0 \in Nat
    OBVIOUS
  <2> QED BY <1>2, <1>3, <2>1, MakeValue
<1>5. PICK v : v = <<e>>
  OBVIOUS
<1>6. v \in Seq(RosValue) /\ Len(v) = 1 /\ v[1] = e /\ DOMAIN v = 1..1
  BY <1>4, <1>5
<1>7. Children(v, 1) = {}
  BY <1>3, <1>6 DEF Children
<1>8. Apart(v)
  BY <1>6, <1>7 DEF Apart
<1>9. Arranged(v, <<>>)
  BY <1>6, <1>8, EmptySeq DEF Arranged, CallsApart, EmplacesLast
<1>a. PICK su : su = Append(<<>>, ObjectFrame(1, d))
  OBVIOUS
<1>10. Arranged(v, su)
  <2>1. 1 \in 1..Len(v) /\ \A p \in 1..Len(v) : p # 1 => v[p] = v[p]
    BY <1>6
  <2>2. v[1].type = "object" /\ v[1].children.offset = Len(v) + 1 /\ v[1].children.length = 0
    BY <1>3, <1>6
  <2>3. \A i \in 1..Len(<<>>) : FALSE
    BY EmptySeq
  <2> QED BY <1>2, <1>6, <1>7, <1>9, <1>a, <2>1, <2>2, <2>3, ObjectEntered
<1>11. stack' = su
  BY <1>1, <1>a DEF Hydrate
<1>12. ros_values_' = v /\ ros_values_offset_' = 2
  BY <1>1, <1>3, <1>5 DEF Hydrate
<1>13. Arranged(ros_values_', stack')
  BY <1>10, <1>11, <1>12
<1>14. ros_values_offset_' = Len(ros_values_') + 1
  <2>1. Len(v) + 1 = 2
    <3>1. Len(v) = 1
      BY <1>6
    <3> QED BY <3>1
  <2>2. ros_values_' = v /\ ros_values_offset_' = 2
    BY <1>12
  <2>3. Len(ros_values_') + 1 = 2
    BY <2>1, <2>2
  <2> QED BY <2>2, <2>3
<1> QED BY <1>2, <1>13, <1>14

----
(* The invariant. *)

LEMMA InitInv == Init => Inv
<1> SUFFICES ASSUME Init PROVE Inv
  OBVIOUS
<1>1. Arranged(ros_values_, stack)
  BY NothingArranged DEF Init
<1>2. data_ \in Seq(RosValue) /\ Apart(data_)
  <2>1. data_ = <<>> /\ Arranged(<<>>, <<>>)
    BY NothingArranged DEF Init
  <2> QED BY <2>1 DEF Arranged
<1>3. ros_values_offset_ = Len(ros_values_) + 1
  BY DEF Init
<1> QED BY <1>1, <1>2, <1>3 DEF Init, Inv, RestOK

LEMMA EndKeeps ==
  ASSUME NEW how \in {"thrown", "parsed"}, EndParse(how)
  PROVE  /\ Arranged(ros_values_', stack') /\ ros_values_offset_' = Len(ros_values_') + 1
         /\ message_buffer_offset_' \in Nat /\ stack' = <<>>
         /\ outcome' \in {"thrown", "parsed"} /\ message' = message
<1>1. ros_values_' = <<>> /\ stack' = <<>> /\ ros_values_offset_' = 1
  BY DEF EndParse
<1>2. Arranged(ros_values_', stack')
  BY <1>1, NothingArranged
<1>3. ros_values_offset_' = Len(ros_values_') + 1
  BY <1>1, EmptySeq
<1> QED BY <1>2, <1>3 DEF EndParse

LEMMA NextInv == Inv /\ [Next]_vars => Inv'
<1> SUFFICES ASSUME Inv, [Next]_vars
             PROVE  Inv'
  OBVIOUS
<1>0. /\ ros_values_offset_ = Len(ros_values_) + 1 /\ Arranged(ros_values_, stack)
      /\ stack # <<>> => message_buffer_offset_ \in Nat \ {0}
  BY DEF Inv, RestOK
<1>a. ASSUME Arranged(ros_values_', stack'), ros_values_offset_' = Len(ros_values_') + 1,
             message_buffer_offset_' \in Nat \ {0},
             UNCHANGED <<message, data_, parsed_>>, outcome' \in {outcome, "none"}
      PROVE  Inv'
  BY <1>a DEF Inv, RestOK
<1>b. ASSUME NEW how \in {"thrown", "parsed"}, EndParse(how),
             parsed_' \in BOOLEAN, data_' \in Seq(RosValue), Apart(data_')
      PROVE  Inv'
  BY <1>b, EndKeeps DEF Inv, RestOK
<1>1. ASSUME Hydrate PROVE Inv'
  BY <1>1, <1>a, HydrateKeeps DEF Hydrate
<1>2. ASSUME EmplaceField PROVE Inv'
  BY <1>0, <1>2, <1>a, EmplaceFieldKeeps DEF EmplaceField, Emplacing
<1>3. ASSUME AllEmplaced PROVE Inv'
  BY <1>0, <1>3, <1>a, AllEmplacedGoesOn DEF AllEmplaced, Emplacing
<1>4. ASSUME SkipConstant PROVE Inv'
  BY <1>0, <1>4, <1>a, SkipConstantGoesOn DEF SkipConstant, Initialising
<1>5. ASSUME InitObject PROVE Inv'
  BY <1>0, <1>5, <1>a, InitObjectKeeps DEF InitObject, AtField, Initialising
<1>6. ASSUME InitPrimitive PROVE Inv'
  BY <1>0, <1>6, <1>a, InitPrimitiveKeeps DEF InitPrimitive
<1>7. ASSUME InitString PROVE Inv'
  BY <1>0, <1>7, <1>a, InitStringKeeps DEF InitString
<1>8. ASSUME InitPrimitiveArray PROVE Inv'
  BY <1>0, <1>8, <1>a, InitPrimitiveArrayKeeps DEF InitPrimitiveArray
<1>9. ASSUME InitArray PROVE Inv'
  <2>1. Arranged(ros_values_', stack') /\ Len(ros_values_') = Len(ros_values_) + ArrayLength
    BY <1>9, InitArrayKeeps
  <2>2. ros_values_offset_' = Len(ros_values_') + 1
    <3>1. PICK a \in Nat, l \in Nat : a = ArrayLength /\ l = Len(ros_values_)
      BY <1>9, LengthRead, TheTurn DEF InitArray
    <3>2. ros_values_offset_' = (l + 1) + a /\ Len(ros_values_') = l + a
      BY <1>0, <1>9, <2>1, <3>1 DEF InitArray
    <3> QED BY <3>2
  <2> QED BY <1>9, <1>a, <2>1, <2>2, LengthRead DEF InitArray
<1>10. ASSUME ReadPastEnd PROVE Inv'
  BY <1>10, <1>b DEF ReadPastEnd, Throw, Inv, RestOK
<1>11. ASSUME Return PROVE Inv'
  BY <1>0, <1>11, <1>a, ReturnKeeps DEF Return, Finished, Initialising
<1>12. ASSUME Finish PROVE Inv'
  BY <1>0, <1>12, <1>b DEF Finish, Arranged
<1>13. ASSUME UNCHANGED vars PROVE Inv'
  BY <1>13 DEF vars, Inv, RestOK
<1> QED BY <1>1, <1>2, <1>3, <1>4, <1>5, <1>6, <1>7, <1>8, <1>9, <1>10, <1>11, <1>12, <1>13
        DEF Next, ParseStep

\* The invariant of the parser, of the vector it fills and the calls in progress.
THEOREM Invariance == Spec => []Inv
  BY InitInv, NextInv, PTL DEF Spec

\* The values and the calls in progress keep their types.
THEOREM TypeCorrect == Spec => []TypeOK
<1>1. Inv => TypeOK
  <2> SUFFICES ASSUME Inv PROVE TypeOK
    OBVIOUS
  <2>1. /\ ros_values_ \in Seq(RosValue) /\ stack \in Seq(Frame)
        /\ ros_values_offset_ = Len(ros_values_) + 1
    BY DEF Inv, RestOK, Arranged
  <2>2. ros_values_offset_ \in Nat \ {0}
    BY <2>1, LenProperties
  <2> QED BY <2>1, <2>2 DEF TypeOK, Inv, RestOK
<1> QED BY <1>1, Invariance, PTL

\* While the vector is filled, and in what data() returns, the children of a
\* value lie in the vector behind it, and no value has two parents, although
\* initObject and initArray hand the places out before the values are there.
THEOREM ChildrenStayApart == Spec => []ChildrenApart
<1>1. Inv => ChildrenApart
  BY DEF Inv, RestOK, Arranged, ChildrenApart
<1> QED BY <1>1, Invariance, PTL

----
(* Layouts. *)

\* One more step: of the layout of a buffer, of the tree of a vector, or of schemas.
LayStep(buf, n, L) == [part \in Part |-> IF n = 0 THEN Cut ELSE LayPart(L, buf, part)]
TreeStep(values, n, T) ==
  [v \in RosValue |-> IF n = 0 THEN <<>> ELSE WalkOnce(T, values, v)]
SchemaStep(n, S) ==
  [d \in DefNames |->
     IF n = 0 THEN NoFields
     ELSE [name \in FieldNames(d) |-> schemaForField(S, FieldNamed(d, name))]]
Step(what, x, n, L) ==
  IF what = "layout" THEN LayStep(x, n, L)
  ELSE IF what = "tree" THEN TreeStep(x, n, L) ELSE SchemaStep(n, L)

IsUnfoldedTo(what, x, n, L) == L = [m \in 0..n |-> Step(what, x, m, L[m - 1])]
IsUnfolded(what, x, L) == L = [n \in Nat |-> Step(what, x, n, L[n - 1])]

LEMMA Equations ==
  ASSUME NEW x
  PROVE  /\ Layout(x) = CHOOSE L : IsUnfolded("layout", x, L)
         /\ Tree(x) = CHOOSE L : IsUnfolded("tree", x, L)
         /\ generateSchema = CHOOSE L : IsUnfolded("schema", x, L)
<1>1. Layout(x) = CHOOSE L : IsUnfolded("layout", x, L)
  BY DEF Layout, IsUnfolded, Step, LayStep
<1>2. Tree(x) = CHOOSE L : IsUnfolded("tree", x, L)
  BY DEF Tree, IsUnfolded, Step, TreeStep
<1>3. generateSchema = CHOOSE L : IsUnfolded("schema", x, L)
  BY DEF generateSchema, IsUnfolded, Step, SchemaStep
<1> QED BY <1>1, <1>2, <1>3

\* The first step asks for none before it.
LEMMA FirstStep ==
  ASSUME NEW what, NEW x
  PROVE  \A X, Y : Step(what, x, 0, X) = Step(what, x, 0, Y)
<1>1. \A X, Y : LayStep(x, 0, X) = LayStep(x, 0, Y)
  BY DEF LayStep
<1>2. \A X, Y : TreeStep(x, 0, X) = TreeStep(x, 0, Y)
  BY DEF TreeStep
<1>3. \A X, Y : SchemaStep(0, X) = SchemaStep(0, Y)
  BY DEF SchemaStep
<1> QED BY <1>1, <1>2, <1>3 DEF Step

\* Of functions that go as far as n, there is one; and they agree.
LEMMA UnfoldedTo ==
  ASSUME NEW what, NEW x, NEW n \in Nat
  PROVE  \E L : IsUnfoldedTo(what, x, n, L)
<1> DEFINE N == {m \in Nat : \E L : IsUnfoldedTo(what, x, m, L)}
<1>1. 0 \in N
  <2> DEFINE L == [m \in 0..0 |-> Step(what, x, m, <<>>)]
  <2>1. \A X, Y : Step(what, x, 0, X) = Step(what, x, 0, Y)
    BY FirstStep
  <2>2. L = [m \in 0..0 |-> Step(what, x, m, L[m - 1])]
    BY <2>1
  <2> QED BY <2>2 DEF IsUnfoldedTo
<1>2. ASSUME NEW m \in Nat, m \in N
      PROVE  m + 1 \in N
  <2>1. PICK L : IsUnfoldedTo(what, x, m, L)
    BY <1>2
  <2> DEFINE K == [k \in 0..m+1 |-> IF k = m + 1 THEN Step(what, x, m + 1, L[m]) ELSE L[k]]
  <2>2. \A k \in 0..m+1 : K[k] = Step(what, x, k, K[k - 1])
    <3> TAKE k \in 0..m+1
    <3>1. CASE k = m + 1
      BY <3>1
    <3>2. CASE k = 0
      <4>1. L[0] = Step(what, x, 0, L[0 - 1])
        BY <2>1 DEF IsUnfoldedTo
      <4>2. \A X, Y : Step(what, x, 0, X) = Step(what, x, 0, Y)
        BY FirstStep
      <4> QED BY <3>2, <4>1, <4>2
    <3>3. CASE k # 0 /\ k # m + 1
      <4>1. k \in 0..m /\ k - 1 \in 0..m
        BY <3>3
      <4>2. L[k] = Step(what, x, k, L[k - 1])
        BY <2>1, <4>1 DEF IsUnfoldedTo
      <4>3. K[k] = L[k] /\ K[k - 1] = L[k - 1]
        BY <4>1
      <4> QED BY <4>2, <4>3
    <3> QED BY <3>2, <3>3
  <2>3. K = [k \in 0..m+1 |-> Step(what, x, k, K[k - 1])]
    <3>1. K = [k \in 0..m+1 |-> K[k]]
      OBVIOUS
    <3> HIDE DEF K
    <3> QED BY <2>2, <3>1
  <2>4. \E M : IsUnfoldedTo(what, x, m + 1, M)
    <3> HIDE DEF K
    <3> QED BY <2>3 DEF IsUnfoldedTo
  <2> QED BY <2>4
<1> HIDE DEF N
<1>3. \A m \in Nat : m \in N
  BY <1>1, <1>2, AllNaturals
<1> QED BY <1>3 DEF N

LEMMA UnfoldingsAgree ==
  ASSUME NEW what, NEW x, NEW n \in Nat, NEW k \in Nat, NEW L, IsUnfoldedTo(what, x, n, L),
         NEW M, IsUnfoldedTo(what, x, k, M)
  PROVE  \A m \in Nat : m <= n /\ m <= k => L[m] = M[m]
<1> DEFINE N == {m \in Nat : m <= n /\ m <= k => L[m] = M[m]}
<1>1. \A m \in Nat : /\ m <= n => L[m] = Step(what, x, m, L[m - 1])
                     /\ m <= k => M[m] = Step(what, x, m, M[m - 1])
  BY DEF IsUnfoldedTo
<1>2. 0 \in N
  <2>1. \A X, Y : Step(what, x, 0, X) = Step(what, x, 0, Y)
    BY FirstStep
  <2> QED BY <1>1, <2>1
<1>3. ASSUME NEW m \in Nat, m \in N
      PROVE  m + 1 \in N
  <2> SUFFICES ASSUME m + 1 <= n, m + 1 <= k PROVE L[m + 1] = M[m + 1]
    OBVIOUS
  <2>1. L[m] = M[m] /\ (m + 1) - 1 = m
    BY <1>3
  <2>2. L[m + 1] = Step(what, x, m + 1, L[(m + 1) - 1]) /\ M[m + 1] = Step(what, x, m + 1, M[(m + 1) - 1])
    BY <1>1
  <2> QED BY <2>1, <2>2
<1> HIDE DEF N
<1>4. \A m \in Nat : m \in N
  BY <1>2, <1>3, AllNaturals
<1> QED BY <1>4 DEF N

LEMMA Unfolds ==
  ASSUME NEW what, NEW x, NEW U, U = CHOOSE L : IsUnfolded(what, x, L)
  PROVE  \A n \in Nat : U[n] = Step(what, x, n, U[n - 1])
<1> DEFINE A(n) == CHOOSE L : IsUnfoldedTo(what, x, n, L)
           L == [n \in Nat |-> A(n)[n]]
<1>1. \A n \in Nat : IsUnfoldedTo(what, x, n, A(n))
  BY UnfoldedTo
<1> HIDE DEF A
<1>2. \A n \in Nat : L[n] = Step(what, x, n, L[n - 1])
  <2> TAKE n \in Nat
  <2>1. A(n)[n] = Step(what, x, n, A(n)[n - 1])
    BY <1>1 DEF IsUnfoldedTo
  <2>2. CASE n = 0
    <3>1. \A X, Y : Step(what, x, 0, X) = Step(what, x, 0, Y)
      BY FirstStep
    <3> QED BY <2>1, <2>2, <3>1
  <2>3. CASE n # 0
    <3>1. n - 1 \in Nat /\ n - 1 <= n
      BY <2>3
    <3>2. A(n)[n - 1] = A(n - 1)[n - 1]
      BY <1>1, <3>1, UnfoldingsAgree
    <3> QED BY <2>1, <3>1, <3>2
  <2> QED BY <2>2, <2>3
<1>3. IsUnfolded(what, x, L)
  <2>1. L = [n \in Nat |-> L[n]]
    OBVIOUS
  <2> HIDE DEF L
  <2> QED BY <1>2, <2>1 DEF IsUnfolded
<1>4. \E M : IsUnfolded(what, x, M)
  <2> HIDE DEF L
  <2> QED BY <1>3
<1>5. IsUnfolded(what, x, U)
  BY <1>4
<1> QED BY <1>5 DEF IsUnfolded

LEMMA LayoutIs ==
  ASSUME NEW buf
  PROVE  \A n \in Nat : Layout(buf)[n] = LayStep(buf, n, Layout(buf)[n - 1])
<1>1. \A n \in Nat : Layout(buf)[n] = Step("layout", buf, n, Layout(buf)[n - 1])
  BY Equations, Unfolds
<1> QED BY <1>1 DEF Step

LEMMA TreeIs ==
  ASSUME NEW values
  PROVE  \A n \in Nat : Tree(values)[n] = TreeStep(values, n, Tree(values)[n - 1])
<1>1. \A n \in Nat : Tree(values)[n] = Step("tree", values, n, Tree(values)[n - 1])
  BY Equations, Unfolds
<1> QED BY <1>1 DEF Step

LEMMA SchemaIs == \A n \in Nat : generateSchema[n] = SchemaStep(n, generateSchema[n - 1])
<1>1. PICK U, x : U = generateSchema /\ x = <<>>
  OBVIOUS
<1>2. U = CHOOSE L : IsUnfolded("schema", x, L)
  BY <1>1, Equations
<1>3. \A n \in Nat : U[n] = Step("schema", x, n, U[n - 1])
  BY <1>2, Unfolds
<1>4. \A n, S : Step("schema", x, n, S) = SchemaStep(n, S)
  BY DEF Step
<1> QED BY <1>1, <1>3, <1>4

----
\* What parts there are.
LEMMA Parts ==
  ASSUME NEW o \in Nat \ {0}
  PROVE  /\ \A f \in Member : Value(f, o) \in Part /\ Value(f, o).at = o
         /\ \A f \in Member, n \in Nat : Elements(f, n, o) \in Part /\ Elements(f, n, o).at = o
         /\ \A d \in DefNames, k \in Nat \ {0} :
              Members(d, k, o) \in Part /\ Members(d, k, o).at = o
BY DEF Part, Value, Elements, Members

LEMMA PartForms ==
  ASSUME NEW w \in Part
  PROVE  /\ w.at \in Nat \ {0}
         /\ \/ \E f \in Member : w = Value(f, w.at)
            \/ \E f \in Member, n \in Nat : w = Elements(f, n, w.at)
            \/ \E d \in DefNames, k \in Nat \ {0} : w = Members(d, k, w.at)
<1>1. CASE w \in [what : {"value"}, field : Member, at : Nat \ {0}]
  BY <1>1 DEF Value
<1>2. CASE w \in [what : {"elements"}, field : Member, n : Nat, at : Nat \ {0}]
  BY <1>2 DEF Elements
<1>3. CASE w \in [what : {"members"}, def : DefNames, k : Nat \ {0}, at : Nat \ {0}]
  BY <1>3 DEF Members
<1> QED BY <1>1, <1>2, <1>3 DEF Part

\* The part of a field, when its length is there.
LEMMA FieldParts ==
  ASSUME NEW buf \in Seq(Nat), NEW f \in Member, NEW o \in Nat \ {0},
         f.array = "dynamic" => o <= Len(buf)
  PROVE  /\ FieldPart(f, o, buf) \in Part /\ FieldPart(f, o, buf).at >= o
         /\ f.array = "none" => FieldPart(f, o, buf) = Value(f, o)
         /\ f.array = "fixed" => f.n \in Nat /\ FieldPart(f, o, buf) = Elements(f, f.n, o)
         /\ f.array = "dynamic" =>
              buf[o] \in Nat /\ FieldPart(f, o, buf) = Elements(f, buf[o], o + LengthSize)
<1>1. f.array \in {"none", "fixed", "dynamic"} /\ f.n \in Nat
  BY DEF Member
<1>2. f.array = "dynamic" => buf[o] \in Nat
  <2>1. Len(buf) \in Nat
    BY LenProperties
  <2> SUFFICES ASSUME f.array = "dynamic" PROVE buf[o] \in Nat
    OBVIOUS
  <2>2. o \in 1..Len(buf)
    BY <2>1
  <2> QED BY ElementOfSeq
<1>3. CASE f.array = "none"
  <2>1. FieldPart(f, o, buf) = Value(f, o)
    BY <1>3 DEF FieldPart
  <2> QED BY <1>3, <2>1, Parts DEF Value
<1>4. CASE f.array = "fixed"
  <2>1. FieldPart(f, o, buf) = Elements(f, f.n, o)
    BY <1>4 DEF FieldPart
  <2> QED BY <1>1, <1>4, <2>1, Parts DEF Elements
<1>5. CASE f.array = "dynamic"
  <2>1. FieldPart(f, o, buf) = Elements(f, buf[o], o + LengthSize)
    BY <1>5 DEF FieldPart
  <2>2. o + LengthSize \in Nat \ {0} /\ o + LengthSize >= o
    BY DEF LengthSize
  <2> QED BY <1>5, <2>1, <2>2, Parts DEF Elements
<1> QED BY <1>1, <1>3, <1>4, <1>5

LEMMA LayoutAt ==
  ASSUME NEW buf, NEW w \in Part
  PROVE  /\ Layout(buf)[0][w] = Cut
         /\ \A n \in Nat : Layout(buf)[n + 1][w] = LayPart(Layout(buf)[n], buf, w)
<1>1. Layout(buf)[0] = LayStep(buf, 0, Layout(buf)[0 - 1])
  BY LayoutIs
<1>2. Layout(buf)[0][w] = Cut
  BY <1>1 DEF LayStep
<1>3. ASSUME NEW n \in Nat
      PROVE  Layout(buf)[n + 1][w] = LayPart(Layout(buf)[n], buf, w)
  <2>1. n + 1 \in Nat /\ (n + 1) - 1 = n /\ n + 1 # 0
    OBVIOUS
  <2>2. Layout(buf)[n + 1] = LayStep(buf, n + 1, Layout(buf)[(n + 1) - 1])
    BY LayoutIs
  <2>3. Layout(buf)[n + 1] = LayStep(buf, n + 1, Layout(buf)[n])
    BY <2>2
  <2> QED BY <2>3 DEF LayStep
<1> QED BY <1>2, <1>3

LEMMA PartsLaid ==
  ASSUME NEW L, NEW buf, NEW f, NEW n, NEW d, NEW k, NEW o
  PROVE  /\ LayPart(L, buf, Value(f, o)) = LayValue(L, buf, f, o)
         /\ LayPart(L, buf, Elements(f, n, o)) = LayElements(L, f, n, o)
         /\ LayPart(L, buf, Members(d, k, o)) = LayMembers(L, buf, d, k, o)
BY DEF LayPart, Value, Elements, Members

\* A part is cut off, or laid out up to an end that does not lie before it.
Formed(r, o) == r = Cut \/ (\E e, t : r = Laid(e, t) /\ e \in Nat \ {0} /\ e >= o)

LEMMA Results ==
  /\ ~Cut.ok
  /\ \A e, t : Laid(e, t).ok = TRUE /\ Laid(e, t).end = e /\ Laid(e, t).tree = t
BY DEF Cut, Laid

LEMMA LaidForms ==
  ASSUME NEW o, NEW e \in Nat \ {0}, e >= o, NEW t
  PROVE  Formed(Laid(e, t), o)
BY DEF Formed

LEMMA CutForms == ASSUME NEW o PROVE Formed(Cut, o)
BY DEF Formed

LEMMA FormsOf ==
  ASSUME NEW r, NEW o \in Nat \ {0}, Formed(r, o)
  PROVE  r.ok => r = Laid(r.end, r.tree) /\ r.end \in Nat \ {0} /\ r.end >= o
<1>1. CASE r = Cut
  BY <1>1, Results
<1>2. CASE r # Cut
  <2>1. PICK e, t : r = Laid(e, t) /\ e \in Nat \ {0} /\ e >= o
    BY <1>2 DEF Formed
  <2>2. Laid(e, t).ok = TRUE /\ Laid(e, t).end = e /\ Laid(e, t).tree = t
    BY Results
  <2>3. r.end = e /\ r.tree = t
    BY <2>1, <2>2
  <2> QED BY <2>1, <2>3
<1> QED BY <1>1, <1>2

Forms(L) == \A w \in Part : Formed(L[w], w.at)

\* A part that is laid out, and what it consists of: a value,
LEMMA ValueLaid ==
  ASSUME NEW L, Forms(L), NEW buf \in Seq(Nat), NEW f \in Member, NEW o \in Nat \ {0},
         NEW r, r = LayValue(L, buf, f, o)
  PROVE  /\ Formed(r, o)
         /\ f.type = "object" => r = L[Members(f.of, 1, o)]
         /\ r.ok /\ f.type = "string" =>
              /\ o \in 1..Len(buf) /\ r.end = o + LengthSize + buf[o]
              /\ r.tree = LeafAt("string", o)
         /\ r.ok /\ f.type \in Primitives =>
              /\ r.end = o + PrimitiveSize[f.type] /\ r.tree = LeafAt(f.type, o)
<1>1. f.type \in Primitives \cup {"string", "object"} /\ f.of \in DefNames
  BY DEF Member, Type
<1>2. f.type \in Primitives => f.type \notin {"object", "string"}
  BY DefinitionAssumption
<1>3. CASE f.type = "object"
  <2>1. r = L[Members(f.of, 1, o)]
    BY <1>3 DEF LayValue
  <2>2. 1 \in Nat \ {0}
    OBVIOUS
  <2>3. Members(f.of, 1, o) \in Part /\ Members(f.of, 1, o).at = o
    BY <1>1, <2>2, Parts
  <2>4. Formed(L[Members(f.of, 1, o)], Members(f.of, 1, o).at)
    BY <2>3 DEF Forms
  <2> QED BY <1>2, <1>3, <2>1, <2>3, <2>4
<1>4. CASE f.type = "string"
  <2>1. r = IF o > Len(buf) THEN Cut
            ELSE Laid(o + LengthSize + buf[o], LeafAt("string", o))
    BY <1>4 DEF LayValue
  <2>2. Len(buf) \in Nat
    BY LenProperties
  <2>3. CASE o > Len(buf)
    BY <1>4, <2>1, <2>3, CutForms, Results
  <2>4. CASE ~(o > Len(buf))
    <3>1. o \in 1..Len(buf)
      BY <2>4
    <3>2. buf[o] \in Nat
      BY <3>1, ElementOfSeq
    <3>3. o + LengthSize + buf[o] \in Nat \ {0} /\ o + LengthSize + buf[o] >= o
      BY <3>2 DEF LengthSize
    <3>4. r = Laid(o + LengthSize + buf[o], LeafAt("string", o))
      BY <2>1, <2>4
    <3>5. Formed(r, o)
      BY <3>3, <3>4, LaidForms
    <3> QED BY <1>2, <1>4, <3>1, <3>4, <3>5, Results
  <2> QED BY <2>3, <2>4
<1>5. CASE f.type \in Primitives
  <2>1. f.type \notin {"object", "string"}
    BY <1>2, <1>5
  <2>2. r = Laid(o + PrimitiveSize[f.type], LeafAt(f.type, o))
    BY <2>1 DEF LayValue
  <2>3. PrimitiveSize[f.type] \in Nat
    BY <1>5, DefinitionAssumption
  <2>4. o + PrimitiveSize[f.type] \in Nat \ {0} /\ o + PrimitiveSize[f.type] >= o
    BY <2>3
  <2>5. Formed(r, o)
    BY <2>2, <2>4, LaidForms
  <2> QED BY <2>1, <2>2, <2>5, Results
<1> QED BY <1>1, <1>3, <1>4, <1>5

\* elements,
ElementFirst(L, f, n, o, r) ==
  \E e \in Nat \ {0} : LET first == L[Value(f, o)]
                        others == L[Elements(f, n - 1, e)] IN
    /\ e >= o /\ first.ok /\ first.end = e /\ others.ok /\ r.end = others.end
    /\ r.tree = <<first.tree>> \o others.tree

LEMMA ElementsLaid ==
  ASSUME NEW L, Forms(L), NEW f \in Member, NEW n \in Nat, NEW o \in Nat \ {0},
         NEW r, r = LayElements(L, f, n, o)
  PROVE  /\ Formed(r, o)
         /\ n = 0 => r.end = o /\ r.tree = <<>>
         /\ n # 0 /\ r.ok => ElementFirst(L, f, n, o, r)
<1> DEFINE first == L[Value(f, o)]
           others == L[Elements(f, n - 1, first.end)]
<1>1. CASE n = 0
  <2>1. r = Laid(o, <<>>)
    BY <1>1 DEF LayElements
  <2>2. o >= o
    OBVIOUS
  <2>3. Formed(r, o)
    BY <2>1, <2>2, LaidForms
  <2> QED BY <1>1, <2>1, <2>3, Results
<1>2. CASE n # 0 /\ first.ok /\ others.ok
  <2>1. r = Laid(others.end, <<first.tree>> \o others.tree)
    BY <1>2 DEF LayElements
  <2>2. Value(f, o) \in Part /\ Value(f, o).at = o
    BY Parts
  <2>3. Formed(first, o)
    BY <2>2 DEF Forms
  <2>4. first.end \in Nat \ {0} /\ first.end >= o
    BY <1>2, <2>3, FormsOf
  <2>5. n - 1 \in Nat
    BY <1>2
  <2>6. Elements(f, n - 1, first.end) \in Part /\ Elements(f, n - 1, first.end).at = first.end
    BY <2>4, <2>5, Parts
  <2>7. Formed(others, first.end)
    BY <2>6 DEF Forms
  <2>8. others.end \in Nat \ {0} /\ others.end >= first.end
    BY <1>2, <2>4, <2>7, FormsOf
  <2>9. others.end >= o
    BY <2>4, <2>8
  <2>10. Formed(r, o)
    <3> HIDE DEF first, others
    <3> QED BY <2>1, <2>8, <2>9, LaidForms
  <2>11. r.end = others.end /\ r.tree = <<first.tree>> \o others.tree
    <3> DEFINE tree == <<first.tree>> \o others.tree
    <3> HIDE DEF first, others, tree
    <3>1. r = Laid(others.end, tree)
      BY <2>1 DEF tree
    <3>2. r.end = others.end /\ r.tree = tree
      BY <3>1, Results
    <3> QED BY <3>2 DEF tree
  <2>12. ElementFirst(L, f, n, o, r)
    <3> DEFINE e == first.end
    <3>1. others = L[Elements(f, n - 1, e)]
      OBVIOUS
    <3> HIDE DEF others
    <3>2. e \in Nat \ {0} /\ e >= o /\ L[Value(f, o)].ok /\ L[Value(f, o)].end = e
      BY <1>2, <2>4
    <3>3. r.tree = <<L[Value(f, o)].tree>> \o others.tree
      BY <2>11
    <3> HIDE DEF first, e
    <3> QED BY <1>2, <2>11, <3>1, <3>2, <3>3 DEF ElementFirst
  <2> QED BY <1>2, <2>10, <2>12
<1>3. CASE n # 0 /\ ~(first.ok /\ others.ok)
  <2>1. r = Cut
    BY <1>3 DEF LayElements
  <2> QED BY <1>3, <2>1, CutForms, Results
<1> QED BY <1>1, <1>2, <1>3

\* the members of a definition.
FieldFirst(L, buf, d, k, o, r) ==
  /\ Definitions[d][k].array = "dynamic" => o <= Len(buf)
  /\ \E e \in Nat \ {0} : LET f == Definitions[d][k]
                           here == L[FieldPart(f, o, buf)]
                           behind == L[Members(d, k + 1, e)] IN
       /\ e >= o /\ here.ok /\ here.end = e /\ behind.ok /\ r.end = behind.end
       /\ r.tree = WithField(f.name, here.tree, behind.tree)

LEMMA MembersLaid ==
  ASSUME NEW L, Forms(L), NEW buf \in Seq(Nat), NEW d \in DefNames, NEW k \in Nat \ {0},
         NEW o \in Nat \ {0}, NEW r, r = LayMembers(L, buf, d, k, o)
  PROVE  /\ Formed(r, o)
         /\ k > Len(Definitions[d]) => r.end = o /\ r.tree = NoFields
         /\ k <= Len(Definitions[d]) /\ Definitions[d][k].const => r = L[Members(d, k + 1, o)]
         /\ k <= Len(Definitions[d]) /\ ~Definitions[d][k].const /\ r.ok =>
              FieldFirst(L, buf, d, k, o, r)
<1>1. Len(Definitions[d]) \in Nat
  BY MembersAreCounted
<1>2. CASE k > Len(Definitions[d])
  <2>1. r = Laid(o, NoFields)
    BY <1>2 DEF LayMembers
  <2>2. o >= o
    OBVIOUS
  <2>3. Formed(r, o)
    BY <2>1, <2>2, LaidForms
  <2>4. ~(k <= Len(Definitions[d]))
    BY <1>2
  <2> QED BY <2>1, <2>3, <2>4, Results
<1>3. CASE k <= Len(Definitions[d]) /\ Definitions[d][k].const
  <2>1. ~(k > Len(Definitions[d]))
    BY <1>3
  <2>2. r = L[Members(d, k + 1, o)]
    BY <1>3, <2>1 DEF LayMembers
  <2>3. k + 1 \in Nat \ {0}
    OBVIOUS
  <2>4. Members(d, k + 1, o) \in Part /\ Members(d, k + 1, o).at = o
    BY Parts
  <2>5. Formed(r, o)
    BY <2>2, <2>4 DEF Forms
  <2> QED BY <1>3, <2>1, <2>2, <2>5
<1>4. CASE k <= Len(Definitions[d]) /\ ~Definitions[d][k].const
  <2> DEFINE f == Definitions[d][k]
             cut == f.array = "dynamic" /\ o > Len(buf)
             here == IF cut THEN Cut ELSE L[FieldPart(f, o, buf)]
             behind == L[Members(d, k + 1, here.end)]
             tree == WithField(f.name, here.tree, behind.tree)
  <2>1. ~(k > Len(Definitions[d]))
    BY <1>4
  <2>2. r = IF here.ok /\ behind.ok THEN Laid(behind.end, tree) ELSE Cut
    BY <1>4, <2>1 DEF LayMembers
  <2>3. CASE here.ok /\ behind.ok
    <3>1. ~cut
      <4> SUFFICES ASSUME cut PROVE FALSE
        OBVIOUS
      <4>1. here = Cut
        OBVIOUS
      <4> QED BY <2>3, <4>1, Results
    <3>2. here = L[FieldPart(f, o, buf)]
      BY <3>1
    <3>3. f \in Member
      <4>1. k \in 1..Len(Definitions[d])
        BY <1>4
      <4> QED BY <4>1, MemberOf
    <3>4. f.array = "dynamic" => o <= Len(buf)
      <4>1. Len(buf) \in Nat
        BY LenProperties
      <4> QED BY <3>1, <4>1
    <3>5. FieldPart(f, o, buf) \in Part /\ FieldPart(f, o, buf).at >= o
          /\ FieldPart(f, o, buf).at \in Nat \ {0}
      <4> HIDE DEF f
      <4> QED BY <3>3, <3>4, FieldParts, PartForms
    <3>6. Formed(here, FieldPart(f, o, buf).at)
      BY <3>2, <3>5 DEF Forms
    <3> HIDE DEF here, f, cut
    <3>7. here.end \in Nat \ {0} /\ here.end >= FieldPart(f, o, buf).at
      BY <2>3, <3>5, <3>6, FormsOf
    <3>8. here.end >= o
      BY <3>5, <3>7
    <3>9. k + 1 \in Nat \ {0}
      OBVIOUS
    <3>10. Members(d, k + 1, here.end) \in Part /\ Members(d, k + 1, here.end).at = here.end
      BY <3>7, <3>9, Parts
    <3>11. Formed(behind, here.end)
      BY <3>10 DEF Forms
    <3> DEFINE e == here.end
    <3>12. behind = L[Members(d, k + 1, e)]
      OBVIOUS
    <3> HIDE DEF behind
    <3>13. behind.end \in Nat \ {0} /\ behind.end >= here.end
      BY <2>3, <3>7, <3>11, FormsOf
    <3>14. behind.end >= o
      BY <3>7, <3>8, <3>13
    <3>15. r = Laid(behind.end, tree)
      BY <2>2, <2>3
    <3> HIDE DEF tree
    <3>16. Formed(r, o)
      BY <3>13, <3>14, <3>15, LaidForms
    <3>17. r.end = behind.end /\ r.tree = tree
      BY <3>15, Results
    <3>18. e \in Nat \ {0} /\ e >= o /\ L[FieldPart(f, o, buf)].ok /\ L[FieldPart(f, o, buf)].end = e
      BY <2>3, <3>2, <3>7, <3>8
    <3>19. r.tree = WithField(f.name, L[FieldPart(f, o, buf)].tree, behind.tree)
      BY <3>2, <3>17 DEF tree
    <3> HIDE DEF e
    <3>20. FieldFirst(L, buf, d, k, o, r)
      BY <2>3, <3>4, <3>12, <3>17, <3>18, <3>19 DEF FieldFirst, f
    <3> QED BY <1>4, <2>1, <3>16, <3>20
  <2>4. CASE ~(here.ok /\ behind.ok)
    <3>1. r = Cut
      BY <2>2, <2>4
    <3> QED BY <1>4, <2>1, <3>1, CutForms, Results
  <2> QED BY <2>3, <2>4
<1> QED BY <1>2, <1>3, <1>4

LEMMA LayoutForms ==
  ASSUME NEW buf \in Seq(Nat)
  PROVE  \A n \in Nat : Forms(Layout(buf)[n])
<1> DEFINE N == {n \in Nat : Forms(Layout(buf)[n])}
<1>1. 0 \in N
  BY LayoutAt, CutForms DEF Forms
<1>2. ASSUME NEW n \in Nat, n \in N
      PROVE  n + 1 \in N
  <2>1. PICK L : L = Layout(buf)[n]
    OBVIOUS
  <2>2. Forms(L)
    BY <1>2, <2>1
  <2>3. ASSUME NEW w \in Part
        PROVE  Formed(LayPart(L, buf, w), w.at)
    <3>1. PICK o \in Nat \ {0} : o = w.at
      BY PartForms
    <3>2. ASSUME NEW f \in Member, w = Value(f, o)
          PROVE  Formed(LayPart(L, buf, w), o)
      <4>1. LayPart(L, buf, w) = LayValue(L, buf, f, o)
        BY <3>2, PartsLaid
      <4>2. Formed(LayValue(L, buf, f, o), o)
        BY <2>2, ValueLaid
      <4> QED BY <4>1, <4>2
    <3>3. ASSUME NEW f \in Member, NEW j \in Nat, w = Elements(f, j, o)
          PROVE  Formed(LayPart(L, buf, w), o)
      <4>1. LayPart(L, buf, w) = LayElements(L, f, j, o)
        BY <3>3, PartsLaid
      <4>2. Formed(LayElements(L, f, j, o), o)
        BY <2>2, ElementsLaid
      <4> QED BY <4>1, <4>2
    <3>4. ASSUME NEW d \in DefNames, NEW k \in Nat \ {0}, w = Members(d, k, o)
          PROVE  Formed(LayPart(L, buf, w), o)
      <4>1. LayPart(L, buf, w) = LayMembers(L, buf, d, k, o)
        BY <3>4, PartsLaid
      <4>2. Formed(LayMembers(L, buf, d, k, o), o)
        BY <2>2, MembersLaid
      <4> QED BY <4>1, <4>2
    <3> QED BY <3>1, <3>2, <3>3, <3>4, PartForms
  <2>4. \A w \in Part : Layout(buf)[n + 1][w] = LayPart(L, buf, w)
    BY <2>1, LayoutAt
  <2>5. Forms(Layout(buf)[n + 1])
    BY <2>3, <2>4 DEF Forms
  <2> QED BY <2>5
<1> HIDE DEF N
<1>3. \A n \in Nat : n \in N
  BY <1>1, <1>2, AllNaturals
<1> QED BY <1>3 DEF N

----
(* What the calls in progress have still to pass. *)

\* In n steps part w of buffer buf is found to end at e.
Lays(buf, n, w, e) ==
  n \in Nat /\ w \in Part /\ Layout(buf)[n][w].ok /\ Layout(buf)[n][w].end = e

\* The part that is left to a call, when offset o is reached.
Rest(v, f, o) ==
  IF f.fn = "initObject" THEN Members(f.def, IF f.loop = "emplace" THEN 1 ELSE f.next, o)
  ELSE Elements(f.field, v[f.at].children.length - f.next + 1, o)

\* The calls pass what is left to them one after the other, from offset o to
\* end e: g[i] is where call i begins, and h[i] in how many steps that is found.
Course(buf, v, st, o, e, g, h) ==
  /\ g \in [0..Len(st) -> Nat \ {0}] /\ h \in [1..Len(st) -> Nat]
  /\ g[0] = e /\ g[Len(st)] = o
  /\ \A i \in 1..Len(st) : Lays(buf, h[i], Rest(v, st[i], g[i]), g[i - 1])

\* A part that is found to end takes a step, and does not end before it begins.
LEMMA LaysInSteps ==
  ASSUME NEW buf \in Seq(Nat), NEW n, NEW w, NEW e, Lays(buf, n, w, e)
  PROVE  /\ n \in Nat \ {0} /\ n - 1 \in Nat /\ Forms(Layout(buf)[n - 1])
         /\ Layout(buf)[n][w] = LayPart(Layout(buf)[n - 1], buf, w)
         /\ e \in Nat \ {0} /\ w.at \in Nat \ {0} /\ e >= w.at
<1>1. n \in Nat /\ w \in Part /\ Layout(buf)[n][w].ok /\ Layout(buf)[n][w].end = e
  BY DEF Lays
<1>2. n # 0
  <2>1. Layout(buf)[0][w] = Cut
    BY <1>1, LayoutAt
  <2> QED BY <1>1, <2>1, Results
<1>3. n - 1 \in Nat /\ (n - 1) + 1 = n
  BY <1>1, <1>2
<1>4. Layout(buf)[n][w] = LayPart(Layout(buf)[n - 1], buf, w)
  BY <1>1, <1>3, LayoutAt
<1>5. Forms(Layout(buf)[n]) /\ Forms(Layout(buf)[n - 1])
  BY <1>3, LayoutForms
<1>6. Formed(Layout(buf)[n][w], w.at) /\ w.at \in Nat \ {0}
  BY <1>1, <1>5, PartForms DEF Forms
<1>7. e \in Nat \ {0} /\ e >= w.at
  BY <1>1, <1>6, FormsOf
<1> QED BY <1>2, <1>3, <1>4, <1>5, <1>6, <1>7

\* A call does not end before it begins; so what is left ends at e.
LEMMA CourseGoesOn ==
  ASSUME NEW buf \in Seq(Nat), NEW v, NEW st \in Seq(Frame), NEW o, NEW e, NEW g, NEW h,
         Course(buf, v, st, o, e, g, h)
  PROVE  o <= e /\ o \in Nat /\ e \in Nat
<1>1. Len(st) \in Nat
  BY LenProperties
<1>2. /\ g \in [0..Len(st) -> Nat \ {0}] /\ g[0] = e /\ g[Len(st)] = o
      /\ \A i \in 1..Len(st) : Lays(buf, h[i], Rest(v, st[i], g[i]), g[i - 1])
  BY DEF Course
<1>3. \A i \in 1..Len(st) : g[i] <= g[i - 1]
  <2> TAKE i \in 1..Len(st)
  <2>1. Rest(v, st[i], g[i]).at = g[i]
    BY DEF Rest, Members, Elements
  <2>2. g[i - 1] >= Rest(v, st[i], g[i]).at
    BY <1>2, LaysInSteps
  <2>3. i \in 0..Len(st) /\ i - 1 \in 0..Len(st)
    BY <1>1
  <2> QED BY <2>1, <2>2, <2>3
<1> DEFINE N == {i \in Nat : i <= Len(st) => g[i] <= e}
<1>4. 0 \in N
  BY <1>2
<1>5. ASSUME NEW i \in Nat, i \in N
      PROVE  i + 1 \in N
  <2> SUFFICES ASSUME i + 1 <= Len(st) PROVE g[i + 1] <= e
    OBVIOUS
  <2>1. i + 1 \in 1..Len(st) /\ i \in 0..Len(st) /\ i + 1 \in 0..Len(st) /\ (i + 1) - 1 = i
    BY <1>1
  <2>2. g[i + 1] <= g[i]
    BY <1>3, <2>1
  <2>3. g[i] <= e
    BY <1>5, <2>1
  <2>4. g[i] \in Nat /\ g[i + 1] \in Nat
    BY <1>2, <2>1
  <2>5. e \in Nat
    <3>1. 0 \in 0..Len(st)
      BY <1>1
    <3> QED BY <1>2, <3>1
  <2> QED BY <2>2, <2>3, <2>4, <2>5
<1> HIDE DEF N
<1>6. \A i \in Nat : i \in N
  BY <1>4, <1>5, AllNaturals
<1>7. o <= e
  BY <1>2, <1>6 DEF N
<1>8. 0 \in 0..Len(st) /\ Len(st) \in 0..Len(st)
  BY <1>1
<1> QED BY <1>2, <1>7, <1>8

\* What is left to the calls stays the same when the lengths of the arrays do,
\* and the calls go on without passing anything.
LEMMA CourseKept ==
  ASSUME NEW buf, NEW v, NEW w, NEW st, NEW su, NEW o, NEW e, NEW g, NEW h,
         Course(buf, v, st, o, e, g, h), Len(su) = Len(st),
         \A i \in 1..Len(st) : \A x : Rest(w, su[i], x) = Rest(v, st[i], x)
  PROVE  Course(buf, w, su, o, e, g, h)
BY DEF Course

\* The part of a turn, at offset o.
TurnPart(buf, f, o) ==
  IF f.fn = "initObject" THEN FieldPart(Definitions[f.def][f.next], o, buf) ELSE Value(f.field, o)

\* How the tree of what is left consists of that of the turn and the others.
Composed(f, t, here, behind) ==
  IF f.fn = "initObject" THEN t = WithField(Definitions[f.def][f.next].name, here, behind)
  ELSE t = <<here>> \o behind

LEMMA TurnLaid ==
  ASSUME NEW buf \in Seq(Nat), NEW v \in Seq(RosValue), NEW f \in Frame, FrameOK(v, f), AtTurn(v, f),
         NEW n, NEW o \in Nat \ {0}, NEW e, Lays(buf, n, Rest(v, f, o), e)
  PROVE  /\ n - 1 \in Nat
         /\ f.fn = "initObject" /\ Definitions[f.def][f.next].array = "dynamic" => o <= Len(buf)
         /\ \E m \in Nat \ {0} :
              /\ Lays(buf, n - 1, TurnPart(buf, f, o), m)
              /\ Lays(buf, n - 1, Rest(v, Stepped(f), m), e)
              /\ Composed(f, Layout(buf)[n][Rest(v, f, o)].tree,
                          Layout(buf)[n - 1][TurnPart(buf, f, o)].tree,
                          Layout(buf)[n - 1][Rest(v, Stepped(f), m)].tree)
<1>1. PICK L, r : L = Layout(buf)[n - 1] /\ r = Layout(buf)[n][Rest(v, f, o)]
  OBVIOUS
<1>3. /\ n \in Nat \ {0} /\ n - 1 \in Nat /\ Forms(L) /\ r = LayPart(L, buf, Rest(v, f, o))
      /\ r.ok /\ r.end = e
  BY <1>1, LaysInSteps DEF Lays
<1>4. f.next \in Nat \ {0}
  BY DEF FrameOK
<1>5. PICK s : s = Stepped(f)
  OBVIOUS
<1>6. /\ s \in Frame /\ s.fn = f.fn /\ s.at = f.at /\ s.next = f.next + 1
      /\ f.fn = "initObject" => s.def = f.def /\ s.loop = f.loop
      /\ f.fn = "initArray" => s.field = f.field
  BY <1>5, NextTurn DEF Stepped
<1>7. CASE f.fn = "initObject"
  <2>1. f.def \in DefNames /\ f.loop # "emplace" /\ f.next <= Len(Definitions[f.def])
        /\ ~Definitions[f.def][f.next].const
    BY <1>7, FrameForms DEF AtTurn, IsEmplacing
  <2> DEFINE d == f.def
             k == f.next
             fd == Definitions[d][k]
  <2>2. Rest(v, f, o) = Members(d, k, o)
    BY <1>7, <2>1 DEF Rest
  <2>3. r = LayMembers(L, buf, d, k, o)
    BY <1>3, <2>2, PartsLaid
  <2>4. FieldFirst(L, buf, d, k, o, r)
    BY <1>3, <1>4, <2>1, <2>3, MembersLaid
  <2>5. fd.array = "dynamic" => o <= Len(buf)
    BY <2>4 DEF FieldFirst
  <2>6. PICK m \in Nat \ {0} :
          /\ L[FieldPart(fd, o, buf)].ok /\ L[FieldPart(fd, o, buf)].end = m
          /\ L[Members(d, k + 1, m)].ok /\ r.end = L[Members(d, k + 1, m)].end
          /\ r.tree = WithField(fd.name, L[FieldPart(fd, o, buf)].tree, L[Members(d, k + 1, m)].tree)
    BY <2>4 DEF FieldFirst
  <2>7. fd \in Member
    <3>1. Len(Definitions[d]) \in Nat
      BY MembersAreCounted
    <3>2. k \in 1..Len(Definitions[d])
      BY <1>4, <2>1, <3>1
    <3> QED BY <2>1, <3>2, MemberOf
  <2>8. FieldPart(fd, o, buf) \in Part
    BY <2>5, <2>7, FieldParts
  <2>9. Members(d, k + 1, m) \in Part
    <3>1. k + 1 \in Nat \ {0}
      BY <1>4
    <3> QED BY <2>1, <3>1, Parts
  <2>10. TurnPart(buf, f, o) = FieldPart(fd, o, buf) /\ Rest(v, s, m) = Members(d, k + 1, m)
    BY <1>6, <1>7, <2>1 DEF TurnPart, Rest
  <2>11. Lays(buf, n - 1, TurnPart(buf, f, o), m)
    BY <1>1, <1>3, <2>6, <2>8, <2>10 DEF Lays
  <2>12. Lays(buf, n - 1, Rest(v, s, m), e)
    BY <1>1, <1>3, <2>6, <2>9, <2>10 DEF Lays
  <2>13. Composed(f, r.tree, L[TurnPart(buf, f, o)].tree, L[Rest(v, s, m)].tree)
    BY <1>7, <2>6, <2>10 DEF Composed
  <2> QED BY <1>1, <1>3, <1>5, <2>5, <2>11, <2>12, <2>13
<1>8. CASE f.fn = "initArray"
  <2>1. f.field \in Member /\ f.next <= v[f.at].children.length /\ v[f.at].children.length \in Nat
    <3>1. Places(v, f) \in Nat
      BY OwnPlaces
    <3> QED BY <1>8, <3>1, FrameForms DEF AtTurn, Places
  <2>0. PICK j : j = v[f.at].children.length - f.next + 1
    OBVIOUS
  <2> DEFINE fd == f.field
  <2>2. Rest(v, f, o) = Elements(fd, j, o)
    BY <1>8, <2>0 DEF Rest
  <2>3. j \in Nat /\ j # 0 /\ j - 1 \in Nat
    BY <1>4, <2>0, <2>1
  <2>4. r = LayElements(L, fd, j, o)
    <3>1. LayPart(L, buf, Elements(fd, j, o)) = LayElements(L, fd, j, o)
      BY PartsLaid
    <3> QED BY <1>3, <2>2, <3>1
  <2>5. PICK m \in Nat \ {0} :
          /\ L[Value(fd, o)].ok /\ L[Value(fd, o)].end = m
          /\ L[Elements(fd, j - 1, m)].ok /\ r.end = L[Elements(fd, j - 1, m)].end
          /\ r.tree = <<L[Value(fd, o)].tree>> \o L[Elements(fd, j - 1, m)].tree
    <3>1. ElementFirst(L, fd, j, o, r)
      BY <1>3, <2>1, <2>3, <2>4, ElementsLaid
    <3> QED BY <3>1 DEF ElementFirst
  <2>6. Value(fd, o) \in Part /\ Elements(fd, j - 1, m) \in Part
    BY <2>1, <2>3, Parts
  <2>7. TurnPart(buf, f, o) = Value(fd, o)
    BY <1>8 DEF TurnPart
  <2>8. Rest(v, s, m) = Elements(fd, j - 1, m)
    <3>1. v[s.at].children.length - s.next + 1 = j - 1
      BY <1>4, <1>6, <2>0, <2>1
    <3> QED BY <1>6, <1>8, <3>1 DEF Rest
  <2>9. Lays(buf, n - 1, TurnPart(buf, f, o), m)
    BY <1>1, <1>3, <2>5, <2>6, <2>7 DEF Lays
  <2>10. Lays(buf, n - 1, Rest(v, s, m), e)
    BY <1>1, <1>3, <2>5, <2>6, <2>8 DEF Lays
  <2>11. Composed(f, r.tree, L[TurnPart(buf, f, o)].tree, L[Rest(v, s, m)].tree)
    BY <1>8, <2>5, <2>7, <2>8 DEF Composed
  <2> QED BY <1>1, <1>3, <1>5, <1>8, <2>9, <2>10, <2>11
<1> QED BY <1>7, <1>8, FrameForms

\* The arrays that are visited keep their lengths.
SameLengths(v, w, st) ==
  \A i \in 1..Len(st) : st[i].fn = "initArray" =>
    w[st[i].at].children.length = v[st[i].at].children.length

LEMMA RestKept ==
  ASSUME NEW v, NEW w, NEW st, SameLengths(v, w, st), NEW i \in 1..Len(st), st[i] \in Frame, NEW x
  PROVE  Rest(w, st[i], x) = Rest(v, st[i], x)
BY FrameForms DEF SameLengths, Rest

\* After a turn, the innermost call goes on where the part of the turn ends.
Passed(buf, v, w, st, su, o, e, g, h, n, m) ==
  /\ n = Len(st) /\ h[n] - 1 \in Nat /\ m \in Nat \ {0}
  /\ Lays(buf, h[n] - 1, TurnPart(buf, st[n], o), m)
  /\ Course(buf, w, su, m, e, [g EXCEPT ![n] = m], [h EXCEPT ![n] = h[n] - 1])
  /\ Composed(st[n], Layout(buf)[h[n]][Rest(v, st[n], o)].tree,
              Layout(buf)[h[n] - 1][TurnPart(buf, st[n], o)].tree,
              Layout(buf)[h[n] - 1][Rest(v, Stepped(st[n]), m)].tree)

LEMMA CourseTurn ==
  ASSUME NEW buf \in Seq(Nat), NEW v, NEW st, Arranged(v, st), NEW n \in Nat \ {0}, n = Len(st),
         AtTurn(v, st[n]), NEW w, SameLengths(v, w, st), NEW su, su = Onward(st),
         NEW o \in Nat \ {0}, NEW e, NEW g, NEW h, Course(buf, v, st, o, e, g, h)
  PROVE  /\ st[n].fn = "initObject" /\ Definitions[st[n].def][st[n].next].array = "dynamic" =>
              o <= Len(buf)
         /\ \E m : Passed(buf, v, w, st, su, o, e, g, h, n, m)
<1>1. v \in Seq(RosValue) /\ st \in Seq(Frame) /\ st # <<>>
  BY DEF Arranged
<1>2. n \in 1..n
  OBVIOUS
<1>3. PICK f : f = st[n]
  OBVIOUS
<1>4. f \in Frame /\ FrameOK(v, f) /\ AtTurn(v, f)
  BY <1>2, <1>3, CallOf
<1>5. /\ g \in [0..n -> Nat \ {0}] /\ h \in [1..n -> Nat] /\ g[0] = e /\ g[n] = o
      /\ \A i \in 1..n : Lays(buf, h[i], Rest(v, st[i], g[i]), g[i - 1])
  BY DEF Course
<1>6. Lays(buf, h[n], Rest(v, f, o), g[n - 1])
  BY <1>3, <1>5
<1>7. /\ h[n] - 1 \in Nat
      /\ f.fn = "initObject" /\ Definitions[f.def][f.next].array = "dynamic" => o <= Len(buf)
      /\ \E m \in Nat \ {0} :
           /\ Lays(buf, h[n] - 1, TurnPart(buf, f, o), m)
           /\ Lays(buf, h[n] - 1, Rest(v, Stepped(f), m), g[n - 1])
           /\ Composed(f, Layout(buf)[h[n]][Rest(v, f, o)].tree,
                       Layout(buf)[h[n] - 1][TurnPart(buf, f, o)].tree,
                       Layout(buf)[h[n] - 1][Rest(v, Stepped(f), m)].tree)
  BY <1>1, <1>4, <1>6, TurnLaid
<1>8. PICK m \in Nat \ {0} :
        /\ Lays(buf, h[n] - 1, TurnPart(buf, f, o), m)
        /\ Lays(buf, h[n] - 1, Rest(v, Stepped(f), m), g[n - 1])
        /\ Composed(f, Layout(buf)[h[n]][Rest(v, f, o)].tree,
                    Layout(buf)[h[n] - 1][TurnPart(buf, f, o)].tree,
                    Layout(buf)[h[n] - 1][Rest(v, Stepped(f), m)].tree)
  BY <1>7
<1>9. PICK s : s = Stepped(f)
  OBVIOUS
<1>10. /\ s \in Frame /\ s.fn = f.fn /\ s.at = f.at /\ s.next = f.next + 1
       /\ f.fn = "initObject" => s.def = f.def /\ s.loop = f.loop
       /\ f.fn = "initArray" => s.field = f.field
  BY <1>4, <1>9, NextTurn DEF Stepped
<1>11. su = Append(SubSeq(st, 1, n - 1), s)
  BY <1>3, <1>9 DEF Onward, Stepped
<1>12. su \in Seq(Frame) /\ Len(su) = n /\ su[n] = s /\ \A i \in 1..n-1 : su[i] = st[i]
  BY <1>1, <1>10, <1>11, TopReplaced
<1>13. PICK G, H : G = [g EXCEPT ![n] = m] /\ H = [h EXCEPT ![n] = h[n] - 1]
  OBVIOUS
<1>15. /\ G \in [0..n -> Nat \ {0}] /\ G[n] = m /\ G[0] = e /\ G[n - 1] = g[n - 1]
       /\ \A i \in 1..n-1 : G[i] = g[i] /\ G[i - 1] = g[i - 1]
  BY <1>5, <1>13
<1>16. H \in [1..n -> Nat] /\ H[n] = h[n] - 1 /\ \A i \in 1..n-1 : H[i] = h[i]
  BY <1>5, <1>7, <1>13
<1>17. \A i \in 1..n : Lays(buf, H[i], Rest(w, su[i], G[i]), G[i - 1])
  <2> TAKE i \in 1..n
  <2>1. CASE i = n
    <3>1. Rest(w, s, m) = Rest(v, s, m)
      <4>1. f.fn = "initArray" => w[f.at].children.length = v[f.at].children.length
        BY <1>3 DEF SameLengths
      <4> QED BY <1>10, <4>1, FrameForms DEF Rest
    <3> QED BY <1>8, <1>9, <1>12, <1>15, <1>16, <2>1, <3>1
  <2>2. CASE i # n
    <3>1. i \in 1..n-1 /\ i \in 1..Len(st) /\ st[i] \in Frame
      BY <2>2, CallOf
    <3>2. Rest(w, st[i], G[i]) = Rest(v, st[i], G[i])
      BY <3>1, RestKept
    <3> QED BY <1>5, <1>12, <1>15, <1>16, <3>1, <3>2
  <2> QED BY <2>1, <2>2
<1>18. Course(buf, w, su, m, e, G, H)
  BY <1>12, <1>15, <1>16, <1>17 DEF Course
<1>19. Passed(buf, v, w, st, su, o, e, g, h, n, m)
  <2>1. h[n] - 1 \in Nat
    BY <1>7
  <2>2. Course(buf, w, su, m, e, [g EXCEPT ![n] = m], [h EXCEPT ![n] = h[n] - 1])
    BY <1>13, <1>18
  <2> QED BY <1>3, <1>8, <2>1, <2>2 DEF Passed
<1> QED BY <1>3, <1>7, <1>19

\* A call is entered that has to pass up to where the others go on,
LEMMA CourseEntered ==
  ASSUME NEW buf, NEW w, NEW su \in Seq(Frame), NEW m, NEW e, NEW g, NEW h,
         Course(buf, w, su, m, e, g, h), NEW f \in Frame, NEW k \in Nat, NEW o \in Nat \ {0},
         Lays(buf, k, Rest(w, f, o), m), NEW n, n = Len(su)
  PROVE  Course(buf, w, Append(su, f), o, e,
                [i \in 0..n+1 |-> IF i = n + 1 THEN o ELSE g[i]],
                [i \in 1..n+1 |-> IF i = n + 1 THEN k ELSE h[i]])
<1>1. n \in Nat
  BY LenProperties
<1>2. PICK st : st = Append(su, f)
  OBVIOUS
<1>3. Len(st) = n + 1 /\ st[n + 1] = f /\ \A i \in 1..n : st[i] = su[i]
  BY <1>2, AppendProperties
<1>4. /\ g \in [0..n -> Nat \ {0}] /\ h \in [1..n -> Nat] /\ g[0] = e /\ g[n] = m
      /\ \A i \in 1..n : Lays(buf, h[i], Rest(w, su[i], g[i]), g[i - 1])
  BY DEF Course
<1>5. PICK G, H :
       /\ G = [i \in 0..n+1 |-> IF i = n + 1 THEN o ELSE g[i]]
       /\ H = [i \in 1..n+1 |-> IF i = n + 1 THEN k ELSE h[i]]
  OBVIOUS
<1>7. G \in [0..n+1 -> Nat \ {0}] /\ G[n + 1] = o /\ G[0] = e /\ \A i \in 0..n : G[i] = g[i]
  BY <1>4, <1>5
<1>8. H \in [1..n+1 -> Nat] /\ H[n + 1] = k /\ \A i \in 1..n : H[i] = h[i]
  BY <1>4, <1>5
<1>9. \A i \in 1..n+1 : Lays(buf, H[i], Rest(w, st[i], G[i]), G[i - 1])
  <2> TAKE i \in 1..n+1
  <2>1. CASE i = n + 1
    <3>1. i - 1 = n /\ n \in 0..n
      BY <2>1
    <3>2. G[i - 1] = m
      BY <1>4, <1>7, <3>1
    <3> QED BY <1>3, <1>7, <1>8, <2>1, <3>2
  <2>2. CASE i # n + 1
    <3>1. i \in 1..n /\ i \in 0..n /\ i - 1 \in 0..n
      BY <2>2
    <3> QED BY <1>3, <1>4, <1>7, <1>8, <3>1
  <2> QED BY <2>1, <2>2
<1>10. Course(buf, w, st, o, e, G, H)
  BY <1>3, <1>7, <1>8, <1>9 DEF Course
<1> QED BY <1>2, <1>5, <1>10

\* The course of the calls below the n-th one.
Ends(g, n) == [i \in 0..n-1 |-> g[i]]
Fewer(h, n) == [i \in 1..n-1 |-> h[i]]

\* A call returns when it has passed its part.
LEMMA CourseReturned ==
  ASSUME NEW buf \in Seq(Nat), NEW v, NEW st, Arranged(v, st), NEW n \in Nat \ {0}, n = Len(st),
         ~IsEmplacing(st[n]),
         st[n].fn = "initObject" => st[n].next > Len(Definitions[st[n].def]),
         st[n].fn = "initArray" => st[n].next > v[st[n].at].children.length,
         NEW o \in Nat \ {0}, NEW e, NEW g, NEW h, Course(buf, v, st, o, e, g, h)
  PROVE  /\ g[n - 1] = o
         /\ Course(buf, v, SubSeq(st, 1, n - 1), o, e, Ends(g, n), Fewer(h, n))
         /\ st[n].fn = "initObject" => Layout(buf)[h[n]][Rest(v, st[n], o)].tree = NoFields
         /\ st[n].fn = "initArray" => Layout(buf)[h[n]][Rest(v, st[n], o)].tree = <<>>
<1>1. v \in Seq(RosValue) /\ st \in Seq(Frame) /\ st # <<>>
  BY DEF Arranged
<1>2. n \in 1..n
  OBVIOUS
<1>3. PICK f : f = st[n]
  OBVIOUS
<1>4. f \in Frame /\ FrameOK(v, f) /\ ~IsEmplacing(f)
  BY <1>2, <1>3, CallOf
<1>5. /\ g \in [0..n -> Nat \ {0}] /\ h \in [1..n -> Nat] /\ g[0] = e /\ g[n] = o
      /\ \A i \in 1..n : Lays(buf, h[i], Rest(v, st[i], g[i]), g[i - 1])
  BY DEF Course
<1>6. Lays(buf, h[n], Rest(v, f, o), g[n - 1])
  BY <1>3, <1>5
<1>7. PICK L, r : L = Layout(buf)[h[n] - 1] /\ r = Layout(buf)[h[n]][Rest(v, f, o)]
  OBVIOUS
<1>9. Forms(L) /\ r = LayPart(L, buf, Rest(v, f, o)) /\ r.end = g[n - 1]
  BY <1>6, <1>7, LaysInSteps DEF Lays
<1>10. r.end = o /\ (f.fn = "initObject" => r.tree = NoFields) /\ (f.fn = "initArray" => r.tree = <<>>)
  <2>1. CASE f.fn = "initObject"
    <3>1. f.def \in DefNames /\ f.next \in Nat \ {0} /\ f.loop # "emplace"
      BY <1>4, <2>1, FrameForms DEF FrameOK, IsEmplacing
    <3>2. Rest(v, f, o) = Members(f.def, f.next, o)
      BY <2>1, <3>1 DEF Rest
    <3>3. r = LayMembers(L, buf, f.def, f.next, o)
      BY <1>9, <3>2, PartsLaid
    <3>4. f.next > Len(Definitions[f.def])
      BY <1>3, <2>1
    <3>5. r.end = o /\ r.tree = NoFields
      BY <1>9, <3>1, <3>3, <3>4, MembersLaid
    <3> QED BY <2>1, <3>5
  <2>2. CASE f.fn = "initArray"
    <3>1. f.field \in Member /\ f.next \in Nat \ {0} /\ v[f.at].children.length \in Nat
          /\ f.next <= v[f.at].children.length + 1
      <4>1. Places(v, f) \in Nat
        BY <1>1, <1>4, OwnPlaces
      <4> QED BY <1>4, <2>2, <4>1, FrameForms DEF FrameOK, Places
    <3>2. v[f.at].children.length - f.next + 1 = 0
      BY <1>3, <2>2, <3>1
    <3>3. Rest(v, f, o) = Elements(f.field, 0, o)
      BY <2>2, <3>2 DEF Rest
    <3>4. PICK fd \in Member, j \in Nat : fd = f.field /\ j = 0
      BY <3>1
    <3>5. r = LayPart(L, buf, Elements(fd, j, o))
      BY <1>9, <3>3, <3>4
    <3>6. r = LayElements(L, fd, j, o)
      BY <3>5, PartsLaid
    <3>7. r.end = o /\ r.tree = <<>>
      BY <1>9, <3>4, <3>6, ElementsLaid
    <3> QED BY <2>2, <3>7
  <2> QED BY <1>4, <2>1, <2>2, FrameForms
<1>11. g[n - 1] = o
  BY <1>9, <1>10
<1>12. PICK su : su = SubSeq(st, 1, n - 1)
  OBVIOUS
<1>13. Len(su) = n - 1 /\ \A i \in 1..n-1 : su[i] = st[i]
  <2>1. f \in Frame
    BY <1>4
  <2> QED BY <1>12, <2>1, TopReplaced
<1>14. PICK G, H : G = Ends(g, n) /\ H = Fewer(h, n)
  OBVIOUS
<1>16. G \in [0..n-1 -> Nat \ {0}] /\ G[n - 1] = o /\ G[0] = e /\ \A i \in 0..n-1 : G[i] = g[i]
  BY <1>5, <1>11, <1>14 DEF Ends
<1>17. H \in [1..n-1 -> Nat] /\ \A i \in 1..n-1 : H[i] = h[i]
  BY <1>5, <1>14 DEF Fewer
<1>18. \A i \in 1..n-1 : Lays(buf, H[i], Rest(v, su[i], G[i]), G[i - 1])
  <2> TAKE i \in 1..n-1
  <2>1. i \in 1..n /\ i \in 0..n-1 /\ i - 1 \in 0..n-1
    OBVIOUS
  <2> QED BY <1>5, <1>13, <1>16, <1>17, <2>1
<1>19. Course(buf, v, su, o, e, G, H)
  BY <1>13, <1>16, <1>17, <1>18 DEF Course
<1> QED BY <1>3, <1>7, <1>10, <1>11, <1>12, <1>14, <1>19

----
LEMMA Times ==
  ASSUME NEW i \in Nat, NEW z \in Nat
  PROVE  i * z \in Nat /\ (i + 1) * z = i * z + z
OBVIOUS

LEMMA PutFirst ==
  ASSUME NEW S, NEW x \in S, NEW s \in Seq(S)
  PROVE  /\ <<x>> \o s \in Seq(S) /\ Len(<<x>> \o s) = Len(s) + 1
         /\ (<<x>> \o s)[1] = x /\ \A j \in 1..Len(s) : (<<x>> \o s)[j + 1] = s[j]
OBVIOUS

\* The elements of an array of primitives follow each other at their size.
LeavesFrom(t, o, n) ==
  [j \in 1..n |-> LeafAt(t, o + (j - 1) * PrimitiveSize[t])]

Leaf == [type : Primitives, offset : Nat]

LEMMA LeavesAre ==
  ASSUME NEW t \in Primitives, NEW o \in Nat, NEW n \in Nat
  PROVE  /\ LeavesFrom(t, o, n) \in Seq(Leaf) /\ Len(LeavesFrom(t, o, n)) = n
         /\ \A i \in Nat : i < n =>
              LeavesFrom(t, o, n)[i + 1] = LeafAt(t, o + i * PrimitiveSize[t])
<1>1. PICK z \in Nat : z = PrimitiveSize[t]
  BY DefinitionAssumption
<1>2. PICK s : s = LeavesFrom(t, o, n)
  OBVIOUS
<1>3. DOMAIN s = 1..n /\ \A j \in 1..n : s[j] = LeafAt(t, o + (j - 1) * z)
  BY <1>1, <1>2 DEF LeavesFrom
<1>4. s = [j \in 1..n |-> s[j]]
  BY <1>2 DEF LeavesFrom
<1>5. \A i \in Nat : i < n => s[i + 1] = LeafAt(t, o + i * z)
  <2> TAKE i \in Nat
  <2> SUFFICES ASSUME i < n PROVE s[i + 1] = LeafAt(t, o + i * z)
    OBVIOUS
  <2>1. i + 1 \in 1..n /\ (i + 1) - 1 = i
    OBVIOUS
  <2> QED BY <1>3, <2>1
<1>6. \A j \in 1..n : s[j] \in Leaf
  <2> TAKE j \in 1..n
  <2>1. PICK i \in Nat : i = j - 1
    OBVIOUS
  <2>2. i * z \in Nat
    BY Times
  <2>3. o + i * z \in Nat
    BY <2>2
  <2>4. s[j] = LeafAt(t, o + i * z)
    BY <1>3, <2>1
  <2> QED BY <2>4 DEF Leaf, LeafAt
<1>7. s \in [1..n -> Leaf]
  BY <1>4, <1>6
<1>8. s \in Seq(Leaf)
  BY <1>7, SeqDef
<1>9. Len(s) = n
  BY <1>3, <1>8, LenProperties
<1> QED BY <1>1, <1>2, <1>5, <1>8, <1>9

LEMMA LeavesNext ==
  ASSUME NEW t \in Primitives, NEW o \in Nat, NEW n \in Nat
  PROVE  LeavesFrom(t, o, n + 1) =
           <<LeafAt(t, o)>> \o LeavesFrom(t, o + PrimitiveSize[t], n)
<1>1. PICK z \in Nat : z = PrimitiveSize[t]
  BY DefinitionAssumption
<1>2. PICK A, C, x, B :
       /\ A = LeavesFrom(t, o, n + 1) /\ C = LeavesFrom(t, o + z, n) /\ x = LeafAt(t, o)
       /\ B = <<x>> \o C
  OBVIOUS
<1>6. n + 1 \in Nat /\ o + z \in Nat
  OBVIOUS
<1>7. /\ A \in Seq(Leaf) /\ Len(A) = n + 1
      /\ \A i \in Nat : i < n + 1 => A[i + 1] = LeafAt(t, o + i * z)
  <2>1. PICK k \in Nat : k = n + 1
    OBVIOUS
  <2>2. /\ LeavesFrom(t, o, k) \in Seq(Leaf) /\ Len(LeavesFrom(t, o, k)) = k
        /\ \A i \in Nat : i < k =>
             LeavesFrom(t, o, k)[i + 1] = LeafAt(t, o + i * PrimitiveSize[t])
    BY LeavesAre
  <2>3. A = LeavesFrom(t, o, k)
    BY <1>2, <2>1
  <2> QED BY <1>1, <2>1, <2>2, <2>3
<1>8. /\ C \in Seq(Leaf) /\ Len(C) = n
      /\ \A i \in Nat : i < n => C[i + 1] = LeafAt(t, (o + z) + i * z)
  <2>1. PICK q \in Nat : q = o + z
    OBVIOUS
  <2>2. /\ LeavesFrom(t, q, n) \in Seq(Leaf) /\ Len(LeavesFrom(t, q, n)) = n
        /\ \A i \in Nat : i < n =>
             LeavesFrom(t, q, n)[i + 1] = LeafAt(t, q + i * PrimitiveSize[t])
    BY LeavesAre
  <2>3. C = LeavesFrom(t, q, n)
    BY <1>2, <2>1
  <2> QED BY <1>1, <2>1, <2>2, <2>3
<1>9. x \in Leaf
  BY <1>2 DEF Leaf, LeafAt
<1>10. B \in Seq(Leaf) /\ Len(B) = n + 1 /\ B[1] = x /\ \A j \in 1..n : B[j + 1] = C[j]
  BY <1>2, <1>8, <1>9, PutFirst
<1>11. A[1] = x
  <2>1. A[0 + 1] = LeafAt(t, o + 0 * z)
    BY <1>7
  <2>2. o + 0 * z = o /\ 0 + 1 = 1
    OBVIOUS
  <2> QED BY <1>2, <2>1, <2>2
<1>12. \A j \in 1..n+1 : A[j] = B[j]
  <2> TAKE j \in 1..n+1
  <2>1. CASE j = 1
    BY <1>10, <1>11, <2>1
  <2>2. CASE j # 1
    <3>1. PICK i \in Nat : j = (i + 1) + 1 /\ i < n /\ i + 1 < n + 1 /\ i + 1 \in Nat /\ i + 1 \in 1..n
      <4>1. j - 2 \in Nat /\ j = ((j - 2) + 1) + 1
        BY <2>2
      <4> QED BY <4>1
    <3>2. A[j] = LeafAt(t, o + (i + 1) * z)
      BY <1>7, <3>1
    <3>3. B[j] = C[i + 1] /\ C[i + 1] = LeafAt(t, (o + z) + i * z)
      BY <1>8, <1>10, <3>1
    <3>4. i * z \in Nat /\ (i + 1) * z = i * z + z
      BY Times
    <3>5. PICK y \in Nat : y = i * z
      BY <3>4
    <3>6. o + (y + z) = (o + z) + y
      OBVIOUS
    <3> QED BY <3>2, <3>3, <3>4, <3>5, <3>6
  <2> QED BY <2>1, <2>2
<1>13. A = B
  BY <1>7, <1>10, <1>12, SeqEqual
<1> QED BY <1>1, <1>2, <1>13

LEMMA PrimitiveLaid ==
  ASSUME NEW L, Forms(L), NEW buf \in Seq(Nat), NEW f \in Member, f.type \in Primitives,
         NEW o \in Nat \ {0}, NEW r, r = LayValue(L, buf, f, o), r.ok
  PROVE  r.end = o + PrimitiveSize[f.type] /\ r.tree = LeafAt(f.type, o)
BY ValueLaid

LEMMA PrimitivesLaid ==
  ASSUME NEW buf \in Seq(Nat), NEW f \in Member, f.type \in Primitives
  PROVE  \A n \in Nat : \A o \in Nat \ {0} : \A k, e : Lays(buf, k, Elements(f, n, o), e) =>
           /\ e = o + n * PrimitiveSize[f.type]
           /\ Layout(buf)[k][Elements(f, n, o)].tree = LeavesFrom(f.type, o, n)
           /\ n # 0 => k > 1
<1>1. PICK t \in Primitives : t = f.type
  OBVIOUS
<1>2. PICK z \in Nat : z = PrimitiveSize[t]
  BY DefinitionAssumption
<1> DEFINE Even(n) ==
      \A o \in Nat \ {0} : \A k, e : Lays(buf, k, Elements(f, n, o), e) =>
        /\ e = o + n * z
        /\ Layout(buf)[k][Elements(f, n, o)].tree = LeavesFrom(t, o, n)
        /\ n # 0 => k > 1
    N == {n \in Nat : Even(n)}
<1>3. 0 \in N
  <2> SUFFICES ASSUME NEW o \in Nat \ {0}, NEW k, NEW e, Lays(buf, k, Elements(f, 0, o), e)
               PROVE  e = o + 0 * z /\ Layout(buf)[k][Elements(f, 0, o)].tree = LeavesFrom(t, o, 0)
    OBVIOUS
  <2>1. PICK r : r = Layout(buf)[k][Elements(f, 0, o)]
    OBVIOUS
  <2>2. PICK L : L = Layout(buf)[k - 1]
    OBVIOUS
  <2>3. Forms(L) /\ r = LayPart(L, buf, Elements(f, 0, o)) /\ r.end = e
    BY <2>1, <2>2, LaysInSteps DEF Lays
  <2>4. r = LayElements(L, f, 0, o)
    BY <2>3, PartsLaid
  <2>5. r.end = o /\ r.tree = <<>>
    BY <2>3, <2>4, ElementsLaid
  <2>6. LeavesFrom(t, o, 0) = <<>>
    BY DEF LeavesFrom
  <2>7. o + 0 * z = o
    OBVIOUS
  <2> QED BY <2>1, <2>3, <2>5, <2>6, <2>7
<1>4. ASSUME NEW n \in Nat, n \in N
      PROVE  n + 1 \in N
  <2>1. Even(n)
    BY <1>4
  <2> SUFFICES ASSUME NEW o \in Nat \ {0}, NEW k, NEW e, Lays(buf, k, Elements(f, n + 1, o), e)
               PROVE  /\ e = o + (n + 1) * z
                      /\ Layout(buf)[k][Elements(f, n + 1, o)].tree = LeavesFrom(t, o, n + 1)
                      /\ k > 1
    OBVIOUS
  <2> HIDE DEF N
  <2>2. PICK r : r = Layout(buf)[k][Elements(f, n + 1, o)]
    OBVIOUS
  <2>3. PICK L : L = Layout(buf)[k - 1]
    OBVIOUS
  <2>4. /\ k \in Nat \ {0} /\ k - 1 \in Nat
        /\ Forms(L) /\ r = LayPart(L, buf, Elements(f, n + 1, o)) /\ r.end = e /\ r.ok
    BY <2>2, <2>3, LaysInSteps DEF Lays
  <2>5. PICK j \in Nat : j = n + 1 /\ j # 0 /\ j - 1 = n
    OBVIOUS
  <2>6. ElementFirst(L, f, j, o, r)
    <3>1. r = LayPart(L, buf, Elements(f, j, o))
      BY <2>4, <2>5
    <3>2. r = LayElements(L, f, j, o)
      BY <3>1, PartsLaid
    <3> QED BY <2>4, <2>5, <3>2, ElementsLaid
  <2>8. PICK m \in Nat \ {0} :
          /\ L[Value(f, o)].ok /\ L[Value(f, o)].end = m /\ L[Elements(f, n, m)].ok
          /\ r.end = L[Elements(f, n, m)].end
          /\ r.tree = <<L[Value(f, o)].tree>> \o L[Elements(f, n, m)].tree
    BY <2>5, <2>6 DEF ElementFirst
  <2>9. Value(f, o) \in Part /\ Elements(f, n, m) \in Part
    BY Parts
  <2>10. Lays(buf, k - 1, Value(f, o), m) /\ Lays(buf, k - 1, Elements(f, n, m), e)
    BY <2>3, <2>4, <2>8, <2>9 DEF Lays
  <2>11. /\ k - 1 \in Nat \ {0} /\ Forms(Layout(buf)[(k - 1) - 1])
         /\ L[Value(f, o)] = LayPart(Layout(buf)[(k - 1) - 1], buf, Value(f, o))
    BY <2>3, <2>10, LaysInSteps
  <2>12. PICK x, M : x = L[Value(f, o)] /\ M = Layout(buf)[(k - 1) - 1]
    OBVIOUS
  <2>13. m = o + z /\ L[Value(f, o)].tree = LeafAt(t, o)
    <3>1. x = LayPart(M, buf, Value(f, o)) /\ Forms(M)
      BY <2>11, <2>12
    <3>2. x = LayValue(M, buf, f, o)
      BY <3>1, PartsLaid
    <3>3. x.ok /\ x.end = m
      BY <2>8, <2>12
    <3>4. x.end = o + PrimitiveSize[f.type] /\ x.tree = LeafAt(f.type, o)
      BY <3>1, <3>2, <3>3, PrimitiveLaid
    <3> QED BY <1>1, <1>2, <2>12, <3>3, <3>4
  <2>14. e = m + n * z /\ L[Elements(f, n, m)].tree = LeavesFrom(t, m, n)
    BY <2>1, <2>3, <2>10
  <2>15. r.tree = LeavesFrom(t, o, n + 1)
    <3>1. LeavesFrom(t, o, n + 1) =
            <<LeafAt(t, o)>> \o LeavesFrom(t, o + PrimitiveSize[t], n)
      <4>1. o \in Nat
        OBVIOUS
      <4> QED BY LeavesNext
    <3> QED BY <1>2, <2>8, <2>13, <2>14, <3>1
  <2>16. e = o + (n + 1) * z
    <3>1. n * z \in Nat /\ (n + 1) * z = n * z + z
      BY Times
    <3>2. PICK y \in Nat : y = n * z
      BY <3>1
    <3>3. o + (y + z) = (o + z) + y
      OBVIOUS
    <3> QED BY <2>13, <2>14, <3>1, <3>2, <3>3
  <2> QED BY <2>2, <2>4, <2>11, <2>15, <2>16
<1> HIDE DEF N
<1>5. \A n \in Nat : n \in N
  BY <1>3, <1>4, AllNaturals
<1> QED BY <1>1, <1>2, <1>5 DEF N

----
(* The turns of the parser, and the parts they pass. *)

\* The parser is on its course, which ends at e.
OnCourse(e, g, h) ==
  Course(Buffer, ros_values_, stack, message_buffer_offset_, e, g, h)

ThePart == TurnPart(Buffer, Top, message_buffer_offset_)

LEMMA TheBuffer == ASSUME Inv PROVE Buffer \in Seq(Nat)
BY MessageAssumption DEF Inv, RestOK, Buffer

\* What the parser finds at its turn is what the definition says.
LEMMA TargetPart ==
  ASSUME Inv, AtField, ArraysSized, NEW f, f = Field, NEW o, o = message_buffer_offset_,
         f.array = "dynamic" /\ Top.fn = "initObject" => LengthThere
  PROVE  /\ f.array \in {"none", "fixed", "dynamic"}
         /\ Dynamic <=> f.array = "dynamic"
         /\ TargetType \in Primitives \cup {"string", "object"} =>
              ThePart = Value(f, o) /\ TargetType = f.type
         /\ TargetType \in {"array", "primitive_array"} =>
              /\ Top.fn = "initObject" /\ f.array # "none"
              /\ ThePart = Elements(f, ArrayLength, ElementsStart)
         /\ TargetType = "array" => f.type \in {"string", "object"}
         /\ TargetType = "primitive_array" =>
              f.type \in Primitives /\ ros_values_[Target].element_type = f.type
         /\ TargetType = "object" => ros_values_[Target].def = f.of
         /\ TargetType \in Primitives \cup {"string", "object", "array", "primitive_array"}
<1>1. PICK v, t : v = ros_values_ /\ t = Top
  OBVIOUS
<1>3. /\ v \in Seq(RosValue) /\ t \in Frame /\ AtTurn(v, t) /\ Target = Turn(v, t)
      /\ f \in Member
  BY <1>1, TheTurn
<1>4. FrameOK(v, t)
  <2>1. Len(stack) \in 1..Len(stack)
    BY TheTurn
  <2> QED BY <1>1, <2>1 DEF Inv, Arranged, Top
<1>5. v[Target] = Made(t)
  BY <1>3, <1>4, TurnIsMade
<1>6. /\ f.array \in {"none", "fixed", "dynamic"} /\ f.n \in Nat
      /\ f.type \in Primitives \cup {"string", "object"}
  BY <1>3 DEF Member, Type
<1>7. f.array = "fixed" /\ t.fn = "initObject" => f.n # 0
  <2> SUFFICES ASSUME f.array = "fixed", t.fn = "initObject" PROVE f.n # 0
    OBVIOUS
  <2>1. t.def \in DefNames /\ t.next \in Nat \ {0} /\ t.next <= Len(Definitions[t.def])
    BY <1>3, <1>4, FrameForms DEF AtTurn, FrameOK
  <2>2. Definitions[t.def] \in Seq(Member)
    BY <2>1, DefinitionAssumption
  <2>3. t.next \in DOMAIN Definitions[t.def]
    BY <2>1, <2>2, LenProperties
  <2>4. f = Definitions[t.def][t.next]
    BY <1>1 DEF Field, MembersOf
  <2> QED BY <2>1, <2>3, <2>4 DEF ArraysSized
<1>8. Dynamic <=> f.array = "dynamic"
  BY <1>6 DEF Dynamic, ArraySize
<1>9. {"string", "object", "array", "primitive_array"} \cap Primitives = {}
  BY DefinitionAssumption
<1>10. CASE t.fn = "initArray"
  <2>1. Made(t) = NewElement(f)
    BY <1>1, <1>10 DEF Made, Field
  <2>2. TargetType = f.type
    BY <1>1, <1>3, <1>5, <2>1, ElementValue DEF TargetType
  <2>3. f.type = "object" => NewElement(f).def = f.of
    BY DEF NewElement
  <2>4. ThePart = Value(f, o)
    BY <1>1, <1>10 DEF ThePart, TurnPart, Field
  <2> QED BY <1>1, <1>5, <1>6, <1>8, <1>9, <2>1, <2>2, <2>3, <2>4
<1>11. CASE t.fn = "initObject"
  <2>1. Made(t) = NewField(f)
    BY <1>1, <1>11 DEF Made, Field, MembersOf
  <2>2. ThePart = FieldPart(f, o, Buffer)
    BY <1>1, <1>11 DEF ThePart, TurnPart, Field, MembersOf
  <2>3. TargetType = NewField(f).type
    BY <1>1, <1>5, <2>1 DEF TargetType
  <2>4. CASE f.array = "none"
    <3>1. NewField(f) = NewElement(f)
      BY <2>4 DEF NewField, ArraySize
    <3>2. ThePart = Value(f, o)
      BY <2>2, <2>4 DEF FieldPart
    <3>3. TargetType = f.type
      BY <1>3, <2>3, <3>1, ElementValue
    <3>4. f.type = "object" => NewElement(f).def = f.of
      BY DEF NewElement
    <3> QED BY <1>1, <1>5, <1>6, <1>8, <1>9, <2>1, <2>4, <3>1, <3>2, <3>3, <3>4
  <2>5. CASE f.array # "none"
    <3>1. ArraySize(f) # 0
      BY <1>7, <1>11, <2>5 DEF ArraySize
    <3>2. NewField(f) = IF f.type \in {"object", "string"} THEN [type |-> "array", children |-> NoList]
                        ELSE [type |-> "primitive_array", element_type |-> f.type,
                              offset |-> 0, length |-> 0]
      BY <3>1 DEF NewField
    <3>3. ThePart = Elements(f, ArrayLength, ElementsStart)
      <4>1. CASE f.array = "fixed"
        <5>1. ThePart = Elements(f, f.n, o)
          BY <2>2, <4>1 DEF FieldPart
        <5>2. ArrayLength = f.n
          BY <1>8, <4>1 DEF ArrayLength, Dynamic, ArraySize
        <5>3. ElementsStart = o
          <6>1. message_buffer_offset_ \in Nat
            BY DEF Inv, RestOK
          <6> QED BY <1>8, <4>1, <6>1 DEF ElementsStart
        <5> QED BY <5>1, <5>2, <5>3
      <4>2. CASE f.array = "dynamic"
        <5>1. ThePart = Elements(f, Buffer[o], o + LengthSize)
          BY <2>2, <4>2 DEF FieldPart
        <5>2. ArrayLength = Buffer[o] /\ ElementsStart = o + LengthSize
          BY <1>8, <4>2 DEF ArrayLength, ElementsStart
        <5> QED BY <5>1, <5>2
      <4> QED BY <1>6, <2>5, <4>1, <4>2
    <3>4. CASE f.type \in {"object", "string"}
      <4>1. TargetType = "array"
        BY <2>3, <3>2, <3>4
      <4> QED BY <1>1, <1>6, <1>8, <1>9, <1>11, <2>5, <3>3, <3>4, <4>1
    <3>5. CASE f.type \notin {"object", "string"}
      <4>1. TargetType = "primitive_array" /\ NewField(f).element_type = f.type
        BY <2>3, <3>2, <3>5
      <4>2. f.type \in Primitives
        BY <1>6, <3>5
      <4> QED BY <1>1, <1>5, <1>6, <1>8, <1>9, <1>11, <2>1, <2>5, <3>3, <4>1, <4>2
    <3> QED BY <3>4, <3>5
  <2> QED BY <2>4, <2>5
<1> QED BY <1>3, <1>10, <1>11, FrameForms

\* The arrays that are visited keep their lengths when a turn writes its value.
LEMMA TurnKeepsLengths ==
  ASSUME Inv, AtField, NEW w, NEW e, TurnWrites(w, e)
  PROVE  SameLengths(ros_values_, w, stack)
<1>1. PICK v, st, n : v = ros_values_ /\ st = stack /\ n = Len(st)
  OBVIOUS
<1>4. Arranged(v, st) /\ n \in Nat \ {0} /\ AtTurn(v, st[n]) /\ Target = Turn(v, st[n])
      /\ Counted = CountedIn(v, st[n]) /\ n \in 1..n
  BY <1>1, TheTurn DEF Inv, Top
<1>5. SUFFICES ASSUME NEW i \in 1..n, st[i].fn = "initArray"
               PROVE  w[st[i].at].children.length = v[st[i].at].children.length
  BY <1>1 DEF SameLengths
<1>6. st[i] \in Frame /\ st[i].at \in 1..Len(v) /\ st[n] \in Frame /\ FrameOK(v, st[n])
      /\ v \in Seq(RosValue)
  BY <1>1, <1>4, CallOf
<1>7. st[i].at # Target
  <2>1. Turn(v, st[n]) \in Waiting(v, st[n])
    BY <1>4, <1>6, TurnIsMade
  <2>2. st[i].at \notin Waiting(v, st[n])
    BY <1>1, <1>4, CallOf
  <2> QED BY <1>4, <2>1, <2>2
<1>8. w[st[i].at] = Counted[st[i].at]
  BY <1>1, <1>6, <1>7 DEF TurnWrites
<1>9. CASE st[n].fn = "initObject"
  <2>1. st[i].at # st[n].at
    BY <1>1, <1>4, <1>9, <1>5, CallOf
  <2>2. Counted[st[i].at] = v[st[i].at]
    BY <1>4, <1>6, <2>1, FieldCounted
  <2> QED BY <1>8, <2>2
<1>10. CASE st[n].fn # "initObject"
  BY <1>4, <1>8, <1>10 DEF CountedIn
<1> QED BY <1>9, <1>10

\* A turn on course.
TurnPasses(w, e, g, h, m) ==
  Passed(Buffer, ros_values_, w, stack, Advanced, message_buffer_offset_, e, g, h, Len(stack), m)

LEMMA TurnOnCourse ==
  ASSUME Inv, AtField, NEW e, NEW g, NEW h, OnCourse(e, g, h), NEW w, NEW x, TurnWrites(w, x)
  PROVE  /\ Top.fn = "initObject" /\ Field.array = "dynamic" => LengthThere
         /\ \E m : TurnPasses(w, e, g, h, m)
<1>1. PICK v, st, n, buf, o, su :
       /\ v = ros_values_ /\ st = stack /\ n = Len(st) /\ buf = Buffer
       /\ o = message_buffer_offset_ /\ su = Advanced
  OBVIOUS
<1>7. /\ Arranged(v, st) /\ n \in Nat \ {0} /\ AtTurn(v, st[n]) /\ su = Onward(st)
      /\ buf \in Seq(Nat) /\ o \in Nat \ {0}
  <2>1. o \in Nat \ {0}
    BY <1>1 DEF Inv, RestOK, AtField, Initialising
  <2>2. su = Onward(st)
    BY <1>1 DEF Advanced, Below, Top, Onward
  <2> QED BY <1>1, <2>1, <2>2, TheTurn, TheBuffer DEF Inv, Top
<1>8. SameLengths(v, w, st)
  BY <1>1, TurnKeepsLengths
<1>9. Course(buf, v, st, o, e, g, h)
  BY <1>1 DEF OnCourse
<1>10. /\ st[n].fn = "initObject" /\ Definitions[st[n].def][st[n].next].array = "dynamic" =>
            o <= Len(buf)
       /\ \E m : Passed(buf, v, w, st, su, o, e, g, h, n, m)
  BY <1>1, <1>7, <1>8, <1>9, CourseTurn
<1>11. Top.fn = "initObject" /\ Field.array = "dynamic" => LengthThere
  BY <1>1, <1>10 DEF Top, Field, MembersOf, LengthThere
<1> QED BY <1>1, <1>10, <1>11 DEF TurnPasses

\* A value that is laid out, and what is in it.
LEMMA ValueEnds ==
  ASSUME NEW buf \in Seq(Nat), NEW f \in Member, NEW o \in Nat \ {0}, NEW k, NEW m,
         Lays(buf, k, Value(f, o), m), NEW t, t = Layout(buf)[k][Value(f, o)].tree
  PROVE  /\ f.type \in Primitives => m = o + PrimitiveSize[f.type] /\ t = LeafAt(f.type, o)
         /\ f.type = "string" =>
              o \in 1..Len(buf) /\ m = o + LengthSize + buf[o] /\ t = LeafAt("string", o)
         /\ f.type = "object" =>
              Lays(buf, k - 1, Members(f.of, 1, o), m) /\ t = Layout(buf)[k - 1][Members(f.of, 1, o)].tree
<1>1. PICK r, L : r = Layout(buf)[k][Value(f, o)] /\ L = Layout(buf)[k - 1]
  OBVIOUS
<1>3. k - 1 \in Nat /\ Forms(L) /\ r = LayPart(L, buf, Value(f, o)) /\ r.ok /\ r.end = m
  BY <1>1, LaysInSteps DEF Lays
<1>4. r = LayValue(L, buf, f, o)
  BY <1>3, PartsLaid
<1>5. /\ f.type = "object" => r = L[Members(f.of, 1, o)]
      /\ r.ok /\ f.type = "string" =>
           /\ o \in 1..Len(buf) /\ r.end = o + LengthSize + buf[o]
           /\ r.tree = LeafAt("string", o)
      /\ r.ok /\ f.type \in Primitives =>
           /\ r.end = o + PrimitiveSize[f.type] /\ r.tree = LeafAt(f.type, o)
  BY <1>3, <1>4, ValueLaid
<1>6. f.type = "object" => Lays(buf, k - 1, Members(f.of, 1, o), m)
  <2> SUFFICES ASSUME f.type = "object" PROVE Lays(buf, k - 1, Members(f.of, 1, o), m)
    OBVIOUS
  <2>1. f.of \in DefNames /\ 1 \in Nat \ {0}
    BY DEF Member
  <2>2. Members(f.of, 1, o) \in Part
    BY <2>1, Parts
  <2> QED BY <1>1, <1>3, <1>5, <2>2 DEF Lays
<1> QED BY <1>1, <1>3, <1>5, <1>6

LEMMA TurnsPart ==
  ASSUME NEW w, NEW e, NEW g, NEW h, NEW m, TurnPasses(w, e, g, h, m)
  PROVE  Lays(Buffer, h[Len(stack)] - 1, ThePart, m)
BY DEF TurnPasses, Passed, ThePart, Top

LEMMA InitPrimitiveOnCourse ==
  ASSUME Inv, ArraysSized, InitPrimitive, NEW e, NEW g, NEW h, OnCourse(e, g, h)
  PROVE  /\ TurnPasses(ros_values_', e, g, h, message_buffer_offset_')
         /\ TurnWrites(ros_values_', LeafAt(TargetType, message_buffer_offset_))
         /\ Layout(Buffer)[h[Len(stack)] - 1][ThePart].tree = LeafAt(TargetType, message_buffer_offset_)
<1>1. AtField /\ TargetType \in Primitives /\ stack' = Advanced
  BY DEF InitPrimitive
<1>2. PICK o \in Nat \ {0} : o = message_buffer_offset_
  BY <1>1 DEF Inv, RestOK, AtField, Initialising
<1>3. PICK w : w = ros_values_'
  OBVIOUS
<1>4. TurnWrites(w, [type |-> TargetType, offset |-> o])
  <2>1. ros_values_' = SetOffset(Counted, Target, o)
    BY <1>2 DEF InitPrimitive, SetOffset
  <2>2. 0 \in Nat /\ o \in Nat
    OBVIOUS
  <2> QED BY <1>1, <1>3, <2>1, <2>2, ScalarKeeps
<1>5. TurnWrites(w, LeafAt(TargetType, o))
  BY <1>4 DEF LeafAt
<1>6. PICK m : TurnPasses(w, e, g, h, m)
  BY <1>1, <1>5, TurnOnCourse
<1>7. Top.fn = "initObject" /\ Field.array = "dynamic" => LengthThere
  BY <1>1, <1>5, TurnOnCourse
<1>8. PICK f \in Member : f = Field
  BY <1>1, TheTurn
<1>9. ThePart = Value(f, o) /\ TargetType = f.type
  BY <1>1, <1>2, <1>7, <1>8, TargetPart
<1>10. PICK k : k = h[Len(stack)] - 1
  OBVIOUS
<1>11. PICK buf \in Seq(Nat) : buf = Buffer
  BY TheBuffer
<1>12. Lays(buf, k, Value(f, o), m)
  BY <1>6, <1>9, <1>10, <1>11, TurnsPart
<1>13. m = o + PrimitiveSize[f.type] /\ Layout(buf)[k][Value(f, o)].tree = LeafAt(f.type, o)
  BY <1>1, <1>9, <1>12, ValueEnds
<1>14. message_buffer_offset_' = m
  BY <1>2, <1>8, <1>13 DEF InitPrimitive
<1> QED BY <1>2, <1>3, <1>5, <1>6, <1>9, <1>10, <1>11, <1>13, <1>14

LEMMA InitStringOnCourse ==
  ASSUME Inv, ArraysSized, InitString, NEW e, NEW g, NEW h, OnCourse(e, g, h)
  PROVE  /\ TurnPasses(ros_values_', e, g, h, message_buffer_offset_')
         /\ TurnWrites(ros_values_', LeafAt("string", message_buffer_offset_))
         /\ Layout(Buffer)[h[Len(stack)] - 1][ThePart].tree = LeafAt("string", message_buffer_offset_)
<1>1. AtField /\ TargetType = "string" /\ stack' = Advanced
  BY DEF InitString
<1>2. PICK o \in Nat \ {0} : o = message_buffer_offset_
  BY <1>1 DEF Inv, RestOK, AtField, Initialising
<1>3. PICK w : w = ros_values_'
  OBVIOUS
<1>4. TurnWrites(w, [type |-> TargetType, offset |-> o])
  <2>1. ros_values_' = SetOffset(Counted, Target, o)
    BY <1>2 DEF InitString, SetOffset
  <2>2. 0 \in Nat /\ o \in Nat
    OBVIOUS
  <2> QED BY <1>1, <1>3, <2>1, <2>2, ScalarKeeps
<1>5. TurnWrites(w, LeafAt("string", o))
  BY <1>1, <1>4 DEF LeafAt
<1>6. PICK m : TurnPasses(w, e, g, h, m)
  BY <1>1, <1>5, TurnOnCourse
<1>7. Top.fn = "initObject" /\ Field.array = "dynamic" => LengthThere
  BY <1>1, <1>5, TurnOnCourse
<1>8. PICK f \in Member : f = Field
  BY <1>1, TheTurn
<1>9. ThePart = Value(f, o) /\ f.type = "string"
  BY <1>1, <1>2, <1>7, <1>8, TargetPart
<1>10. PICK k : k = h[Len(stack)] - 1
  OBVIOUS
<1>11. PICK buf \in Seq(Nat) : buf = Buffer
  BY TheBuffer
<1>12. Lays(buf, k, Value(f, o), m)
  BY <1>6, <1>9, <1>10, <1>11, TurnsPart
<1>13. /\ o \in 1..Len(buf) /\ m = o + LengthSize + buf[o]
       /\ Layout(buf)[k][Value(f, o)].tree = LeafAt("string", o)
  BY <1>9, <1>12, ValueEnds
<1>14. message_buffer_offset_' = m
  <2>1. buf[o] \in Nat
    BY <1>13, ElementOfSeq
  <2>2. message_buffer_offset_' = o + buf[o] + LengthSize
    BY <1>2, <1>11 DEF InitString
  <2> QED BY <1>13, <2>1, <2>2 DEF LengthSize
<1> QED BY <1>2, <1>3, <1>5, <1>6, <1>9, <1>10, <1>11, <1>13, <1>14

LEMMA InitPrimitiveArrayOnCourse ==
  ASSUME Inv, ArraysSized, InitPrimitiveArray, NEW e, NEW g, NEW h, OnCourse(e, g, h)
  PROVE  /\ TurnPasses(ros_values_', e, g, h, message_buffer_offset_')
         /\ Field.type \in Primitives /\ ArrayLength \in Nat /\ ElementsStart \in Nat \ {0}
         /\ TurnWrites(ros_values_', [type |-> "primitive_array", offset |-> ElementsStart,
                                      length |-> ArrayLength, element_type |-> Field.type])
         /\ Layout(Buffer)[h[Len(stack)] - 1][ThePart].tree =
              LeavesFrom(Field.type, ElementsStart, ArrayLength)
         /\ ArrayLength # 0 => h[Len(stack)] - 1 > 1
<1>1. AtField /\ TargetType = "primitive_array" /\ stack' = Advanced /\ (Dynamic => LengthThere)
  BY DEF InitPrimitiveArray
<1>2. PICK o, w : o = message_buffer_offset_ /\ w = ros_values_'
  OBVIOUS
<1>4. PICK s \in Nat \ {0}, l \in Nat : s = ElementsStart /\ l = ArrayLength
  BY <1>1, LengthRead
<1>5. PICK x : x = [type |-> "primitive_array", offset |-> s, length |-> l,
                    element_type |-> ros_values_[Target].element_type]
  OBVIOUS
<1>6. TurnWrites(w, x)
  <2>1. ros_values_' = SetBlob(Counted, Target, s, l)
    BY <1>4 DEF InitPrimitiveArray, SetBlob
  <2>2. s \in Nat
    OBVIOUS
  <2> QED BY <1>1, <1>2, <1>5, <2>1, <2>2, ScalarKeeps
<1>7. PICK m : TurnPasses(w, e, g, h, m)
  BY <1>1, <1>6, TurnOnCourse
<1>8. Top.fn = "initObject" /\ Field.array = "dynamic" => LengthThere
  BY <1>1, <1>6, TurnOnCourse
<1>9. PICK f \in Member : f = Field
  BY <1>1, TheTurn
<1>10. /\ ThePart = Elements(f, l, s) /\ f.type \in Primitives
       /\ ros_values_[Target].element_type = f.type
  BY <1>1, <1>2, <1>4, <1>8, <1>9, TargetPart
<1>11. PICK k : k = h[Len(stack)] - 1
  OBVIOUS
<1>12. PICK buf \in Seq(Nat) : buf = Buffer
  BY TheBuffer
<1>13. Lays(buf, k, Elements(f, l, s), m)
  BY <1>7, <1>10, <1>11, <1>12, TurnsPart
<1>14. /\ m = s + l * PrimitiveSize[f.type]
       /\ Layout(buf)[k][Elements(f, l, s)].tree = LeavesFrom(f.type, s, l)
       /\ l # 0 => k > 1
  BY <1>10, <1>13, PrimitivesLaid
<1>15. message_buffer_offset_' = m
  BY <1>4, <1>9, <1>14 DEF InitPrimitiveArray
<1> QED BY <1>2, <1>4, <1>5, <1>6, <1>7, <1>9, <1>10, <1>11, <1>12, <1>14, <1>15

\* The course when another call is entered at offset o, to end in k steps.
Begins(g, n, o) == [i \in 0..n+1 |-> IF i = n + 1 THEN o ELSE g[i]]
Steps(h, n, k) == [i \in 1..n+1 |-> IF i = n + 1 THEN k ELSE h[i]]

CalledAt(e, g, h, m, o, k) ==
  Course(Buffer, ros_values_', stack', o, e,
         Begins([g EXCEPT ![Len(stack)] = m], Len(stack), o),
         Steps([h EXCEPT ![Len(stack)] = h[Len(stack)] - 1], Len(stack), k))

LEMMA CallOnCourse ==
  ASSUME Inv, AtField, NEW e, NEW g, NEW h, NEW m, TurnPasses(ros_values_', e, g, h, m),
         NEW f \in Frame, stack' = Append(Advanced, f), NEW k \in Nat, NEW o \in Nat \ {0},
         Lays(Buffer, k, Rest(ros_values_', f, o), m)
  PROVE  CalledAt(e, g, h, m, o, k)
<1>1. PICK w, su, n, G, H, buf :
       /\ w = ros_values_' /\ su = Advanced /\ n = Len(stack) /\ G = [g EXCEPT ![n] = m]
       /\ H = [h EXCEPT ![n] = h[n] - 1] /\ buf = Buffer
  OBVIOUS
<1>7. Course(buf, w, su, m, e, G, H)
  BY <1>1 DEF TurnPasses, Passed
<1>8. su \in Seq(Frame) /\ n = Len(su)
  <2>1. Arranged(Counted, su) /\ Len(su) = n
    BY <1>1, ReadyToEnter
  <2> QED BY <2>1 DEF Arranged
<1>9. Lays(buf, k, Rest(w, f, o), m)
  BY <1>1
<1>10. Course(buf, w, Append(su, f), o, e, Begins(G, n, o), Steps(H, n, k))
  <2>1. Course(buf, w, Append(su, f), o, e,
               [i \in 0..n+1 |-> IF i = n + 1 THEN o ELSE G[i]],
               [i \in 1..n+1 |-> IF i = n + 1 THEN k ELSE H[i]])
    BY <1>7, <1>8, <1>9, CourseEntered
  <2> QED BY <2>1 DEF Begins, Steps
<1> QED BY <1>1, <1>10 DEF CalledAt

LEMMA TwoLess == ASSUME NEW y \in Int PROVE (y - 1) - 1 = y - 2
  OBVIOUS

LEMMA InitObjectOnCourse ==
  ASSUME Inv, ArraysSized, InitObject, NEW e, NEW g, NEW h, OnCourse(e, g, h)
  PROVE  /\ h[Len(stack)] - 2 \in Nat
         /\ TurnWrites(ros_values_',
              [type |-> "object", def |-> Field.of,
               children |-> [offset |-> Len(ros_values_) + 1, length |-> 0]])
         /\ Layout(Buffer)[h[Len(stack)] - 1][ThePart].tree =
              Layout(Buffer)[h[Len(stack)] - 2][Members(Field.of, 1, message_buffer_offset_)].tree
         /\ \E m : /\ TurnPasses(ros_values_', e, g, h, m)
                   /\ CalledAt(e, g, h, m, message_buffer_offset_, h[Len(stack)] - 2)
                   /\ Lays(Buffer, h[Len(stack)] - 2,
                           Members(Field.of, 1, message_buffer_offset_), m)
<1>1. AtField /\ TargetType = "object" /\ stack' = Append(Advanced, ObjectFrame(Target, Field.of))
  BY DEF InitObject
<1>2. PICK o \in Nat \ {0} : o = message_buffer_offset_
  BY <1>1 DEF Inv, RestOK, AtField, Initialising
<1>3. PICK w : w = ros_values_'
  OBVIOUS
<1>4. PICK x : x = [type |-> "object", def |-> ros_values_[Target].def,
                    children |-> [offset |-> Len(ros_values_) + 1, length |-> 0]]
  OBVIOUS
<1>5. TurnWrites(w, x)
  BY <1>3, <1>4, InitObjectKeeps
<1>6. PICK m : TurnPasses(w, e, g, h, m)
  BY <1>1, <1>5, TurnOnCourse
<1>7. Top.fn = "initObject" /\ Field.array = "dynamic" => LengthThere
  BY <1>1, <1>5, TurnOnCourse
<1>8. PICK f \in Member : f = Field
  BY <1>1, TheTurn
<1>9. ThePart = Value(f, o) /\ f.type = "object" /\ ros_values_[Target].def = f.of
  BY <1>1, <1>2, <1>7, <1>8, TargetPart
<1>10. PICK k : k = h[Len(stack)] - 1
  OBVIOUS
<1>11. PICK buf \in Seq(Nat) : buf = Buffer
  BY TheBuffer
<1>12. Lays(buf, k, Value(f, o), m)
  BY <1>6, <1>9, <1>10, <1>11, TurnsPart
<1>13. /\ Lays(buf, k - 1, Members(f.of, 1, o), m)
       /\ Layout(buf)[k][Value(f, o)].tree = Layout(buf)[k - 1][Members(f.of, 1, o)].tree
  BY <1>9, <1>12, ValueEnds
<1>14. PICK j \in Nat : j = k - 1
  BY <1>13 DEF Lays
<1>15. j = h[Len(stack)] - 2
  <2>1. h[Len(stack)] - 1 \in Nat
    BY <1>6 DEF TurnPasses, Passed
  <2>2. h[Len(stack)] \in Int
    <3>1. g \in [0..Len(stack) -> Nat \ {0}] /\ h \in [1..Len(stack) -> Nat]
      BY DEF OnCourse, Course
    <3>2. Len(stack) \in 1..Len(stack)
      BY <1>1, TheTurn
    <3> QED BY <3>1, <3>2
  <2> QED
    <3>1. PICK y \in Int : y = h[Len(stack)]
      BY <2>2
    <3>2. k = y - 1
      BY <1>10, <3>1
    <3>3. j = (y - 1) - 1
      BY <1>14, <3>2
    <3>4. j = y - 2
      BY <3>3, TwoLess
    <3> QED BY <3>1, <3>4
<1>16. PICK q : q = ObjectFrame(Target, f.of)
  OBVIOUS
<1>17. q \in Frame /\ \A y : Rest(w, q, y) = Members(f.of, 1, y)
  <2>1. Target \in Nat /\ f.of \in DefNames
    BY <1>1, <1>8, TheTurn
  <2> QED BY <1>16, <2>1 DEF ObjectFrame, Frame, Rest
<1>18. CalledAt(e, g, h, m, o, j)
  <2>1. TurnPasses(ros_values_', e, g, h, m)
    BY <1>3, <1>6
  <2>2. stack' = Append(Advanced, q)
    BY <1>1, <1>8, <1>16
  <2>3. Lays(Buffer, j, Rest(ros_values_', q, o), m)
    BY <1>3, <1>11, <1>13, <1>14, <1>17
  <2> QED BY <1>1, <1>17, <2>1, <2>2, <2>3, CallOnCourse
<1> QED BY <1>2, <1>3, <1>4, <1>5, <1>6, <1>8, <1>9, <1>10, <1>11, <1>13, <1>14, <1>15, <1>18

LEMMA InitArrayOnCourse ==
  ASSUME Inv, ArraysSized, InitArray, NEW e, NEW g, NEW h, OnCourse(e, g, h)
  PROVE  /\ ArrayLength \in Nat
         /\ TurnWrites(ros_values_',
              [type |-> "array",
               children |-> [offset |-> Len(ros_values_) + 1, length |-> ArrayLength]])
         /\ \E m : /\ TurnPasses(ros_values_', e, g, h, m)
                   /\ CalledAt(e, g, h, m, message_buffer_offset_', h[Len(stack)] - 1)
                   /\ ThePart = Elements(Field, ArrayLength, message_buffer_offset_')
                   /\ Lays(Buffer, h[Len(stack)] - 1, ThePart, m)
<1>1. /\ AtField /\ TargetType = "array" /\ (Dynamic => LengthThere)
      /\ stack' = Append(Advanced, ArrayFrame(Target, Field))
      /\ message_buffer_offset_' = ElementsStart
  BY DEF InitArray
<1>2. PICK o, w : o = message_buffer_offset_ /\ w = ros_values_'
  OBVIOUS
<1>4. PICK s \in Nat \ {0}, l \in Nat : s = ElementsStart /\ l = ArrayLength
  BY <1>1, LengthRead
<1>5. PICK x : x = [type |-> "array",
                    children |-> [offset |-> Len(ros_values_) + 1, length |-> l]]
  OBVIOUS
<1>6. TurnWrites(w, x)
  BY <1>2, <1>4, <1>5, InitArrayKeeps
<1>7. PICK m : TurnPasses(w, e, g, h, m)
  BY <1>1, <1>6, TurnOnCourse
<1>8. Top.fn = "initObject" /\ Field.array = "dynamic" => LengthThere
  BY <1>1, <1>6, TurnOnCourse
<1>9. PICK f \in Member : f = Field
  BY <1>1, TheTurn
<1>10. ThePart = Elements(f, l, s)
  BY <1>1, <1>2, <1>4, <1>8, <1>9, TargetPart
<1>11. PICK k : k = h[Len(stack)] - 1
  OBVIOUS
<1>12. Lays(Buffer, k, ThePart, m)
  BY <1>7, <1>11, TurnsPart
<1>13. PICK q : q = ArrayFrame(Target, f)
  OBVIOUS
<1>14. q \in Frame /\ Rest(w, q, s) = Elements(f, l, s)
  <2>1. Target \in 1..Len(ros_values_) /\ Len(ros_values_) \in Nat
    BY <1>1, TheTurn
  <2>2. w[Target] = x
    BY <2>1, <1>6 DEF TurnWrites
  <2>3. w[Target].children.length = l
    BY <1>5, <2>2
  <2>4. l - 1 + 1 = l
    OBVIOUS
  <2> QED BY <1>13, <2>1, <2>3, <2>4 DEF ArrayFrame, Frame, Rest
<1>15. CalledAt(e, g, h, m, s, k)
  <2>1. TurnPasses(ros_values_', e, g, h, m)
    BY <1>2, <1>7
  <2>2. stack' = Append(Advanced, q)
    BY <1>1, <1>9, <1>13
  <2>3. Lays(Buffer, k, Rest(ros_values_', q, s), m)
    BY <1>2, <1>10, <1>12, <1>14
  <2>4. k \in Nat
    BY <1>12 DEF Lays
  <2> QED BY <1>1, <1>14, <2>1, <2>2, <2>3, <2>4, CallOnCourse
<1> QED BY <1>1, <1>2, <1>4, <1>5, <1>6, <1>7, <1>9, <1>10, <1>11, <1>12, <1>15

----
(* The steps that pass no part. *)

LEMMA TheTop ==
  ASSUME Inv, stack # <<>>
  PROVE  /\ ros_values_ \in Seq(RosValue) /\ stack \in Seq(Frame)
         /\ Len(stack) \in Nat \ {0} /\ Len(stack) \in 1..Len(stack)
         /\ Top = stack[Len(stack)] /\ Top \in Frame /\ FrameOK(ros_values_, Top)
         /\ Emplacing <=> IsEmplacing(Top)
         /\ message_buffer_offset_ \in Nat \ {0}
<1>1. /\ Arranged(ros_values_, stack) /\ ros_values_ \in Seq(RosValue) /\ stack \in Seq(Frame)
      /\ message_buffer_offset_ \in Nat \ {0}
  BY DEF Inv, Arranged, RestOK
<1>2. Len(stack) \in Nat \ {0}
  BY EmptySeq, LenProperties
<1>3. Len(stack) \in 1..Len(stack)
  BY <1>2
<1>4. Top = stack[Len(stack)] /\ (Emplacing <=> IsEmplacing(Top))
  BY DEF Top, Emplacing, IsEmplacing
<1>5. Top \in Frame /\ FrameOK(ros_values_, Top)
  BY <1>1, <1>3, <1>4, CallOf
<1> QED BY <1>1, <1>2, <1>3, <1>4, <1>5

\* The offset stays, and what is left to the calls is the same.
LEMMA GoesOnCourse ==
  ASSUME Inv, stack # <<>>, NEW f \in Frame, stack' = Append(Below, f),
         \A x : Rest(ros_values_', f, x) = Rest(ros_values_, Top, x),
         SameLengths(ros_values_, ros_values_', stack),
         UNCHANGED <<message, message_buffer_offset_>>,
         NEW e, NEW g, NEW h, OnCourse(e, g, h)
  PROVE  OnCourse(e, g, h)'
<1>1. PICK v, w, st, su : v = ros_values_ /\ w = ros_values_' /\ st = stack /\ su = stack'
  OBVIOUS
<1>5. PICK n \in Nat \ {0} : n = Len(st)
  BY <1>1, TheTop
<1>6. su \in Seq(Frame) /\ Len(su) = n /\ su[n] = f /\ \A i \in 1..n-1 : su[i] = st[i]
  <2>1. st \in Seq(Frame) /\ st # <<>> /\ su = Append(SubSeq(st, 1, n - 1), f)
    BY <1>1, <1>5, TheTop DEF Below
  <2> QED BY <1>5, <2>1, TopReplaced
<1>7. \A i \in 1..n : \A x : Rest(w, su[i], x) = Rest(v, st[i], x)
  <2> TAKE i \in 1..n
  <2>1. CASE i = n
    BY <1>1, <1>5, <1>6, <2>1, TheTop
  <2>2. CASE i # n
    <3>1. i \in 1..n-1 /\ i \in 1..Len(st)
      BY <1>5, <2>2
    <3>2. st[i] \in Frame
      BY <1>1, <3>1, TheTop, ElementOfSeq
    <3>3. SameLengths(v, w, st)
      BY <1>1
    <3>4. \A x : Rest(w, st[i], x) = Rest(v, st[i], x)
      BY <3>1, <3>2, <3>3, RestKept
    <3> QED BY <1>6, <3>1, <3>4
  <2> QED BY <2>1, <2>2
<1>8. PICK buf, o : buf = Buffer /\ o = message_buffer_offset_
  OBVIOUS
<1>9. Course(buf, v, st, o, e, g, h)
  BY <1>1, <1>8 DEF OnCourse
<1>10. Course(buf, w, su, o, e, g, h)
  <2>1. Len(su) = Len(st) /\ \A i \in 1..Len(st) : \A x : Rest(w, su[i], x) = Rest(v, st[i], x)
    BY <1>5, <1>6, <1>7
  <2> QED BY <1>9, <2>1, CourseKept
<1>11. Buffer' = buf /\ message_buffer_offset_' = o
  BY <1>8 DEF Buffer
<1> QED BY <1>1, <1>10, <1>11 DEF OnCourse

LEMMA EmplaceFieldOnCourse ==
  ASSUME Inv, EmplaceField, NEW e, NEW g, NEW h, OnCourse(e, g, h)
  PROVE  /\ OnCourse(e, g, h)'
         /\ SameLengths(ros_values_, ros_values_', stack)
<1>1. stack # <<>> /\ Emplacing /\ UNCHANGED <<message, message_buffer_offset_>>
  BY DEF EmplaceField, Emplacing
<1>2. PICK v, w, st, n, t : /\ v = ros_values_ /\ w = ros_values_' /\ st = stack /\ n = Len(st)
                            /\ t = Top
  OBVIOUS
<1>3. /\ v \in Seq(RosValue) /\ st \in Seq(Frame) /\ n \in Nat \ {0} /\ t \in Frame
      /\ FrameOK(v, t) /\ IsEmplacing(t) /\ Arranged(v, st)
  BY <1>1, <1>2, TheTop DEF Inv
<1>4. \A p \in 1..Len(v) : w[p] = v[p]
  BY <1>2, EmplaceFieldKeeps DEF Appended
<1>5. SameLengths(v, w, st)
  <2> SUFFICES ASSUME NEW i \in 1..Len(st)
               PROVE  w[st[i].at].children.length = v[st[i].at].children.length
    BY DEF SameLengths
  <2>1. st[i].at \in 1..Len(v)
    BY <1>3, CallOf
  <2> QED BY <1>4, <2>1
<1>6. PICK f : f = Stepped(t)
  OBVIOUS
<1>7. /\ f \in Frame /\ f.fn = "initObject" /\ t.fn = "initObject" /\ f.def = t.def
      /\ f.loop = "emplace" /\ t.loop = "emplace"
  BY <1>3, <1>6, NextTurn DEF Stepped, IsEmplacing
<1>8. \A x : Rest(w, f, x) = Rest(v, t, x)
  BY <1>7 DEF Rest
<1>9. stack' = Append(Below, f)
  BY <1>2, <1>6 DEF EmplaceField, Advanced, Stepped
<1> QED BY <1>1, <1>2, <1>5, <1>7, <1>8, <1>9, GoesOnCourse

LEMMA AllEmplacedOnCourse ==
  ASSUME Inv, AllEmplaced, NEW e, NEW g, NEW h, OnCourse(e, g, h)
  PROVE  OnCourse(e, g, h)'
<1>1. /\ stack # <<>> /\ Emplacing
      /\ UNCHANGED <<message, message_buffer_offset_, ros_values_>>
  BY DEF AllEmplaced, Emplacing
<1>2. PICK v, w, st, t : v = ros_values_ /\ w = ros_values_' /\ st = stack /\ t = Top
  OBVIOUS
<1>3. t \in Frame /\ t.fn = "initObject" /\ t.loop = "emplace" /\ w = v
  BY <1>1, <1>2, TheTop DEF IsEmplacing
<1>4. SameLengths(v, w, st)
  BY <1>3 DEF SameLengths
<1>5. PICK f : f = Begun(t)
  OBVIOUS
<1>6. f \in Frame /\ f.fn = "initObject" /\ f.def = t.def /\ f.loop = "init" /\ f.next = 1
  BY <1>3, <1>5, LoopBegun
<1>7. \A x : Rest(w, f, x) = Rest(v, t, x)
  BY <1>3, <1>6 DEF Rest
<1>8. stack' = Append(Below, f)
  BY <1>2, <1>5 DEF AllEmplaced, Begun
<1> QED BY <1>1, <1>2, <1>4, <1>6, <1>7, <1>8, GoesOnCourse

LEMMA SkipConstantOnCourse ==
  ASSUME Inv, SkipConstant, NEW e, NEW g, NEW h, OnCourse(e, g, h),
         NEW n, n = Len(stack), NEW o, o = message_buffer_offset_
  PROVE  /\ OnCourse(e, g, [h EXCEPT ![n] = h[n] - 1])' /\ h[n] - 1 \in Nat
         /\ Top.fn = "initObject" /\ Top.loop = "init" /\ Definitions[Top.def][Top.next].const
         /\ Top.next \in 1..Len(Definitions[Top.def])
         /\ Layout(Buffer)[h[n]][Rest(ros_values_, Top, o)] =
              Layout(Buffer)[h[n] - 1][Rest(ros_values_, Stepped(Top), o)]
<1>1. /\ stack # <<>> /\ ~Emplacing /\ Top.fn = "initObject" /\ Top.next <= Len(MembersOf(Top))
      /\ MembersOf(Top)[Top.next].const /\ stack' = Advanced
      /\ UNCHANGED <<message, message_buffer_offset_, ros_values_>>
  BY DEF SkipConstant, Initialising, Turns
<1>2. PICK v, st, t : v = ros_values_ /\ st = stack /\ t = Top
  OBVIOUS
<1>3. /\ v \in Seq(RosValue) /\ st \in Seq(Frame) /\ st # <<>> /\ n \in Nat \ {0} /\ t \in Frame
      /\ FrameOK(v, t) /\ ~IsEmplacing(t) /\ o \in Nat \ {0} /\ t = st[n] /\ n = Len(st)
  BY <1>1, <1>2, TheTop
<1>4. /\ t.fn = "initObject" /\ t.loop = "init" /\ t.def \in DefNames
      /\ t.next \in 1..Len(Definitions[t.def]) /\ Definitions[t.def][t.next].const
  <2>1. t.fn = "initObject" /\ t.loop = "init" /\ t.def \in DefNames
    BY <1>1, <1>2, <1>3, FrameForms DEF IsEmplacing
  <2>2. t.next \in Nat \ {0}
    BY <1>3 DEF FrameOK
  <2>3. t.next <= Len(Definitions[t.def]) /\ Definitions[t.def][t.next].const
    BY <1>1, <1>2 DEF MembersOf
  <2>4. Len(Definitions[t.def]) \in Nat
    BY MembersAreCounted
  <2> QED BY <2>1, <2>2, <2>3, <2>4
<1>5. PICK s : s = Stepped(t)
  OBVIOUS
<1>6. s \in Frame /\ s.fn = "initObject" /\ s.def = t.def /\ s.loop = "init" /\ s.next = t.next + 1
  BY <1>3, <1>4, <1>5, NextTurn DEF Stepped
<1>7. PICK buf \in Seq(Nat) : buf = Buffer
  BY TheBuffer
<1>8. Course(buf, v, st, o, e, g, h)
  BY <1>2, <1>7 DEF OnCourse
<1>9. /\ g \in [0..n -> Nat \ {0}] /\ h \in [1..n -> Nat] /\ g[0] = e /\ g[n] = o
      /\ \A i \in 1..n : Lays(buf, h[i], Rest(v, st[i], g[i]), g[i - 1])
  BY <1>3, <1>8 DEF Course
<1>10. Lays(buf, h[n], Rest(v, t, o), g[n - 1])
  <2>1. n \in 1..n
    BY <1>3
  <2> QED BY <1>3, <1>9, <2>1
<1>11. PICK L, r : L = Layout(buf)[h[n] - 1] /\ r = Layout(buf)[h[n]][Rest(v, t, o)]
  OBVIOUS
<1>13. /\ h[n] - 1 \in Nat /\ Forms(L) /\ r = LayPart(L, buf, Rest(v, t, o))
       /\ r.ok /\ r.end = g[n - 1]
  BY <1>10, <1>11, LaysInSteps DEF Lays
<1>14. /\ Rest(v, t, o) = Members(t.def, t.next, o)
       /\ \A x : Rest(v, s, x) = Members(t.def, t.next + 1, x)
  BY <1>4, <1>6 DEF Rest
<1>15. r = L[Rest(v, s, o)]
  <2>1. r = LayMembers(L, buf, t.def, t.next, o)
    BY <1>13, <1>14, PartsLaid
  <2>2. t.next \in Nat \ {0} /\ t.next <= Len(Definitions[t.def])
    BY <1>4
  <2>3. PICK d \in DefNames, k \in Nat \ {0} : d = t.def /\ k = t.next
    BY <1>4, <2>2
  <2>4. r = LayMembers(L, buf, d, k, o) /\ k <= Len(Definitions[d]) /\ Definitions[d][k].const
    BY <1>4, <2>1, <2>2, <2>3
  <2>5. r = L[Members(d, k + 1, o)]
    BY <1>3, <1>13, <2>4, MembersLaid
  <2> QED BY <1>14, <2>3, <2>5
<1>16. PICK H : H = [h EXCEPT ![n] = h[n] - 1]
  OBVIOUS
<1>17. H \in [1..n -> Nat] /\ H[n] = h[n] - 1 /\ \A i \in 1..n-1 : H[i] = h[i]
  BY <1>3, <1>9, <1>13, <1>16
<1>18. PICK su : su = stack'
  OBVIOUS
<1>19. su \in Seq(Frame) /\ Len(su) = n /\ su[n] = s /\ \A i \in 1..n-1 : su[i] = st[i]
  <2>1. su = Append(SubSeq(st, 1, n - 1), s)
    BY <1>1, <1>2, <1>5, <1>18 DEF Advanced, Below, Stepped
  <2> QED BY <1>3, <1>6, <2>1, TopReplaced
<1>20. \A i \in 1..n : Lays(buf, H[i], Rest(v, su[i], g[i]), g[i - 1])
  <2> TAKE i \in 1..n
  <2>1. CASE i = n
    <3>1. Rest(v, s, o) \in Part
      <4>1. t.next + 1 \in Nat \ {0}
        BY <1>4
      <4>2. PICK k \in Nat \ {0} : k = t.next + 1
        BY <4>1
      <4>3. Members(t.def, k, o) \in Part
        BY <1>3, <1>4, Parts
      <4> QED BY <1>14, <4>2, <4>3
    <3>2. Lays(buf, h[n] - 1, Rest(v, s, o), g[n - 1])
      BY <1>11, <1>13, <1>15, <3>1 DEF Lays
    <3> QED BY <1>9, <1>17, <1>19, <2>1, <3>2
  <2>2. CASE i # n
    <3>1. i \in 1..n-1
      BY <2>2
    <3> QED BY <1>9, <1>17, <1>19, <3>1
  <2> QED BY <2>1, <2>2
<1>21. Course(buf, v, su, o, e, g, H)
  BY <1>9, <1>17, <1>19, <1>20 DEF Course
<1>22. Buffer' = buf /\ message_buffer_offset_' = o /\ ros_values_' = v
  BY <1>1, <1>2, <1>7 DEF Buffer
<1>23. OnCourse(e, g, H)'
  BY <1>18, <1>21, <1>22 DEF OnCourse
<1> QED BY <1>2, <1>4, <1>5, <1>7, <1>11, <1>13, <1>15, <1>16, <1>23

LEMMA FinishedOnCourse ==
  ASSUME Inv, Finished, NEW e, NEW g, NEW h, OnCourse(e, g, h),
         NEW n, n = Len(stack), NEW o, o = message_buffer_offset_
  PROVE  /\ g[n - 1] = o
         /\ Course(Buffer, ros_values_, Below, o, e, Ends(g, n), Fewer(h, n))
<1>1. /\ stack # <<>> /\ ~Emplacing /\ Top.next > Turns
  BY DEF Finished, Initialising
<1>2. PICK v, st, t : v = ros_values_ /\ st = stack /\ t = Top
  OBVIOUS
<1>3. /\ n \in Nat \ {0} /\ t \in Frame /\ ~IsEmplacing(t) /\ o \in Nat \ {0} /\ t = st[n]
      /\ n = Len(st) /\ Arranged(v, st)
  BY <1>1, <1>2, TheTop DEF Inv
<1>4. /\ t.fn = "initObject" => t.next > Len(Definitions[t.def])
      /\ t.fn = "initArray" => t.next > v[t.at].children.length
  BY <1>1, <1>2 DEF Turns, MembersOf
<1>a. /\ ~IsEmplacing(st[n])
      /\ st[n].fn = "initObject" => st[n].next > Len(Definitions[st[n].def])
      /\ st[n].fn = "initArray" => st[n].next > v[st[n].at].children.length
  BY <1>3, <1>4
<1>5. PICK buf \in Seq(Nat) : buf = Buffer
  BY TheBuffer
<1>6. Course(buf, v, st, o, e, g, h)
  BY <1>2, <1>5 DEF OnCourse
<1>7. /\ g[n - 1] = o
      /\ Course(buf, v, SubSeq(st, 1, n - 1), o, e, Ends(g, n), Fewer(h, n))
  BY <1>3, <1>a, <1>6, CourseReturned
<1> QED BY <1>2, <1>5, <1>7 DEF Below

LEMMA ReturnOnCourse ==
  ASSUME Inv, Return, NEW e, NEW g, NEW h, OnCourse(e, g, h), NEW n, n = Len(stack),
         NEW G, G = Ends(g, n), NEW H, H = Fewer(h, n)
  PROVE  OnCourse(e, G, H)'
<1>1. Finished /\ stack' = Below /\ UNCHANGED <<message, message_buffer_offset_, ros_values_>>
  BY DEF Return
<1>3. Course(Buffer, ros_values_, Below, message_buffer_offset_, e, G, H)
  BY <1>1, FinishedOnCourse
<1>4. Buffer' = Buffer
  BY <1>1 DEF Buffer
<1>5. OnCourse(e, G, H)'
  BY <1>1, <1>3, <1>4 DEF OnCourse
<1> QED BY <1>5

\* On course no length lies behind the buffer.
LEMMA ReadPastEndOffCourse ==
  ASSUME Inv, ArraysSized, ReadPastEnd, NEW e, NEW g, NEW h, OnCourse(e, g, h)
  PROVE  FALSE
<1>1. /\ AtField /\ ~LengthThere
      /\ TargetType = "string" \/ (TargetType \in {"array", "primitive_array"} /\ Dynamic)
  BY DEF ReadPastEnd
<1>2. PICK w, x : w = Counted /\ x = Counted[Target]
  OBVIOUS
<1>3. TurnWrites(w, x)
  BY <1>2 DEF TurnWrites
<1>4. PICK m : TurnPasses(w, e, g, h, m)
  BY <1>1, <1>3, TurnOnCourse
<1>5. Top.fn = "initObject" /\ Field.array = "dynamic" => LengthThere
  BY <1>1, <1>3, TurnOnCourse
<1>6. PICK f \in Member : f = Field
  BY <1>1, TheTurn
<1>7. PICK o \in Nat \ {0} : o = message_buffer_offset_
  BY <1>1, TheTop DEF AtField, Initialising
<1>8. /\ Dynamic <=> f.array = "dynamic"
      /\ TargetType = "string" => ThePart = Value(f, o) /\ f.type = "string"
      /\ TargetType \in {"array", "primitive_array"} => Top.fn = "initObject"
  BY <1>1, <1>5, <1>6, <1>7, TargetPart
<1>9. TargetType = "string"
  BY <1>1, <1>5, <1>6, <1>8
<1>10. PICK k : k = h[Len(stack)] - 1
  OBVIOUS
<1>11. PICK buf \in Seq(Nat) : buf = Buffer
  BY TheBuffer
<1>12. Lays(buf, k, Value(f, o), m)
  BY <1>4, <1>8, <1>9, <1>10, <1>11, TurnsPart
<1>13. o \in 1..Len(buf)
  BY <1>8, <1>9, <1>12, ValueEnds
<1> QED BY <1>1, <1>7, <1>11, <1>13 DEF LengthThere

LEMMA HydrateOnCourse ==
  ASSUME Inv, Hydrate, Reference.ok, NEW e, e = Reference.end
  PROVE  \E g, h : /\ OnCourse(e, g, h)'
                   /\ h[1] = Depth /\ g[1] = message.raw_buffer_offset
<1>1. message \in Messages
  BY DEF Inv, RestOK
<1>2. PICK d, o : d = message.msg_def_ /\ o = message.raw_buffer_offset
  OBVIOUS
<1>3. d \in DefNames /\ o \in Nat \ {0}
  <2>1. Len(message.raw_buffer) \in Nat /\ o \in 1..Len(message.raw_buffer) + 1
    BY <1>1, <1>2, MessageAssumption, LenProperties
  <2> QED BY <1>1, <1>2, <2>1, MessageAssumption
<1>4. PICK buf \in Seq(Nat) : buf = Buffer
  BY TheBuffer
<1>5. PICK part : part = Members(d, 1, o)
  OBVIOUS
<1>6. part \in Part
  <2>1. PICK k \in Nat \ {0} : k = 1
    OBVIOUS
  <2>2. Members(d, k, o) \in Part
    BY <1>3, Parts
  <2> QED BY <1>5, <2>1, <2>2
<1>8. Lays(buf, Depth, part, e)
  BY <1>2, <1>4, <1>5, <1>6, DepthAssumption DEF Lays, Reference, Whole
<1>9. e \in Nat \ {0}
  BY <1>8, LaysInSteps
<1>10. PICK g, h, q, st :
       /\ g = [i \in 0..1 |-> IF i = 0 THEN e ELSE o] /\ h = [i \in 1..1 |-> Depth]
       /\ q = ObjectFrame(1, d) /\ st = <<q>>
  OBVIOUS
<1>14. Len(st) = 1 /\ st[1] = q
  BY <1>10
<1>15. \A v : Rest(v, q, o) = part
  BY <1>5, <1>10 DEF Rest, ObjectFrame
<1>16. g \in [0..1 -> Nat \ {0}] /\ h \in [1..1 -> Nat] /\ g[0] = e /\ g[1] = o /\ h[1] = Depth
  BY <1>3, <1>9, <1>10, DepthAssumption
<1>17. \A v : Course(buf, v, st, o, e, g, h)
  <2> TAKE v
  <2>1. \A i \in 1..1 : Lays(buf, h[i], Rest(v, st[i], g[i]), g[i - 1])
    <3> TAKE i \in 1..1
    <3>1. i = 1 /\ i - 1 = 0
      OBVIOUS
    <3> QED BY <1>8, <1>14, <1>15, <1>16, <3>1
  <2> QED BY <1>14, <1>16, <2>1 DEF Course
<1>18. Buffer' = buf /\ message_buffer_offset_' = o /\ stack' = st
  BY <1>2, <1>4, <1>10, <1>10 DEF Hydrate, Buffer
<1>19. OnCourse(e, g, h)'
  <2>1. PICK w : w = ros_values_'
    OBVIOUS
  <2>2. Course(buf, w, st, o, e, g, h)
    BY <1>17
  <2> QED BY <1>18, <2>1, <2>2 DEF OnCourse
<1> QED BY <1>2, <1>16, <1>19

----
(* The parser stays on course. *)

StackOnCourse == stack # <<>> /\ Reference.ok => \E g, h : OnCourse(Reference.end, g, h)

CourseInv == ArraysSized => StackOnCourse /\ (outcome = "thrown" => ~Reference.ok)

LEMMA SameReference == ASSUME message' = message PROVE Reference' = Reference
BY DEF Reference, Whole, Buffer

\* A step of the parser on course.
LEMMA ParseOnCourse ==
  ASSUME Inv, ArraysSized, stack # <<>>, stack' # <<>>, [Next]_vars,
         NEW e, NEW g, NEW h, OnCourse(e, g, h)
  PROVE  message' = message /\ \E gg, hh : OnCourse(e, gg, hh)'
<1>1. ASSUME EmplaceField PROVE message' = message /\ \E gg, hh : OnCourse(e, gg, hh)'
  BY <1>1, EmplaceFieldOnCourse DEF EmplaceField
<1>2. ASSUME AllEmplaced PROVE message' = message /\ \E gg, hh : OnCourse(e, gg, hh)'
  BY <1>2, AllEmplacedOnCourse DEF AllEmplaced
<1>3. ASSUME SkipConstant PROVE message' = message /\ \E gg, hh : OnCourse(e, gg, hh)'
  <2>1. PICK n, o : n = Len(stack) /\ o = message_buffer_offset_
    OBVIOUS
  <2>2. OnCourse(e, g, [h EXCEPT ![n] = h[n] - 1])'
    BY <1>3, <2>1, SkipConstantOnCourse
  <2> QED BY <1>3, <2>2 DEF SkipConstant
<1>4. ASSUME NEW m, TurnPasses(ros_values_', e, g, h, m), stack' = Advanced,
             message_buffer_offset_' = m, message' = message
      PROVE  \E gg, hh : OnCourse(e, gg, hh)'
  <2>1. PICK n, G, H : /\ n = Len(stack) /\ G = [g EXCEPT ![n] = m]
                       /\ H = [h EXCEPT ![n] = h[n] - 1]
    OBVIOUS
  <2>2. Course(Buffer, ros_values_', Advanced, m, e, G, H)
    BY <1>4, <2>1 DEF TurnPasses, Passed
  <2>3. Buffer' = Buffer
    BY <1>4 DEF Buffer
  <2>4. OnCourse(e, G, H)'
    BY <1>4, <2>2, <2>3 DEF OnCourse
  <2> QED BY <2>4
<1>5. ASSUME NEW m, NEW o, NEW k, CalledAt(e, g, h, m, o, k),
             message_buffer_offset_' = o, message' = message
      PROVE  \E gg, hh : OnCourse(e, gg, hh)'
  <2>1. PICK n, G, H : /\ n = Len(stack) /\ G = Begins([g EXCEPT ![n] = m], n, o)
                       /\ H = Steps([h EXCEPT ![n] = h[n] - 1], n, k)
    OBVIOUS
  <2>2. Course(Buffer, ros_values_', stack', o, e, G, H)
    BY <1>5, <2>1 DEF CalledAt
  <2>3. Buffer' = Buffer
    BY <1>5 DEF Buffer
  <2>4. OnCourse(e, G, H)'
    BY <1>5, <2>2, <2>3 DEF OnCourse
  <2> QED BY <2>4
<1>6. ASSUME InitObject PROVE message' = message /\ \E gg, hh : OnCourse(e, gg, hh)'
  <2>1. PICK o, k : o = message_buffer_offset_ /\ k = h[Len(stack)] - 2
    OBVIOUS
  <2>2. PICK m : CalledAt(e, g, h, m, o, k)
    BY <1>6, <2>1, InitObjectOnCourse
  <2>3. message_buffer_offset_' = o /\ message' = message
    BY <1>6, <2>1 DEF InitObject
  <2> QED BY <2>2, <2>3, <1>5
<1>7. ASSUME InitPrimitive PROVE message' = message /\ \E gg, hh : OnCourse(e, gg, hh)'
  <2>1. stack' = Advanced /\ message' = message
    BY <1>7 DEF InitPrimitive
  <2>2. PICK m : m = message_buffer_offset_'
    OBVIOUS
  <2>3. TurnPasses(ros_values_', e, g, h, m)
    BY <1>7, <2>2, InitPrimitiveOnCourse
  <2> QED BY <2>1, <2>2, <2>3, <1>4
<1>8. ASSUME InitString PROVE message' = message /\ \E gg, hh : OnCourse(e, gg, hh)'
  <2>1. stack' = Advanced /\ message' = message
    BY <1>8 DEF InitString
  <2>2. PICK m : m = message_buffer_offset_'
    OBVIOUS
  <2>3. TurnPasses(ros_values_', e, g, h, m)
    BY <1>8, <2>2, InitStringOnCourse
  <2> QED BY <2>1, <2>2, <2>3, <1>4
<1>9. ASSUME InitPrimitiveArray PROVE message' = message /\ \E gg, hh : OnCourse(e, gg, hh)'
  <2>1. stack' = Advanced /\ message' = message
    BY <1>9 DEF InitPrimitiveArray
  <2>2. PICK m : m = message_buffer_offset_'
    OBVIOUS
  <2>3. TurnPasses(ros_values_', e, g, h, m)
    BY <1>9, <2>2, InitPrimitiveArrayOnCourse
  <2> QED BY <2>1, <2>2, <2>3, <1>4
<1>10. ASSUME InitArray PROVE message' = message /\ \E gg, hh : OnCourse(e, gg, hh)'
  <2>1. PICK o, k : o = message_buffer_offset_' /\ k = h[Len(stack)] - 1
    OBVIOUS
  <2>2. PICK m : CalledAt(e, g, h, m, o, k)
    BY <1>10, <2>1, InitArrayOnCourse
  <2>3. message' = message
    BY <1>10 DEF InitArray
  <2> QED BY <2>1, <2>2, <2>3, <1>5
<1>11. ASSUME Return PROVE message' = message /\ \E gg, hh : OnCourse(e, gg, hh)'
  <2>1. PICK n : n = Len(stack)
    OBVIOUS
  <2>2. PICK G, H : G = Ends(g, n) /\ H = Fewer(h, n)
    OBVIOUS
  <2>3. OnCourse(e, G, H)'
    BY <1>11, <2>1, <2>2, ReturnOnCourse
  <2> QED BY <1>11, <2>3 DEF Return
<1>12. ASSUME Hydrate \/ ReadPastEnd \/ Finish PROVE FALSE
  BY <1>12 DEF Hydrate, ReadPastEnd, Finish, Throw, EndParse
<1>13. ASSUME UNCHANGED vars PROVE message' = message /\ \E gg, hh : OnCourse(e, gg, hh)'
  <2>1. UNCHANGED <<message, ros_values_, stack, message_buffer_offset_>>
    BY <1>13 DEF vars
  <2>2. Course(Buffer, ros_values_, stack, message_buffer_offset_, e, g, h)
    BY DEF OnCourse
  <2>3. OnCourse(e, g, h)'
    BY <2>1, <2>2 DEF OnCourse, Buffer
  <2> QED BY <2>1, <2>3
<1> QED BY <1>1, <1>2, <1>3, <1>6, <1>7, <1>8, <1>9, <1>10, <1>11, <1>12, <1>13 DEF Next, ParseStep

\* Only the end of a parse changes what data() returns.
LEMMA OnlyFinishParses ==
  ASSUME [Next]_vars
  PROVE  message' = message /\ (~Finish => UNCHANGED <<parsed_, data_>>)
BY DEF Next, ParseStep, Hydrate, EmplaceField, AllEmplaced, SkipConstant, InitObject, InitPrimitive,
   InitString, InitPrimitiveArray, InitArray, ReadPastEnd, Throw, Return, Finish, EndParse, vars

LEMMA InitCourse == Init => CourseInv
BY DEF Init, CourseInv, StackOnCourse

LEMMA NextCourse == Inv /\ CourseInv /\ [Next]_vars => CourseInv'
<1> SUFFICES ASSUME Inv, CourseInv, [Next]_vars, ArraysSized
             PROVE  StackOnCourse' /\ (outcome' = "thrown" => ~Reference'.ok)
  BY DEF CourseInv
<1>1. StackOnCourse /\ (outcome = "thrown" => ~Reference.ok)
  BY DEF CourseInv
<1>2. message' = message
  BY OnlyFinishParses
<1>3. Reference' = Reference
  BY <1>2, SameReference
<1>4. PICK e : e = Reference.end
  OBVIOUS
<1>5. StackOnCourse'
  <2>1. SUFFICES ASSUME stack' # <<>>, Reference.ok PROVE \E g, h : OnCourse(e, g, h)'
    <3>1. Reference'.end = e /\ Reference'.ok = Reference.ok
      BY <1>3, <1>4
    <3> QED BY <3>1 DEF StackOnCourse
  <2>2. CASE stack = <<>>
    <3>1. Hydrate
      BY <2>1, <2>2 DEF Next, ParseStep, EmplaceField, AllEmplaced, Emplacing, SkipConstant,
         AtField, Initialising, InitObject, InitPrimitive, InitString, InitPrimitiveArray,
         InitArray, ReadPastEnd, Return, Finish, Finished, vars
    <3> QED BY <1>4, <2>1, <3>1, HydrateOnCourse
  <2>3. CASE stack # <<>>
    <3>1. PICK g, h : OnCourse(e, g, h)
      BY <1>1, <1>4, <2>1, <2>3 DEF StackOnCourse
    <3> QED BY <2>1, <2>3, <3>1, ParseOnCourse
  <2> QED BY <2>2, <2>3
<1>6. outcome' = "thrown" => ~Reference'.ok
  <2>1. SUFFICES ASSUME outcome' = "thrown", Reference.ok PROVE FALSE
    BY <1>3
  <2>2. outcome # "thrown"
    BY <1>1, <2>1
  <2>3. ReadPastEnd
    BY <2>1, <2>2 DEF Next, ParseStep, Hydrate, EmplaceField, AllEmplaced, SkipConstant, InitObject,
       InitPrimitive, InitString, InitPrimitiveArray, InitArray, Return, Finish, EndParse, vars
  <2>4. stack # <<>>
    BY <2>3 DEF ReadPastEnd, AtField, Initialising
  <2>5. PICK g, h : OnCourse(e, g, h)
    BY <1>1, <1>4, <2>1, <2>4 DEF StackOnCourse
  <2> QED BY <2>3, <2>5, ReadPastEndOffCourse
<1> QED BY <1>5, <1>6

\* The parser is on the course of the layout, whatever is nested in the message.
THEOREM StaysOnCourse == Spec => []CourseInv
  BY Invariance, InitCourse, NextCourse, PTL DEF Spec

\* Only a message that is cut makes parse() throw: a length that lies behind
\* the buffer belongs to a field that the layout does not find either.
THEOREM WholeIsParsed == Spec => []ThrowsOnlyWhenCut
<1>1. CourseInv => ThrowsOnlyWhenCut
  BY DEF CourseInv, ThrowsOnlyWhenCut
<1> QED BY <1>1, StaysOnCourse, PTL

\* While it parses a message that is whole, the parser does not pass its end,
\* and it has reached the end when initObject is through with all fields.
THEOREM NeverLeavesMessage == Spec => []StaysInMessage
<1>1. Inv /\ CourseInv => StaysInMessage
  <2> SUFFICES ASSUME Inv, CourseInv, ArraysSized, Intact, stack # <<>>
               PROVE  /\ message_buffer_offset_ <= message.raw_buffer_offset + message.raw_data_len
                      /\ Finished /\ Len(stack) = 1 => message_buffer_offset_ = Reference.end
    BY DEF StaysInMessage
  <2>1. PICK e, o : e = Reference.end /\ o = message_buffer_offset_
    OBVIOUS
  <2>2. Reference.ok /\ e = message.raw_buffer_offset + message.raw_data_len
    BY <2>1 DEF Intact
  <2>3. PICK g, h : OnCourse(e, g, h)
    BY <2>1, <2>2 DEF CourseInv, StackOnCourse
  <2>4. o <= e
    <3>1. PICK buf \in Seq(Nat) : buf = Buffer
      BY TheBuffer
    <3>2. PICK v, st : v = ros_values_ /\ st = stack
      OBVIOUS
    <3>3. st \in Seq(Frame) /\ Course(buf, v, st, o, e, g, h)
      BY <2>1, <2>3, <3>1, <3>2, TheTop DEF OnCourse
    <3> QED BY <3>3, CourseGoesOn
  <2>5. Finished /\ Len(stack) = 1 => o = e
    <3>1. SUFFICES ASSUME Finished, Len(stack) = 1 PROVE o = e
      OBVIOUS
    <3>2. PICK n : n = Len(stack)
      OBVIOUS
    <3>3. g[n - 1] = o
      BY <2>1, <2>3, <3>1, <3>2, FinishedOnCourse
    <3>4. g[0] = e
      BY <2>3 DEF OnCourse, Course
    <3>5. n - 1 = 0
      BY <3>1, <3>2
    <3> QED BY <3>3, <3>4, <3>5
  <2> QED BY <2>1, <2>2, <2>4, <2>5
<1> QED BY <1>1, Invariance, StaysOnCourse, PTL

----
(* The trees of values. *)

LEMMA TreeAt ==
  ASSUME NEW values, NEW v \in RosValue, NEW n \in Nat
  PROVE  Tree(values)[n + 1][v] = WalkOnce(Tree(values)[n], values, v)
<1>1. PICK j \in Nat : j = n + 1
  OBVIOUS
<1>2. j - 1 = n /\ j # 0
  BY <1>1
<1>3. Tree(values)[j] = TreeStep(values, j, Tree(values)[j - 1])
  BY TreeIs
<1>4. Tree(values)[j][v] = WalkOnce(Tree(values)[j - 1], values, v)
  BY <1>2, <1>3 DEF TreeStep
<1> QED BY <1>2, <1>4

\* The names of the fields of definition d from its k-th member on.
FieldsFrom(d, k) == {l \in k..Len(Definitions[d]) : ~Definitions[d][l].const}
NamesFrom(d, k) == {Definitions[d][l].name : l \in FieldsFrom(d, k)}

LEMMA NamesNext ==
  ASSUME NEW d \in DefNames, NEW k \in Nat \ {0}, k <= Len(Definitions[d])
  PROVE  NamesFrom(d, k) = IF Definitions[d][k].const THEN NamesFrom(d, k + 1)
                           ELSE {Definitions[d][k].name} \cup NamesFrom(d, k + 1)
<1>1. PICK n \in Nat : n = Len(Definitions[d])
  BY MembersAreCounted
<1>2. k..n = {k} \cup k+1..n
  BY <1>1
<1>3. FieldsFrom(d, k) = IF Definitions[d][k].const THEN FieldsFrom(d, k + 1)
                         ELSE {k} \cup FieldsFrom(d, k + 1)
  BY <1>2 DEF FieldsFrom
<1> QED BY <1>3 DEF NamesFrom

LEMMA AllNames == ASSUME NEW d \in DefNames PROVE NamesFrom(d, 1) = FieldNames(d)
<1>1. DOMAIN Definitions[d] = 1..Len(Definitions[d])
  BY LenProperties
<1> QED BY <1>1 DEF NamesFrom, FieldsFrom, FieldNames

\* A function on the names, and a list of n trees.
HasFields(t, names) == t = [x \in names |-> t[x]]
HasElements(t, n) == t = [j \in 1..n |-> t[j]]

LEMMA FieldAdded ==
  ASSUME NEW t, NEW names, HasFields(t, names), NEW x, NEW tree, NEW w, w = WithField(x, tree, t)
  PROVE  HasFields(w, {x} \cup names)
<1>1. DOMAIN t = names
  BY DEF HasFields
<1>2. w = [y \in names \cup {x} |-> IF y = x THEN tree ELSE t[y]]
  BY <1>1 DEF WithField
<1>3. names \cup {x} = {x} \cup names
  OBVIOUS
<1> QED BY <1>2, <1>3 DEF HasFields

\* A list with another tree in front.
PutInFront(s, tree, t, n) == s[1] = tree /\ \A j \in 1..n : s[j + 1] = t[j]

LEMMA ElementAdded ==
  ASSUME NEW t, NEW n \in Nat, HasElements(t, n), NEW tree
  PROVE  /\ HasElements(<<tree>> \o t, n + 1)
         /\ PutInFront(<<tree>> \o t, tree, t, n)
<1> DEFINE S == {tree} \cup {t[j] : j \in 1..n}
<1>1. t \in Seq(S) /\ DOMAIN t = 1..n
  BY DEF HasElements
<1>2. Len(t) = n
  <2>1. Len(t) \in Nat /\ DOMAIN t = 1..Len(t)
    BY LenProperties
  <2> QED BY <1>1, <2>1
<1>3. tree \in S
  OBVIOUS
<1> HIDE DEF S
<1>4. PICK s : s = <<tree>> \o t
  OBVIOUS
<1>5. /\ s \in Seq(S) /\ Len(s) = n + 1 /\ s[1] = tree /\ \A j \in 1..n : s[j + 1] = t[j]
  BY <1>1, <1>2, <1>3, <1>4, PutFirst
<1>6. DOMAIN s = 1..n+1
  BY <1>5, LenProperties
<1>7. s = [j \in 1..n+1 |-> s[j]]
  <2>1. \E U : s \in [1..n+1 -> U]
    BY <1>5, <1>6, ElementOfSeq
  <2> QED BY <2>1
<1>8. HasElements(s, n + 1)
  BY <1>7 DEF HasElements
<1> QED BY <1>4, <1>5, <1>8 DEF PutInFront

\* The trees of members and elements.
Shape(w, t) ==
  /\ \A d \in DefNames, k \in Nat \ {0} : w = Members(d, k, w.at) => HasFields(t, NamesFrom(d, k))
  /\ \A f \in Member, n \in Nat : w = Elements(f, n, w.at) => HasElements(t, n)

ShapesIn(L) == \A w \in Part : L[w].ok => Shape(w, L[w].tree)

LEMMA ElementsShape ==
  ASSUME NEW L, Forms(L), ShapesIn(L), NEW f \in Member, NEW n \in Nat, NEW o \in Nat \ {0},
         NEW r, r = LayElements(L, f, n, o), r.ok
  PROVE  HasElements(r.tree, n)
<1>1. CASE n = 0
  <2>1. r.tree = <<>>
    BY <1>1, ElementsLaid
  <2> QED BY <1>1, <2>1 DEF HasElements
<1>2. CASE n # 0
  <2>1. ElementFirst(L, f, n, o, r)
    BY <1>2, ElementsLaid
  <2>a. PICK j \in Nat : j = n - 1 /\ j + 1 = n
    BY <1>2
  <2>b. PICK e \in Nat \ {0} : /\ L[Elements(f, n - 1, e)].ok
                              /\ r.tree = <<L[Value(f, o)].tree>> \o L[Elements(f, n - 1, e)].tree
    BY <2>1 DEF ElementFirst
  <2>2. /\ j = n - 1 /\ L[Elements(f, j, e)].ok
        /\ r.tree = <<L[Value(f, o)].tree>> \o L[Elements(f, j, e)].tree
    BY <2>a, <2>b
  <2>3. PICK w \in Part : w = Elements(f, j, e) /\ w.at = e
    BY Parts
  <2>4. HasElements(L[w].tree, j)
    BY <2>2, <2>3 DEF ShapesIn, Shape
  <2>5. HasElements(r.tree, j + 1)
    BY <2>2, <2>3, <2>4, ElementAdded
  <2> QED BY <2>a, <2>5
<1> QED BY <1>1, <1>2

LEMMA MembersShape ==
  ASSUME NEW L, Forms(L), ShapesIn(L), NEW buf \in Seq(Nat), NEW d \in DefNames,
         NEW k \in Nat \ {0}, NEW o \in Nat \ {0}, NEW r, r = LayMembers(L, buf, d, k, o), r.ok
  PROVE  HasFields(r.tree, NamesFrom(d, k))
<1>1. CASE k > Len(Definitions[d])
  <2>1. r.tree = NoFields
    BY <1>1, MembersLaid
  <2>2. NamesFrom(d, k) = {}
    <3>1. Len(Definitions[d]) \in Nat
      BY MembersAreCounted
    <3>2. k..Len(Definitions[d]) = {}
      BY <1>1, <3>1
    <3> QED BY <3>2 DEF NamesFrom, FieldsFrom
  <2> QED BY <2>1, <2>2 DEF HasFields, NoFields
<1>2. CASE k <= Len(Definitions[d]) /\ Definitions[d][k].const
  <2>1. PICK j \in Nat \ {0} : j = k + 1
    OBVIOUS
  <2>2. r = L[Members(d, k + 1, o)]
    BY <1>2, MembersLaid
  <2>3. PICK w \in Part : w = Members(d, j, o) /\ w.at = o
    BY Parts
  <2>4. HasFields(r.tree, NamesFrom(d, j))
    BY <2>1, <2>2, <2>3 DEF ShapesIn, Shape
  <2> QED BY <1>2, <2>1, <2>4, NamesNext
<1>3. CASE k <= Len(Definitions[d]) /\ ~Definitions[d][k].const
  <2>1. PICK j \in Nat \ {0} : j = k + 1
    OBVIOUS
  <2>2. FieldFirst(L, buf, d, k, o, r)
    BY <1>3, MembersLaid
  <2>3. PICK e, x, t :
          /\ e \in Nat \ {0} /\ L[Members(d, j, e)].ok /\ x = Definitions[d][k].name
          /\ r.tree = WithField(x, t, L[Members(d, j, e)].tree)
    BY <2>1, <2>2 DEF FieldFirst
  <2>a. e \in Nat \ {0}
    BY <2>3
  <2>4. PICK w \in Part : w = Members(d, j, e) /\ w.at = e
    BY <2>a, Parts
  <2>5. HasFields(L[w].tree, NamesFrom(d, j))
    BY <2>3, <2>4 DEF ShapesIn, Shape
  <2>6. HasFields(r.tree, {x} \cup NamesFrom(d, j))
    <3>1. PICK u, names : u = L[w].tree /\ names = NamesFrom(d, j)
      OBVIOUS
    <3>2. HasFields(u, names) /\ r.tree = WithField(x, t, u)
      BY <2>3, <2>4, <2>5, <3>1
    <3>3. HasFields(WithField(x, t, u), {x} \cup names)
      BY <3>2, FieldAdded
    <3> QED BY <3>1, <3>2, <3>3
  <2> QED BY <1>3, <2>1, <2>3, <2>6, NamesNext
<1> QED
  <2>1. Len(Definitions[d]) \in Nat
    BY MembersAreCounted
  <2> QED BY <1>1, <1>2, <1>3

LEMMA LayoutShapes ==
  ASSUME NEW buf \in Seq(Nat)
  PROVE  \A n \in Nat : ShapesIn(Layout(buf)[n])
<1> DEFINE N == {n \in Nat : ShapesIn(Layout(buf)[n])}
<1>1. 0 \in N
  BY LayoutAt, Results DEF ShapesIn
<1>2. ASSUME NEW n \in Nat, n \in N
      PROVE  n + 1 \in N
  <2>1. PICK L : L = Layout(buf)[n]
    OBVIOUS
  <2>2. Forms(L) /\ ShapesIn(L)
    BY <1>2, <2>1, LayoutForms
  <2>3. ASSUME NEW w \in Part, NEW r, r = LayPart(L, buf, w), r.ok
        PROVE  Shape(w, r.tree)
    <3>1. PICK o \in Nat \ {0} : o = w.at
      BY PartForms
    <3>2. ASSUME NEW f \in Member, NEW j \in Nat, w = Elements(f, j, o)
          PROVE  HasElements(r.tree, j)
      <4>1. r = LayElements(L, f, j, o)
        BY <2>3, <3>2, PartsLaid
      <4> QED BY <2>2, <2>3, <4>1, ElementsShape
    <3>3. ASSUME NEW d \in DefNames, NEW k \in Nat \ {0}, w = Members(d, k, o)
          PROVE  HasFields(r.tree, NamesFrom(d, k))
      <4>1. r = LayMembers(L, buf, d, k, o)
        BY <2>3, <3>3, PartsLaid
      <4> QED BY <2>2, <2>3, <4>1, MembersShape
    <3> QED BY <3>1, <3>2, <3>3 DEF Shape
  <2>4. \A w \in Part : Layout(buf)[n + 1][w] = LayPart(L, buf, w)
    BY <2>1, LayoutAt
  <2>5. ShapesIn(Layout(buf)[n + 1])
    BY <2>3, <2>4 DEF ShapesIn
  <2> QED BY <2>5
<1> HIDE DEF N
<1>3. \A n \in Nat : n \in N
  BY <1>1, <1>2, AllNaturals
<1> QED BY <1>3 DEF N

LEMMA ShapeLaid ==
  ASSUME NEW buf \in Seq(Nat), NEW n, NEW e, NEW o \in Nat \ {0}
  PROVE  /\ \A d \in DefNames, k \in Nat \ {0} : Lays(buf, n, Members(d, k, o), e) =>
              HasFields(Layout(buf)[n][Members(d, k, o)].tree, NamesFrom(d, k))
         /\ \A f \in Member, j \in Nat : Lays(buf, n, Elements(f, j, o), e) =>
              HasElements(Layout(buf)[n][Elements(f, j, o)].tree, j)
<1>1. ASSUME NEW d \in DefNames, NEW k \in Nat \ {0}, Lays(buf, n, Members(d, k, o), e)
      PROVE  HasFields(Layout(buf)[n][Members(d, k, o)].tree, NamesFrom(d, k))
  <2>1. PICK w \in Part : w = Members(d, k, o) /\ w.at = o
    BY Parts
  <2>2. n \in Nat /\ Layout(buf)[n][w].ok
    BY <1>1, <2>1 DEF Lays
  <2>3. Shape(w, Layout(buf)[n][w].tree)
    BY <2>2, LayoutShapes DEF ShapesIn
  <2> QED BY <2>1, <2>3 DEF Shape
<1>2. ASSUME NEW f \in Member, NEW j \in Nat, Lays(buf, n, Elements(f, j, o), e)
      PROVE  HasElements(Layout(buf)[n][Elements(f, j, o)].tree, j)
  <2>1. PICK w \in Part : w = Elements(f, j, o) /\ w.at = o
    BY Parts
  <2>2. n \in Nat /\ Layout(buf)[n][w].ok
    BY <1>2, <2>1 DEF Lays
  <2>3. Shape(w, Layout(buf)[n][w].tree)
    BY <2>2, LayoutShapes DEF ShapesIn
  <2> QED BY <2>1, <2>3 DEF Shape
<1> QED BY <1>1, <1>2

----
(* Values that are filled in. *)

\* c is the place of the child of the value at p that has this key.
Keyed(v, p, c, key) ==
  \/ /\ v[p].type = "array" /\ key \in 1..v[p].children.length
     /\ c = v[p].children.offset + key - 1
  \/ /\ v[p].type = "object"
     /\ \E k \in FieldsFrom(v[p].def, 1) :
          /\ FieldCount(v[p].def, k - 1) < v[p].children.length
          /\ c = v[p].children.offset + FieldCount(v[p].def, k - 1)
          /\ key = Definitions[v[p].def][k].name

\* Value x is to have tree t, which is found in n steps: what is known without
\* its children.
Shaped(x, t, n) ==
  /\ n \in Nat \ {0}
  /\ x.type \in Primitives \cup {"string"} => t = LeafAt(x.type, x.offset)
  /\ x.type = "primitive_array" =>
       t = LeavesFrom(x.element_type, x.offset, x.length) /\ (x.length # 0 => n > 1)
  /\ x.type = "array" => HasElements(t, x.children.length)
  /\ x.type = "object" => HasFields(t, FieldNames(x.def))

\* All fields of an object were visited.
Filled(x) ==
  x.type = "object" => x.children.length = FieldCount(x.def, Len(Definitions[x.def]))

\* The children have the trees that are parts of that of the value.
KeysGrow(v, D, T, N) ==
  \A p, c \in D : \A key : Keyed(v, p, c, key) => T[c] = T[p][key] /\ N[c] < N[p]

LEMMA ValueParts ==
  ASSUME NEW x \in RosValue
  PROVE  /\ x.type \in {"object", "array"} => x.children.offset \in Nat /\ x.children.length \in Nat
         /\ x.type = "object" => x.def \in DefNames
         /\ x.type = "primitive_array" =>
              x.element_type \in Primitives /\ x.offset \in Nat /\ x.length \in Nat
         /\ x.type \in {"object", "array", "primitive_array"} \cup Primitives \cup {"string"}
<1>1. ASSUME NEW o \in Nat, NEW l \in Nat, NEW d \in DefNames,
             x = [type |-> "object", children |-> [offset |-> o, length |-> l], def |-> d]
      PROVE  x.def \in DefNames /\ x.type = "object"
  BY <1>1
<1>2. ASSUME NEW o \in Nat, NEW l \in Nat, NEW t \in Primitives,
             x = [type |-> "primitive_array", element_type |-> t, offset |-> o, length |-> l]
      PROVE  /\ x.element_type \in Primitives /\ x.offset \in Nat /\ x.length \in Nat
             /\ x.type = "primitive_array"
  BY <1>2
<1>3. "object" \notin Primitives /\ "array" \notin Primitives /\ "primitive_array" \notin Primitives
  BY DefinitionAssumption
<1>4. x.type = "object" => x.def \in DefNames
  BY <1>3, ValueForms
<1>5. x.type = "primitive_array" =>
        x.element_type \in Primitives /\ x.offset \in Nat /\ x.length \in Nat
  BY <1>3, ValueForms
<1> QED BY <1>4, <1>5, ValueForms

LEMMA KeyedChild ==
  ASSUME NEW v \in Seq(RosValue), NEW p \in 1..Len(v), NEW c, NEW key, Keyed(v, p, c, key)
  PROVE  c \in Children(v, p)
<1>1. v[p] \in RosValue
  BY ElementOfSeq
<1>2. v[p].type \in {"object", "array"} => v[p].children.offset \in Nat /\ v[p].children.length \in Nat
  BY ValueForms
<1>3. CASE v[p].type = "array" /\ key \in 1..v[p].children.length
           /\ c = v[p].children.offset + key - 1
  <2>1. PICK o \in Nat, l \in Nat : o = v[p].children.offset /\ l = v[p].children.length
    BY <1>2, <1>3
  <2>a. PICK j \in 1..l : c = o + j - 1
    BY <1>3, <2>1
  <2>2. c \in o..o+l-1
    BY <2>a
  <2> QED BY <1>3, <2>1, <2>2 DEF Children
<1>4. CASE v[p].type = "object"
  <2>1. PICK k \in FieldsFrom(v[p].def, 1) :
          /\ FieldCount(v[p].def, k - 1) < v[p].children.length
          /\ c = v[p].children.offset + FieldCount(v[p].def, k - 1)
    BY <1>4 DEF Keyed
  <2>2. v[p].def \in DefNames
    BY <1>4, ValueParts
  <2>3. k - 1 \in Nat
    BY MembersAreCounted DEF FieldsFrom
  <2>4. FieldCount(v[p].def, k - 1) \in Nat
    BY <2>3, CountNext
  <2>5. PICK o \in Nat, l \in Nat : o = v[p].children.offset /\ l = v[p].children.length
    BY <1>2, <1>4
  <2>a. PICK i \in Nat : i = FieldCount(v[p].def, k - 1)
    BY <2>4
  <2>b. c = o + i /\ i < l
    BY <2>1, <2>5, <2>a
  <2>6. c \in o..o+l-1
    BY <2>b
  <2> QED BY <1>4, <2>5, <2>6 DEF Children
<1> QED BY <1>3, <1>4 DEF Keyed

\* get() finds the value of a field.
LEMMA GetFinds ==
  ASSUME NEW values, NEW x \in RosValue, x.type = "object", NEW key \in FieldNames(x.def)
  PROVE  \E k \in FieldsFrom(x.def, 1) :
           /\ Definitions[x.def][k].name = key
           /\ Get(values, x, key) = values[x.children.offset + FieldCount(x.def, k - 1)]
<1>1. PICK d : d = x.def
  OBVIOUS
<1>2. d \in DefNames
  BY <1>1, ValueParts
<1>3. PICK l \in Nat : l = Len(Definitions[d])
  BY <1>2, MembersAreCounted
<1>4. DOMAIN Definitions[d] = 1..l
  BY <1>3, DefinitionAssumption, LenProperties
<1>5. PICK k : k = CHOOSE j \in DOMAIN Definitions[d] :
                     ~Definitions[d][j].const /\ Definitions[d][j].name = key
  OBVIOUS
<1>6. \E j \in DOMAIN Definitions[d] : ~Definitions[d][j].const /\ Definitions[d][j].name = key
  BY <1>1 DEF FieldNames
<1>7. k \in DOMAIN Definitions[d] /\ ~Definitions[d][k].const /\ Definitions[d][k].name = key
  BY <1>5, <1>6
<1>8. k \in FieldsFrom(d, 1)
  BY <1>4, <1>7 DEF FieldsFrom
<1>9. IndexOf(d, k) = FieldCount(d, k - 1)
  <2>1. {j \in DOMAIN Definitions[d] : j < k /\ ~Definitions[d][j].const}
          = {j \in 1..k-1 : ~Definitions[d][j].const}
    BY <1>4, <1>7
  <2> QED BY <2>1 DEF IndexOf, FieldCount
<1>10. Get(values, x, key) = At(values, x, IndexOf(d, k))
  BY <1>1, <1>5 DEF Get
<1>11. Get(values, x, key) = values[x.children.offset + FieldCount(d, k - 1)]
  BY <1>9, <1>10 DEF At
<1> QED BY <1>1, <1>7, <1>8, <1>11

\* Values that have the trees they are to have.
LEMMA TreesGrown ==
  ASSUME NEW v \in Seq(RosValue), Apart(v), NEW T, NEW N,
         \A p \in 1..Len(v) : Shaped(v[p], T[p], N[p]) /\ Filled(v[p]),
         KeysGrow(v, 1..Len(v), T, N)
  PROVE  \A n \in Nat : \A p \in 1..Len(v) : N[p] <= n => Tree(v)[n][v[p]] = T[p]
<1> DEFINE M == {n \in Nat : \A p \in 1..Len(v) : N[p] <= n => Tree(v)[n][v[p]] = T[p]}
<1>1. 0 \in M
  BY DEF Shaped
<1>2. ASSUME NEW n \in Nat, n \in M
      PROVE  n + 1 \in M
  <2>1. PICK S : S = Tree(v)[n]
    OBVIOUS
  <2>2. \A c \in 1..Len(v) : N[c] <= n => S[v[c]] = T[c]
    BY <1>2, <2>1
  <2> HIDE DEF M
  <2>3. ASSUME NEW p \in 1..Len(v), N[p] <= n + 1
        PROVE  Tree(v)[n + 1][v[p]] = T[p]
    <3>1. PICK x \in RosValue : x = v[p]
      BY ElementOfSeq
    <3>2. PICK t, b : t = T[p] /\ b = N[p]
      OBVIOUS
    <3>3. Shaped(x, t, b) /\ Filled(x) /\ b \in Nat \ {0} /\ b <= n + 1
      BY <2>3, <3>1, <3>2 DEF Shaped
    <3>4. Tree(v)[n + 1][x] = WalkOnce(S, v, x)
      BY <2>1, TreeAt
    <3>5. \A c \in 1..Len(v) : \A key : Keyed(v, p, c, key) => S[v[c]] = t[key]
      <4> TAKE c \in 1..Len(v)
      <4> TAKE key
      <4> HAVE Keyed(v, p, c, key)
      <4>1. T[c] = t[key] /\ N[c] < b
        BY <3>2 DEF KeysGrow
      <4>2. N[c] \in Nat
        BY DEF Shaped
      <4>3. N[c] <= n
        BY <3>3, <4>1, <4>2
      <4> QED BY <2>2, <4>1, <4>3
    <3>6. \A c, key : Keyed(v, p, c, key) => c \in 1..Len(v)
      <4> TAKE c, key
      <4> HAVE Keyed(v, p, c, key)
      <4>1. c \in Children(v, p)
        BY KeyedChild
      <4>2. Children(v, p) \subseteq p + 1 .. Len(v)
        BY DEF Apart
      <4>3. Len(v) \in Nat
        BY LenProperties
      <4> QED BY <4>1, <4>2, <4>3
    <3>7. CASE x.type = "object"
      <4>1. WalkOnce(S, v, x) = [key \in FieldNames(x.def) |-> S[Get(v, x, key)]]
        BY <3>7 DEF WalkOnce
      <4>2. ASSUME NEW key \in FieldNames(x.def)
            PROVE  S[Get(v, x, key)] = t[key]
        <5>1. PICK k \in FieldsFrom(x.def, 1) :
                /\ Definitions[x.def][k].name = key
                /\ Get(v, x, key) = v[x.children.offset + FieldCount(x.def, k - 1)]
          BY <3>7, GetFinds
        <5>2. FieldCount(x.def, k - 1) < x.children.length
          <6>1. x.def \in DefNames /\ Len(Definitions[x.def]) \in Nat
            BY <3>7, ValueParts, MembersAreCounted
          <6>2. k \in 1..Len(Definitions[x.def]) /\ ~Definitions[x.def][k].const
            BY DEF FieldsFrom
          <6>3. PICK d, j, z : d = x.def /\ j = Len(Definitions[x.def]) /\ z = k
            OBVIOUS
          <6>4. /\ FieldCount(d, z) = FieldCount(d, z - 1) + 1
                /\ FieldCount(d, z - 1) \in Nat /\ FieldCount(d, z) <= FieldCount(d, j)
            BY <6>2, <6>3, FieldBefore
          <6>5. x.children.length = FieldCount(d, j)
            BY <3>3, <3>7, <6>3 DEF Filled
          <6>6. FieldCount(d, j) \in Nat
            BY <6>3, CountNext
          <6> QED BY <6>3, <6>4, <6>5, <6>6
        <5>3. PICK c : c = x.children.offset + FieldCount(x.def, k - 1)
          OBVIOUS
        <5>4. Keyed(v, p, c, key)
          BY <3>1, <3>7, <5>1, <5>2, <5>3 DEF Keyed
        <5> QED BY <3>5, <3>6, <5>1, <5>3, <5>4
      <4>3. t = [key \in FieldNames(x.def) |-> t[key]]
        BY <3>3, <3>7 DEF Shaped, HasFields
      <4> QED BY <3>1, <3>2, <3>4, <4>1, <4>2, <4>3
    <3>8. CASE x.type = "array"
      <4>1. PICK l \in Nat : l = x.children.length
        BY <3>8, ValueForms
      <4>2. WalkOnce(S, v, x) = [k \in 1..l |-> S[At(v, x, k - 1)]]
        BY <3>8, <4>1 DEF WalkOnce, SizeOf
      <4>3. ASSUME NEW k \in 1..l
            PROVE  S[At(v, x, k - 1)] = t[k]
        <5>1. At(v, x, k - 1) = v[x.children.offset + (k - 1)]
          BY <3>8 DEF At
        <5>2. x.children.offset \in Nat
          BY <3>8, ValueForms
        <5>3. x.children.offset + (k - 1) = x.children.offset + k - 1
          BY <5>2
        <5>4. PICK c : c = x.children.offset + k - 1
          OBVIOUS
        <5>5. Keyed(v, p, c, k)
          BY <3>1, <3>8, <4>1, <5>4 DEF Keyed
        <5> QED BY <3>5, <3>6, <5>1, <5>3, <5>4, <5>5
      <4>4. t = [k \in 1..l |-> t[k]]
        BY <3>3, <3>8, <4>1 DEF Shaped, HasElements
      <4> QED BY <3>1, <3>2, <3>4, <4>2, <4>3, <4>4
    <3>9. CASE x.type = "primitive_array"
      <4>1. PICK y, o, l : y = x.element_type /\ o = x.offset /\ l = x.length
        OBVIOUS
      <4>2. y \in Primitives /\ o \in Nat /\ l \in Nat
        BY <3>9, <4>1, ValueParts
      <4>3. WalkOnce(S, v, x) = [k \in 1..l |-> S[At(v, x, k - 1)]]
        BY <3>9, <4>1 DEF WalkOnce, SizeOf
      <4>4. t = LeavesFrom(y, o, l) /\ (l # 0 => b > 1)
        BY <3>3, <3>9, <4>1 DEF Shaped
      <4>5. ASSUME NEW k \in 1..l
            PROVE  S[At(v, x, k - 1)] = LeafAt(y, o + (k - 1) * PrimitiveSize[y])
        <5>1. PICK q : q = LeafAt(y, o + (k - 1) * PrimitiveSize[y])
          OBVIOUS
        <5>2. At(v, x, k - 1) = q
          BY <3>9, <4>1, <5>1 DEF At, LeafAt
        <5>3. o + (k - 1) * PrimitiveSize[y] \in Nat
          <6>1. PrimitiveSize[y] \in Nat /\ k - 1 \in Nat
            BY <4>2, DefinitionAssumption
          <6>2. PICK z \in Nat, i \in Nat : z = PrimitiveSize[y] /\ i = k - 1
            BY <6>1
          <6>3. PICK y0 \in Nat : y0 = i * z
            BY Times
          <6>4. o + y0 \in Nat
            BY <4>2
          <6> QED BY <6>2, <6>3, <6>4
        <5>4. q \in RosValue /\ q.type = y /\ q.offset = o + (k - 1) * PrimitiveSize[y]
          BY <4>2, <5>1, <5>3 DEF LeafAt, RosValue
        <5>5. PICK j \in Nat : n = j + 1
          <6>1. n - 1 \in Nat
            BY <3>3, <4>2, <4>4
          <6> QED BY <6>1
        <5>6. S[q] = WalkOnce(Tree(v)[j], v, q)
          BY <2>1, <5>4, <5>5, TreeAt
        <5>7. q.type \notin {"object", "array", "primitive_array"}
          BY <4>2, <5>4, DefinitionAssumption
        <5>8. S[q] = LeafAt(q.type, q.offset)
          BY <5>6, <5>7 DEF WalkOnce
        <5> QED BY <5>2, <5>4, <5>8
      <4>6. t = [k \in 1..l |-> LeafAt(y, o + (k - 1) * PrimitiveSize[y])]
        BY <4>4 DEF LeavesFrom
      <4> QED BY <3>1, <3>2, <3>4, <4>3, <4>5, <4>6
    <3>10. CASE x.type \in Primitives \cup {"string"}
      <4>1. x.type \notin {"object", "array", "primitive_array"}
        BY <3>10, DefinitionAssumption
      <4>2. WalkOnce(S, v, x) = LeafAt(x.type, x.offset)
        BY <4>1 DEF WalkOnce
      <4> QED BY <3>1, <3>2, <3>3, <3>4, <3>10, <4>2 DEF Shaped
    <3> QED BY <3>7, <3>8, <3>9, <3>10, ValueForms
  <2> QED BY <2>3 DEF M
<1> HIDE DEF M
<1>3. \A n \in Nat : n \in M
  BY <1>1, <1>2, AllNaturals
<1> QED BY <1>3 DEF M

----
(* The values that are filled in while the parser is on course. *)

\* The places up to m that wait for no call, and those whose values were visited.
NotWaiting(v, st, m) == {p \in 1..m : \A i \in 1..Len(st) : p \notin Waiting(v, st[i])}
Reached(v, st) == NotWaiting(v, st, Len(v))

\* Tree r, of what is left to call f, agrees with tree t of the value of the call.
Agrees(v, f, r, t) ==
  IF f.fn = "initObject"
  THEN \A k \in FieldsFrom(f.def, IF f.loop = "emplace" THEN 1 ELSE f.next) :
         r[Definitions[f.def][k].name] = t[Definitions[f.def][k].name]
  ELSE \A j \in f.next..v[f.at].children.length : r[j - f.next + 1] = t[j]

\* What is known of call f, which is at offset o with k steps to go, ...
CallGrows(buf, v, f, k, o, T, N) ==
  /\ k <= N[f.at]
  /\ f.fn = "initObject" => v[f.at].def = f.def
  /\ Agrees(v, f, Layout(buf)[k][Rest(v, f, o)].tree, T[f.at])

\* ... and of all calls and all values.
CallsGrow(buf, v, st, g, h, T, N) ==
  \A i \in 1..Len(st) : CallGrows(buf, v, st[i], h[i], g[i], T, N)
PlacesGrow(v, D, T, N) == (\A p \in D : Shaped(v[p], T[p], N[p])) /\ KeysGrow(v, D, T, N)
OthersFilled(v, st, D) == \A p \in D : (\E i \in 1..Len(st) : st[i].at = p) \/ Filled(v[p])

Grown(buf, v, st, g, h, T, N) ==
  /\ CallsGrow(buf, v, st, g, h, T, N)
  /\ PlacesGrow(v, Reached(v, st), T, N)
  /\ OthersFilled(v, st, Reached(v, st))

\* A turn: the tree of its part is that of the field or element, and the others
\* agree as before.
TurnKey(f) == IF f.fn = "initObject" THEN Definitions[f.def][f.next].name ELSE f.next

LEMMA AgreesOn ==
  ASSUME NamesApart, NEW v \in Seq(RosValue), NEW f \in Frame, FrameOK(v, f), AtTurn(v, f),
         NEW r, NEW t, Agrees(v, f, r, t), NEW here, NEW behind, Composed(f, r, here, behind),
         f.fn = "initObject" => HasFields(behind, NamesFrom(f.def, f.next + 1)),
         f.fn = "initArray" => HasElements(behind, v[f.at].children.length - f.next)
  PROVE  here = t[TurnKey(f)] /\ Agrees(v, Stepped(f), behind, t)
<1>1. PICK s : s = Stepped(f)
  OBVIOUS
<1>2. /\ s \in Frame /\ s.fn = f.fn /\ s.at = f.at /\ s.next = f.next + 1
      /\ f.fn = "initObject" => s.def = f.def /\ s.loop = f.loop
      /\ f.fn = "initArray" => s.field = f.field
  BY <1>1, NextTurn DEF Stepped
<1>3. PICK k \in Nat \ {0} : k = f.next
  BY DEF FrameOK
<1>4. CASE f.fn = "initObject"
  <2>1. PICK d \in DefNames : d = f.def
    BY <1>4, FrameForms
  <2>2. f.loop # "emplace" /\ k <= Len(Definitions[d]) /\ ~Definitions[d][k].const /\ Len(Definitions[d]) \in Nat
    BY <1>3, <1>4, <2>1, FrameForms, MembersAreCounted DEF AtTurn, IsEmplacing
  <2>3. PICK x : x = Definitions[d][k].name
    OBVIOUS
  <2>4. r = WithField(x, here, behind)
    BY <1>3, <1>4, <2>1, <2>3 DEF Composed
  <2>5. PICK names : names = NamesFrom(d, k + 1)
    OBVIOUS
  <2>6. HasFields(behind, names)
    BY <1>3, <1>4, <2>1, <2>5
  <2>7. r[x] = here /\ \A y \in names : y # x => r[y] = behind[y]
    BY <2>4, <2>6 DEF WithField, HasFields
  <2>8. \A l \in FieldsFrom(d, k) : r[Definitions[d][l].name] = t[Definitions[d][l].name]
    BY <1>3, <1>4, <2>1, <2>2 DEF Agrees
  <2>9. here = t[x]
    <3>1. k \in FieldsFrom(d, k)
      BY <2>2 DEF FieldsFrom
    <3> QED BY <2>3, <2>7, <2>8, <3>1
  <2>10. ASSUME NEW l \in FieldsFrom(d, k + 1)
         PROVE  behind[Definitions[d][l].name] = t[Definitions[d][l].name]
    <3>1. l \in FieldsFrom(d, k) /\ l # k /\ l \in 1..Len(Definitions[d]) /\ ~Definitions[d][l].const
      BY <2>10 DEF FieldsFrom
    <3>2. Definitions[d][l].name \in names
      BY <2>5, <2>10 DEF NamesFrom
    <3>3. Definitions[d][l].name # x
      <4>1. l \in DOMAIN Definitions[d] /\ k \in DOMAIN Definitions[d]
        <5>1. k \in 1..Len(Definitions[d])
          BY <2>2
        <5>2. Definitions[d] \in Seq(Member)
          BY DefinitionAssumption
        <5> QED BY <3>1, <5>1, <5>2
      <4> QED BY <2>2, <2>3, <3>1, <4>1 DEF NamesApart
    <3> QED BY <2>7, <2>8, <3>1, <3>2, <3>3
  <2>11. Agrees(v, s, behind, t)
    BY <1>2, <1>3, <1>4, <2>1, <2>2, <2>10 DEF Agrees
  <2> QED BY <1>1, <1>3, <1>4, <2>1, <2>3, <2>9, <2>11 DEF TurnKey
<1>5. CASE f.fn = "initArray"
  <2>1. PICK z \in Nat : z = v[f.at].children.length
    <3>1. Places(v, f) \in Nat
      BY OwnPlaces
    <3> QED BY <1>5, <3>1 DEF Places
  <2>2. k <= z
    BY <1>3, <1>5, <2>1 DEF AtTurn
  <2>3. PICK y \in Nat : y = z - k
    BY <2>2
  <2>4. HasElements(behind, y) /\ r = <<here>> \o behind
    BY <1>3, <1>5, <2>1, <2>3 DEF Composed
  <2>5. r[1] = here /\ \A j \in 1..y : r[j + 1] = behind[j]
    <3>1. PutInFront(<<here>> \o behind, here, behind, y)
      BY <2>4, ElementAdded
    <3> QED BY <2>4, <3>1 DEF PutInFront
  <2>6. \A j \in k..z : r[j - k + 1] = t[j]
    BY <1>3, <1>5, <2>1 DEF Agrees
  <2>7. here = t[k]
    <3>1. k \in k..z /\ k - k + 1 = 1
      BY <2>2
    <3>2. r[k - k + 1] = t[k]
      BY <2>6, <3>1
    <3> QED BY <2>5, <3>1, <3>2
  <2>8. ASSUME NEW j \in k+1..z
        PROVE  behind[j - (k + 1) + 1] = t[j]
    <3>1. j - k \in 1..y /\ j \in k..z /\ j - (k + 1) + 1 = j - k
      BY <2>3
    <3> QED BY <2>5, <2>6, <3>1
  <2>9. Agrees(v, s, behind, t)
    <3>1. v[s.at].children.length = z /\ s.next = k + 1 /\ s.fn = "initArray"
      BY <1>2, <1>3, <1>5, <2>1
    <3> QED BY <2>8, <3>1 DEF Agrees
  <2> QED BY <1>1, <1>3, <1>5, <2>7, <2>9 DEF TurnKey
<1> QED BY <1>4, <1>5, FrameForms

----
(* The places that wait for a call. *)

LEMMA LastIndex == ASSUME NEW n \in Nat \ {0} PROVE n \in 1..n
OBVIOUS

\* The list of the value of call f is where it was.
SameList(v, w, f) ==
  /\ w[f.at].children.offset = v[f.at].children.offset
  /\ f.fn = "initArray" => w[f.at].children.length = v[f.at].children.length

LEMMA WaitsOn ==
  ASSUME NEW v, NEW w, NEW f, SameList(v, w, f)
  PROVE  Waiting(w, f) = Waiting(v, f)
BY DEF Waiting, SameList, Off, Places

LEMMA WaitsNext ==
  ASSUME NEW v \in Seq(RosValue), NEW f \in Frame, FrameOK(v, f), AtTurn(v, f),
         NEW w, SameList(v, w, f)
  PROVE  Waiting(w, Stepped(f)) = Waiting(v, f) \ {Turn(v, f)}
<1>1. PICK s : s = Stepped(f)
  OBVIOUS
<1>2. /\ s \in Frame /\ s.fn = f.fn /\ s.at = f.at /\ s.next = f.next + 1
      /\ f.fn = "initObject" => s.def = f.def /\ s.loop = f.loop
  BY <1>1, NextTurn DEF Stepped
<1>3. PICK k \in Nat \ {0} : k = f.next
  BY DEF FrameOK
<1>4. PICK o \in Nat, q \in Nat, y \in Nat : o = Off(v, f) /\ q = Places(v, f) /\ y = Visited(f)
  BY OwnPlaces
<1>5. Off(w, s) = o /\ Places(w, s) = q /\ Visited(s) = y + 1
  <2>1. Off(w, s) = o
    BY <1>2, <1>4 DEF Off, SameList
  <2>2. CASE f.fn = "initObject"
    <3>1. f.loop # "emplace" /\ k <= Len(Definitions[f.def]) /\ ~Definitions[f.def][k].const
          /\ f.def \in DefNames
      BY <1>3, <2>2, FrameForms DEF AtTurn, IsEmplacing
    <3>2. Places(w, s) = q
      BY <1>2, <1>4, <2>2, <3>1 DEF Places
    <3>3. PICK j \in Nat : j = k - 1
      OBVIOUS
    <3>4. FieldCount(f.def, j + 1) = FieldCount(f.def, j) + 1
      <4>1. j + 1 = k
        BY <3>3
      <4>2. ~Definitions[f.def][j + 1].const
        BY <3>1, <4>1
      <4> QED BY <4>2, CountNext
    <3>5. y = FieldCount(f.def, j)
      BY <1>3, <1>4, <2>2, <3>1, <3>3 DEF Visited
    <3>6. Visited(s) = FieldCount(f.def, j + 1)
      <4>1. s.next - 1 = j + 1
        BY <1>2, <1>3, <3>3
      <4> QED BY <1>2, <2>2, <3>1, <4>1 DEF Visited
    <3> QED BY <2>1, <3>2, <3>4, <3>5, <3>6
  <2>3. CASE f.fn = "initArray"
    <3>1. Places(w, s) = q
      BY <1>2, <1>4, <2>3 DEF Places, SameList
    <3>2. y = k - 1 /\ Visited(s) = k + 1 - 1
      BY <1>2, <1>3, <1>4, <2>3 DEF Visited
    <3> QED BY <2>1, <3>1, <3>2
  <2> QED BY <2>2, <2>3, FrameForms
<1>6. Waiting(w, s) = o + (y + 1) .. o + q - 1 /\ Waiting(v, f) = o + y .. o + q - 1
  BY <1>4, <1>5 DEF Waiting
<1>7. Turn(v, f) = o + y
  BY <1>4 DEF Turn
<1> QED BY <1>1, <1>6, <1>7

\* The vector v with the turn of f taken, by which x is written.
TurnsTo(v, w, f, x) ==
  /\ Len(v) <= Len(w) /\ w[Turn(v, f)] = x
  /\ \A p \in 1..Len(v) : p # Turn(v, f) /\ p # f.at => w[p] = v[p]
  /\ f.fn = "initArray" => w[f.at] = v[f.at]
  /\ f.fn = "initObject" =>
       /\ w[f.at].type = "object" /\ w[f.at].def = v[f.at].def
       /\ w[f.at].children.offset = v[f.at].children.offset
       /\ w[f.at].children.length = v[f.at].children.length + 1

\* The values of the calls were visited.
CallsReached(v, st) == \A i \in 1..Len(st) : st[i].at \in Reached(v, st)

\* The innermost call, f, takes its turn, at place t.
TakesTurn(v, st, w, su, n, f, x, t) ==
  /\ Arranged(v, st) /\ n \in Nat \ {0} /\ n = Len(st) /\ f = st[n] /\ AtTurn(v, f)
  /\ w \in Seq(RosValue) /\ TurnsTo(v, w, f, x) /\ su = Onward(st) /\ t = Turn(v, f)

LEMMA TurnReaches ==
  ASSUME NEW v, NEW st, NEW w, NEW su, NEW n, NEW f, NEW x, NEW t,
         TakesTurn(v, st, w, su, n, f, x, t)
  PROVE  /\ NotWaiting(w, su, Len(v)) = Reached(v, st) \cup {t}
         /\ t \notin Reached(v, st) /\ CallsReached(v, st)
<1> /\ Arranged(v, st) /\ n \in Nat \ {0} /\ n = Len(st) /\ f = st[n] /\ AtTurn(v, f)
    /\ TurnsTo(v, w, f, x) /\ su = Onward(st) /\ t = Turn(v, f)
  BY DEF TakesTurn
<1>3. /\ v \in Seq(RosValue) /\ st \in Seq(Frame) /\ f \in Frame /\ FrameOK(v, f)
      /\ \A i \in 1..n : st[i].at \in 1..Len(v)
  <2>1. n \in 1..n
    BY LastIndex
  <2>2. v \in Seq(RosValue) /\ st \in Seq(Frame)
    BY DEF Arranged
  <2> QED BY <2>2, CallOf
<1>4. t \in Waiting(v, f) /\ t \in 1..Len(v)
  BY <1>3, TurnIsMade
<1>5. ASSUME NEW i \in 1..n
      PROVE  st[i].at \in Reached(v, st)
  <2>1. \A j \in 1..n : st[i].at \notin Waiting(v, st[j])
    BY CallOf
  <2> QED BY <1>3, <2>1 DEF Reached, NotWaiting
<1>6. t \notin Reached(v, st)
  BY <1>4 DEF Reached, NotWaiting
<1>7. ASSUME NEW i \in 1..n-1
      PROVE  /\ Waiting(w, st[i]) = Waiting(v, st[i]) /\ t \notin Waiting(v, st[i])
  <2>1. i \in 1..n /\ i # n /\ n \in 1..n
    OBVIOUS
  <2>2. /\ Waiting(v, st[i]) \subseteq Own(v, st[i]) /\ Waiting(v, f) \subseteq Own(v, f)
        /\ Own(v, st[i]) \cap Own(v, f) = {} /\ st[i].at # f.at /\ st[i].at \notin Waiting(v, f)
        /\ st[i].at \in 1..Len(v)
    <3>1. Waiting(v, st[i]) \subseteq Own(v, st[i]) /\ st[i].at \in 1..Len(v)
      BY <2>1, CallOf
    <3>2. Waiting(v, f) \subseteq Own(v, f)
      BY <1>3, OwnPlaces
    <3>3. /\ st[i].at \notin Waiting(v, st[n]) /\ st[n].at # st[i].at
          /\ Own(v, st[n]) \cap Own(v, st[i]) = {}
      BY DEF Arranged, CallsApart
    <3> QED BY <3>1, <3>2, <3>3
  <2>3. w[st[i].at] = v[st[i].at]
    <3>1. PICK p \in 1..Len(v) : p = st[i].at
      BY <2>2
    <3>2. p # t /\ p # f.at
      BY <1>4, <2>2, <3>1
    <3>3. w[p] = v[p]
      BY <3>2 DEF TurnsTo
    <3> QED BY <3>1, <3>3
  <2>4. SameList(v, w, st[i])
    BY <2>3 DEF SameList
  <2> QED BY <1>4, <2>2, <2>4, WaitsOn
<1>8. Waiting(w, Stepped(f)) = Waiting(v, f) \ {t}
  <2>1. SameList(v, w, f)
    BY <1>3, FrameForms DEF SameList, TurnsTo
  <2> QED BY <1>3, <2>1, WaitsNext
<1>9. Len(su) = n /\ su[n] = Stepped(f) /\ \A i \in 1..n-1 : su[i] = st[i]
  <2>1. st # <<>>
    BY EmptySeq
  <2>2. Stepped(f) \in Frame
    BY <1>3, NextTurn DEF Stepped
  <2>3. su = Append(SubSeq(st, 1, n - 1), Stepped(f))
    BY DEF Onward, Stepped
  <2> QED BY <2>1, <2>2, <2>3, TopReplaced
<1>10. ASSUME NEW p \in 1..Len(v)
       PROVE  p \in NotWaiting(w, su, Len(v)) <=> p \in Reached(v, st) \cup {t}
  <2>1. p \in NotWaiting(w, su, Len(v)) <=> \A i \in 1..n : p \notin Waiting(w, su[i])
    BY <1>9 DEF NotWaiting
  <2>2. p \in Reached(v, st) <=> \A i \in 1..n : p \notin Waiting(v, st[i])
    BY DEF Reached, NotWaiting
  <2>3. \A i \in 1..n-1 : p \in Waiting(w, su[i]) <=> p \in Waiting(v, st[i])
    BY <1>7, <1>9
  <2>4. p \in Waiting(w, su[n]) <=> p \in Waiting(v, f) /\ p # t
    BY <1>8, <1>9
  <2>5. 1..n = 1..n-1 \cup {n}
    OBVIOUS
  <2>6. p = t => \A i \in 1..n-1 : p \notin Waiting(v, st[i])
    BY <1>7
  <2> QED BY <2>1, <2>2, <2>3, <2>4, <2>5, <2>6
<1>11. NotWaiting(w, su, Len(v)) \subseteq 1..Len(v) /\ Reached(v, st) \subseteq 1..Len(v)
  BY DEF NotWaiting, Reached
<1>12. CallsReached(v, st)
  BY <1>5 DEF CallsReached
<1>13. NotWaiting(w, su, Len(v)) = Reached(v, st) \cup {t}
  <2>1. Reached(v, st) \cup {t} \subseteq 1..Len(v)
    BY <1>4, <1>11
  <2> QED BY <1>10, <1>11, <2>1
<1> QED BY <1>6, <1>12, <1>13

----
(* The trees of the values when a turn is taken. *)

\* A field with as many fields before it as member k is member k.
LEMMA SameField ==
  ASSUME NEW d, NEW k \in Nat \ {0}, NEW l \in Nat \ {0},
         ~Definitions[d][k].const, ~Definitions[d][l].const,
         FieldCount(d, k - 1) = FieldCount(d, l - 1)
  PROVE  k = l
<1>1. ASSUME NEW i \in Nat \ {0}, NEW j \in Nat \ {0}, i < j, ~Definitions[d][i].const
      PROVE  FieldCount(d, i - 1) # FieldCount(d, j - 1)
  <2>1. PICK m \in Nat : m = j - 1
    OBVIOUS
  <2>2. i \in 1..m
    BY <1>1, <2>1
  <2>3. /\ FieldCount(d, i) = FieldCount(d, i - 1) + 1
        /\ FieldCount(d, i - 1) \in Nat /\ FieldCount(d, i) <= FieldCount(d, m)
    BY <1>1, <2>2, FieldBefore
  <2>4. FieldCount(d, m) \in Nat
    BY CountNext
  <2> QED BY <2>1, <2>3, <2>4
<1>2. k < l \/ l < k \/ k = l
  OBVIOUS
<1> QED BY <1>1, <1>2

\* The turn of f gives its value one child, if it is an object.
LEMMA KeyedTurn ==
  ASSUME NEW v \in Seq(RosValue), NEW f \in Frame, FrameOK(v, f), AtTurn(v, f),
         f.fn = "initObject" => v[f.at].def = f.def,
         NEW w, NEW x, TurnsTo(v, w, f, x), NEW c, NEW key, Keyed(w, f.at, c, key)
  PROVE  \/ Keyed(v, f.at, c, key) /\ c # Turn(v, f)
         \/ c = Turn(v, f) /\ key = TurnKey(f)
<1>1. PICK k \in Nat \ {0} : k = f.next
  BY DEF FrameOK
<1>2. PICK o \in Nat, y \in Nat : o = Off(v, f) /\ y = Visited(f)
  BY OwnPlaces
<1>3. PICK p : p = f.at
  OBVIOUS
<1>4. Turn(v, f) = o + y /\ v[p].children.offset = o
  BY <1>2, <1>3 DEF Turn, Off
<1>5. CASE f.fn = "initArray"
  <2>1. w[p] = v[p] /\ v[p].type = "array" /\ y = k - 1
    BY <1>1, <1>2, <1>3, <1>5 DEF TurnsTo, FrameOK, Visited
  <2>2. /\ key \in 1..v[p].children.length
        /\ c = o + key - 1
    BY <1>3, <1>4, <2>1 DEF Keyed
  <2>3. v[p].children.length \in Nat
    <3>1. Places(v, f) \in Nat
      BY OwnPlaces
    <3> QED BY <1>3, <1>5, <3>1 DEF Places
  <2>4. key \in Nat /\ (c = o + y => key = k)
    BY <2>1, <2>2, <2>3
  <2>5. Keyed(v, p, c, key)
    BY <1>4, <2>1, <2>2 DEF Keyed
  <2> QED BY <1>1, <1>3, <1>4, <1>5, <2>4, <2>5 DEF TurnKey
<1>6. CASE f.fn = "initObject"
  <2>1. PICK d \in DefNames : d = f.def
    BY <1>6, FrameForms
  <2>2. f.loop # "emplace" /\ k <= Len(Definitions[d]) /\ ~Definitions[d][k].const
    BY <1>1, <1>6, <2>1, FrameForms DEF AtTurn, IsEmplacing
  <2>3. /\ v[p].type = "object" /\ v[p].children.length = y /\ v[p].def = d
        /\ w[p].type = "object" /\ w[p].def = d
        /\ w[p].children.offset = o /\ w[p].children.length = y + 1
    BY <1>2, <1>3, <1>4, <1>6, <2>1 DEF TurnsTo, FrameOK
  <2>4. y = FieldCount(d, k - 1)
    BY <1>1, <1>2, <1>6, <2>1, <2>2 DEF Visited
  <2>5. PICK l \in FieldsFrom(d, 1) : /\ FieldCount(d, l - 1) < y + 1
                                      /\ c = o + FieldCount(d, l - 1)
                                      /\ key = Definitions[d][l].name
    BY <1>3, <2>3 DEF Keyed
  <2>6. l \in Nat \ {0} /\ ~Definitions[d][l].const
    BY <2>5, MembersAreCounted DEF FieldsFrom
  <2>7. PICK j \in Nat : j = FieldCount(d, l - 1)
    <3>1. PICK m \in Nat : m = l - 1
      BY <2>6
    <3> QED BY <3>1, CountNext
  <2>8. CASE j = y
    <3>1. l = k
      BY <2>2, <2>4, <2>6, <2>7, <2>8, SameField
    <3> QED BY <1>1, <1>4, <1>6, <2>1, <2>5, <2>7, <2>8, <3>1 DEF TurnKey
  <2>9. CASE j # y
    <3>1. j < y /\ c # o + y
      BY <2>5, <2>7, <2>9
    <3>2. Keyed(v, p, c, key)
      BY <1>4, <2>3, <2>5, <2>7, <3>1 DEF Keyed
    <3> QED BY <1>3, <1>4, <3>1, <3>2
  <2> QED BY <2>8, <2>9
<1> QED BY <1>5, <1>6, FrameForms

\* Values that are as they were, or have one more child.
LEMMA ShapedOn ==
  ASSUME NEW v \in Seq(RosValue), NEW f \in Frame, FrameOK(v, f), NEW w, NEW x, TurnsTo(v, w, f, x),
         NEW p \in 1..Len(v), p # Turn(v, f), NEW t, NEW k, Shaped(v[p], t, k)
  PROVE  Shaped(w[p], t, k)
<1>1. CASE w[p] = v[p]
  BY <1>1
<1>2. CASE w[p] # v[p]
  <2>1. p = f.at /\ f.fn = "initObject"
    BY <1>2, FrameForms DEF TurnsTo
  <2>2. v[p].type = "object"
    BY <2>1 DEF FrameOK
  <2>3. w[p].type = "object" /\ w[p].def = v[p].def
    BY <2>1 DEF TurnsTo
  <2>4. "object" \notin Primitives \cup {"string"}
    BY DefinitionAssumption
  <2> QED BY <2>2, <2>3, <2>4 DEF Shaped
<1> QED BY <1>2

\* The trees T with tree t of the value at place p.
Put(T, p, t) == [q \in Nat |-> IF q = p THEN t ELSE T[q]]

\* Tree t of the turn of f, found in k steps, is part of that of its value.
TurnFits(v, f, T, N, t, k) ==
  /\ t = T[f.at][TurnKey(f)] /\ k < N[f.at]
  /\ f.fn = "initObject" => v[f.at].def = f.def

LEMMA PlacesTurn ==
  ASSUME NEW v, NEW st, NEW w, NEW su, NEW n, NEW f, NEW x, NEW c,
         TakesTurn(v, st, w, su, n, f, x, c), Children(w, c) \cap 1..Len(v) = {},
         NEW T, NEW N, PlacesGrow(v, Reached(v, st), T, N),
         NEW t, NEW k, Shaped(x, t, k), TurnFits(v, f, T, N, t, k)
  PROVE  PlacesGrow(w, Reached(v, st) \cup {c}, Put(T, c, t), Put(N, c, k))
<1> /\ Arranged(v, st) /\ n \in Nat \ {0} /\ n = Len(st) /\ f = st[n] /\ AtTurn(v, f)
    /\ w \in Seq(RosValue) /\ TurnsTo(v, w, f, x) /\ c = Turn(v, f)
  BY DEF TakesTurn
<1> /\ t = T[f.at][TurnKey(f)] /\ k < N[f.at]
    /\ f.fn = "initObject" => v[f.at].def = f.def
  BY DEF TurnFits
<1>1. PICK D : D = Reached(v, st)
  OBVIOUS
<1>2. /\ v \in Seq(RosValue) /\ f \in Frame /\ FrameOK(v, f) /\ f.at \in 1..Len(v) /\ Len(v) \in Nat
      /\ \A p \in 1..Len(v) : p # f.at => Children(v, p) \cap Own(v, f) = {}
  <2>1. n \in 1..Len(st)
    OBVIOUS
  <2>2. /\ v \in Seq(RosValue) /\ st[n] \in Frame /\ FrameOK(v, st[n]) /\ st[n].at \in 1..Len(v)
        /\ Len(v) \in Nat
    BY CallOf
  <2>3. \A p \in 1..Len(v) : p # st[n].at => Children(v, p) \cap Own(v, st[n]) = {}
    BY DEF Arranged, CallsApart
  <2> QED BY <2>2, <2>3
<1>3. c \in Waiting(v, f) /\ c \in 1..Len(v) /\ c \in Own(v, f) /\ c # f.at
  <2>1. c \in Waiting(v, f) /\ c \in 1..Len(v) /\ c > f.at
    BY <1>2, TurnIsMade
  <2>2. Waiting(v, f) \subseteq Own(v, f)
    BY <1>2, OwnPlaces
  <2> QED BY <2>1, <2>2
<1>4. D \subseteq 1..Len(v) /\ c \notin D
  <2>1. n \in 1..Len(st)
    OBVIOUS
  <2> QED BY <1>1, <1>3, <2>1 DEF Reached, NotWaiting
<1>5. PICK U, M : U = Put(T, c, t) /\ M = Put(N, c, k)
  OBVIOUS
<1>6. /\ U[c] = t /\ M[c] = k
      /\ \A p \in 1..Len(v) : p # c => U[p] = T[p] /\ M[p] = N[p]
  BY <1>2, <1>3, <1>5 DEF Put
<1>7. /\ \A p \in D : Shaped(v[p], T[p], N[p])
      /\ \A p, q \in D : \A key : Keyed(v, p, q, key) => T[q] = T[p][key] /\ N[q] < N[p]
  BY <1>1 DEF PlacesGrow, KeysGrow
<1>8. ASSUME NEW p \in D \cup {c}
      PROVE  Shaped(w[p], U[p], M[p])
  <2>1. CASE p = c
    BY <1>6, <2>1 DEF TurnsTo
  <2>2. CASE p # c
    <3>1. p \in D /\ p \in 1..Len(v) /\ U[p] = T[p] /\ M[p] = N[p]
      BY <1>4, <1>6, <1>8, <2>2
    <3>2. Shaped(v[p], T[p], N[p])
      BY <1>7, <3>1
    <3> QED BY <1>2, <2>2, <3>1, <3>2, ShapedOn
  <2> QED BY <2>1, <2>2
<1>9. ASSUME NEW p \in D \cup {c}, NEW q \in D \cup {c}, NEW key, Keyed(w, p, q, key)
      PROVE  U[q] = U[p][key] /\ M[q] < M[p]
  <2>1. p \in 1..Len(v) /\ q \in 1..Len(v) /\ p \in 1..Len(w)
    <3>1. Len(v) <= Len(w) /\ Len(w) \in Nat
      BY LenProperties DEF TurnsTo
    <3> QED BY <1>3, <1>4, <3>1
  <2>2. p # c
    <3>1. q \in Children(w, p)
      BY <1>9, <2>1, KeyedChild
    <3> QED BY <2>1, <3>1
  <2>3. p \in D /\ U[p] = T[p] /\ M[p] = N[p]
    BY <1>6, <2>1, <2>2
  <2>4. CASE p = f.at
    <3>1. \/ Keyed(v, f.at, q, key) /\ q # c
          \/ q = c /\ key = TurnKey(f)
      <4>1. Keyed(w, f.at, q, key)
        BY <1>9, <2>4
      <4>2. \/ Keyed(v, f.at, q, key) /\ q # Turn(v, f)
            \/ q = Turn(v, f) /\ key = TurnKey(f)
        BY <1>2, <4>1, KeyedTurn
      <4> QED BY <4>2
    <3>2. CASE q = c /\ key = TurnKey(f)
      BY <1>6, <2>3, <2>4, <3>2
    <3>3. CASE Keyed(v, f.at, q, key) /\ q # c
      <4>1. q \in D /\ U[q] = T[q] /\ M[q] = N[q]
        BY <1>6, <2>1, <3>3
      <4> QED BY <1>7, <2>3, <2>4, <3>3, <4>1
    <3> QED BY <3>1, <3>2, <3>3
  <2>5. CASE p # f.at
    <3>1. w[p] = v[p]
      BY <2>1, <2>2, <2>5 DEF TurnsTo
    <3>2. Keyed(v, p, q, key)
      BY <1>9, <3>1 DEF Keyed
    <3>3. q \in Children(v, p)
      BY <1>2, <2>1, <3>2, KeyedChild
    <3>4. q # c
      BY <1>2, <1>3, <2>1, <2>5, <3>3
    <3>5. q \in D /\ U[q] = T[q] /\ M[q] = N[q]
      BY <1>6, <2>1, <3>4
    <3> QED BY <1>7, <2>3, <3>2, <3>5
  <2> QED BY <2>4, <2>5
<1>10. PlacesGrow(w, D \cup {c}, U, M)
  BY <1>8, <1>9 DEF PlacesGrow, KeysGrow
<1> QED BY <1>1, <1>5, <1>10

----
(* The trees of the calls. *)

\* A call that is left alone.
LEMMA CallKept ==
  ASSUME NEW buf, NEW v, NEW w, NEW f, NEW k, NEW o, NEW T, NEW N, NEW U, NEW M,
         CallGrows(buf, v, f, k, o, T, N), U[f.at] = T[f.at], M[f.at] = N[f.at],
         f.fn = "initArray" => w[f.at].children.length = v[f.at].children.length,
         f.fn = "initObject" => w[f.at].def = v[f.at].def, f.fn \in {"initArray", "initObject"}
  PROVE  CallGrows(buf, w, f, k, o, U, M)
<1>1. Rest(w, f, o) = Rest(v, f, o)
  BY DEF Rest
<1>2. PICK r, t : r = Layout(buf)[k][Rest(v, f, o)].tree /\ t = T[f.at]
  OBVIOUS
<1>4. k <= N[f.at] /\ (f.fn = "initObject" => v[f.at].def = f.def) /\ Agrees(v, f, r, t)
  BY <1>2 DEF CallGrows
<1>5. Agrees(w, f, r, t)
  BY <1>4 DEF Agrees
<1> QED BY <1>1, <1>2, <1>4, <1>5 DEF CallGrows

StepsKnown(f, N) == N[f.at] \in Nat

TreeComposed(buf, v, f, j, o, k, m, t) ==
  Composed(f, Layout(buf)[j][Rest(v, f, o)].tree, t, Layout(buf)[k][Rest(v, Stepped(f), m)].tree)

\* The call that takes the turn.
LEMMA TurnAgrees ==
  ASSUME NamesApart, NEW buf \in Seq(Nat), NEW v \in Seq(RosValue), NEW f \in Frame, FrameOK(v, f),
         AtTurn(v, f), NEW w, NEW x, TurnsTo(v, w, f, x), NEW o \in Nat \ {0}, NEW m \in Nat \ {0},
         NEW k \in Nat, NEW j \in Nat, j = k + 1, NEW T, NEW N, CallGrows(buf, v, f, j, o, T, N),
         StepsKnown(f, N), NEW t, NEW e, Lays(buf, k, Rest(w, Stepped(f), m), e),
         TreeComposed(buf, v, f, j, o, k, m, t)
  PROVE  TurnFits(v, f, T, N, t, k) /\ CallGrows(buf, w, Stepped(f), k, m, T, N)
<1>1. PICK s : s = Stepped(f)
  OBVIOUS
<1>2. /\ s \in Frame /\ s.fn = f.fn /\ s.at = f.at /\ s.next = f.next + 1
      /\ f.fn = "initObject" => s.def = f.def /\ s.loop = f.loop
      /\ f.fn = "initArray" => s.field = f.field
  BY <1>1, NextTurn DEF Stepped
<1>3. PICK i \in Nat \ {0} : i = f.next
  BY DEF FrameOK
<1>4. /\ f.fn = "initArray" => w[f.at].children.length = v[f.at].children.length
      /\ f.fn = "initObject" => w[f.at].def = v[f.at].def
  BY DEF TurnsTo
<1>5. Rest(w, s, m) = Rest(v, s, m)
  <2>1. s.fn = "initArray" => w[s.at].children.length = v[s.at].children.length
    BY <1>2, <1>4
  <2>2. s.fn \in {"initObject", "initArray"}
    BY <1>2, FrameForms
  <2> QED BY <2>1, <2>2 DEF Rest
<1>6. PICK r, b, u : /\ r = Layout(buf)[j][Rest(v, f, o)].tree
                     /\ b = Layout(buf)[k][Rest(v, s, m)].tree /\ u = T[f.at]
  OBVIOUS
<1>7. /\ j <= N[f.at] /\ (f.fn = "initObject" => v[f.at].def = f.def)
      /\ Agrees(v, f, r, u) /\ Composed(f, r, t, b)
  BY <1>1, <1>6 DEF CallGrows, TreeComposed
<1>8. Lays(buf, k, Rest(v, s, m), e)
  BY <1>1, <1>5
<1>9. f.fn = "initObject" => HasFields(b, NamesFrom(f.def, f.next + 1))
  <2>1. SUFFICES ASSUME f.fn = "initObject" PROVE HasFields(b, NamesFrom(f.def, f.next + 1))
    OBVIOUS
  <2>2. PICK d \in DefNames : d = f.def
    BY <2>1, FrameForms
  <2>3. PICK l \in Nat \ {0} : l = i + 1
    OBVIOUS
  <2>4. Rest(v, s, m) = Members(d, l, m)
    <3>1. f.loop # "emplace"
      BY <2>1 DEF AtTurn, IsEmplacing
    <3> QED BY <1>2, <1>3, <2>1, <2>2, <2>3, <3>1 DEF Rest
  <2>5. HasFields(b, NamesFrom(d, l))
    BY <1>6, <1>8, <2>4, ShapeLaid
  <2> QED BY <1>3, <2>2, <2>3, <2>5
<1>10. f.fn = "initArray" => HasElements(b, v[f.at].children.length - f.next)
  <2>1. SUFFICES ASSUME f.fn = "initArray" PROVE HasElements(b, v[f.at].children.length - f.next)
    OBVIOUS
  <2>2. PICK fd \in Member : fd = f.field
    BY <2>1, FrameForms
  <2>3. PICK z \in Nat : z = v[f.at].children.length
    <3>1. Places(v, f) \in Nat
      BY OwnPlaces
    <3> QED BY <2>1, <3>1 DEF Places
  <2>4. i <= z
    BY <1>3, <2>1, <2>3 DEF AtTurn
  <2>5. PICK l \in Nat : l = z - i
    BY <2>4
  <2>6. Rest(v, s, m) = Elements(fd, l, m)
    <3>1. z - (i + 1) + 1 = l
      BY <2>5
    <3> QED BY <1>2, <1>3, <2>1, <2>2, <2>3, <3>1 DEF Rest
  <2>7. HasElements(b, l)
    BY <1>6, <1>8, <2>6, ShapeLaid
  <2> QED BY <1>3, <2>3, <2>5, <2>7
<1>11. t = u[TurnKey(f)] /\ Agrees(v, s, b, u)
  BY <1>1, <1>7, <1>9, <1>10, AgreesOn
<1>12. k < N[f.at] /\ k <= N[f.at]
  BY <1>7 DEF StepsKnown
<1>13. CallGrows(buf, v, s, k, m, T, N)
  BY <1>2, <1>6, <1>7, <1>11, <1>12 DEF CallGrows
<1>14. CallGrows(buf, w, s, k, m, T, N)
  BY <1>2, <1>4, <1>13, CallKept, FrameForms
<1> QED BY <1>1, <1>6, <1>7, <1>11, <1>12, <1>14 DEF TurnFits

\* A turn on course: tree t of its part is found in k steps, up to offset m.
TurnFinds(buf, v, st, w, su, n, f, o, m, e, g, h, t, k) ==
  /\ buf \in Seq(Nat) /\ o \in Nat \ {0} /\ Course(buf, v, st, o, e, g, h)
  /\ Passed(buf, v, w, st, su, o, e, g, h, n, m)
  /\ t = Layout(buf)[h[n] - 1][TurnPart(buf, f, o)].tree /\ k = h[n] - 1

\* All calls when a turn is taken.
LEMMA CallsTurn ==
  ASSUME NamesApart, NEW v, NEW st, NEW w, NEW su, NEW n, NEW f, NEW x, NEW c,
         TakesTurn(v, st, w, su, n, f, x, c), NEW buf, NEW o, NEW m, NEW e, NEW g, NEW h,
         NEW t, NEW k, TurnFinds(buf, v, st, w, su, n, f, o, m, e, g, h, t, k),
         NEW T, NEW N, CallsGrow(buf, v, st, g, h, T, N), StepsKnown(f, N)
  PROVE  /\ TurnFits(v, f, T, N, t, k)
         /\ CallsGrow(buf, w, su, [g EXCEPT ![n] = m], [h EXCEPT ![n] = k],
                      Put(T, c, t), Put(N, c, k))
<1> /\ Arranged(v, st) /\ n \in Nat \ {0} /\ n = Len(st) /\ f = st[n] /\ AtTurn(v, f)
    /\ TurnsTo(v, w, f, x) /\ su = Onward(st) /\ c = Turn(v, f)
  BY DEF TakesTurn
<1>a. /\ buf \in Seq(Nat) /\ o \in Nat \ {0} /\ Course(buf, v, st, o, e, g, h)
      /\ Passed(buf, v, w, st, su, o, e, g, h, n, m)
      /\ t = Layout(buf)[h[n] - 1][TurnPart(buf, f, o)].tree /\ k = h[n] - 1
  BY DEF TurnFinds
<1>1. /\ v \in Seq(RosValue) /\ st \in Seq(Frame) /\ f \in Frame /\ FrameOK(v, f)
      /\ \A i \in 1..n : st[i] \in Frame /\ st[i].at \in 1..Len(v) /\ st[i].at \in Nat
  <2>1. n \in 1..n /\ Len(v) \in Nat
    BY DEF Arranged
  <2>2. v \in Seq(RosValue) /\ st \in Seq(Frame)
    BY DEF Arranged
  <2>3. \A i \in 1..n : st[i] \in Frame /\ FrameOK(v, st[i]) /\ st[i].at \in 1..Len(v)
    BY CallOf
  <2> QED BY <2>2, <2>3
<1>2. c \in Waiting(v, f)
  BY <1>1, TurnIsMade
<1>3. \A i \in 1..n : st[i].at # c /\ (i # n => st[i].at # f.at)
  <2> TAKE i \in 1..n
  <2>1. n \in 1..Len(st) /\ i \in 1..Len(st)
    OBVIOUS
  <2>2. st[i].at \notin Waiting(v, st[n]) /\ (i # n => st[i].at # st[n].at)
    BY DEF Arranged, CallsApart
  <2> QED BY <1>2, <2>2
<1>4. PICK G, H, U, M : /\ G = [g EXCEPT ![n] = m] /\ H = [h EXCEPT ![n] = k]
                        /\ U = Put(T, c, t) /\ M = Put(N, c, k)
  OBVIOUS
<1>5. /\ g \in [0..n -> Nat \ {0}] /\ h \in [1..n -> Nat] /\ g[n] = o
  BY <1>a DEF Course
<1>6. /\ G[n] = m /\ G[n - 1] = g[n - 1] /\ \A i \in 1..n-1 : G[i] = g[i]
  <2>1. n \in 0..n /\ n - 1 \in 0..n /\ \A i \in 1..n-1 : i \in 0..n /\ i # n
    OBVIOUS
  <2> QED BY <1>4, <1>5, <2>1
<1>7. H[n] = k /\ \A i \in 1..n-1 : H[i] = h[i]
  <2>1. n \in 1..n /\ \A i \in 1..n-1 : i \in 1..n /\ i # n
    OBVIOUS
  <2> QED BY <1>4, <1>5, <2>1
<1>8. \A i \in 1..n : U[st[i].at] = T[st[i].at] /\ M[st[i].at] = N[st[i].at]
  BY <1>1, <1>3, <1>4 DEF Put
<1>9. PICK s : s = Stepped(f)
  OBVIOUS
<1>10. s \in Frame /\ s.at = f.at /\ s.fn = f.fn
  BY <1>1, <1>9, NextTurn DEF Stepped
<1>11. Len(su) = n /\ su[n] = s /\ \A i \in 1..n-1 : su[i] = st[i]
  <2>1. st # <<>>
    BY EmptySeq
  <2>2. su = Append(SubSeq(st, 1, n - 1), s)
    BY <1>9 DEF Onward, Stepped
  <2> QED BY <1>10, <2>1, <2>2, TopReplaced
<1>0. PICK j : j = h[n]
  OBVIOUS
<1>12. k \in Nat /\ m \in Nat \ {0} /\ j \in Nat /\ j = k + 1
  <2>1. h[n] \in Nat
    <3>1. n \in 1..n
      BY LastIndex
    <3> QED BY <1>5, <3>1
  <2>2. j - 1 \in Nat /\ m \in Nat \ {0} /\ j \in Nat
    BY <1>a, <1>0, <2>1 DEF Passed
  <2>3. k = j - 1
    BY <1>a, <1>0
  <2> QED BY <2>2, <2>3
<1>13. Lays(buf, k, Rest(w, s, m), g[n - 1])
  <2>1. Course(buf, w, su, m, e, G, H)
    <3>1. Course(buf, w, su, m, e, [g EXCEPT ![n] = m], [h EXCEPT ![n] = h[n] - 1])
      BY <1>a DEF Passed
    <3>2. h[n] - 1 = k
      BY <1>a
    <3> QED BY <1>4, <3>1, <3>2
  <2>2. n \in 1..Len(su)
    BY <1>11
  <2>3. Lays(buf, H[n], Rest(w, su[n], G[n]), G[n - 1])
    BY <2>1, <2>2 DEF Course
  <2> QED BY <1>6, <1>7, <1>11, <2>3
<1>14. TreeComposed(buf, v, f, j, o, k, m, t)
  <2>1. Composed(f, Layout(buf)[h[n]][Rest(v, f, o)].tree,
                 Layout(buf)[h[n] - 1][TurnPart(buf, f, o)].tree,
                 Layout(buf)[h[n] - 1][Rest(v, Stepped(f), m)].tree)
    <3>1. Passed(buf, v, w, st, su, o, e, g, h, n, m)
      BY <1>a
    <3> QED BY <3>1 DEF Passed
  <2>2. h[n] = j /\ h[n] - 1 = k /\ t = Layout(buf)[h[n] - 1][TurnPart(buf, f, o)].tree
    BY <1>a, <1>0
  <2> QED BY <2>1, <2>2 DEF TreeComposed
<1>15. CallGrows(buf, v, f, j, o, T, N)
  <2>1. n \in 1..Len(st)
    OBVIOUS
  <2> QED BY <1>5, <2>1 DEF CallsGrow
<1>16. TurnFits(v, f, T, N, t, k) /\ CallGrows(buf, w, s, k, m, T, N)
  <2>1. PICK z : z = g[n - 1]
    OBVIOUS
  <2>2. Lays(buf, k, Rest(w, Stepped(f), m), z)
    BY <1>9, <1>13, <2>1
  <2>4. v \in Seq(RosValue) /\ f \in Frame /\ FrameOK(v, f)
    BY <1>1
  <2>5. TurnFits(v, f, T, N, t, k) /\ CallGrows(buf, w, Stepped(f), k, m, T, N)
    BY <1>a, <1>12, <1>15, <1>14, <2>2, <2>4, TurnAgrees
  <2> QED BY <1>9, <2>5
<1>18. CallGrows(buf, w, s, k, m, U, M)
  <2>1. U[s.at] = T[s.at] /\ M[s.at] = N[s.at]
    <3>1. n \in 1..n
      BY LastIndex
    <3> QED BY <1>8, <1>10, <3>1
  <2> QED BY <1>10, <1>16, <2>1, CallKept, FrameForms
<1>19. ASSUME NEW i \in 1..n-1
       PROVE  CallGrows(buf, w, st[i], h[i], g[i], U, M)
  <2>1. i \in 1..n /\ i # n
    OBVIOUS
  <2>2. PICK a \in Frame : a = st[i]
    BY <1>1, <2>1
  <2>3. CallGrows(buf, v, a, h[i], g[i], T, N) /\ U[a.at] = T[a.at] /\ M[a.at] = N[a.at]
    BY <1>8, <2>1, <2>2 DEF CallsGrow
  <2>4. w[a.at] = v[a.at]
    <3>1. PICK p \in 1..Len(v) : p = a.at
      BY <1>1, <2>1, <2>2
    <3>2. p # c /\ p # f.at
      BY <1>3, <2>1, <2>2, <3>1
    <3> QED BY <3>1, <3>2 DEF TurnsTo
  <2>5. CallGrows(buf, w, a, h[i], g[i], U, M)
    BY <2>3, <2>4, CallKept, FrameForms
  <2> QED BY <2>2, <2>5
<1>20. CallsGrow(buf, w, su, G, H, U, M)
  <2> SUFFICES ASSUME NEW i \in 1..n PROVE CallGrows(buf, w, su[i], H[i], G[i], U, M)
    BY <1>11 DEF CallsGrow
  <2>1. CASE i = n
    BY <1>6, <1>7, <1>11, <1>18, <2>1
  <2>2. CASE i # n
    <3>1. i \in 1..n-1
      BY <2>2
    <3> QED BY <1>6, <1>7, <1>11, <1>19, <3>1
  <2> QED BY <2>1, <2>2
<1> QED BY <1>4, <1>16, <1>20

----
(* All trees when a turn is taken. *)

LEMMA OthersTurn ==
  ASSUME NEW v, NEW st, NEW w, NEW su, NEW n, NEW f, NEW x, NEW c,
         TakesTurn(v, st, w, su, n, f, x, c), OthersFilled(v, st, Reached(v, st))
  PROVE  /\ OthersFilled(w, su, Reached(v, st))
         /\ Len(su) = n /\ su \in Seq(Frame) /\ \A i \in 1..n : su[i].at = st[i].at
<1> /\ Arranged(v, st) /\ n \in Nat \ {0} /\ n = Len(st) /\ f = st[n] /\ AtTurn(v, f)
    /\ TurnsTo(v, w, f, x) /\ su = Onward(st)
  BY DEF TakesTurn
<1>1. /\ v \in Seq(RosValue) /\ st \in Seq(Frame) /\ f \in Frame /\ FrameOK(v, f)
  <2>1. n \in 1..n
    BY LastIndex
  <2>2. v \in Seq(RosValue) /\ st \in Seq(Frame)
    BY DEF Arranged
  <2>3. st[n] \in Frame /\ FrameOK(v, st[n])
    BY CallOf
  <2> QED BY <2>2, <2>3
<1>2. PICK s : s = Stepped(f)
  OBVIOUS
<1>3. s \in Frame /\ s.at = f.at
  BY <1>1, <1>2, NextTurn DEF Stepped
<1>4. Len(su) = n /\ su \in Seq(Frame) /\ su[n] = s /\ \A i \in 1..n-1 : su[i] = st[i]
  <2>1. st # <<>>
    BY EmptySeq
  <2>2. su = Append(SubSeq(st, 1, n - 1), s)
    BY <1>2 DEF Onward, Stepped
  <2> QED BY <1>1, <1>3, <2>1, <2>2, TopReplaced
<1>5. ASSUME NEW i \in 1..n PROVE su[i].at = st[i].at
  <2>1. i = n \/ i \in 1..n-1
    OBVIOUS
  <2> QED BY <1>3, <1>4, <2>1
<1>6. ASSUME NEW p \in Reached(v, st), ~Filled(w[p])
      PROVE  \E i \in 1..Len(su) : su[i].at = p
  <2>1. p \in 1..Len(v) /\ p # Turn(v, f)
    <3>1. n \in 1..n
      BY LastIndex
    <3>2. Turn(v, f) \in Waiting(v, f)
      BY <1>1, TurnIsMade
    <3> QED BY <3>2 DEF Reached, NotWaiting
  <2>2. CASE \E i \in 1..Len(st) : st[i].at = p
    BY <1>4, <1>5, <2>2
  <2>3. CASE ~\E i \in 1..Len(st) : st[i].at = p
    <3>1. Filled(v[p])
      BY <2>3 DEF OthersFilled
    <3>2. p # f.at
      <4>1. n \in 1..Len(st)
        OBVIOUS
      <4> QED BY <2>3, <4>1
    <3>3. w[p] = v[p]
      BY <2>1, <3>2 DEF TurnsTo
    <3> QED BY <1>6, <3>1, <3>3
  <2> QED BY <2>2, <2>3
<1>7. OthersFilled(w, su, Reached(v, st))
  BY <1>6 DEF OthersFilled
<1> QED BY <1>4, <1>5, <1>7

\* What is known of the values when place c, with tree t, was visited.
TurnGrows(buf, v, st, w, su, n, c, m, g, h, t, k, T, N) ==
  /\ CallsGrow(buf, w, su, [g EXCEPT ![n] = m], [h EXCEPT ![n] = k],
               Put(T, c, t), Put(N, c, k))
  /\ PlacesGrow(w, Reached(v, st) \cup {c}, Put(T, c, t), Put(N, c, k))
  /\ OthersFilled(w, su, Reached(v, st))
  /\ NotWaiting(w, su, Len(v)) = Reached(v, st) \cup {c}
  /\ Put(T, c, t)[1] = T[1] /\ Put(N, c, k)[1] = N[1]

LEMMA GrownTurned ==
  ASSUME NamesApart, NEW v, NEW st, NEW w, NEW su, NEW n, NEW f, NEW x, NEW c,
         TakesTurn(v, st, w, su, n, f, x, c), NEW buf, NEW o, NEW m, NEW e, NEW g, NEW h,
         NEW t, NEW k, TurnFinds(buf, v, st, w, su, n, f, o, m, e, g, h, t, k),
         NEW T, NEW N, Grown(buf, v, st, g, h, T, N), Shaped(x, t, k),
         Children(w, c) \cap 1..Len(v) = {}
  PROVE  TurnGrows(buf, v, st, w, su, n, c, m, g, h, t, k, T, N)
<1>1. /\ CallsGrow(buf, v, st, g, h, T, N) /\ PlacesGrow(v, Reached(v, st), T, N)
      /\ OthersFilled(v, st, Reached(v, st))
  BY DEF Grown
<1>2. NotWaiting(w, su, Len(v)) = Reached(v, st) \cup {c} /\ CallsReached(v, st)
  BY TurnReaches
<1>3. StepsKnown(f, N)
  <2>1. n \in 1..Len(st) /\ f = st[n]
    BY DEF TakesTurn
  <2>2. f.at \in Reached(v, st)
    BY <1>2, <2>1 DEF CallsReached
  <2> QED BY <1>1, <2>2 DEF PlacesGrow, Shaped, StepsKnown
<1>4. /\ TurnFits(v, f, T, N, t, k)
      /\ CallsGrow(buf, w, su, [g EXCEPT ![n] = m], [h EXCEPT ![n] = k],
                   Put(T, c, t), Put(N, c, k))
  BY <1>1, <1>3, CallsTurn
<1>5. PlacesGrow(w, Reached(v, st) \cup {c}, Put(T, c, t), Put(N, c, k))
  BY <1>1, <1>4, PlacesTurn
<1>6. OthersFilled(w, su, Reached(v, st))
  BY <1>1, OthersTurn
<1>7. Put(T, c, t)[1] = T[1] /\ Put(N, c, k)[1] = N[1]
  <2>1. /\ Arranged(v, st) /\ n \in 1..Len(st) /\ f = st[n] /\ AtTurn(v, f) /\ c = Turn(v, f)
    BY DEF TakesTurn
  <2>2. /\ v \in Seq(RosValue) /\ st[n] \in Frame /\ FrameOK(v, st[n]) /\ st[n].at \in 1..Len(v)
        /\ Len(v) \in Nat
    BY <2>1, CallOf
  <2>3. c > f.at /\ f.at \in Nat \ {0} /\ c \in Nat
    <3>1. Turn(v, f) > f.at /\ Turn(v, f) \in 1..Len(v)
      BY <2>1, <2>2, TurnIsMade
    <3> QED BY <2>1, <2>2, <3>1
  <2>4. 1 # c
    BY <2>3
  <2> QED BY <2>4 DEF Put
<1> QED BY <1>2, <1>4, <1>5, <1>6, <1>7 DEF TurnGrows

\* The values and calls with their trees, where the tree of the message is kept.
Regrown(buf, w, su, G, H, U, M, T, N) ==
  Grown(buf, w, su, G, H, U, M) /\ U[1] = T[1] /\ M[1] = N[1]

\* The value of a turn has no children that were there before.
ChildrenNew(v, w, c) == Children(w, c) \cap 1..Len(v) = {}
SameLength(v, w) == Len(w) = Len(v)

\* A turn that writes a value without children.
LEMMA ScalarGrown ==
  ASSUME NamesApart, NEW v, NEW st, NEW w, NEW su, NEW n, NEW f, NEW x, NEW c,
         TakesTurn(v, st, w, su, n, f, x, c), NEW buf, NEW o, NEW m, NEW e, NEW g, NEW h,
         NEW t, NEW k, TurnFinds(buf, v, st, w, su, n, f, o, m, e, g, h, t, k),
         NEW T, NEW N, Grown(buf, v, st, g, h, T, N), Shaped(x, t, k),
         ChildrenNew(v, w, c), SameLength(v, w), Filled(x)
  PROVE  Regrown(buf, w, su, [g EXCEPT ![n] = m], [h EXCEPT ![n] = k],
                 Put(T, c, t), Put(N, c, k), T, N)
<1>0. TurnGrows(buf, v, st, w, su, n, c, m, g, h, t, k, T, N)
  <2>1. Children(w, c) \cap 1..Len(v) = {}
    BY DEF ChildrenNew
  <2> QED BY <2>1, GrownTurned
<1>1. /\ CallsGrow(buf, w, su, [g EXCEPT ![n] = m], [h EXCEPT ![n] = k],
                   Put(T, c, t), Put(N, c, k))
      /\ PlacesGrow(w, Reached(v, st) \cup {c}, Put(T, c, t), Put(N, c, k))
      /\ OthersFilled(w, su, Reached(v, st))
      /\ NotWaiting(w, su, Len(v)) = Reached(v, st) \cup {c}
      /\ Put(T, c, t)[1] = T[1] /\ Put(N, c, k)[1] = N[1]
  BY <1>0 DEF TurnGrows
<1>2. Reached(w, su) = Reached(v, st) \cup {c}
  BY <1>1 DEF Reached, SameLength
<1>3. OthersFilled(w, su, Reached(v, st) \cup {c})
  <2>1. w[c] = x
    BY DEF TakesTurn, TurnsTo
  <2> QED BY <1>1, <2>1 DEF OthersFilled
<1> QED BY <1>1, <1>2, <1>3 DEF Grown, Regrown

\* The call that a turn enters: it is found in j steps from offset a on, and the
\* value x of the call has tree t, found in k steps.
Enters(buf, v, w, F, x, c, t, k, j, a) ==
  /\ F \in Frame /\ F.at = c /\ j <= k
  /\ F.fn = "initObject" => x.def = F.def
  /\ Agrees(w, F, Layout(buf)[j][Rest(w, F, a)].tree, t)
  /\ Waiting(w, F) = Len(v)+1..Len(w)

\* A turn that enters a call.
LEMMA CallGrown ==
  ASSUME NamesApart, NEW v, NEW st, NEW w, NEW su, NEW n, NEW f, NEW x, NEW c,
         TakesTurn(v, st, w, su, n, f, x, c), NEW buf, NEW o, NEW m, NEW e, NEW g, NEW h,
         NEW t, NEW k, TurnFinds(buf, v, st, w, su, n, f, o, m, e, g, h, t, k),
         NEW T, NEW N, Grown(buf, v, st, g, h, T, N), Shaped(x, t, k),
         ChildrenNew(v, w, c),
         NEW F, NEW j, NEW a, Enters(buf, v, w, F, x, c, t, k, j, a)
  PROVE  Regrown(buf, w, Append(su, F), Begins([g EXCEPT ![n] = m], n, a),
                 Steps([h EXCEPT ![n] = k], n, j), Put(T, c, t), Put(N, c, k), T, N)
<1>0. TurnGrows(buf, v, st, w, su, n, c, m, g, h, t, k, T, N)
  <2>1. Children(w, c) \cap 1..Len(v) = {}
    BY DEF ChildrenNew
  <2> QED BY <2>1, GrownTurned
<1>1. /\ CallsGrow(buf, w, su, [g EXCEPT ![n] = m], [h EXCEPT ![n] = k],
                   Put(T, c, t), Put(N, c, k))
      /\ PlacesGrow(w, Reached(v, st) \cup {c}, Put(T, c, t), Put(N, c, k))
      /\ OthersFilled(w, su, Reached(v, st))
      /\ NotWaiting(w, su, Len(v)) = Reached(v, st) \cup {c}
      /\ Put(T, c, t)[1] = T[1] /\ Put(N, c, k)[1] = N[1]
  BY <1>0 DEF TurnGrows
<1>2. PICK D : D = Reached(v, st) \cup {c}
  OBVIOUS
<1>3. PICK G, H, U, M : /\ G = [g EXCEPT ![n] = m] /\ H = [h EXCEPT ![n] = k]
                        /\ U = Put(T, c, t) /\ M = Put(N, c, k)
  OBVIOUS
<1>4. /\ CallsGrow(buf, w, su, G, H, U, M) /\ PlacesGrow(w, D, U, M)
      /\ OthersFilled(w, su, Reached(v, st)) /\ NotWaiting(w, su, Len(v)) = D
  BY <1>1, <1>2, <1>3
<1>5. /\ n \in Nat \ {0} /\ w[c] = x /\ c \in Nat /\ Len(v) \in Nat /\ Len(w) \in Nat
      /\ Len(v) <= Len(w) /\ Len(su) = n /\ su \in Seq(Frame)
  <2>1. /\ n \in Nat \ {0} /\ n = Len(st) /\ w[c] = x /\ w \in Seq(RosValue) /\ Len(v) <= Len(w)
        /\ Arranged(v, st) /\ f = st[n] /\ AtTurn(v, f) /\ c = Turn(v, f)
    BY DEF TakesTurn, TurnsTo
  <2>2. OthersFilled(v, st, Reached(v, st))
    BY DEF Grown
  <2>3. Len(su) = n /\ su \in Seq(Frame)
    BY <2>2, OthersTurn
  <2>4. n \in 1..Len(st)
    BY <2>1
  <2>5. v \in Seq(RosValue) /\ f \in Frame /\ FrameOK(v, f)
    BY <2>1, <2>4, CallOf
  <2>6. c \in 1..Len(v) /\ Len(v) \in Nat /\ Len(w) \in Nat
    BY <2>1, <2>5, TurnIsMade, LenProperties
  <2> QED BY <2>1, <2>3, <2>6
<1>6. /\ F \in Frame /\ F.at = c /\ j <= k /\ (F.fn = "initObject" => x.def = F.def)
      /\ Agrees(w, F, Layout(buf)[j][Rest(w, F, a)].tree, t)
      /\ Waiting(w, F) = Len(v)+1..Len(w)
  BY DEF Enters
<1>7. PICK sv : sv = Append(su, F)
  OBVIOUS
<1>8. Len(sv) = n + 1 /\ sv[n + 1] = F /\ \A i \in 1..n : sv[i] = su[i]
  BY <1>5, <1>6, <1>7
<1>9. Reached(w, sv) = D
  <2>1. ASSUME NEW p \in 1..Len(w)
        PROVE  p \in Reached(w, sv) <=> p \in D
    <3>1. p \in Reached(w, sv) <=> \A i \in 1..n + 1 : p \notin Waiting(w, sv[i])
      BY <1>8 DEF Reached, NotWaiting
    <3>2. 1..n + 1 = 1..n \cup {n + 1}
      BY <1>5
    <3>3. p \in Reached(w, sv) <=>
            (\A i \in 1..n : p \notin Waiting(w, su[i])) /\ p \notin Waiting(w, F)
      BY <1>8, <3>1, <3>2
    <3>4. p \notin Waiting(w, F) <=> p \in 1..Len(v)
      BY <1>6
    <3>5. p \in D <=> p \in 1..Len(v) /\ \A i \in 1..n : p \notin Waiting(w, su[i])
      BY <1>4, <1>5 DEF NotWaiting
    <3> QED BY <3>3, <3>4, <3>5
  <2>2. Reached(w, sv) \subseteq 1..Len(w) /\ D \subseteq 1..Len(w)
    <3>1. D \subseteq 1..Len(v)
      BY <1>4 DEF NotWaiting
    <3> QED BY <1>5, <3>1 DEF Reached, NotWaiting
  <2> QED BY <2>1, <2>2
<1>10. PICK GG, HH : GG = Begins(G, n, a) /\ HH = Steps(H, n, j)
  OBVIOUS
<1>11. CallsGrow(buf, w, sv, GG, HH, U, M)
  <2> SUFFICES ASSUME NEW i \in 1..n+1 PROVE CallGrows(buf, w, sv[i], HH[i], GG[i], U, M)
    BY <1>8 DEF CallsGrow
  <2>1. CASE i = n + 1
    <3>1. HH[i] = j /\ GG[i] = a /\ sv[i] = F
      BY <1>8, <1>10, <2>1 DEF Begins, Steps
    <3>2. U[c] = t /\ M[c] = k
      BY <1>3, <1>5 DEF Put
    <3>3. CallGrows(buf, w, F, j, a, U, M)
      BY <1>5, <1>6, <3>2 DEF CallGrows
    <3> QED BY <3>1, <3>3
  <2>2. CASE i \in 1..n
    <3>1. HH[i] = H[i] /\ GG[i] = G[i] /\ sv[i] = su[i]
      BY <1>5, <1>8, <1>10, <2>2 DEF Begins, Steps
    <3>2. CallGrows(buf, w, su[i], H[i], G[i], U, M)
      BY <1>4, <1>5, <2>2 DEF CallsGrow
    <3> QED BY <3>1, <3>2
  <2> QED BY <1>5, <2>1, <2>2
<1>12. OthersFilled(w, sv, D)
  <2> SUFFICES ASSUME NEW p \in D PROVE (\E i \in 1..Len(sv) : sv[i].at = p) \/ Filled(w[p])
    BY DEF OthersFilled
  <2>1. CASE p = c
    BY <1>5, <1>6, <1>8, <2>1
  <2>2. CASE p # c
    <3>1. p \in Reached(v, st)
      BY <1>2, <2>2
    <3>2. (\E i \in 1..Len(su) : su[i].at = p) \/ Filled(w[p])
      BY <1>4, <3>1 DEF OthersFilled
    <3>3. \A i \in 1..Len(su) : i \in 1..Len(sv) /\ sv[i] = su[i]
      BY <1>5, <1>8
    <3> QED BY <3>2, <3>3
  <2> QED BY <2>1, <2>2
<1>13. Grown(buf, w, sv, GG, HH, U, M)
  BY <1>4, <1>9, <1>11, <1>12 DEF Grown
<1> QED BY <1>1, <1>3, <1>7, <1>10, <1>13 DEF Regrown

----
(* The turns of the parser. *)

GrowsOn(e, g, h, T, N) ==
  OnCourse(e, g, h) /\ Grown(Buffer, ros_values_, stack, g, h, T, N)

\* As before, with other calls and trees, but the same tree of the message.
StillGrows(e, T, N) ==
  \E g, h, U, M : GrowsOn(e, g, h, U, M)' /\ U[1] = T[1] /\ M[1] = N[1]

\* What the actions write is a turn of the innermost call.
LEMMA TakesTheTurn ==
  ASSUME Inv, AtField, NEW x, TurnWrites(ros_values_', x), NEW su, Arranged(ros_values_', su),
         Len(ros_values_) <= Len(ros_values_')
  PROVE  TakesTurn(ros_values_, stack, ros_values_', Advanced, Len(stack), Top, x, Target)
<1>1. PICK v, w, st, n, f, c, t : /\ v = ros_values_ /\ w = ros_values_' /\ st = stack
                                  /\ n = Len(stack) /\ f = Top /\ c = Counted /\ t = Target
  OBVIOUS
<1>2. /\ Arranged(v, st) /\ n \in Nat \ {0} /\ n = Len(st) /\ f = st[n] /\ AtTurn(v, f) /\ f \in Frame
      /\ t = Turn(v, f) /\ c = CountedIn(v, f) /\ Advanced = Onward(st) /\ t \in 1..Len(v)
  BY <1>1, TheTurn DEF Inv, Top, Advanced, Below, Onward
<1>3. w \in Seq(RosValue) /\ Len(v) <= Len(w)
  BY <1>1 DEF Arranged
<1>4. n \in 1..Len(st)
  BY <1>2
<1>5. v \in Seq(RosValue) /\ FrameOK(v, f) /\ f.at \in 1..Len(v)
  BY <1>2, <1>4, CallOf
<1>6. \A p \in 1..Len(v) : w[p] = IF p = t THEN x ELSE c[p]
  BY <1>1 DEF TurnWrites
<1>7. f.at # t
  <2>1. Turn(v, f) \in Waiting(v, f) /\ f.at \notin Waiting(v, f)
    <3>1. st[n].at \notin Waiting(v, st[n])
      BY <1>2, <1>4, CallOf
    <3> QED BY <1>2, <1>5, <3>1, TurnIsMade
  <2> QED BY <1>2, <2>1
<1>8. w[f.at] = c[f.at] /\ w[t] = x
  BY <1>2, <1>5, <1>6, <1>7
<1>9. ASSUME NEW p \in 1..Len(v), p # t, p # f.at
      PROVE  w[p] = v[p]
  <2>1. c[p] = v[p]
    BY <1>2, <1>5, <1>9, FieldCounted
  <2> QED BY <1>6, <1>9, <2>1
<1>10. f.fn = "initArray" => w[f.at] = v[f.at]
  BY <1>2, <1>8 DEF CountedIn
<1>11. ASSUME f.fn = "initObject"
       PROVE  /\ w[f.at].type = "object" /\ w[f.at].def = v[f.at].def
              /\ w[f.at].children.offset = v[f.at].children.offset
              /\ w[f.at].children.length = v[f.at].children.length + 1
  <2>1. /\ c[f.at].type = v[f.at].type
        /\ c[f.at].children.offset = v[f.at].children.offset
        /\ c[f.at].children.length = v[f.at].children.length + 1
    BY <1>2, <1>5, <1>11, FieldCounted
  <2>2. v[f.at].type = "object"
    BY <1>5, <1>11 DEF FrameOK
  <2>3. c[f.at].def = v[f.at].def
    <3>1. PICK y \in RosValue : y = v[f.at]
      BY <1>5, ElementOfSeq
    <3>2. PICK q, z : q = f.at /\ z = [y EXCEPT !.children.length = @ + 1]
      OBVIOUS
    <3>3. c = [v EXCEPT ![q] = z]
      BY <1>2, <1>11, <3>1, <3>2 DEF CountedIn
    <3>4. c[q] = z
      BY <1>5, <3>2, <3>3
    <3>5. z.def = y.def
      <4>1. \E a, l \in Nat, d \in DefNames :
              y = [type |-> "object", children |-> [offset |-> a, length |-> l], def |-> d]
        BY <2>2, <3>1, ValueForms, DefinitionAssumption
      <4> QED BY <3>2, <4>1
    <3> QED BY <3>1, <3>2, <3>4, <3>5
  <2> QED BY <1>8, <2>1, <2>2, <2>3
<1>12. TurnsTo(v, w, f, x)
  <2>1. w[Turn(v, f)] = x
    BY <1>2, <1>8
  <2>2. \A p \in 1..Len(v) : p # Turn(v, f) /\ p # f.at => w[p] = v[p]
    BY <1>2, <1>9
  <2> QED BY <1>3, <1>10, <1>11, <2>1, <2>2 DEF TurnsTo
<1>13. TakesTurn(v, st, w, Advanced, n, f, x, t)
  BY <1>2, <1>3, <1>12 DEF TakesTurn
<1> QED BY <1>1, <1>13

\* What they pass is the part the layout has for it.
LEMMA FindsTheTurn ==
  ASSUME Inv, AtField, NEW e, NEW g, NEW h, OnCourse(e, g, h),
         NEW m, TurnPasses(ros_values_', e, g, h, m), NEW t, NEW k, NEW n, n = Len(stack),
         t = Layout(Buffer)[h[n] - 1][ThePart].tree, k = h[n] - 1
  PROVE  /\ k \in Nat \ {0} /\ k - 1 \in Nat
         /\ TurnFinds(Buffer, ros_values_, stack, ros_values_', Advanced, n, Top,
                      message_buffer_offset_, m, e, g, h, t, k)
<1>1. Buffer \in Seq(Nat) /\ message_buffer_offset_ \in Nat \ {0}
  BY TheBuffer DEF Inv, RestOK, AtField, Initialising
<1>2. Lays(Buffer, k, ThePart, m)
  BY TurnsPart
<1>3. k \in Nat \ {0} /\ k - 1 \in Nat
  BY <1>1, <1>2, LaysInSteps
<1>4. Course(Buffer, ros_values_, stack, message_buffer_offset_, e, g, h)
  BY DEF OnCourse
<1>5. Passed(Buffer, ros_values_, ros_values_', stack, Advanced, message_buffer_offset_, e, g, h, n, m)
  BY DEF TurnPasses
<1>6. t = Layout(Buffer)[h[n] - 1][TurnPart(Buffer, Top, message_buffer_offset_)].tree
  BY DEF ThePart
<1> QED BY <1>1, <1>3, <1>4, <1>5, <1>6 DEF TurnFinds

\* A turn that writes value x, which has no children.
LEMMA ScalarGrows ==
  ASSUME NamesApart, Inv, AtField, NEW e, NEW g, NEW h, NEW T, NEW N, GrowsOn(e, g, h, T, N),
         stack' = Advanced, message' = message, Arranged(ros_values_', stack'),
         Len(ros_values_') = Len(ros_values_),
         TurnPasses(ros_values_', e, g, h, message_buffer_offset_'),
         NEW x, TurnWrites(ros_values_', x), x.type \notin {"object", "array"},
         NEW n, n = Len(stack), NEW t, t = Layout(Buffer)[h[n] - 1][ThePart].tree,
         NEW k, k = h[n] - 1, k \in Nat \ {0} => Shaped(x, t, k)
  PROVE  StillGrows(e, T, N)
<1>1. OnCourse(e, g, h) /\ Grown(Buffer, ros_values_, stack, g, h, T, N)
  BY DEF GrowsOn
<1>2. PICK v, w, st, su, f, c, buf, o, m :
        /\ v = ros_values_ /\ w = ros_values_' /\ st = stack /\ su = Advanced /\ f = Top /\ c = Target
        /\ buf = Buffer /\ o = message_buffer_offset_ /\ m = message_buffer_offset_'
  OBVIOUS
<1>3. TakesTurn(v, st, w, su, n, f, x, c)
  <2>1. Len(ros_values_) <= Len(ros_values_')
    <3>1. Len(ros_values_) \in Nat
      BY TheTurn
    <3> QED BY <3>1
  <2>2. TakesTurn(ros_values_, stack, ros_values_', Advanced, Len(stack), Top, x, Target)
    BY TakesTheTurn
  <2> QED BY <1>2, <2>2
<1>4. TurnFinds(buf, v, st, w, su, n, f, o, m, e, g, h, t, k) /\ k \in Nat \ {0}
  BY <1>1, <1>2, FindsTheTurn
<1>5. w[c] = x
  BY <1>3 DEF TakesTurn, TurnsTo
<1>6. ChildrenNew(v, w, c)
  BY <1>5 DEF Children, ChildrenNew
<1>7. SameLength(v, w) /\ Grown(buf, v, st, g, h, T, N) /\ Filled(x) /\ Shaped(x, t, k)
  BY <1>1, <1>2, <1>4 DEF Filled, SameLength
<1>8. PICK G, H, U, M : /\ G = [g EXCEPT ![n] = m] /\ H = [h EXCEPT ![n] = k]
                        /\ U = Put(T, c, t) /\ M = Put(N, c, k)
  OBVIOUS
<1>9. Grown(buf, w, su, G, H, U, M) /\ U[1] = T[1] /\ M[1] = N[1]
  <2>1. Regrown(buf, w, su, [g EXCEPT ![n] = m], [h EXCEPT ![n] = k],
                Put(T, c, t), Put(N, c, k), T, N)
    BY <1>3, <1>4, <1>6, <1>7, ScalarGrown
  <2> QED BY <1>8, <2>1 DEF Regrown
<1>10. Course(buf, w, su, m, e, G, H)
  <2>1. Course(Buffer, ros_values_', Advanced, m, e, [g EXCEPT ![n] = m], [h EXCEPT ![n] = h[n] - 1])
    BY <1>2 DEF TurnPasses, Passed
  <2> QED BY <1>2, <1>8, <2>1
<1>11. Buffer' = buf /\ stack' = su /\ ros_values_' = w /\ message_buffer_offset_' = m
  BY <1>2 DEF Buffer
<1>12. GrowsOn(e, G, H, U, M)'
  BY <1>9, <1>10, <1>11 DEF GrowsOn, OnCourse
<1> QED BY <1>9, <1>12 DEF StillGrows

\* A turn that writes value x and enters call F for it.
LEMMA EnteredGrows ==
  ASSUME NamesApart, Inv, AtField, NEW e, NEW g, NEW h, NEW T, NEW N, GrowsOn(e, g, h, T, N),
         NEW F, stack' = Append(Advanced, F), message' = message, Arranged(ros_values_', stack'),
         Len(ros_values_) <= Len(ros_values_'), NEW m, TurnPasses(ros_values_', e, g, h, m),
         NEW x, TurnWrites(ros_values_', x), ChildrenNew(ros_values_, ros_values_', Target),
         NEW n, n = Len(stack), NEW t, t = Layout(Buffer)[h[n] - 1][ThePart].tree,
         NEW k, k = h[n] - 1, Shaped(x, t, k), NEW j, CalledAt(e, g, h, m, message_buffer_offset_', j),
         Enters(Buffer, ros_values_, ros_values_', F, x, Target, t, k, j, message_buffer_offset_')
  PROVE  StillGrows(e, T, N)
<1>1. OnCourse(e, g, h) /\ Grown(Buffer, ros_values_, stack, g, h, T, N)
  BY DEF GrowsOn
<1>2. PICK v, w, st, su, f, c, buf, o, a :
        /\ v = ros_values_ /\ w = ros_values_' /\ st = stack /\ su = Advanced /\ f = Top /\ c = Target
        /\ buf = Buffer /\ o = message_buffer_offset_ /\ a = message_buffer_offset_'
  OBVIOUS
<1>3. TakesTurn(v, st, w, su, n, f, x, c)
  <2>1. TakesTurn(ros_values_, stack, ros_values_', Advanced, Len(stack), Top, x, Target)
    BY TakesTheTurn
  <2> QED BY <1>2, <2>1
<1>4. TurnFinds(buf, v, st, w, su, n, f, o, m, e, g, h, t, k)
  BY <1>1, <1>2, FindsTheTurn
<1>5. /\ ChildrenNew(v, w, c) /\ Grown(buf, v, st, g, h, T, N)
      /\ Enters(buf, v, w, F, x, c, t, k, j, a)
  BY <1>1, <1>2
<1>6. PICK G, H, U, M : /\ G = Begins([g EXCEPT ![n] = m], n, a) /\ H = Steps([h EXCEPT ![n] = k], n, j)
                        /\ U = Put(T, c, t) /\ M = Put(N, c, k)
  OBVIOUS
<1>7. PICK sv : sv = Append(su, F)
  OBVIOUS
<1>8. Grown(buf, w, sv, G, H, U, M) /\ U[1] = T[1] /\ M[1] = N[1]
  <2>1. Regrown(buf, w, Append(su, F), Begins([g EXCEPT ![n] = m], n, a),
                Steps([h EXCEPT ![n] = k], n, j), Put(T, c, t), Put(N, c, k), T, N)
    BY <1>3, <1>4, <1>5, CallGrown
  <2> QED BY <1>6, <1>7, <2>1 DEF Regrown
<1>9. Course(buf, w, sv, a, e, G, H)
  <2>1. Course(Buffer, ros_values_', stack', a, e,
               Begins([g EXCEPT ![n] = m], n, a), Steps([h EXCEPT ![n] = h[n] - 1], n, j))
    BY <1>2 DEF CalledAt
  <2> QED BY <1>2, <1>6, <1>7, <2>1
<1>10. Buffer' = buf /\ stack' = sv /\ ros_values_' = w /\ message_buffer_offset_' = a
  BY <1>2, <1>7 DEF Buffer
<1>11. GrowsOn(e, G, H, U, M)'
  BY <1>8, <1>9, <1>10 DEF GrowsOn, OnCourse
<1> QED BY <1>8, <1>11 DEF StillGrows

\* A value of fixed size is the leaf at its offset.
LEMMA InitPrimitiveGrows ==
  ASSUME NamesApart, Inv, ArraysSized, InitPrimitive,
         NEW e, NEW g, NEW h, NEW T, NEW N, GrowsOn(e, g, h, T, N)
  PROVE  StillGrows(e, T, N)
<1>1. AtField /\ TargetType \in Primitives /\ stack' = Advanced /\ message' = message
  BY DEF InitPrimitive
<1>2. PICK o \in Nat : o = message_buffer_offset_
  BY DEF Inv, RestOK
<1>3. Arranged(ros_values_', stack') /\ Len(ros_values_') = Len(ros_values_)
  <2>1. ros_values_' = SetOffset(Counted, Target, o)
    BY <1>2 DEF InitPrimitive, SetOffset
  <2>2. 0 \in Nat
    OBVIOUS
  <2> QED BY <1>1, <2>1, <2>2, ScalarKeeps
<1>4. PICK x, n, t, k : /\ x = LeafAt(TargetType, message_buffer_offset_) /\ n = Len(stack)
                        /\ t = Layout(Buffer)[h[n] - 1][ThePart].tree /\ k = h[n] - 1
  OBVIOUS
<1>5. /\ TurnPasses(ros_values_', e, g, h, message_buffer_offset_') /\ TurnWrites(ros_values_', x)
      /\ t = x
  <2>1. OnCourse(e, g, h)
    BY DEF GrowsOn
  <2> QED BY <1>4, <2>1, InitPrimitiveOnCourse
<1>6. x.type = TargetType /\ x = LeafAt(x.type, x.offset)
  BY <1>4 DEF LeafAt
<1>7. x.type \notin {"object", "array", "primitive_array"}
  BY <1>1, <1>6, DefinitionAssumption
<1>8. k \in Nat \ {0} => Shaped(x, t, k)
  BY <1>5, <1>6, <1>7 DEF Shaped
<1> QED BY <1>1, <1>3, <1>4, <1>5, <1>7, <1>8, ScalarGrows

\* So is a string.
LEMMA InitStringGrows ==
  ASSUME NamesApart, Inv, ArraysSized, InitString,
         NEW e, NEW g, NEW h, NEW T, NEW N, GrowsOn(e, g, h, T, N)
  PROVE  StillGrows(e, T, N)
<1>1. AtField /\ TargetType = "string" /\ stack' = Advanced /\ message' = message
  BY DEF InitString
<1>2. PICK o \in Nat : o = message_buffer_offset_
  BY DEF Inv, RestOK
<1>3. Arranged(ros_values_', stack') /\ Len(ros_values_') = Len(ros_values_)
  <2>1. ros_values_' = SetOffset(Counted, Target, o)
    BY <1>2 DEF InitString, SetOffset
  <2>2. 0 \in Nat
    OBVIOUS
  <2> QED BY <1>1, <2>1, <2>2, ScalarKeeps
<1>4. PICK x, n, t, k : /\ x = LeafAt("string", message_buffer_offset_) /\ n = Len(stack)
                        /\ t = Layout(Buffer)[h[n] - 1][ThePart].tree /\ k = h[n] - 1
  OBVIOUS
<1>5. /\ TurnPasses(ros_values_', e, g, h, message_buffer_offset_') /\ TurnWrites(ros_values_', x)
      /\ t = x
  <2>1. OnCourse(e, g, h)
    BY DEF GrowsOn
  <2> QED BY <1>4, <2>1, InitStringOnCourse
<1>6. x.type = "string" /\ x = LeafAt(x.type, x.offset)
  BY <1>4 DEF LeafAt
<1>7. x.type \notin {"object", "array", "primitive_array"}
  BY <1>6
<1>8. k \in Nat \ {0} => Shaped(x, t, k)
  BY <1>5, <1>6, <1>7 DEF Shaped
<1> QED BY <1>1, <1>3, <1>4, <1>5, <1>7, <1>8, ScalarGrows

\* An array of primitives is made of leaves, one behind the other.
LEMMA InitPrimitiveArrayGrows ==
  ASSUME NamesApart, Inv, ArraysSized, InitPrimitiveArray,
         NEW e, NEW g, NEW h, NEW T, NEW N, GrowsOn(e, g, h, T, N)
  PROVE  StillGrows(e, T, N)
<1>1. /\ AtField /\ TargetType = "primitive_array" /\ stack' = Advanced /\ message' = message
  BY DEF InitPrimitiveArray
<1>2. OnCourse(e, g, h)
  BY DEF GrowsOn
<1>3. PICK y, s, l, n, t, k :
        /\ y = Field.type /\ s = ElementsStart /\ l = ArrayLength /\ n = Len(stack)
        /\ t = Layout(Buffer)[h[n] - 1][ThePart].tree /\ k = h[n] - 1
  OBVIOUS
<1>4. PICK x : x = [type |-> "primitive_array", offset |-> s, length |-> l, element_type |-> y]
  OBVIOUS
<1>5. /\ TurnPasses(ros_values_', e, g, h, message_buffer_offset_') /\ TurnWrites(ros_values_', x)
      /\ y \in Primitives /\ l \in Nat /\ s \in Nat \ {0}
      /\ t = LeavesFrom(y, s, l) /\ (l # 0 => k > 1)
  BY <1>2, <1>3, <1>4, InitPrimitiveArrayOnCourse
<1>6. Arranged(ros_values_', stack') /\ Len(ros_values_') = Len(ros_values_)
  <2>1. ros_values_' = SetBlob(Counted, Target, s, l)
    BY <1>3 DEF InitPrimitiveArray, SetBlob
  <2>2. s \in Nat
    BY <1>5
  <2> QED BY <1>1, <1>5, <2>1, <2>2, ScalarKeeps
<1>7. x.type = "primitive_array" /\ x.offset = s /\ x.length = l /\ x.element_type = y
  BY <1>4
<1>8. x.type \notin {"object", "array"} /\ x.type \notin Primitives \cup {"string"}
  BY <1>7, DefinitionAssumption
<1>9. k \in Nat \ {0} => Shaped(x, t, k)
  BY <1>5, <1>7, <1>8 DEF Shaped
<1> QED BY <1>1, <1>3, <1>5, <1>6, <1>8, <1>9, ScalarGrows

\* The fields of an object are found by the call for it.
LEMMA InitObjectGrows ==
  ASSUME NamesApart, Inv, ArraysSized, InitObject,
         NEW e, NEW g, NEW h, NEW T, NEW N, GrowsOn(e, g, h, T, N)
  PROVE  StillGrows(e, T, N)
<1>1. /\ AtField /\ TargetType = "object" /\ stack' = Append(Advanced, ObjectFrame(Target, Field.of))
      /\ message' = message /\ message_buffer_offset_' = message_buffer_offset_
  BY DEF InitObject
<1>2. OnCourse(e, g, h)
  BY DEF GrowsOn
<1>3. PICK o \in Nat \ {0} : o = message_buffer_offset_
  BY <1>1 DEF Inv, RestOK, AtField, Initialising
<1>4. PICK v, w, buf, d, c, n, t, k, j :
        /\ v = ros_values_ /\ w = ros_values_' /\ buf = Buffer /\ d = Field.of /\ c = Target
        /\ n = Len(stack) /\ t = Layout(Buffer)[h[n] - 1][ThePart].tree
        /\ k = h[n] - 1 /\ j = h[n] - 2
  OBVIOUS
<1>5. PICK x : x = [type |-> "object", def |-> d, children |-> [offset |-> Len(v) + 1, length |-> 0]]
  OBVIOUS
<1>6. /\ j \in Nat /\ TurnWrites(w, x) /\ t = Layout(buf)[j][Members(d, 1, o)].tree
  BY <1>2, <1>3, <1>4, <1>5, InitObjectOnCourse
<1>7. PICK m : /\ TurnPasses(w, e, g, h, m) /\ CalledAt(e, g, h, m, o, j)
               /\ Lays(buf, j, Members(d, 1, o), m)
  BY <1>2, <1>3, <1>4, InitObjectOnCourse
<1>8. Arranged(w, stack') /\ Len(w) = Len(v)
  BY <1>4, InitObjectKeeps
<1>9. /\ d \in DefNames /\ c \in 1..Len(v) /\ Len(v) \in Nat /\ v \in Seq(RosValue)
  BY <1>1, <1>4, TheTurn
<1>10. x.type = "object" /\ x.def = d /\ x.children.offset = Len(v) + 1 /\ x.children.length = 0
  BY <1>5
<1>11. w[c] = x
  BY <1>4, <1>6, <1>9 DEF TurnWrites
<1>12. ChildrenNew(v, w, c)
  <2>1. Children(w, c) = Len(v) + 1 .. Len(v) + 1 + 0 - 1
    BY <1>10, <1>11 DEF Children
  <2> QED BY <2>1 DEF ChildrenNew
<1>13. k = j + 1 /\ k \in Nat \ {0}
  <2>1. h[n] \in Int
    <3>1. g \in [0..n -> Nat \ {0}] /\ h \in [1..n -> Nat] /\ n \in 1..n
      BY <1>1, <1>2, <1>4, TheTurn DEF OnCourse, Course
    <3> QED BY <3>1
  <2>2. PICK y \in Int : y = h[n]
    BY <2>1
  <2>3. k = y - 1 /\ j = y - 2
    BY <1>4, <2>2
  <2> QED BY <1>6, <2>3
<1>14. HasFields(t, FieldNames(d))
  <2>1. HasFields(t, NamesFrom(d, 1))
    <3>1. 1 \in Nat \ {0} /\ buf \in Seq(Nat)
      BY <1>4, TheBuffer
    <3> QED BY <1>6, <1>7, <1>9, <3>1, ShapeLaid
  <2> QED BY <1>9, <2>1, AllNames
<1>15. Shaped(x, t, k)
  <2>1. x.type \notin Primitives \cup {"string"}
    BY <1>10, DefinitionAssumption
  <2> QED BY <1>10, <1>13, <1>14, <2>1 DEF Shaped
<1>16. PICK F : F = ObjectFrame(c, d)
  OBVIOUS
<1>17. /\ F \in Frame /\ F.fn = "initObject" /\ F.at = c /\ F.def = d /\ F.loop = "emplace"
       /\ F.next = 1
  BY <1>9, <1>16 DEF ObjectFrame, Frame
<1>18. Enters(buf, v, w, F, x, c, t, k, j, o)
  <2>1. Rest(w, F, o) = Members(d, 1, o)
    BY <1>17 DEF Rest
  <2>2. Agrees(w, F, t, t)
    BY <1>17 DEF Agrees
  <2>3. Waiting(w, F) = Len(v) + 1 .. Len(w)
    <3>1. Off(w, F) = Len(v) + 1
      BY <1>10, <1>11, <1>17 DEF Off
    <3>2. Visited(F) = 0
      BY <1>17 DEF Visited
    <3>3. Places(w, F) = 0
      <4>1. FieldCount(d, 0) = 0
        BY CountNext
      <4>2. F.next - 1 = 0
        BY <1>17
      <4> QED BY <1>17, <4>1, <4>2 DEF Places
    <3> QED BY <1>8, <1>9, <3>1, <3>2, <3>3 DEF Waiting
  <2> QED BY <1>6, <1>10, <1>13, <1>17, <2>1, <2>2, <2>3 DEF Enters
<1>19. Len(ros_values_) <= Len(ros_values_')
  BY <1>4, <1>8, <1>9
<1> QED
  <2>1. /\ TurnPasses(ros_values_', e, g, h, m) /\ TurnWrites(ros_values_', x)
        /\ ChildrenNew(ros_values_, ros_values_', Target)
        /\ CalledAt(e, g, h, m, message_buffer_offset_', j)
        /\ Enters(Buffer, ros_values_, ros_values_', F, x, Target, t, k, j, message_buffer_offset_')
        /\ stack' = Append(Advanced, F) /\ Arranged(ros_values_', stack')
    BY <1>1, <1>3, <1>4, <1>6, <1>7, <1>8, <1>12, <1>16, <1>18
  <2> QED BY <1>1, <1>4, <1>15, <1>19, <2>1, EnteredGrows

\* The elements of an array are found by the call for it.
LEMMA InitArrayGrows ==
  ASSUME NamesApart, Inv, ArraysSized, InitArray,
         NEW e, NEW g, NEW h, NEW T, NEW N, GrowsOn(e, g, h, T, N)
  PROVE  StillGrows(e, T, N)
<1>1. /\ AtField /\ TargetType = "array" /\ stack' = Append(Advanced, ArrayFrame(Target, Field))
      /\ message' = message /\ (Dynamic => LengthThere) /\ message_buffer_offset_' = ElementsStart
  BY DEF InitArray
<1>2. OnCourse(e, g, h)
  BY DEF GrowsOn
<1>3. PICK o \in Nat \ {0} : o = message_buffer_offset_'
  BY <1>1, LengthRead
<1>4. PICK v, w, buf, f, l, c, n, t, k :
        /\ v = ros_values_ /\ w = ros_values_' /\ buf = Buffer /\ f = Field /\ l = ArrayLength
        /\ c = Target /\ n = Len(stack) /\ t = Layout(Buffer)[h[n] - 1][ThePart].tree
        /\ k = h[n] - 1
  OBVIOUS
<1>5. PICK x : x = [type |-> "array", children |-> [offset |-> Len(v) + 1, length |-> l]]
  OBVIOUS
<1>6. l \in Nat /\ TurnWrites(w, x)
  BY <1>2, <1>4, <1>5, InitArrayOnCourse
<1>7. PICK m : /\ TurnPasses(w, e, g, h, m) /\ CalledAt(e, g, h, m, o, k)
               /\ ThePart = Elements(f, l, o) /\ Lays(buf, k, ThePart, m)
  BY <1>2, <1>3, <1>4, InitArrayOnCourse
<1>8. Arranged(w, stack') /\ Len(w) = Len(v) + l
  BY <1>4, InitArrayKeeps
<1>9. /\ f \in Member /\ c \in 1..Len(v) /\ Len(v) \in Nat /\ v \in Seq(RosValue) /\ buf \in Seq(Nat)
  BY <1>1, <1>4, TheTurn, TheBuffer
<1>10. x.type = "array" /\ x.children.offset = Len(v) + 1 /\ x.children.length = l
  BY <1>5
<1>11. w[c] = x
  BY <1>4, <1>6, <1>9 DEF TurnWrites
<1>12. ChildrenNew(v, w, c)
  <2>1. Children(w, c) = Len(v) + 1 .. Len(v) + 1 + l - 1
    BY <1>10, <1>11 DEF Children
  <2> QED BY <1>9, <2>1 DEF ChildrenNew
<1>13. k \in Nat \ {0} /\ t = Layout(buf)[k][Elements(f, l, o)].tree
  BY <1>4, <1>7, <1>9, LaysInSteps
<1>14. HasElements(t, l)
  BY <1>6, <1>7, <1>9, <1>13, ShapeLaid
<1>15. Shaped(x, t, k)
  <2>1. x.type \notin Primitives \cup {"string"}
    BY <1>10, DefinitionAssumption
  <2> QED BY <1>10, <1>13, <1>14, <2>1 DEF Shaped
<1>16. PICK F : F = ArrayFrame(c, f)
  OBVIOUS
<1>17. /\ F \in Frame /\ F.fn = "initArray" /\ F.at = c /\ F.field = f /\ F.next = 1
  BY <1>9, <1>16 DEF ArrayFrame, Frame
<1>18. Enters(buf, v, w, F, x, c, t, k, k, o)
  <2>1. Rest(w, F, o) = Elements(f, l, o)
    <3>1. l - 1 + 1 = l
      BY <1>6
    <3> QED BY <1>10, <1>11, <1>17, <3>1 DEF Rest
  <2>2. Agrees(w, F, t, t)
    <3>1. ASSUME NEW i \in 1..l PROVE t[i - 1 + 1] = t[i]
      <4>1. i - 1 + 1 = i
        OBVIOUS
      <4> QED BY <4>1
    <3> QED BY <1>11, <1>17, <3>1 DEF Agrees
  <2>3. Waiting(w, F) = Len(v) + 1 .. Len(w)
    <3>1. Off(w, F) = Len(v) + 1
      BY <1>10, <1>11, <1>17 DEF Off
    <3>2. Visited(F) = 0
      BY <1>17 DEF Visited
    <3>3. Places(w, F) = l
      BY <1>10, <1>11, <1>17 DEF Places
    <3> QED BY <1>6, <1>8, <1>9, <3>1, <3>2, <3>3 DEF Waiting
  <2>4. k <= k
    BY <1>13
  <2> QED BY <1>13, <1>17, <2>1, <2>2, <2>3, <2>4 DEF Enters
<1>19. Len(ros_values_) <= Len(ros_values_')
  BY <1>4, <1>6, <1>8, <1>9
<1> QED
  <2>1. /\ TurnPasses(ros_values_', e, g, h, m) /\ TurnWrites(ros_values_', x)
        /\ ChildrenNew(ros_values_, ros_values_', Target)
        /\ CalledAt(e, g, h, m, message_buffer_offset_', k)
        /\ Enters(Buffer, ros_values_, ros_values_', F, x, Target, t, k, k, message_buffer_offset_')
        /\ stack' = Append(Advanced, F) /\ Arranged(ros_values_', stack')
    BY <1>1, <1>3, <1>4, <1>6, <1>7, <1>8, <1>12, <1>16, <1>18
  <2> QED BY <1>1, <1>4, <1>15, <1>19, <2>1, EnteredGrows

----
(* The other steps of a call. *)

\* The innermost call steps on to F, and the vector is as it was, up to places
\* at its end that wait for F.
StepsOn(v, st, w, su, n, F) ==
  /\ Arranged(v, st) /\ n \in Nat \ {0} /\ n = Len(st)
  /\ w \in Seq(RosValue) /\ Len(v) <= Len(w) /\ \A p \in 1..Len(v) : w[p] = v[p]
  /\ F \in Frame /\ F.at = st[n].at /\ su = Append(SubSeq(st, 1, n - 1), F)
  /\ Waiting(w, F) = Waiting(v, st[n]) \cup Len(v)+1..Len(w)

StepsAre(h, H, n, k) == H[n] = k /\ \A i \in 1..n-1 : H[i] = h[i]

\* Values that are left alone keep their trees.
LEMMA PlacesKept ==
  ASSUME NEW v, NEW w, NEW D, \A p \in D : w[p] = v[p], NEW T, NEW N, PlacesGrow(v, D, T, N)
  PROVE  PlacesGrow(w, D, T, N)
<1>1. \A p \in D : Shaped(w[p], T[p], N[p])
  BY DEF PlacesGrow
<1>2. ASSUME NEW p \in D, NEW c \in D, NEW key, Keyed(w, p, c, key)
      PROVE  T[c] = T[p][key] /\ N[c] < N[p]
  <2>1. Keyed(v, p, c, key)
    BY <1>2 DEF Keyed
  <2> QED BY <2>1 DEF PlacesGrow, KeysGrow
<1> QED BY <1>2 DEF PlacesGrow, KeysGrow

\* Nothing is visited by a step that passes no data.
LEMMA ReachedOn ==
  ASSUME NEW v, NEW st, NEW w, NEW su, NEW n, NEW F, StepsOn(v, st, w, su, n, F)
  PROVE  Reached(w, su) = Reached(v, st)
<1>1. /\ Arranged(v, st) /\ n \in Nat \ {0} /\ n = Len(st)
      /\ w \in Seq(RosValue) /\ Len(v) <= Len(w) /\ \A p \in 1..Len(v) : w[p] = v[p]
      /\ F \in Frame /\ F.at = st[n].at /\ su = Append(SubSeq(st, 1, n - 1), F)
      /\ Waiting(w, F) = Waiting(v, st[n]) \cup Len(v)+1..Len(w)
  BY DEF StepsOn
<1>3. /\ \A i \in 1..n : st[i] \in Frame /\ st[i].at \in 1..Len(v)
      /\ Len(v) \in Nat /\ Len(w) \in Nat
  <2>1. \A i \in 1..Len(st) : st[i] \in Frame /\ st[i].at \in 1..Len(v) /\ Len(v) \in Nat
    BY <1>1, CallOf
  <2>2. n \in 1..Len(st) /\ Len(w) \in Nat
    BY <1>1, LenProperties
  <2> QED BY <2>1, <2>2
<1>4. Len(su) = n /\ su[n] = F /\ \A i \in 1..n-1 : su[i] = st[i]
  <2>1. st # <<>> /\ st \in Seq(Frame)
    BY <1>1, EmptySeq DEF Arranged
  <2> QED BY <1>1, <2>1, TopReplaced
<1>6. ASSUME NEW i \in 1..n-1 PROVE Waiting(w, su[i]) = Waiting(v, st[i])
  <2>1. PICK f \in Frame : f = st[i] /\ f = su[i] /\ f.at \in 1..Len(v)
    <3>1. i \in 1..n
      BY <1>1
    <3> QED BY <1>3, <1>4, <3>1
  <2>2. w[f.at] = v[f.at]
    BY <1>1, <2>1
  <2>3. SameList(v, w, f)
    BY <2>2 DEF SameList
  <2> QED BY <2>1, <2>3, WaitsOn
<1>8. Reached(w, su) = Reached(v, st)
  <2>1. ASSUME NEW p \in 1..Len(w)
        PROVE  p \in Reached(w, su) <=> p \in Reached(v, st)
    <3>1. 1..n = 1..n-1 \cup {n}
      BY <1>1
    <3>2. p \in Reached(w, su) <=>
            (\A i \in 1..n-1 : p \notin Waiting(v, st[i])) /\ p \notin Waiting(w, F)
      BY <1>4, <1>6, <3>1 DEF Reached, NotWaiting
    <3>3. p \in Reached(v, st) <=>
            /\ p \in 1..Len(v) /\ (\A i \in 1..n-1 : p \notin Waiting(v, st[i]))
            /\ p \notin Waiting(v, st[n])
      BY <1>1, <3>1 DEF Reached, NotWaiting
    <3>4. p \in Waiting(w, F) <=> p \in Waiting(v, st[n]) \/ p \notin 1..Len(v)
      BY <1>1, <1>3
    <3> QED BY <3>2, <3>3, <3>4
  <2>2. Reached(w, su) \subseteq 1..Len(w) /\ Reached(v, st) \subseteq 1..Len(w)
    BY <1>1, <1>3 DEF Reached, NotWaiting
  <2> QED BY <2>1, <2>2
<1> QED BY <1>8

\* The innermost call steps on, the others wait as before.
LEMMA GrownOn ==
  ASSUME NEW v, NEW st, NEW w, NEW su, NEW n, NEW F, StepsOn(v, st, w, su, n, F),
         NEW buf, NEW g, NEW h, NEW T, NEW N, Grown(buf, v, st, g, h, T, N),
         NEW H, NEW k, StepsAre(h, H, n, k), NEW o, o = g[n], CallGrows(buf, w, F, k, o, T, N)
  PROVE  Grown(buf, w, su, g, H, T, N)
<1>1. /\ Arranged(v, st) /\ n \in Nat \ {0} /\ n = Len(st)
      /\ w \in Seq(RosValue) /\ Len(v) <= Len(w) /\ \A p \in 1..Len(v) : w[p] = v[p]
      /\ F \in Frame /\ F.at = st[n].at /\ su = Append(SubSeq(st, 1, n - 1), F)
      /\ Waiting(w, F) = Waiting(v, st[n]) \cup Len(v)+1..Len(w)
  BY DEF StepsOn
<1>2. /\ CallsGrow(buf, v, st, g, h, T, N) /\ PlacesGrow(v, Reached(v, st), T, N)
      /\ OthersFilled(v, st, Reached(v, st))
  BY DEF Grown
<1>3. /\ \A i \in 1..n : st[i] \in Frame /\ st[i].at \in 1..Len(v)
      /\ Len(v) \in Nat /\ Len(w) \in Nat
  <2>1. \A i \in 1..Len(st) : st[i] \in Frame /\ st[i].at \in 1..Len(v) /\ Len(v) \in Nat
    BY <1>1, CallOf
  <2>2. n \in 1..Len(st) /\ Len(w) \in Nat
    BY <1>1, LenProperties
  <2> QED BY <2>1, <2>2
<1>4. Len(su) = n /\ su[n] = F /\ \A i \in 1..n-1 : su[i] = st[i]
  <2>1. st # <<>> /\ st \in Seq(Frame)
    BY <1>1, EmptySeq DEF Arranged
  <2> QED BY <1>1, <2>1, TopReplaced
<1>5. \A i \in 1..n : su[i].at = st[i].at
  <2> TAKE i \in 1..n
  <2>1. i = n \/ i \in 1..n-1
    BY <1>1
  <2> QED BY <1>1, <1>4, <2>1
<1>6. ASSUME NEW i \in 1..n-1
      PROVE  CallGrows(buf, w, su[i], H[i], g[i], T, N)
  <2>1. PICK f \in Frame : f = st[i] /\ f = su[i] /\ f.at \in 1..Len(v)
    <3>1. i \in 1..n
      BY <1>1
    <3> QED BY <1>3, <1>4, <3>1
  <2>2. w[f.at] = v[f.at]
    BY <1>1, <2>1
  <2>4. CallGrows(buf, v, f, h[i], g[i], T, N)
    <3>1. i \in 1..Len(st)
      BY <1>1
    <3> QED BY <1>2, <2>1, <3>1 DEF CallsGrow
  <2>5. PICK a, b : a = h[i] /\ b = g[i]
    OBVIOUS
  <2>6. CallGrows(buf, w, f, a, b, T, N)
    BY <2>2, <2>4, <2>5, CallKept, FrameForms
  <2>7. H[i] = a
    BY <2>5 DEF StepsAre
  <2> QED BY <2>1, <2>5, <2>6, <2>7
<1>7. CallsGrow(buf, w, su, g, H, T, N)
  <2> SUFFICES ASSUME NEW i \in 1..n PROVE CallGrows(buf, w, su[i], H[i], g[i], T, N)
    BY <1>4 DEF CallsGrow
  <2>1. CASE i = n
    BY <1>4, <2>1 DEF StepsAre
  <2>2. CASE i \in 1..n-1
    BY <1>6, <2>2
  <2> QED BY <1>1, <2>1, <2>2
<1>8. Reached(w, su) = Reached(v, st)
  BY ReachedOn
<1>9. \A p \in Reached(v, st) : w[p] = v[p]
  BY <1>1 DEF Reached, NotWaiting
<1>10. PlacesGrow(w, Reached(v, st), T, N)
  BY <1>2, <1>9, PlacesKept
<1>11. OthersFilled(w, su, Reached(v, st))
  <2> SUFFICES ASSUME NEW p \in Reached(v, st)
               PROVE  (\E i \in 1..Len(su) : su[i].at = p) \/ Filled(w[p])
    BY DEF OthersFilled
  <2>1. (\E i \in 1..Len(st) : st[i].at = p) \/ Filled(v[p])
    BY <1>2 DEF OthersFilled
  <2> QED BY <1>1, <1>4, <1>5, <1>9, <2>1
<1> QED BY <1>7, <1>8, <1>10, <1>11 DEF Grown

\* A step of the innermost call of the parser, which passes no data.
LEMMA StepGrows ==
  ASSUME Inv, stack # <<>>, NEW e, NEW g, NEW h, NEW T, NEW N, GrowsOn(e, g, h, T, N),
         NEW n, n = Len(stack), NEW F,
         StepsOn(ros_values_, stack, ros_values_', stack', n, F),
         NEW H, NEW k, StepsAre(h, H, n, k), OnCourse(e, g, H)', message' = message,
         CallGrows(Buffer, ros_values_', F, k, message_buffer_offset_, T, N)
  PROVE  StillGrows(e, T, N)
<1>1. PICK v, w, st, su, buf, o : /\ v = ros_values_ /\ w = ros_values_' /\ st = stack /\ su = stack'
                                  /\ buf = Buffer /\ o = message_buffer_offset_
  OBVIOUS
<1>2. Grown(buf, v, st, g, h, T, N) /\ Course(buf, v, st, o, e, g, h)
  BY <1>1 DEF GrowsOn, OnCourse
<1>3. o = g[n]
  BY <1>1, <1>2 DEF Course
<1>4. StepsOn(v, st, w, su, n, F) /\ CallGrows(buf, w, F, k, o, T, N)
  BY <1>1
<1>5. Grown(buf, w, su, g, H, T, N)
  BY <1>2, <1>3, <1>4, GrownOn
<1>6. Buffer' = buf /\ ros_values_' = w /\ stack' = su
  BY <1>1 DEF Buffer
<1>7. GrowsOn(e, g, H, T, N)'
  BY <1>5, <1>6 DEF GrowsOn
<1> QED BY <1>7 DEF StillGrows

\* What is known of the innermost call.
LEMMA TopGrows ==
  ASSUME Inv, stack # <<>>, NEW e, NEW g, NEW h, NEW T, NEW N, GrowsOn(e, g, h, T, N),
         NEW n, n = Len(stack)
  PROVE  /\ CallGrows(Buffer, ros_values_, Top, h[n], message_buffer_offset_, T, N)
         /\ OnCourse(e, g, h) /\ h \in [1..n -> Nat] /\ n \in 1..n
<1>1. Grown(Buffer, ros_values_, stack, g, h, T, N) /\ OnCourse(e, g, h)
  BY DEF GrowsOn
<1>2. g[n] = message_buffer_offset_ /\ h \in [1..n -> Nat]
  BY <1>1 DEF OnCourse, Course
<1>3. n \in 1..Len(stack) /\ n \in 1..n
  BY TheTop
<1>4. CallGrows(Buffer, ros_values_, stack[n], h[n], g[n], T, N)
  BY <1>1, <1>3 DEF Grown, CallsGrow
<1> QED BY <1>1, <1>2, <1>3, <1>4 DEF Top

\* The steps of the innermost call that pass no data: the next field is appended,
\* where it waits to be visited; the second loop begins, with all fields waiting; and
\* a constant is passed, which has no place in the vector.
LEMMA EmplaceFieldSteps ==
  ASSUME Inv, EmplaceField
  PROVE  StepsOn(ros_values_, stack, ros_values_', stack', Len(stack), Stepped(Top))
<1>1. /\ stack # <<>> /\ Emplacing /\ stack' = Advanced /\ Top.next <= Len(MembersOf(Top))
  BY DEF EmplaceField, Emplacing
<1>2. PICK v, w, st, n, f : v = ros_values_ /\ w = ros_values_' /\ st = stack /\ n = Len(stack) /\ f = Top
  OBVIOUS
<1>3. /\ v \in Seq(RosValue) /\ st \in Seq(Frame) /\ n \in Nat \ {0} /\ f \in Frame /\ f = st[n]
      /\ FrameOK(v, f) /\ IsEmplacing(f) /\ Arranged(v, st) /\ n \in 1..Len(st)
  BY <1>1, <1>2, TheTop DEF Inv
<1>5. Appended(v, w, f) /\ Arranged(w, stack')
  BY <1>2, EmplaceFieldKeeps
<1>6. PICK d \in DefNames, y \in Nat \ {0} : d = f.def /\ y = f.next
  BY <1>3, FrameForms DEF FrameOK, IsEmplacing
<1>7. PICK F : F = Stepped(f)
  OBVIOUS
<1>8. F \in Frame /\ F.fn = "initObject" /\ F.at = f.at /\ F.def = d /\ F.loop = "emplace" /\ F.next = y + 1
  BY <1>3, <1>6, <1>7, NextTurn DEF Stepped, IsEmplacing
<1>9. /\ Len(v) <= Len(w) /\ Len(v) \in Nat /\ Len(w) \in Nat /\ w \in Seq(RosValue)
      /\ \A p \in 1..Len(v) : w[p] = v[p]
      /\ Len(w) = Len(v) + (IF Definitions[d][y].const THEN 0 ELSE 1)
  <2>1. Len(v) \in Nat /\ Len(w) \in Nat /\ w \in Seq(RosValue)
    BY <1>5, LenProperties DEF Arranged
  <2> QED BY <1>5, <1>6, <2>1 DEF Appended
<1>10. w[f.at] = v[f.at]
  BY <1>3, <1>9 DEF FrameOK
<1>11. Waiting(w, F) = Waiting(v, f) \cup Len(v)+1..Len(w)
  <2>1. PICK q \in Nat, z \in Nat : q = Off(v, f) /\ z = Places(v, f) /\ Visited(f) = 0
    BY <1>3, OwnPlaces DEF Visited, IsEmplacing
  <2>2. q + z = Len(v) + 1
    BY <1>3, <2>1 DEF Arranged, EmplacesLast
  <2>3. Off(w, F) = q /\ Visited(F) = 0
    BY <1>8, <1>10, <2>1 DEF Off, Visited
  <2>4. Places(w, F) = z + (IF Definitions[d][y].const THEN 0 ELSE 1)
    <3>1. PICK i \in Nat : i = y - 1 /\ i + 1 = y
      OBVIOUS
    <3>2. z = FieldCount(d, i)
      BY <1>3, <1>6, <2>1, <3>1 DEF Places, IsEmplacing
    <3>3. Places(w, F) = FieldCount(d, i + 1)
      <4>1. F.next - 1 = i + 1
        BY <1>8, <3>1
      <4> QED BY <1>8, <4>1 DEF Places
    <3>4. FieldCount(d, i + 1) = IF Definitions[d][i + 1].const THEN FieldCount(d, i)
                                 ELSE FieldCount(d, i) + 1
      BY CountNext
    <3> QED BY <3>1, <3>2, <3>3, <3>4
  <2>5. Waiting(v, f) = q + 0 .. q + z - 1
    BY <2>1 DEF Waiting
  <2>6. Waiting(w, F) = q + 0 .. q + (z + (IF Definitions[d][y].const THEN 0 ELSE 1)) - 1
    BY <2>3, <2>4 DEF Waiting
  <2> QED BY <1>9, <2>2, <2>5, <2>6
<1>12. StepsOn(v, st, w, stack', n, F)
  <2>1. stack' = Append(SubSeq(st, 1, n - 1), F)
    BY <1>1, <1>2, <1>7 DEF Advanced, Below, Stepped
  <2>2. Waiting(w, F) = Waiting(v, st[n]) \cup Len(v)+1..Len(w)
    BY <1>3, <1>11
  <2>3. F.at = st[n].at
    BY <1>3, <1>8
  <2> QED BY <1>2, <1>3, <1>8, <1>9, <2>1, <2>2, <2>3 DEF StepsOn
<1> QED BY <1>2, <1>7, <1>12

LEMMA AllEmplacedSteps ==
  ASSUME Inv, AllEmplaced
  PROVE  StepsOn(ros_values_, stack, ros_values_', stack', Len(stack), Begun(Top))
<1>1. /\ stack # <<>> /\ Emplacing /\ ros_values_' = ros_values_
      /\ stack' = Append(Below, [Top EXCEPT !.loop = "init", !.next = 1])
      /\ Top.next > Len(MembersOf(Top))
  BY DEF AllEmplaced, Emplacing
<1>2. PICK v, st, n, f : v = ros_values_ /\ st = stack /\ n = Len(stack) /\ f = Top
  OBVIOUS
<1>3. /\ v \in Seq(RosValue) /\ st \in Seq(Frame) /\ n \in Nat \ {0} /\ f \in Frame /\ f = st[n]
      /\ FrameOK(v, f) /\ IsEmplacing(f) /\ Arranged(v, st) /\ n \in 1..Len(st)
  BY <1>1, <1>2, TheTop DEF Inv
<1>6. PICK d \in DefNames, y \in Nat \ {0} : d = f.def /\ y = f.next
  BY <1>3, FrameForms DEF FrameOK, IsEmplacing
<1>7. PICK F : F = Begun(f)
  OBVIOUS
<1>8. F \in Frame /\ F.fn = "initObject" /\ F.at = f.at /\ F.def = d /\ F.loop = "init" /\ F.next = 1
  BY <1>3, <1>6, <1>7, LoopBegun DEF IsEmplacing
<1>9. Len(v) \in Nat
  BY LenProperties
<1>11. Waiting(v, F) = Waiting(v, f) \cup Len(v)+1..Len(v)
  <2>1. Off(v, F) = Off(v, f) /\ Visited(f) = 0
    BY <1>3, <1>8 DEF Off, Visited, IsEmplacing
  <2>2. PICK l \in Nat : l = Len(Definitions[d])
    BY MembersAreCounted
  <2>3. y - 1 = l
    <3>1. y <= l + 1
      BY <1>3, <1>6, <2>2 DEF FrameOK, IsEmplacing
    <3>2. y > l
      BY <1>1, <1>2, <1>6, <2>2 DEF MembersOf
    <3> QED BY <3>1, <3>2
  <2>4. Places(v, f) = FieldCount(d, l) /\ Places(v, F) = FieldCount(d, l)
    BY <1>3, <1>6, <1>8, <2>2, <2>3 DEF Places, IsEmplacing
  <2>5. Visited(F) = 0
    <3>1. FieldCount(d, 0) = 0
      BY CountNext
    <3>2. F.next - 1 = 0
      BY <1>8
    <3> QED BY <1>8, <3>1, <3>2 DEF Visited
  <2>6. Waiting(v, F) = Waiting(v, f)
    BY <2>1, <2>4, <2>5 DEF Waiting
  <2>7. Len(v)+1..Len(v) = {}
    BY <1>9
  <2> QED BY <2>6, <2>7
<1>12. StepsOn(v, st, v, stack', n, F)
  <2>1. stack' = Append(SubSeq(st, 1, n - 1), F)
    BY <1>1, <1>2, <1>7 DEF Below, Begun
  <2>2. Waiting(v, F) = Waiting(v, st[n]) \cup Len(v)+1..Len(v)
    BY <1>3, <1>11
  <2>3. F.at = st[n].at /\ Len(v) <= Len(v)
    BY <1>3, <1>8, <1>9
  <2> QED BY <1>2, <1>3, <1>8, <2>1, <2>2, <2>3 DEF StepsOn
<1> QED BY <1>1, <1>2, <1>7, <1>12

LEMMA SkipConstantSteps ==
  ASSUME Inv, SkipConstant
  PROVE  StepsOn(ros_values_, stack, ros_values_', stack', Len(stack), Stepped(Top))
<1>1. /\ stack # <<>> /\ ~Emplacing /\ ros_values_' = ros_values_ /\ stack' = Advanced
      /\ Top.fn = "initObject" /\ Top.next <= Len(Definitions[Top.def])
      /\ Definitions[Top.def][Top.next].const
  BY DEF SkipConstant, Initialising, Turns, MembersOf
<1>2. PICK v, st, n, f : v = ros_values_ /\ st = stack /\ n = Len(stack) /\ f = Top
  OBVIOUS
<1>3. /\ v \in Seq(RosValue) /\ st \in Seq(Frame) /\ n \in Nat \ {0} /\ f \in Frame /\ f = st[n]
      /\ FrameOK(v, f) /\ ~IsEmplacing(f) /\ Arranged(v, st) /\ n \in 1..Len(st)
  BY <1>1, <1>2, TheTop DEF Inv
<1>5. f.fn = "initObject" /\ f.loop = "init" /\ Definitions[f.def][f.next].const
  BY <1>1, <1>2, <1>3, FrameForms DEF IsEmplacing
<1>6. PICK d \in DefNames, y \in Nat \ {0} : d = f.def /\ y = f.next
  BY <1>3, <1>5, FrameForms DEF FrameOK
<1>7. PICK F : F = Stepped(f)
  OBVIOUS
<1>8. F \in Frame /\ F.fn = "initObject" /\ F.at = f.at /\ F.def = d /\ F.loop = "init" /\ F.next = y + 1
  BY <1>3, <1>5, <1>6, <1>7, NextTurn DEF Stepped
<1>9. Len(v) \in Nat
  BY LenProperties
<1>11. Waiting(v, F) = Waiting(v, f) \cup Len(v)+1..Len(v)
  <2>1. Off(v, F) = Off(v, f) /\ Places(v, F) = Places(v, f)
    BY <1>5, <1>6, <1>8 DEF Off, Places
  <2>2. PICK i \in Nat : i = y - 1 /\ i + 1 = y
    OBVIOUS
  <2>3. FieldCount(d, i + 1) = FieldCount(d, i)
    <3>1. Definitions[d][i + 1].const
      BY <1>5, <1>6, <2>2
    <3> QED BY <3>1, CountNext
  <2>4. Visited(F) = Visited(f)
    <3>1. F.next - 1 = i + 1 /\ f.next - 1 = i
      BY <1>6, <1>8, <2>2
    <3> QED BY <1>5, <1>6, <1>8, <2>3, <3>1 DEF Visited
  <2>6. Waiting(v, F) = Waiting(v, f)
    BY <2>1, <2>4 DEF Waiting
  <2>7. Len(v)+1..Len(v) = {}
    BY <1>9
  <2> QED BY <2>6, <2>7
<1>12. StepsOn(v, st, v, stack', n, F)
  <2>1. stack' = Append(SubSeq(st, 1, n - 1), F)
    BY <1>1, <1>2, <1>7 DEF Advanced, Below, Stepped
  <2>2. Waiting(v, F) = Waiting(v, st[n]) \cup Len(v)+1..Len(v)
    BY <1>3, <1>11
  <2>3. F.at = st[n].at /\ Len(v) <= Len(v)
    BY <1>3, <1>8, <1>9
  <2> QED BY <1>2, <1>3, <1>8, <2>1, <2>2, <2>3 DEF StepsOn
<1> QED BY <1>1, <1>2, <1>7, <1>12

\* The next field is appended, where it waits to be visited.
LEMMA EmplaceFieldGrows ==
  ASSUME Inv, EmplaceField, NEW e, NEW g, NEW h, NEW T, NEW N, GrowsOn(e, g, h, T, N)
  PROVE  StillGrows(e, T, N)
<1>1. /\ stack # <<>> /\ Emplacing /\ UNCHANGED <<message, message_buffer_offset_>>
      /\ stack' = Advanced /\ Top.next <= Len(MembersOf(Top))
  BY DEF EmplaceField, Emplacing
<1>2. PICK v, w, st, n, f, buf, o, k :
        /\ v = ros_values_ /\ w = ros_values_' /\ st = stack /\ n = Len(stack) /\ f = Top
        /\ buf = Buffer /\ o = message_buffer_offset_ /\ k = h[n]
  OBVIOUS
<1>3. /\ v \in Seq(RosValue) /\ st \in Seq(Frame) /\ n \in Nat \ {0} /\ f \in Frame /\ f = st[n]
      /\ FrameOK(v, f) /\ IsEmplacing(f) /\ Arranged(v, st) /\ n \in 1..Len(st)
  BY <1>1, <1>2, TheTop DEF Inv
<1>4. /\ CallGrows(buf, v, f, k, o, T, N) /\ OnCourse(e, g, h)
  BY <1>1, <1>2, TopGrows
<1>6. PICK d \in DefNames, y \in Nat \ {0} : d = f.def /\ y = f.next
  BY <1>3, FrameForms DEF FrameOK, IsEmplacing
<1>7. PICK F : F = Stepped(f)
  OBVIOUS
<1>8. F \in Frame /\ F.fn = "initObject" /\ F.at = f.at /\ F.def = d /\ F.loop = "emplace" /\ F.next = y + 1
  BY <1>3, <1>6, <1>7, NextTurn DEF Stepped, IsEmplacing
<1>9. StepsOn(v, st, w, stack', n, F)
  BY <1>2, <1>7, EmplaceFieldSteps
<1>10. w[f.at] = v[f.at]
  BY <1>3, <1>9 DEF FrameOK, StepsOn
<1>13. CallGrows(buf, w, F, k, o, T, N)
  <2>1. f.fn = "initObject" /\ f.loop = "emplace"
    BY <1>3 DEF IsEmplacing
  <2>2. Rest(w, F, o) = Rest(v, f, o)
    BY <1>6, <1>8, <2>1 DEF Rest
  <2>3. PICK r, t : r = Layout(buf)[k][Rest(v, f, o)].tree /\ t = T[f.at]
    OBVIOUS
  <2>4. Agrees(v, f, r, t) /\ k <= N[f.at] /\ v[f.at].def = f.def
    BY <1>4, <2>1, <2>3 DEF CallGrows
  <2>5. Agrees(w, F, r, t)
    BY <1>6, <1>8, <2>1, <2>4 DEF Agrees
  <2> QED BY <1>6, <1>8, <1>10, <2>2, <2>3, <2>4, <2>5 DEF CallGrows
<1>14. StepsAre(h, h, n, k)
  BY <1>2 DEF StepsAre
<1>15. OnCourse(e, g, h)'
  BY <1>4, EmplaceFieldOnCourse
<1> QED
  <2>1. /\ StepsOn(ros_values_, stack, ros_values_', stack', n, F) /\ message' = message
        /\ CallGrows(Buffer, ros_values_', F, k, message_buffer_offset_, T, N)
    BY <1>1, <1>2, <1>9, <1>13
  <2> QED BY <1>1, <1>2, <1>14, <1>15, <2>1, StepGrows

\* The second loop begins, with all fields waiting.
LEMMA AllEmplacedGrows ==
  ASSUME Inv, AllEmplaced, NEW e, NEW g, NEW h, NEW T, NEW N, GrowsOn(e, g, h, T, N)
  PROVE  StillGrows(e, T, N)
<1>1. /\ stack # <<>> /\ Emplacing /\ UNCHANGED <<message, message_buffer_offset_, ros_values_>>
      /\ stack' = Append(Below, [Top EXCEPT !.loop = "init", !.next = 1])
      /\ Top.next > Len(MembersOf(Top))
  BY DEF AllEmplaced, Emplacing
<1>2. PICK v, st, n, f, buf, o, k :
        /\ v = ros_values_ /\ st = stack /\ n = Len(stack) /\ f = Top
        /\ buf = Buffer /\ o = message_buffer_offset_ /\ k = h[n]
  OBVIOUS
<1>3. /\ v \in Seq(RosValue) /\ st \in Seq(Frame) /\ n \in Nat \ {0} /\ f \in Frame /\ f = st[n]
      /\ FrameOK(v, f) /\ IsEmplacing(f) /\ Arranged(v, st) /\ n \in 1..Len(st)
  BY <1>1, <1>2, TheTop DEF Inv
<1>4. /\ CallGrows(buf, v, f, k, o, T, N) /\ OnCourse(e, g, h)
  BY <1>1, <1>2, TopGrows
<1>6. PICK d \in DefNames, y \in Nat \ {0} : d = f.def /\ y = f.next
  BY <1>3, FrameForms DEF FrameOK, IsEmplacing
<1>7. PICK F : F = Begun(f)
  OBVIOUS
<1>8. F \in Frame /\ F.fn = "initObject" /\ F.at = f.at /\ F.def = d /\ F.loop = "init" /\ F.next = 1
  BY <1>3, <1>6, <1>7, LoopBegun DEF IsEmplacing
<1>9. StepsOn(v, st, v, stack', n, F)
  BY <1>1, <1>2, <1>7, AllEmplacedSteps
<1>13. CallGrows(buf, v, F, k, o, T, N)
  <2>1. f.fn = "initObject" /\ f.loop = "emplace"
    BY <1>3 DEF IsEmplacing
  <2>2. Rest(v, F, o) = Rest(v, f, o)
    BY <1>6, <1>8, <2>1 DEF Rest
  <2>3. PICK r, t : r = Layout(buf)[k][Rest(v, f, o)].tree /\ t = T[f.at]
    OBVIOUS
  <2>4. Agrees(v, f, r, t) /\ k <= N[f.at] /\ v[f.at].def = f.def
    BY <1>4, <2>1, <2>3 DEF CallGrows
  <2>5. Agrees(v, F, r, t)
    BY <1>6, <1>8, <2>1, <2>4 DEF Agrees
  <2> QED BY <1>6, <1>8, <2>2, <2>3, <2>4, <2>5 DEF CallGrows
<1>14. StepsAre(h, h, n, k)
  BY <1>2 DEF StepsAre
<1>15. OnCourse(e, g, h)'
  BY <1>4, AllEmplacedOnCourse
<1> QED
  <2>1. /\ StepsOn(ros_values_, stack, ros_values_', stack', n, F) /\ message' = message
        /\ CallGrows(Buffer, ros_values_', F, k, message_buffer_offset_, T, N)
    BY <1>1, <1>2, <1>9, <1>13
  <2> QED BY <1>1, <1>2, <1>14, <1>15, <2>1, StepGrows

\* A constant has no place in the buffer or the vector.
LEMMA SkipConstantGrows ==
  ASSUME Inv, SkipConstant, NEW e, NEW g, NEW h, NEW T, NEW N, GrowsOn(e, g, h, T, N)
  PROVE  StillGrows(e, T, N)
<1>1. /\ stack # <<>> /\ ~Emplacing /\ UNCHANGED <<message, message_buffer_offset_, ros_values_>>
      /\ stack' = Advanced
  BY DEF SkipConstant, Initialising
<1>a. PICK n, o : n = Len(stack) /\ o = message_buffer_offset_
  OBVIOUS
<1>b. OnCourse(e, g, h)
  BY DEF GrowsOn
<1>c. /\ OnCourse(e, g, [h EXCEPT ![n] = h[n] - 1])' /\ h[n] - 1 \in Nat
      /\ Top.fn = "initObject" /\ Top.loop = "init" /\ Definitions[Top.def][Top.next].const
      /\ Top.next \in 1..Len(Definitions[Top.def])
      /\ Layout(Buffer)[h[n]][Rest(ros_values_, Top, o)] =
           Layout(Buffer)[h[n] - 1][Rest(ros_values_, Stepped(Top), o)]
  BY <1>a, <1>b, SkipConstantOnCourse
<1>d. PICK v, st, f, buf, k, H :
        /\ v = ros_values_ /\ st = stack /\ f = Top /\ buf = Buffer /\ k = h[n] - 1
        /\ H = [h EXCEPT ![n] = h[n] - 1]
  OBVIOUS
<1>2. /\ v = ros_values_ /\ st = stack /\ n = Len(stack) /\ f = Top
      /\ buf = Buffer /\ o = message_buffer_offset_ /\ k = h[n] - 1
      /\ H = [h EXCEPT ![n] = h[n] - 1]
  BY <1>a, <1>d
<1>3. /\ v \in Seq(RosValue) /\ st \in Seq(Frame) /\ n \in Nat \ {0} /\ f \in Frame /\ f = st[n]
      /\ FrameOK(v, f) /\ Arranged(v, st) /\ n \in 1..Len(st)
  BY <1>1, <1>2, TheTop DEF Inv
<1>4. /\ CallGrows(buf, v, f, h[n], o, T, N) /\ OnCourse(e, g, h) /\ h \in [1..n -> Nat] /\ n \in 1..n
  BY <1>1, <1>2, TopGrows
<1>5. /\ OnCourse(e, g, H)' /\ k \in Nat
      /\ f.fn = "initObject" /\ f.loop = "init" /\ Definitions[f.def][f.next].const
      /\ f.next \in 1..Len(Definitions[f.def])
      /\ Layout(buf)[h[n]][Rest(v, f, o)] = Layout(buf)[k][Rest(v, Stepped(f), o)]
  <2>1. OnCourse(e, g, H)'
    BY <1>2, <1>c
  <2> QED BY <1>2, <1>c, <2>1
<1>6. PICK d \in DefNames, y \in Nat \ {0} : d = f.def /\ y = f.next
  BY <1>3, <1>5, FrameForms DEF FrameOK
<1>7. PICK F : F = Stepped(f)
  OBVIOUS
<1>8. F \in Frame /\ F.fn = "initObject" /\ F.at = f.at /\ F.def = d /\ F.loop = "init" /\ F.next = y + 1
  BY <1>3, <1>5, <1>6, <1>7, NextTurn DEF Stepped
<1>9. Len(v) \in Nat /\ Len(Definitions[d]) \in Nat
  BY LenProperties, MembersAreCounted
<1>11. StepsOn(v, st, v, stack', n, F)
  BY <1>1, <1>2, <1>7, SkipConstantSteps
<1>13. CallGrows(buf, v, F, k, o, T, N)
  <2>1. PICK r, t, z : r = Layout(buf)[h[n]][Rest(v, f, o)].tree /\ t = T[f.at] /\ z = N[f.at]
    OBVIOUS
  <2>2. Agrees(v, f, r, t) /\ h[n] <= z /\ v[f.at].def = f.def
    BY <1>4, <1>5, <2>1 DEF CallGrows
  <2>3. Layout(buf)[k][Rest(v, F, o)].tree = r
    BY <1>5, <1>7, <2>1
  <2>4. Agrees(v, F, r, t)
    <3>1. \A l \in FieldsFrom(d, y) : r[Definitions[d][l].name] = t[Definitions[d][l].name]
      BY <1>5, <1>6, <2>2 DEF Agrees
    <3>2. FieldsFrom(d, y + 1) \subseteq FieldsFrom(d, y)
      BY DEF FieldsFrom
    <3> QED BY <1>8, <3>1, <3>2 DEF Agrees
  <2>5. k <= z
    <3>1. PICK q \in Nat : q = h[n]
      BY <1>4
    <3>2. q <= z /\ k = q - 1
      BY <1>2, <2>2, <3>1
    <3>3. z \in Nat
      <4>1. Grown(buf, v, st, g, h, T, N)
        BY <1>2 DEF GrowsOn
      <4>2. f.at \in Reached(v, st)
        <5>1. \A i \in 1..Len(st) : f.at \notin Waiting(v, st[i]) /\ f.at \in 1..Len(v)
          BY <1>3, CallOf
        <5> QED BY <1>3, <5>1 DEF Reached, NotWaiting
      <4> QED BY <2>1, <4>1, <4>2 DEF Grown, PlacesGrow, Shaped
    <3> QED BY <3>2, <3>3
  <2> QED BY <1>6, <1>8, <2>1, <2>2, <2>3, <2>4, <2>5 DEF CallGrows
<1>14. StepsAre(h, H, n, k)
  <2>1. \A i \in 1..n-1 : i \in 1..n /\ i # n
    BY <1>3
  <2> QED BY <1>2, <1>4, <2>1 DEF StepsAre
<1> QED
  <2>1. /\ StepsOn(ros_values_, stack, ros_values_', stack', n, F) /\ message' = message
        /\ CallGrows(Buffer, ros_values_', F, k, message_buffer_offset_, T, N)
    BY <1>1, <1>2, <1>11, <1>13
  <2> QED BY <1>1, <1>2, <1>5, <1>14, <2>1, StepGrows

----
(* The end of a call, and of the parse. *)

\* A call that is finished has visited all there is.
LEMMA TopVisited ==
  ASSUME Inv, Finished
  PROVE  /\ Waiting(ros_values_, Top) = {}
         /\ Top.fn = "initObject" =>
              ros_values_[Top.at].children.length = FieldCount(Top.def, Len(Definitions[Top.def]))
         /\ Top.fn = "initArray" => ros_values_[Top.at].type = "array"
<1>1. stack # <<>> /\ ~Emplacing /\ Top.next > Turns
  BY DEF Finished, Initialising
<1>2. PICK v, f : v = ros_values_ /\ f = Top
  OBVIOUS
<1>3. v \in Seq(RosValue) /\ f \in Frame /\ FrameOK(v, f) /\ ~IsEmplacing(f)
  BY <1>1, <1>2, TheTop
<1>7. PICK o \in Nat, q \in Nat, y \in Nat : o = Off(v, f) /\ q = Places(v, f) /\ y = Visited(f)
  BY <1>3, OwnPlaces
<1>8. CASE f.fn = "initObject"
  <2>1. f.loop = "init" /\ f.def \in DefNames
    BY <1>3, <1>8, FrameForms DEF IsEmplacing
  <2>2. PICK l \in Nat : l = Len(Definitions[f.def])
    BY <2>1, MembersAreCounted
  <2>3. f.next - 1 = l
    <3>1. f.next \in Nat /\ f.next <= l + 1
      BY <1>3, <1>8, <2>2 DEF FrameOK
    <3>2. f.next > l
      BY <1>1, <1>2, <1>8, <2>2 DEF Turns, MembersOf
    <3> QED BY <3>1, <3>2
  <2>4. y = FieldCount(f.def, l) /\ q = FieldCount(f.def, l)
    BY <1>7, <1>8, <2>1, <2>2, <2>3 DEF Visited, Places
  <2>5. Waiting(v, f) = o + y .. o + q - 1
    BY <1>7 DEF Waiting
  <2>6. Waiting(v, f) = {}
    BY <2>4, <2>5
  <2>7. v[f.at].children.length = y
    BY <1>3, <1>7, <1>8 DEF FrameOK
  <2> QED BY <1>2, <1>8, <2>2, <2>4, <2>6, <2>7
<1>9. CASE f.fn = "initArray"
  <2>1. v[f.at].type = "array" /\ q = v[f.at].children.length /\ y = f.next - 1 /\ f.next \in Nat
    BY <1>3, <1>7, <1>9 DEF FrameOK, Places, Visited
  <2>2. f.next > q
    BY <1>1, <1>2, <1>9, <2>1 DEF Turns
  <2>3. Waiting(v, f) = o + y .. o + q - 1
    BY <1>7 DEF Waiting
  <2>4. Waiting(v, f) = {}
    <3>1. y >= q
      <4>1. PICK z \in Nat : z = f.next
        BY <2>1
      <4>2. y = z - 1 /\ z > q
        BY <2>1, <2>2, <4>1
      <4> QED BY <4>2
    <3>2. o + y .. o + q - 1 = {}
      BY <3>1
    <3> QED BY <2>3, <3>2
  <2> QED BY <1>2, <1>9, <2>1, <2>4
<1> QED BY <1>3, <1>8, <1>9, FrameForms

\* So its value is complete.
LEMMA TopFilled ==
  ASSUME Inv, Finished, NEW e, NEW g, NEW h, NEW T, NEW N, GrowsOn(e, g, h, T, N)
  PROVE  Waiting(ros_values_, Top) = {} /\ Filled(ros_values_[Top.at])
<1>1. stack # <<>>
  BY DEF Finished, Initialising
<1>2. PICK v, f, n : v = ros_values_ /\ f = Top /\ n = Len(stack)
  OBVIOUS
<1>3. f \in Frame /\ FrameOK(v, f)
  BY <1>1, <1>2, TheTop
<1>4. CallGrows(Buffer, v, f, h[n], message_buffer_offset_, T, N)
  BY <1>1, <1>2, TopGrows
<1>5. /\ Waiting(v, f) = {}
      /\ f.fn = "initObject" => v[f.at].children.length = FieldCount(f.def, Len(Definitions[f.def]))
      /\ f.fn = "initArray" => v[f.at].type = "array"
  BY <1>2, TopVisited
<1>6. CASE f.fn = "initObject"
  <2>1. v[f.at].def = f.def
    BY <1>4, <1>6 DEF CallGrows
  <2> QED BY <1>2, <1>5, <1>6, <2>1 DEF Filled
<1>7. CASE f.fn = "initArray"
  BY <1>2, <1>5, <1>7 DEF Filled
<1> QED BY <1>3, <1>6, <1>7, FrameForms

\* Nothing waits for it any more, nor is anything visited when it returns.
LEMMA ReturnReaches ==
  ASSUME Inv, Finished, NEW su, su = Below
  PROVE  /\ Reached(ros_values_, su) = Reached(ros_values_, stack)
         /\ Len(su) = Len(stack) - 1 /\ \A i \in 1..Len(su) : su[i] = stack[i]
<1>1. stack # <<>>
  BY DEF Finished, Initialising
<1>2. PICK v, st, n, f : v = ros_values_ /\ st = stack /\ n = Len(stack) /\ f = Top
  OBVIOUS
<1>6. Waiting(v, f) = {}
  BY <1>2, TopVisited
<1>9. st \in Seq(Frame) /\ st # <<>> /\ n \in Nat \ {0} /\ f = st[n] /\ n = Len(st) /\ f \in Frame
  BY <1>1, <1>2, TheTop
<1>11. Len(su) = n - 1 /\ \A i \in 1..n-1 : su[i] = st[i]
  <2>1. PICK su2 : su2 = Append(SubSeq(st, 1, n - 1), f)
    OBVIOUS
  <2>2. su = SubSeq(st, 1, n - 1)
    BY <1>2 DEF Below
  <2> QED BY <1>9, <2>1, <2>2, TopReplaced
<1>12. 1..Len(st) = 1..n-1 \cup {n}
  BY <1>9
<1>14. Reached(v, su) = Reached(v, st)
  <2>1. ASSUME NEW p
        PROVE  (\A i \in 1..Len(su) : p \notin Waiting(v, su[i]))
                 <=> (\A i \in 1..Len(st) : p \notin Waiting(v, st[i]))
    BY <1>6, <1>9, <1>11, <1>12
  <2> QED BY <2>1 DEF Reached, NotWaiting
<1> QED BY <1>2, <1>9, <1>11, <1>14

\* The call below goes on where the finished one ended.
LEMMA ReturnGrows ==
  ASSUME Inv, Return, NEW e, NEW g, NEW h, NEW T, NEW N, GrowsOn(e, g, h, T, N)
  PROVE  StillGrows(e, T, N)
<1>1. /\ Finished /\ stack # <<>> /\ UNCHANGED <<message, message_buffer_offset_, ros_values_>>
      /\ stack' = Below
  BY DEF Return, Finished, Initialising
<1>2. PICK n : n = Len(stack)
  OBVIOUS
<1>3. PICK G, H : G = Ends(g, n) /\ H = Fewer(h, n)
  OBVIOUS
<1>4. OnCourse(e, G, H)'
  BY <1>2, <1>3, ReturnOnCourse DEF GrowsOn
<1>5. PICK v, st, su, f, buf : v = ros_values_ /\ st = stack /\ su = stack' /\ f = Top /\ buf = Buffer
  OBVIOUS
<1>6. Waiting(v, f) = {} /\ Filled(v[f.at])
  BY <1>1, <1>5, TopFilled
<1>7. Grown(buf, v, st, g, h, T, N)
  BY <1>5 DEF GrowsOn
<1>8. /\ CallsGrow(buf, v, st, g, h, T, N) /\ PlacesGrow(v, Reached(v, st), T, N)
      /\ OthersFilled(v, st, Reached(v, st))
  BY <1>7 DEF Grown
<1>9. st \in Seq(Frame) /\ st # <<>> /\ n \in Nat \ {0} /\ f = st[n] /\ n = Len(st) /\ f \in Frame
  BY <1>1, <1>2, <1>5, TheTop
<1>10. su = SubSeq(st, 1, n - 1)
  BY <1>1, <1>2, <1>5 DEF Below
<1>11. Len(su) = n - 1 /\ \A i \in 1..n-1 : su[i] = st[i]
  <2>1. PICK su2 : su2 = Append(SubSeq(st, 1, n - 1), f)
    OBVIOUS
  <2> QED BY <1>9, <1>10, <2>1, TopReplaced
<1>12. 1..Len(st) = 1..n-1 \cup {n}
  BY <1>9
<1>13. CallsGrow(buf, v, su, G, H, T, N)
  <2> SUFFICES ASSUME NEW i \in 1..n-1 PROVE CallGrows(buf, v, su[i], H[i], G[i], T, N)
    BY <1>11 DEF CallsGrow
  <2>1. su[i] = st[i] /\ H[i] = h[i] /\ G[i] = g[i]
    <3>1. i \in 0..n-1
      BY <1>9
    <3> QED BY <1>3, <1>11, <3>1 DEF Ends, Fewer
  <2>2. CallGrows(buf, v, st[i], h[i], g[i], T, N)
    BY <1>8, <1>12 DEF CallsGrow
  <2> QED BY <2>1, <2>2
<1>14. Reached(v, su) = Reached(v, st)
  BY <1>1, <1>5, ReturnReaches
<1>15. OthersFilled(v, su, Reached(v, st))
  <2> SUFFICES ASSUME NEW p \in Reached(v, st)
               PROVE  (\E i \in 1..Len(su) : su[i].at = p) \/ Filled(v[p])
    BY DEF OthersFilled
  <2>1. (\E i \in 1..Len(st) : st[i].at = p) \/ Filled(v[p])
    BY <1>8 DEF OthersFilled
  <2>2. CASE p = f.at
    BY <1>6, <2>2
  <2>3. ASSUME NEW i \in 1..Len(st), st[i].at = p, p # f.at
        PROVE  \E j \in 1..Len(su) : su[j].at = p
    <3>1. i \in 1..n-1
      BY <1>9, <1>12, <2>3
    <3> QED BY <1>11, <2>3, <3>1
  <2> QED BY <2>1, <2>2, <2>3
<1>16. Grown(buf, v, su, G, H, T, N)
  BY <1>8, <1>13, <1>14, <1>15 DEF Grown
<1>17. Buffer' = buf /\ stack' = su /\ ros_values_' = v
  BY <1>1, <1>5 DEF Buffer
<1>18. GrowsOn(e, G, H, T, N)'
  BY <1>4, <1>16, <1>17 DEF GrowsOn
<1> QED BY <1>18 DEF StillGrows

\* The first call of a parse, on the course of a message that is whole.
LEMMA HydrateGrows ==
  ASSUME Inv, Hydrate, Reference.ok, NEW e, e = Reference.end
  PROVE  \E g, h, T, N : GrowsOn(e, g, h, T, N)' /\ T[1] = Reference.tree /\ N[1] = Depth
<1>1. message \in Messages
  BY DEF Inv, RestOK
<1>2. PICK d, o : d = message.msg_def_ /\ o = message.raw_buffer_offset
  OBVIOUS
<1>3. d \in DefNames /\ o \in Nat \ {0}
  <2>1. d \in DefNames /\ o \in 1..Len(message.raw_buffer) + 1 /\ message.raw_buffer \in Seq(Nat)
    BY <1>1, <1>2, MessageAssumption
  <2>2. Len(message.raw_buffer) \in Nat
    BY LenProperties
  <2> QED BY <2>1, <2>2
<1>4. PICK buf \in Seq(Nat) : buf = Buffer
  BY TheBuffer
<1>5. PICK g, h : OnCourse(e, g, h)' /\ h[1] = Depth /\ g[1] = o
  BY <1>2, HydrateOnCourse
<1>6. PICK r : r = Reference.tree
  OBVIOUS
<1>7. r = Layout(buf)[Depth][Members(d, 1, o)].tree
  BY <1>2, <1>4, <1>6 DEF Reference, Whole
<1>8. HasFields(r, FieldNames(d)) /\ Depth \in Nat \ {0}
  <2>1. PICK one \in Nat \ {0} : one = 1
    OBVIOUS
  <2>2. Members(d, one, o) \in Part
    BY <1>3, Parts
  <2>3. Layout(buf)[Depth][Members(d, one, o)].ok /\ Layout(buf)[Depth][Members(d, one, o)].end = e
    BY <1>2, <1>4, <2>1 DEF Reference, Whole
  <2>4. Lays(buf, Depth, Members(d, one, o), e)
    BY <2>2, <2>3, DepthAssumption DEF Lays
  <2>5. Depth \in Nat \ {0}
    BY <2>4, LaysInSteps
  <2>6. HasFields(Layout(buf)[Depth][Members(d, one, o)].tree, NamesFrom(d, one))
    BY <1>3, <2>4, ShapeLaid
  <2> QED BY <1>3, <1>7, <2>1, <2>5, <2>6, AllNames
<1>9. PICK x, q : /\ x = [type |-> "object", def |-> d, children |-> [offset |-> 2, length |-> 0]]
                  /\ q = ObjectFrame(1, d)
  OBVIOUS
<1>10. PICK v, st : v = <<x>> /\ st = <<q>>
  OBVIOUS
<1>11. /\ Buffer' = buf /\ stack' = st /\ ros_values_' = v
  BY <1>2, <1>4, <1>9, <1>10 DEF Hydrate, Buffer
<1>12. Len(v) = 1 /\ v[1] = x /\ Len(st) = 1 /\ st[1] = q
  BY <1>10
<1>13. /\ x.type = "object" /\ x.def = d /\ x.children.offset = 2 /\ x.children.length = 0
       /\ q.fn = "initObject" /\ q.at = 1 /\ q.def = d /\ q.loop = "emplace" /\ q.next = 1
  BY <1>9 DEF ObjectFrame
<1>14. PICK T, N : T = [p \in Nat |-> r] /\ N = [p \in Nat |-> Depth]
  OBVIOUS
<1>15. T[1] = r /\ N[1] = Depth
  BY <1>14
<1>16. CallsGrow(buf, v, st, g, h, T, N)
  <2>1. Rest(v, q, o) = Members(d, 1, o)
    BY <1>13 DEF Rest
  <2>2. Agrees(v, q, r, r)
    BY <1>13 DEF Agrees
  <2>3. CallGrows(buf, v, q, Depth, o, T, N)
    BY <1>7, <1>8, <1>12, <1>13, <1>15, <2>1, <2>2 DEF CallGrows
  <2>4. \A i \in 1..Len(st) : i = 1
    BY <1>12
  <2> QED BY <1>5, <1>12, <2>3, <2>4 DEF CallsGrow
<1>17. Reached(v, st) \subseteq {1}
  <2>1. 1..Len(v) = {1}
    BY <1>12
  <2> QED BY <2>1 DEF Reached, NotWaiting
<1>18. PlacesGrow(v, Reached(v, st), T, N)
  <2>1. Shaped(x, r, Depth)
    BY <1>8, <1>13, DefinitionAssumption DEF Shaped
  <2>2. \A c, key : ~Keyed(v, 1, c, key)
    <3> SUFFICES ASSUME NEW c, NEW key, Keyed(v, 1, c, key) PROVE FALSE
      OBVIOUS
    <3>1. PICK k \in FieldsFrom(d, 1) : FieldCount(d, k - 1) < 0
      BY <1>12, <1>13 DEF Keyed
    <3>2. k - 1 \in Nat
      <4>1. Len(Definitions[d]) \in Nat
        BY MembersAreCounted
      <4> QED BY DEF FieldsFrom
    <3>3. FieldCount(d, k - 1) \in Nat
      BY <3>2, CountNext
    <3> QED BY <3>1, <3>3
  <2> QED BY <1>12, <1>15, <1>17, <2>1, <2>2 DEF PlacesGrow, KeysGrow
<1>19. OthersFilled(v, st, Reached(v, st))
  <2>1. 1 \in 1..Len(st) /\ st[1].at = 1
    BY <1>12, <1>13
  <2> QED BY <1>17, <2>1 DEF OthersFilled
<1>20. Grown(buf, v, st, g, h, T, N)
  BY <1>16, <1>18, <1>19 DEF Grown
<1>21. GrowsOn(e, g, h, T, N)'
  BY <1>5, <1>11, <1>20 DEF GrowsOn
<1> QED BY <1>6, <1>15, <1>21

\* When the last call is finished, the values are those of the whole message.
LEMMA FinishGrows ==
  ASSUME Inv, Finish, NEW e, NEW g, NEW h, NEW T, NEW N, GrowsOn(e, g, h, T, N),
         NEW t, T[1] = t, N[1] = Depth
  PROVE  Tree(ros_values_)[Depth][ros_values_[1]] = t
<1>1. Finished /\ stack # <<>> /\ Len(stack) = 1
  BY DEF Finish, Finished, Initialising
<1>2. PICK v, st, f : v = ros_values_ /\ st = stack /\ f = Top
  OBVIOUS
<1>3. Waiting(v, f) = {} /\ Filled(v[f.at])
  BY <1>1, <1>2, TopFilled
<1>4. Len(st) = 1 /\ f = st[1] /\ Arranged(v, st) /\ v \in Seq(RosValue) /\ Apart(v)
  BY <1>1, <1>2, TheTop DEF Inv, Arranged
<1>5. Grown(Buffer, v, st, g, h, T, N)
  BY <1>2 DEF GrowsOn
<1>6. PlacesGrow(v, Reached(v, st), T, N) /\ OthersFilled(v, st, Reached(v, st))
  BY <1>5 DEF Grown
<1>7. 1..Len(st) = {1}
  BY <1>4
<1>8. Reached(v, st) = 1..Len(v)
  BY <1>3, <1>4, <1>7 DEF Reached, NotWaiting
<1>9. \A p \in 1..Len(v) : Shaped(v[p], T[p], N[p]) /\ Filled(v[p])
  <2> TAKE p \in 1..Len(v)
  <2>1. Shaped(v[p], T[p], N[p])
    BY <1>6, <1>8 DEF PlacesGrow
  <2>2. (\E i \in 1..Len(st) : st[i].at = p) \/ Filled(v[p])
    BY <1>6, <1>8 DEF OthersFilled
  <2> QED BY <1>3, <1>4, <1>7, <2>1, <2>2
<1>10. KeysGrow(v, 1..Len(v), T, N)
  BY <1>6, <1>8 DEF PlacesGrow
<1>11. \A n \in Nat : \A p \in 1..Len(v) : N[p] <= n => Tree(v)[n][v[p]] = T[p]
  BY <1>4, <1>9, <1>10, TreesGrown
<1>12. PICK one : one = 1
  OBVIOUS
<1>13. one \in 1..Len(v)
  <2>1. f.at \in 1..Len(v) /\ Len(v) \in Nat
    <3>1. 1 \in 1..Len(st)
      BY <1>7
    <3> QED BY <1>4, <3>1, CallOf
  <2> QED BY <1>12, <2>1
<1>14. N[one] <= Depth
  <2>1. Depth <= Depth
    BY DepthAssumption
  <2> QED BY <1>12, <2>1
<1>15. Tree(v)[Depth][v[one]] = T[one]
  BY <1>11, <1>13, <1>14, DepthAssumption
<1> QED BY <1>2, <1>12, <1>15

----
(* What is parsed is the message as it is laid out. *)

\* The values on their way to the tree T of the message, which takes N steps.
Growing(e, T, N) == \E g, h, U, M : GrowsOn(e, g, h, U, M) /\ U[1] = T /\ M[1] = N

StackGrows ==
  stack # <<>> /\ Reference.ok => Growing(Reference.end, Reference.tree, Depth)

\* The inductive invariant behind DecodedAsLaidOut, which says nothing of the
\* values while they are parsed.
TreeInv == (ArraysSized /\ NamesApart => StackGrows) /\ DecodedAsLaidOut

\* A step of the parser within a message.
LEMMA ParseGrows ==
  ASSUME Inv, ArraysSized, NamesApart, stack # <<>>, stack' # <<>>, [Next]_vars,
         NEW e, NEW t, NEW d, Growing(e, t, d)
  PROVE  Growing(e, t, d)'
<1>1. PICK g, h, T, N : GrowsOn(e, g, h, T, N) /\ T[1] = t /\ N[1] = d
  BY DEF Growing
<1>2. ASSUME StillGrows(e, T, N) PROVE Growing(e, t, d)'
  BY <1>1, <1>2 DEF StillGrows, Growing
<1>3. CASE EmplaceField
  BY <1>1, <1>2, <1>3, EmplaceFieldGrows
<1>4. CASE AllEmplaced
  BY <1>1, <1>2, <1>4, AllEmplacedGrows
<1>5. CASE SkipConstant
  BY <1>1, <1>2, <1>5, SkipConstantGrows
<1>6. CASE InitObject
  BY <1>1, <1>2, <1>6, InitObjectGrows
<1>7. CASE InitPrimitive
  BY <1>1, <1>2, <1>7, InitPrimitiveGrows
<1>8. CASE InitString
  BY <1>1, <1>2, <1>8, InitStringGrows
<1>9. CASE InitPrimitiveArray
  BY <1>1, <1>2, <1>9, InitPrimitiveArrayGrows
<1>10. CASE InitArray
  BY <1>1, <1>2, <1>10, InitArrayGrows
<1>11. CASE Return
  BY <1>1, <1>2, <1>11, ReturnGrows
<1>12. ASSUME Hydrate \/ ReadPastEnd \/ Finish PROVE FALSE
  BY <1>12 DEF Hydrate, ReadPastEnd, Finish, Throw, EndParse
<1>13. CASE UNCHANGED vars
  <2>1. UNCHANGED <<message, ros_values_, stack, message_buffer_offset_>>
    BY <1>13 DEF vars
  <2>2. /\ Course(Buffer, ros_values_, stack, message_buffer_offset_, e, g, h)
        /\ Grown(Buffer, ros_values_, stack, g, h, T, N)
    BY <1>1 DEF GrowsOn, OnCourse
  <2>3. GrowsOn(e, g, h, T, N)'
    BY <2>1, <2>2 DEF GrowsOn, OnCourse, Buffer
  <2> QED BY <1>1, <2>3 DEF Growing
<1> QED BY <1>3, <1>4, <1>5, <1>6, <1>7, <1>8, <1>9, <1>10, <1>11, <1>12, <1>13 DEF Next, ParseStep

LEMMA InitTree == Init => TreeInv
BY DEF Init, TreeInv, StackGrows, DecodedAsLaidOut

LEMMA StepDecodes ==
  ASSUME Inv, TreeInv, [Next]_vars, ArraysSized, NamesApart, Reference.ok, parsed_',
         message' = message
  PROVE  Tree(data_')[Depth][data_'[1]] = Reference.tree
<1>1. CASE Finish
  <2>1. data_' = ros_values_ /\ stack # <<>>
    BY <1>1 DEF Finish, Finished, Initialising
  <2>2. PICK e, t : e = Reference.end /\ t = Reference.tree
    OBVIOUS
  <2>3. Growing(e, t, Depth)
    BY <2>1, <2>2 DEF TreeInv, StackGrows
  <2>4. PICK g, h, T, N : GrowsOn(e, g, h, T, N) /\ T[1] = t /\ N[1] = Depth
    BY <2>3 DEF Growing
  <2>5. Tree(ros_values_)[Depth][ros_values_[1]] = t
    BY <1>1, <2>4, FinishGrows
  <2> QED BY <2>1, <2>2, <2>5
<1>2. CASE ~Finish
  <2>1. UNCHANGED <<parsed_, data_>>
    BY <1>2, OnlyFinishParses
  <2>2. Tree(data_)[Depth][data_[1]] = Reference.tree
    BY <2>1 DEF TreeInv, DecodedAsLaidOut
  <2> QED BY <2>1, <2>2
<1> QED BY <1>1, <1>2

LEMMA NextTree == Inv /\ TreeInv /\ [Next]_vars => TreeInv'
<1> SUFFICES ASSUME Inv, TreeInv, [Next]_vars PROVE TreeInv'
  OBVIOUS
<1>2. message' = message
  BY OnlyFinishParses
<1>3. Reference' = Reference
  BY <1>2, SameReference
<1>4. DecodedAsLaidOut'
  <2> SUFFICES ASSUME ArraysSized, NamesApart, parsed_', Reference'.ok
               PROVE  Tree(data_')[Depth][data_'[1]] = Reference'.tree
    BY DEF DecodedAsLaidOut
  <2>1. Reference.ok
    BY <1>3
  <2>2. Tree(data_')[Depth][data_'[1]] = Reference.tree
    BY <1>2, <2>1, StepDecodes
  <2> QED BY <1>3, <2>2
<1>5. ASSUME ArraysSized, NamesApart PROVE StackGrows'
  <2>1. PICK e, t : e = Reference.end /\ t = Reference.tree
    OBVIOUS
  <2>2. Reference'.end = e /\ Reference'.tree = t /\ Reference'.ok = Reference.ok
    BY <1>3, <2>1
  <2>3. ASSUME stack' # <<>>, Reference.ok PROVE Growing(e, t, Depth)'
    <3>1. CASE stack = <<>>
      <4>1. Hydrate
        BY <2>3, <3>1 DEF Next, ParseStep, EmplaceField, AllEmplaced, Emplacing, SkipConstant,
           AtField, Initialising, InitObject, InitPrimitive, InitString, InitPrimitiveArray,
           InitArray, ReadPastEnd, Return, Finish, Finished, vars
      <4>2. PICK g, h, T, N : GrowsOn(e, g, h, T, N)' /\ T[1] = Reference.tree /\ N[1] = Depth
        BY <2>1, <2>3, <4>1, HydrateGrows
      <4> QED BY <2>1, <4>2 DEF Growing
    <3>2. CASE stack # <<>>
      <4>1. Growing(e, t, Depth)
        BY <1>5, <2>1, <2>3, <3>2 DEF TreeInv, StackGrows
      <4> QED BY <1>5, <2>3, <3>2, <4>1, ParseGrows
    <3> QED BY <3>1, <3>2
  <2> QED BY <2>2, <2>3 DEF StackGrows
<1> QED BY <1>4, <1>5 DEF TreeInv

\* Whatever is nested in a message, data() returns it as it is laid out in the
\* buffer: each field by its name, each element by its index.
THEOREM DecodesMessages == Spec => []DecodedAsLaidOut
<1>1. Init => TreeInv
  BY InitTree
<1>2. TreeInv => DecodedAsLaidOut
  BY DEF TreeInv
<1> QED BY <1>1, <1>2, Invariance, NextTree, PTL DEF Spec

----
(* What the values are read from. *)

\* Reads, of a value x and buffer buf.
ReadFrom(buf, x) ==
  IF x.type = "primitive_array" THEN Span(x.offset, x.length * PrimitiveSize[x.element_type])
  ELSE IF x.type \in Container THEN {}
  ELSE IF x.type = "string" THEN Span(x.offset, LengthSize + buf[x.offset])
  ELSE Span(x.offset, PrimitiveSize[x.type])

\* The places D of the vector v are read from bytes from a on, but before o.
ReadBetween(buf, v, D, a, o) == \A p \in D : ReadFrom(buf, v[p]) \subseteq a .. o - 1

LEMMA ReadsAre == ASSUME NEW x \in RosValue PROVE Reads(x) = ReadFrom(Buffer, x)
<1>1. CASE x.type = "primitive_array"
  <2>1. x.offset \in Nat /\ x.element_type \in Primitives
    BY <1>1, ValueForms, DefinitionAssumption
  <2>2. PICK o \in Nat, k \in Nat : o = x.offset /\ k = PrimitiveSize[x.element_type]
    BY <2>1, DefinitionAssumption
  <2>3. o + 0 * k = o
    OBVIOUS
  <2>4. At(data_, x, 0).offset = o
    BY <1>1, <2>2, <2>3 DEF At
  <2> QED BY <1>1, <2>2, <2>4 DEF Reads, Blob, ReadFrom
<1>2. CASE x.type # "primitive_array"
  BY <1>2 DEF Reads, ReadFrom, Extent
<1> QED BY <1>1, <1>2

\* What a turn writes is read from the data it passes.
LEMMA TurnReads ==
  ASSUME NEW v, NEW st, NEW w, NEW su, NEW n, NEW f, NEW x, NEW t,
         TakesTurn(v, st, w, su, n, f, x, t),
         NEW buf, NEW a \in Nat, NEW o \in Nat, NEW m \in Nat, a <= o, o <= m,
         ReadBetween(buf, v, Reached(v, st), a, o), ReadFrom(buf, x) \subseteq o .. m - 1
  PROVE  ReadBetween(buf, w, NotWaiting(w, su, Len(v)), a, m)
<1>1. /\ NotWaiting(w, su, Len(v)) = Reached(v, st) \cup {t}
      /\ t \notin Reached(v, st)
  BY TurnReaches
<1>2. /\ t = Turn(v, f) /\ TurnsTo(v, w, f, x) /\ f \in Frame
  <2>1. Arranged(v, st) /\ n \in Nat \ {0} /\ n = Len(st) /\ f = st[n]
    BY DEF TakesTurn
  <2>2. n \in 1..Len(st)
    BY <2>1, LastIndex
  <2> QED BY <2>2, CallOf DEF TakesTurn
<1>3. o .. m - 1 \subseteq a .. m - 1 /\ a .. o - 1 \subseteq a .. m - 1
  OBVIOUS
<1> SUFFICES ASSUME NEW p \in Reached(v, st) \cup {t}
             PROVE  ReadFrom(buf, w[p]) \subseteq a .. m - 1
  BY <1>1 DEF ReadBetween
<1>4. CASE p = t
  <2>1. w[p] = x
    BY <1>2, <1>4 DEF TurnsTo
  <2> QED BY <2>1
<1>5. ASSUME p # t, w[p] = v[p] PROVE ReadFrom(buf, w[p]) \subseteq a .. m - 1
  <2>1. ReadFrom(buf, v[p]) \subseteq a .. o - 1
    BY <1>5 DEF ReadBetween
  <2> QED BY <1>5, <2>1
<1>6. CASE p # t /\ p # f.at
  <2>1. p \in 1..Len(v)
    BY <1>6 DEF Reached, NotWaiting
  <2>2. w[p] = v[p]
    BY <1>2, <1>6, <2>1 DEF TurnsTo
  <2> QED BY <1>5, <1>6, <2>2
<1>7. CASE p # t /\ p = f.at
  <2>1. CASE f.fn = "initArray"
    BY <1>2, <1>5, <1>7, <2>1 DEF TurnsTo
  <2>2. CASE f.fn = "initObject"
    <3>1. w[p].type = "object"
      BY <1>2, <1>7, <2>2 DEF TurnsTo
    <3>2. ReadFrom(buf, w[p]) = {}
      BY <3>1 DEF ReadFrom, Container
    <3> QED BY <3>2
  <2> QED BY <1>2, <2>1, <2>2, FrameForms
<1> QED BY <1>4, <1>6, <1>7

\* The elements appended for a call wait for it.
LEMMA EnteredReaches ==
  ASSUME NEW v, NEW w \in Seq(RosValue), Len(v) \in Nat, Len(v) <= Len(w),
         NEW su \in Seq(Frame), NEW F \in Frame, Len(v)+1..Len(w) \subseteq Waiting(w, F)
  PROVE  Reached(w, Append(su, F)) \subseteq NotWaiting(w, su, Len(v))
<1>1. PICK n \in Nat, m \in Nat, k \in Nat : n = Len(su) /\ m = Len(w) /\ k = Len(v)
  BY LenProperties
<1>2. PICK s2 : s2 = Append(su, F)
  OBVIOUS
<1>3. Len(s2) = n + 1 /\ s2[n + 1] = F /\ \A i \in 1..n : s2[i] = su[i]
  BY <1>1, <1>2, AppendProperties
<1> SUFFICES ASSUME NEW p \in Reached(w, s2) PROVE p \in NotWaiting(w, su, k)
  BY <1>1, <1>2
<1>4. p \in 1..m /\ \A i \in 1..n+1 : p \notin Waiting(w, s2[i])
  BY <1>1, <1>3 DEF Reached, NotWaiting
<1>5. p \notin Waiting(w, F)
  <2>1. n + 1 \in 1..n+1
    OBVIOUS
  <2> QED BY <1>3, <1>4, <2>1
<1>6. p \in 1..k
  BY <1>1, <1>4, <1>5
<1>7. \A i \in 1..n : p \notin Waiting(w, su[i])
  BY <1>3, <1>4
<1> QED BY <1>1, <1>6, <1>7 DEF NotWaiting

----
(* While a message is parsed, what was visited is read from data that was *)
(* passed. *)

BehindOffset ==
  stack # <<>> =>
    /\ message.raw_buffer_offset <= message_buffer_offset_
    /\ ReadBetween(Buffer, ros_values_, Reached(ros_values_, stack),
                   message.raw_buffer_offset, message_buffer_offset_)

LEMMA TheOffsets ==
  ASSUME Inv
  PROVE  /\ message.raw_buffer_offset \in Nat \ {0} /\ message_buffer_offset_ \in Nat
         /\ message.raw_data_len \in Nat
<1>1. message \in Messages /\ message_buffer_offset_ \in Nat
  BY DEF Inv, RestOK
<1>2. PICK m : m = message
  OBVIOUS
<1>3. /\ m.raw_buffer \in Seq(Nat) /\ m.raw_buffer_offset \in 1..Len(m.raw_buffer) + 1
      /\ m.raw_data_len \in Nat
  BY <1>1, <1>2, MessageAssumption
<1>4. Len(m.raw_buffer) \in Nat
  BY LenProperties
<1> QED BY <1>1, <1>2, <1>3, <1>4

\* A turn, which writes x.
LEMMA TurnBehind ==
  ASSUME Inv, BehindOffset, AtField, message' = message,
         NEW x, TurnWrites(ros_values_', x), NEW su, Arranged(ros_values_', su),
         Len(ros_values_) <= Len(ros_values_'),
         NEW o \in Nat, o = message_buffer_offset_, NEW m \in Nat, m = message_buffer_offset_',
         o <= m, ReadFrom(Buffer, x) \subseteq o .. m - 1,
         Reached(ros_values_', stack') \subseteq
           NotWaiting(ros_values_', Advanced, Len(ros_values_))
  PROVE  BehindOffset'
<1>1. PICK v, w, st, s2, n, f, t, buf :
        /\ v = ros_values_ /\ w = ros_values_' /\ st = stack /\ s2 = Advanced /\ n = Len(stack)
        /\ f = Top /\ t = Target /\ buf = Buffer
  OBVIOUS
<1>2. PICK a \in Nat : a = message.raw_buffer_offset
  BY TheOffsets
<1>3. a <= o /\ ReadBetween(buf, v, Reached(v, st), a, o)
  BY <1>1, <1>2 DEF BehindOffset, AtField, Initialising
<1>4. TakesTurn(v, st, w, s2, n, f, x, t)
  BY <1>1, TakesTheTurn
<1>5. ReadFrom(buf, x) \subseteq o .. m - 1
  BY <1>1
<1>6. ReadBetween(buf, w, NotWaiting(w, s2, Len(v)), a, m)
  BY <1>3, <1>4, <1>5, TurnReads
<1>7. ReadBetween(buf, w, Reached(w, stack'), a, m)
  BY <1>1, <1>6 DEF ReadBetween
<1>8. Buffer' = buf /\ message'.raw_buffer_offset = a
  BY <1>1, <1>2 DEF Buffer
<1>9. a <= m
  BY <1>3
<1> QED BY <1>1, <1>7, <1>8, <1>9 DEF BehindOffset

\* A turn that does not call deeper.
LEMMA ScalarBehind ==
  ASSUME Inv, BehindOffset, AtField, message' = message, stack' = Advanced,
         NEW x, TurnWrites(ros_values_', x), Arranged(ros_values_', stack'),
         Len(ros_values_') = Len(ros_values_),
         NEW o \in Nat, o = message_buffer_offset_, NEW m \in Nat, m = message_buffer_offset_',
         o <= m, ReadFrom(Buffer, x) \subseteq o .. m - 1
  PROVE  BehindOffset'
<1>1. Len(ros_values_) \in Nat
  BY TheTurn
<1>2. Len(ros_values_) <= Len(ros_values_')
  BY <1>1
<1>3. Reached(ros_values_', stack') \subseteq NotWaiting(ros_values_', Advanced, Len(ros_values_))
  BY DEF Reached
<1> QED BY <1>3, TurnBehind

LEMMA InitPrimitiveBehind == ASSUME Inv, BehindOffset, InitPrimitive PROVE BehindOffset'
<1>1. AtField /\ TargetType \in Primitives /\ stack' = Advanced /\ message' = message
  BY DEF InitPrimitive
<1>2. PICK o \in Nat, y \in Primitives : o = message_buffer_offset_ /\ y = TargetType
  BY <1>1, TheOffsets
<1>3. PICK x : x = [type |-> y, offset |-> o]
  OBVIOUS
<1>4. /\ Arranged(ros_values_', stack') /\ Len(ros_values_') = Len(ros_values_)
      /\ TurnWrites(ros_values_', x)
  <2>1. ros_values_' = SetOffset(Counted, Target, o)
    BY <1>2 DEF InitPrimitive, SetOffset
  <2>2. 0 \in Nat
    OBVIOUS
  <2> QED BY <1>1, <1>2, <1>3, <2>1, <2>2, ScalarKeeps
<1>5. PICK k \in Nat : k = PrimitiveSize[y]
  BY <1>2, DefinitionAssumption
<1>6. message_buffer_offset_' = o + k
  <2>1. Field.type = y
    BY <1>1, <1>2, TheTurn
  <2> QED BY <1>2, <1>5, <2>1 DEF InitPrimitive
<1>7. ReadFrom(Buffer, x) = o .. o + k - 1
  <2>1. y \notin {"string", "object", "array", "primitive_array"}
    BY <1>2, DefinitionAssumption
  <2> QED BY <1>3, <1>5, <2>1 DEF ReadFrom, Span, Container
<1>8. o + k \in Nat /\ o <= o + k
  OBVIOUS
<1> QED BY <1>1, <1>2, <1>4, <1>6, <1>7, <1>8, ScalarBehind

LEMMA InitStringBehind == ASSUME Inv, BehindOffset, InitString PROVE BehindOffset'
<1>1. AtField /\ TargetType = "string" /\ stack' = Advanced /\ message' = message /\ LengthThere
  BY DEF InitString
<1>2. PICK o \in Nat : o = message_buffer_offset_
  BY TheOffsets
<1>3. PICK x : x = [type |-> "string", offset |-> o]
  OBVIOUS
<1>4. /\ Arranged(ros_values_', stack') /\ Len(ros_values_') = Len(ros_values_)
      /\ TurnWrites(ros_values_', x)
  <2>1. ros_values_' = SetOffset(Counted, Target, o)
    BY <1>2 DEF InitString, SetOffset
  <2>2. 0 \in Nat
    OBVIOUS
  <2> QED BY <1>1, <1>3, <2>1, <2>2, ScalarKeeps
<1>5. PICK k \in Nat : k = Buffer[o]
  BY <1>1, <1>2, LengthRead
<1>6. message_buffer_offset_' = o + k + 1
  BY <1>2, <1>5 DEF InitString, LengthSize
<1>7. ReadFrom(Buffer, x) = o .. o + (1 + k) - 1
  BY <1>3, <1>5 DEF ReadFrom, Span, Container, LengthSize
<1>8. o + k + 1 \in Nat /\ o <= o + k + 1 /\ o + (1 + k) - 1 = (o + k + 1) - 1
  OBVIOUS
<1> QED BY <1>1, <1>2, <1>4, <1>6, <1>7, <1>8, ScalarBehind

\* The value of a turn was made for its field.
LEMMA TargetMade ==
  ASSUME Inv, AtField
  PROVE  ros_values_[Target] = IF Top.fn = "initObject" THEN NewField(Field) ELSE NewElement(Field)
<1>1. PICK v, f, t : v = ros_values_ /\ f = Top /\ t = Target
  OBVIOUS
<1>2. /\ f \in Frame /\ AtTurn(v, f) /\ t = Turn(v, f) /\ v \in Seq(RosValue)
  BY <1>1, TheTurn
<1>3. FrameOK(v, f)
  <2>1. stack # <<>>
    BY DEF AtField, Initialising
  <2> QED BY <1>1, <2>1, TheTop
<1>4. v[t] = Made(f)
  BY <1>2, <1>3, TurnIsMade
<1> QED BY <1>1, <1>4 DEF Made, Field, MembersOf

\* Arrays are made for fields, and elements of one type are of that of the field.
LEMMA ElementType ==
  ASSUME Inv, AtField, TargetType \in {"array", "primitive_array"}
  PROVE  /\ Top.fn = "initObject"
         /\ TargetType = "primitive_array" => ros_values_[Target].element_type = Field.type
<1>1. PICK e, x : e \in Member /\ e = Field /\ x = ros_values_[Target]
  BY TheTurn
<1>2. x.type \in {"array", "primitive_array"}
  BY <1>1 DEF TargetType
<1>3. NewElement(e).type \notin {"array", "primitive_array"}
  BY <1>1, ElementValue, DefinitionAssumption DEF Member, Type
<1>4. Top.fn = "initObject" /\ x = NewField(e) /\ NewField(e) # NewElement(e)
  BY <1>1, <1>2, <1>3, TargetMade, TheTurn, FrameForms
<1>5. x.type = "primitive_array" => x.element_type = e.type
  BY <1>4 DEF NewField
<1> QED BY <1>1, <1>4, <1>5 DEF TargetType

LEMMA InitPrimitiveArrayBehind ==
  ASSUME Inv, BehindOffset, InitPrimitiveArray PROVE BehindOffset'
<1>1. /\ AtField /\ TargetType = "primitive_array" /\ stack' = Advanced /\ message' = message
      /\ Dynamic => LengthThere
  BY DEF InitPrimitiveArray
<1>2. PICK o \in Nat, s \in Nat, l \in Nat, y \in Primitives :
        o = message_buffer_offset_ /\ s = ElementsStart /\ l = ArrayLength /\ y = Field.type
  BY <1>1, LengthRead, TheTurn
<1>3. PICK x : x = [type |-> "primitive_array", offset |-> s, length |-> l, element_type |-> y]
  OBVIOUS
<1>4. /\ Arranged(ros_values_', stack') /\ Len(ros_values_') = Len(ros_values_)
      /\ TurnWrites(ros_values_', x)
  <2>1. ros_values_' = SetBlob(Counted, Target, s, l)
    BY <1>2 DEF InitPrimitiveArray, SetBlob
  <2>2. x = [type |-> "primitive_array", offset |-> s, length |-> l,
             element_type |-> ros_values_[Target].element_type]
    BY <1>1, <1>2, <1>3, ElementType
  <2> QED BY <1>1, <2>1, <2>2, ScalarKeeps
<1>5. PICK k \in Nat : k = PrimitiveSize[y]
  BY DefinitionAssumption
<1>6. message_buffer_offset_' = s + l * k
  BY <1>2, <1>5 DEF InitPrimitiveArray
<1>7. ReadFrom(Buffer, x) = s .. s + l * k - 1
  BY <1>3, <1>5 DEF ReadFrom, Span
<1>8. o <= s
  BY <1>2 DEF ElementsStart, LengthSize
<1>9. PICK b \in Nat : b = l * k
  OBVIOUS
<1>10. s + b \in Nat /\ o <= s + b /\ s .. s + b - 1 \subseteq o .. (s + b) - 1
  BY <1>8
<1>11. ReadFrom(Buffer, x) \subseteq o .. (s + b) - 1 /\ message_buffer_offset_' = s + b
  BY <1>6, <1>7, <1>9, <1>10
<1> QED BY <1>1, <1>2, <1>4, <1>10, <1>11, ScalarBehind

\* A turn that enters a call: what is visited then was visited before, but for its target.
LEMMA ObjectReaches ==
  ASSUME Inv, InitObject
  PROVE  Reached(ros_values_', stack') \subseteq NotWaiting(ros_values_', Advanced, Len(ros_values_))
<1>1. AtField /\ stack' = Append(Advanced, ObjectFrame(Target, Field.of))
  BY DEF InitObject
<1>4. Arranged(ros_values_', stack') /\ Len(ros_values_') = Len(ros_values_)
  BY InitObjectKeeps
<1>6. PICK v, w, su, F : /\ v = ros_values_ /\ w = ros_values_' /\ su = Advanced
                         /\ F = ObjectFrame(Target, Field.of)
  OBVIOUS
<1>7. /\ w \in Seq(RosValue) /\ Len(v) \in Nat /\ Len(v) = Len(w)
      /\ F \in Frame /\ su \in Seq(Frame)
  <2>1. Target \in Nat /\ Field.of \in DefNames /\ Len(v) \in Nat
    BY <1>1, <1>6, TheTurn
  <2>2. F \in Frame
    BY <1>6, <2>1 DEF ObjectFrame, Frame
  <2>3. su \in Seq(Frame)
    BY <1>1, <1>6, ReadyToEnter DEF Arranged
  <2> QED BY <1>4, <1>6, <2>1, <2>2, <2>3 DEF Arranged
<1>8. Len(v) <= Len(w) /\ Len(v)+1..Len(w) = {}
  BY <1>7
<1> QED BY <1>1, <1>6, <1>7, <1>8, EnteredReaches

LEMMA ArrayReaches ==
  ASSUME Inv, InitArray
  PROVE  Reached(ros_values_', stack') \subseteq NotWaiting(ros_values_', Advanced, Len(ros_values_))
<1>1. AtField /\ stack' = Append(Advanced, ArrayFrame(Target, Field)) /\ (Dynamic => LengthThere)
  BY DEF InitArray
<1>2. PICK l \in Nat, k \in Nat : l = ArrayLength /\ k = Len(ros_values_)
  BY <1>1, LengthRead, TheTurn
<1>3. PICK x : x = [type |-> "array", children |-> [offset |-> k + 1, length |-> l]]
  OBVIOUS
<1>4. /\ Arranged(ros_values_', stack') /\ Len(ros_values_') = k + l
      /\ TurnWrites(ros_values_', x)
  BY <1>2, <1>3, InitArrayKeeps
<1>6. PICK v, w, su, F, t : /\ v = ros_values_ /\ w = ros_values_' /\ su = Advanced
                            /\ F = ArrayFrame(Target, Field) /\ t = Target
  OBVIOUS
<1>7. /\ w \in Seq(RosValue) /\ Len(v) = k /\ Len(w) = k + l
      /\ F \in Frame /\ su \in Seq(Frame) /\ t \in 1..k
  <2>1. t \in 1..Len(v) /\ Field \in Member /\ Len(v) = k
    BY <1>1, <1>2, <1>6, TheTurn
  <2>2. F \in Frame
    <3>1. t \in Nat
      BY <2>1
    <3> QED BY <1>6, <2>1, <3>1 DEF ArrayFrame, Frame
  <2>3. su \in Seq(Frame)
    BY <1>1, <1>6, ReadyToEnter DEF Arranged
  <2> QED BY <1>4, <1>6, <2>1, <2>2, <2>3 DEF Arranged
<1>8. k+1..k+l \subseteq Waiting(w, F)
  <2>1. w[t] = x
    BY <1>4, <1>6, <1>7 DEF TurnWrites
  <2>2. F.fn = "initArray" /\ F.at = t /\ F.next = 1
    BY <1>6 DEF ArrayFrame
  <2>3. Off(w, F) = k + 1 /\ Places(w, F) = l /\ Visited(F) = 0
    BY <1>3, <2>1, <2>2 DEF Off, Places, Visited
  <2>4. Waiting(w, F) = k + 1 + 0 .. k + 1 + l - 1
    BY <2>3 DEF Waiting
  <2> QED BY <2>4
<1>9. Len(v) <= Len(w) /\ Len(v) \in Nat /\ Len(v)+1..Len(w) \subseteq Waiting(w, F)
  BY <1>7, <1>8
<1> QED BY <1>1, <1>6, <1>7, <1>9, EnteredReaches

LEMMA InitObjectBehind == ASSUME Inv, BehindOffset, InitObject PROVE BehindOffset'
<1>1. /\ AtField /\ stack' = Append(Advanced, ObjectFrame(Target, Field.of))
      /\ message' = message /\ message_buffer_offset_' = message_buffer_offset_
  BY DEF InitObject
<1>2. PICK o \in Nat, k \in Nat : o = message_buffer_offset_ /\ k = Len(ros_values_) + 1
  BY TheOffsets, TheTurn
<1>3. PICK x : x = [type |-> "object", def |-> ros_values_[Target].def,
                    children |-> [offset |-> k, length |-> 0]]
  OBVIOUS
<1>4. /\ Arranged(ros_values_', stack') /\ Len(ros_values_') = Len(ros_values_)
      /\ TurnWrites(ros_values_', x)
  BY <1>2, <1>3, InitObjectKeeps
<1>5. ReadFrom(Buffer, x) = {}
  BY <1>3 DEF ReadFrom, Container
<1>6. Len(ros_values_) <= Len(ros_values_') /\ o <= o
  BY <1>4, TheTurn
<1> QED BY <1>1, <1>2, <1>4, <1>5, <1>6, ObjectReaches, TurnBehind

LEMMA InitArrayBehind == ASSUME Inv, BehindOffset, InitArray PROVE BehindOffset'
<1>1. /\ AtField /\ stack' = Append(Advanced, ArrayFrame(Target, Field)) /\ (Dynamic => LengthThere)
      /\ message' = message /\ message_buffer_offset_' = ElementsStart
  BY DEF InitArray
<1>2. PICK o \in Nat, s \in Nat, l \in Nat, k \in Nat :
        /\ o = message_buffer_offset_ /\ s = ElementsStart /\ l = ArrayLength
        /\ k = Len(ros_values_)
  BY <1>1, LengthRead, TheTurn
<1>3. PICK x : x = [type |-> "array", children |-> [offset |-> k + 1, length |-> l]]
  OBVIOUS
<1>4. /\ Arranged(ros_values_', stack') /\ Len(ros_values_') = k + l
      /\ TurnWrites(ros_values_', x)
  BY <1>2, <1>3, InitArrayKeeps
<1>5. ReadFrom(Buffer, x) = {}
  BY <1>3 DEF ReadFrom, Container
<1>6. Len(ros_values_) <= Len(ros_values_') /\ o <= s
  BY <1>2, <1>4 DEF ElementsStart, LengthSize
<1> QED BY <1>1, <1>2, <1>4, <1>5, <1>6, ArrayReaches, TurnBehind

\* The other steps leave what was visited where it is.
LEMMA StepBehind ==
  ASSUME Inv, BehindOffset, stack # <<>>, UNCHANGED <<message, message_buffer_offset_>>,
         Reached(ros_values_', stack') = Reached(ros_values_, stack),
         \A p \in Reached(ros_values_, stack) : ros_values_'[p] = ros_values_[p]
  PROVE  BehindOffset'
<1>1. PICK v, w, D, buf, a, o :
        /\ v = ros_values_ /\ w = ros_values_' /\ D = Reached(ros_values_, stack)
        /\ buf = Buffer /\ a = message.raw_buffer_offset /\ o = message_buffer_offset_
  OBVIOUS
<1>2. a <= o /\ ReadBetween(buf, v, D, a, o)
  BY <1>1 DEF BehindOffset
<1>3. ReadBetween(buf, w, D, a, o)
  BY <1>1, <1>2 DEF ReadBetween
<1>4. Buffer' = buf
  BY <1>1 DEF Buffer
<1> QED BY <1>1, <1>2, <1>3, <1>4 DEF BehindOffset

LEMMA PlainStepBehind ==
  ASSUME Inv, BehindOffset, stack # <<>>, UNCHANGED <<message, message_buffer_offset_>>,
         NEW n, NEW F, StepsOn(ros_values_, stack, ros_values_', stack', n, F)
  PROVE  BehindOffset'
<1>1. PICK v, w, st, su : v = ros_values_ /\ w = ros_values_' /\ st = stack /\ su = stack'
  OBVIOUS
<1>2. StepsOn(v, st, w, su, n, F)
  BY <1>1
<1>3. Reached(w, su) = Reached(v, st)
  BY <1>2, ReachedOn
<1>4. \A p \in Reached(v, st) : w[p] = v[p]
  BY <1>2 DEF StepsOn, Reached, NotWaiting
<1> QED BY <1>1, <1>3, <1>4, StepBehind

LEMMA ReturnBehind == ASSUME Inv, BehindOffset, Return PROVE BehindOffset'
<1>1. /\ Finished /\ stack # <<>> /\ UNCHANGED <<message, message_buffer_offset_, ros_values_>>
      /\ stack' = Below
  BY DEF Return, Finished, Initialising
<1>2. Reached(ros_values_, stack') = Reached(ros_values_, stack)
  BY <1>1, ReturnReaches
<1> QED BY <1>1, <1>2, StepBehind

\* The value of the message itself is an object.
LEMMA HydrateBehind == ASSUME Inv, Hydrate PROVE BehindOffset'
<1>1. PICK o \in Nat : o = message.raw_buffer_offset
  BY TheOffsets
<1>2. PICK w, x : /\ w = ros_values_' /\ w = <<x>>
                  /\ x = [type |-> "object", def |-> message.msg_def_,
                          children |-> [offset |-> 2, length |-> 0]]
  BY DEF Hydrate
<1>3. PICK D, buf : D = Reached(ros_values_', stack') /\ buf = Buffer'
  OBVIOUS
<1>4. D \subseteq {1}
  <2>1. Len(w) = 1
    BY <1>2
  <2>2. 1..1 = {1}
    OBVIOUS
  <2> QED BY <1>2, <1>3, <2>1, <2>2 DEF Reached, NotWaiting
<1>5. ReadFrom(buf, w[1]) = {}
  BY <1>2 DEF ReadFrom, Container
<1>6. ReadBetween(buf, w, D, o, o)
  BY <1>4, <1>5 DEF ReadBetween
<1>7. message'.raw_buffer_offset = o /\ message_buffer_offset_' = o /\ o <= o
  BY <1>1 DEF Hydrate
<1> QED BY <1>2, <1>3, <1>6, <1>7 DEF BehindOffset

LEMMA NextBehind == Inv /\ BehindOffset /\ [Next]_vars => BehindOffset'
<1> SUFFICES ASSUME Inv, BehindOffset, [Next]_vars PROVE BehindOffset'
  OBVIOUS
<1>1. CASE Hydrate
  BY <1>1, HydrateBehind
<1>2. CASE EmplaceField
  <2>1. stack # <<>> /\ UNCHANGED <<message, message_buffer_offset_>>
    BY <1>2 DEF EmplaceField, Emplacing
  <2> QED BY <1>2, <2>1, EmplaceFieldSteps, PlainStepBehind
<1>3. CASE AllEmplaced
  <2>1. stack # <<>> /\ UNCHANGED <<message, message_buffer_offset_>>
    BY <1>3 DEF AllEmplaced, Emplacing
  <2> QED BY <1>3, <2>1, AllEmplacedSteps, PlainStepBehind
<1>4. CASE SkipConstant
  <2>1. stack # <<>> /\ UNCHANGED <<message, message_buffer_offset_>>
    BY <1>4 DEF SkipConstant, Initialising
  <2> QED BY <1>4, <2>1, SkipConstantSteps, PlainStepBehind
<1>5. CASE InitObject
  BY <1>5, InitObjectBehind
<1>6. CASE InitPrimitive
  BY <1>6, InitPrimitiveBehind
<1>7. CASE InitString
  BY <1>7, InitStringBehind
<1>8. CASE InitPrimitiveArray
  BY <1>8, InitPrimitiveArrayBehind
<1>9. CASE InitArray
  BY <1>9, InitArrayBehind
<1>10. CASE Return
  BY <1>10, ReturnBehind
<1>11. CASE ReadPastEnd \/ Finish
  BY <1>11 DEF ReadPastEnd, Finish, Throw, EndParse, BehindOffset
<1>12. CASE UNCHANGED vars
  <2>1. UNCHANGED <<message, ros_values_, stack, message_buffer_offset_>>
    BY <1>12 DEF vars
  <2> QED BY <2>1 DEF BehindOffset, Buffer
<1> QED
  BY <1>1, <1>2, <1>3, <1>4, <1>5, <1>6, <1>7, <1>8, <1>9, <1>10, <1>11, <1>12 DEF Next, ParseStep

\* At every moment of a parse the values that were visited are read from data that
\* was passed, between the beginning of the message and message_buffer_offset_.
THEOREM ReadsPassedData == Spec => []BehindOffset
<1>1. Init => BehindOffset
  BY DEF Init, BehindOffset
<1> QED BY <1>1, Invariance, NextBehind, PTL DEF Spec

----
(* What is parsed is read from the message. *)

\* The values of data_, in a message that is whole.
ReadInside ==
  ArraysSized /\ Intact /\ parsed_ =>
    ReadBetween(Buffer, data_, 1..Len(data_), message.raw_buffer_offset,
                message.raw_buffer_offset + message.raw_data_len)

\* When the first call is through, everything was visited.
LEMMA AllReached ==
  ASSUME Inv, Finished, Len(stack) = 1
  PROVE  Reached(ros_values_, stack) = 1..Len(ros_values_)
<1>1. stack # <<>>
  BY DEF Initialising
<1>2. PICK v, st, f : v = ros_values_ /\ st = stack /\ f = Top
  OBVIOUS
<1>3. Waiting(v, f) = {}
  BY <1>2, TopVisited
<1>4. Len(st) = 1 /\ f = st[1]
  BY <1>2, TheTop
<1>5. 1..Len(st) = {1}
  BY <1>4
<1> QED BY <1>2, <1>3, <1>4, <1>5 DEF Reached, NotWaiting

LEMMA FinishInside ==
  ASSUME Inv, BehindOffset, StaysInMessage, Finish, ArraysSized, Intact
  PROVE  ReadBetween(Buffer, data_', 1..Len(data_'), message.raw_buffer_offset,
                     message.raw_buffer_offset + message.raw_data_len)
<1>1. Finished /\ stack # <<>> /\ Len(stack) = 1 /\ data_' = ros_values_
  BY DEF Finish, Finished, Initialising
<1>2. message_buffer_offset_ = message.raw_buffer_offset + message.raw_data_len
  <2>1. message_buffer_offset_ = Reference.end
    BY <1>1 DEF StaysInMessage
  <2> QED BY <2>1 DEF Intact
<1>3. Reached(ros_values_, stack) = 1..Len(ros_values_)
  BY <1>1, AllReached
<1>4. ReadBetween(Buffer, ros_values_, Reached(ros_values_, stack),
                  message.raw_buffer_offset, message_buffer_offset_)
  BY <1>1 DEF BehindOffset
<1> QED BY <1>1, <1>2, <1>3, <1>4

LEMMA NextInside ==
  Inv /\ BehindOffset /\ StaysInMessage /\ ReadInside /\ [Next]_vars => ReadInside'
<1> SUFFICES ASSUME Inv, BehindOffset, StaysInMessage, ReadInside, [Next]_vars,
                    ArraysSized, Intact', parsed_'
             PROVE  ReadBetween(Buffer, data_, 1..Len(data_), message.raw_buffer_offset,
                                message.raw_buffer_offset + message.raw_data_len)'
  BY DEF ReadInside, ArraysSized
<1>1. message' = message
  BY OnlyFinishParses, Zenon
<1>2. Intact
  BY <1>1, SameReference DEF Intact
<1>3. Buffer' = Buffer
  BY <1>1 DEF Buffer
<1>4. CASE Finish
  <2>1. ReadBetween(Buffer, data_', 1..Len(data_'), message.raw_buffer_offset,
                    message.raw_buffer_offset + message.raw_data_len)
    BY <1>2, <1>4, FinishInside
  <2> QED BY <1>1, <1>3, <2>1
<1>5. CASE ~Finish
  <2>1. UNCHANGED <<parsed_, data_>>
    BY <1>5, OnlyFinishParses, Zenon
  <2>2. ReadBetween(Buffer, data_, 1..Len(data_), message.raw_buffer_offset,
                    message.raw_buffer_offset + message.raw_data_len)
    BY <1>2, <2>1 DEF ReadInside
  <2> QED BY <1>1, <1>3, <2>1, <2>2
<1> QED BY <1>4, <1>5

\* Of a message that is whole, as<T>() and the blobs of the buffer protocol read
\* nothing but the message, whatever its definition: they look up only the first
\* byte with vector::at, and the parser has been at the others.
THEOREM ReadsOnlyTheMessage == Spec => []ReadsWithinMessage
<1>1. Init => ReadInside
  BY DEF Init, ReadInside
<1>2. Inv /\ ReadInside => ReadsWithinMessage
  <2> SUFFICES ASSUME Inv, ReadInside, ArraysSized, Intact, parsed_, NEW p \in DOMAIN data_
               PROVE  Reads(data_[p]) \subseteq Span(message.raw_buffer_offset, message.raw_data_len)
    BY DEF ReadsWithinMessage
  <2>1. data_ \in Seq(RosValue)
    BY DEF Inv, RestOK
  <2>2. p \in 1..Len(data_)
    BY LenProperties
  <2>3. data_[p] \in RosValue
    BY <2>1, <2>2, ElementOfSeq
  <2>4. PICK o \in Nat, l \in Nat : o = message.raw_buffer_offset /\ l = message.raw_data_len
    BY TheOffsets
  <2>5. ReadFrom(Buffer, data_[p]) \subseteq o .. (o + l) - 1
    <3>1. ReadBetween(Buffer, data_, 1..Len(data_), o, o + l)
      BY <2>4 DEF ReadInside
    <3> QED BY <3>1 DEF ReadBetween
  <2>6. Span(o, l) = o .. (o + l) - 1
    BY DEF Span
  <2>7. Reads(data_[p]) = ReadFrom(Buffer, data_[p])
    BY <2>3, ReadsAre
  <2> QED BY <2>4, <2>5, <2>6, <2>7
<1> QED BY <1>1, <1>2, Invariance, ReadsPassedData, NeverLeavesMessage, NextInside, PTL DEF Spec

----
(* The values and the schema. *)

\* Value x is of the kind of value y: its type, and what is fixed with it.
SameKind(x, y) ==
  /\ x.type = y.type
  /\ y.type = "object" => x.def = y.def
  /\ y.type = "primitive_array" => x.element_type = y.element_type

\* The place of field k of the object at p, and whether call f, the innermost one,
\* has appended it.
FieldPlace(v, p, k) == v[p].children.offset + FieldCount(v[p].def, k - 1)
Has(f, p, k) == IsEmplacing(f) /\ f.at = p => k < f.next

\* M[c] is the member that place c was made for.
FieldMade(v, M, p, k) ==
  /\ FieldPlace(v, p, k) \in 1..Len(v)
  /\ M[FieldPlace(v, p, k)] = Definitions[v[p].def][k]
  /\ SameKind(v[FieldPlace(v, p, k)], NewField(Definitions[v[p].def][k]))
FieldsMade(v, f, D, M) ==
  \A p \in D : v[p].type = "object" =>
    \A k \in FieldsFrom(v[p].def, 1) : Has(f, p, k) => FieldMade(v, M, p, k)
ElementsMade(v, M) ==
  \A c \in 1..Len(v) : v[c].type = "array" =>
    \A e \in Children(v, c) : SameKind(v[e], NewElement(M[c]))
PlacesMade(v, f, D, M) == FieldsMade(v, f, D, M) /\ ElementsMade(v, M)

\* A call of initObject goes by the definition of its value, which for the first one
\* is that of the message.
CallsDefined(v, st) ==
  \A i \in 1..Len(st) : st[i].fn = "initObject" => v[st[i].at].def = st[i].def
IsMessage(v) == v[1].type = "object" /\ v[1].def = message.msg_def_

StackMade ==
  stack # <<>> =>
    /\ CallsDefined(ros_values_, stack) /\ IsMessage(ros_values_)
    /\ \E M : PlacesMade(ros_values_, Top, Reached(ros_values_, stack), M)

\* The values of v, to which other values may have been appended, in w.
KindsKept(v, w) == Len(v) <= Len(w) /\ \A p \in 1..Len(v) : SameKind(w[p], v[p])

LEMMA FieldStaysMade ==
  ASSUME NEW v \in Seq(RosValue), NEW w \in Seq(RosValue), KindsKept(v, w),
         NEW p \in 1..Len(v), v[p].type = "object", w[p].children.offset = v[p].children.offset,
         NEW M, NEW N, \A c \in 1..Len(v) : N[c] = M[c], NEW k, FieldMade(v, M, p, k)
  PROVE  FieldMade(w, N, p, k)
<1>1. w[p].def = v[p].def
  BY DEF KindsKept, SameKind
<1>2. PICK c, d, m, l : /\ c = FieldPlace(v, p, k) /\ d = v[p].def /\ m = Definitions[d][k]
                        /\ l = NewField(m)
  OBVIOUS
<1>3. FieldPlace(w, p, k) = c
  BY <1>1, <1>2 DEF FieldPlace
<1>4. c \in 1..Len(v) /\ M[c] = m /\ SameKind(v[c], l)
  BY <1>2 DEF FieldMade
<1>5. SameKind(w[c], v[c])
  BY <1>4 DEF KindsKept
<1>6. SameKind(w[c], l)
  BY <1>4, <1>5 DEF SameKind
<1>7. c \in 1..Len(w)
  BY <1>4, LenProperties DEF KindsKept
<1> QED BY <1>1, <1>2, <1>3, <1>4, <1>6, <1>7 DEF FieldMade

LEMMA ElementsStayMade ==
  ASSUME NEW v \in Seq(RosValue), NEW w \in Seq(RosValue), Apart(v), KindsKept(v, w),
         NEW M, ElementsMade(v, M), NEW c \in 1..Len(v), w[c] = v[c], v[c].type = "array",
         NEW m, m = M[c]
  PROVE  \A e \in Children(w, c) : SameKind(w[e], NewElement(m))
<1>1. Children(w, c) = Children(v, c)
  BY DEF Children
<1>2. Children(v, c) \subseteq 1..Len(v)
  <2>1. DOMAIN v = 1..Len(v) /\ Len(v) \in Nat
    BY LenProperties
  <2> QED BY DEF Apart
<1> TAKE e \in Children(w, c)
<1>3. PICK y : y = NewElement(m)
  OBVIOUS
<1>4. SameKind(v[e], y) /\ SameKind(w[e], v[e])
  BY <1>1, <1>2, <1>3 DEF ElementsMade, KindsKept
<1> QED BY <1>3, <1>4 DEF SameKind

\* The innermost call moves on, as F.
MovesOn(v, st, w, su, n, F) ==
  /\ Arranged(v, st) /\ CallsDefined(v, st) /\ KindsKept(v, w) /\ n \in Nat \ {0} /\ n = Len(st)
  /\ F \in Frame /\ F.fn = st[n].fn /\ F.at = st[n].at
  /\ (F.fn = "initObject" => F.def = st[n].def) /\ su = Append(SubSeq(st, 1, n - 1), F)

LEMMA CallsStayDefined ==
  ASSUME NEW v, NEW st, NEW w, NEW su, NEW n, NEW F, MovesOn(v, st, w, su, n, F)
  PROVE  CallsDefined(w, su) /\ su \in Seq(Frame) /\ Len(su) = n /\ su[n] = F
<1> /\ Arranged(v, st) /\ CallsDefined(v, st) /\ KindsKept(v, w) /\ n \in Nat \ {0} /\ n = Len(st)
    /\ F \in Frame /\ F.fn = st[n].fn /\ F.at = st[n].at
    /\ (F.fn = "initObject" => F.def = st[n].def) /\ su = Append(SubSeq(st, 1, n - 1), F)
  BY DEF MovesOn
<1>1. /\ su \in Seq(Frame) /\ Len(su) = n /\ su[n] = F
      /\ \A i \in 1..n-1 : su[i] = st[i]
  <2>1. st # <<>> /\ st \in Seq(Frame)
    BY DEF Arranged
  <2> QED BY <2>1, TopReplaced
<1>2. ASSUME NEW i \in 1..n, su[i].fn = "initObject"
      PROVE  w[su[i].at].def = su[i].def
  <2>1. PICK f : f = st[i]
    OBVIOUS
  <2>2. f.fn = "initObject" /\ su[i].at = f.at /\ su[i].def = f.def
    BY <1>2, <2>1
  <2>3. f.at \in 1..Len(v) /\ v[f.at].type = "object"
    BY <2>1, <2>2, CallOf DEF FrameOK
  <2>4. v[f.at].def = f.def
    BY <2>1, <2>2 DEF CallsDefined
  <2> QED BY <2>2, <2>3, <2>4 DEF KindsKept, SameKind
<1> QED BY <1>1, <1>2 DEF CallsDefined

\* The turn of a field is at its place, and known to have been made for it.
LEMMA FieldKnown ==
  ASSUME NEW v \in Seq(RosValue), NEW f \in Frame, FrameOK(v, f), AtTurn(v, f),
         f.fn = "initObject", v[f.at].def = f.def,
         NEW D, f.at \in D, NEW M, FieldsMade(v, f, D, M)
  PROVE  M[Turn(v, f)] = Definitions[f.def][f.next]
<1>1. PICK p, d, k : p = f.at /\ d = f.def /\ k = f.next /\ k \in Nat \ {0}
  BY DEF FrameOK
<1>2. v[p].type = "object" /\ v[p].def = d /\ f.loop # "emplace"
  BY <1>1 DEF FrameOK, AtTurn, IsEmplacing
<1>3. k \in FieldsFrom(d, 1)
  <2>1. PICK l \in Nat : l = Len(Definitions[d])
    BY <1>1, FrameForms, MembersAreCounted
  <2>2. k <= l /\ ~Definitions[d][k].const
    BY <1>1, <2>1 DEF AtTurn
  <2> QED BY <1>1, <2>1, <2>2 DEF FieldsFrom
<1>4. Has(f, p, k)
  BY <1>2 DEF Has, IsEmplacing
<1>5. FieldMade(v, M, p, k)
  BY <1>1, <1>2, <1>3, <1>4 DEF FieldsMade
<1>6. FieldPlace(v, p, k) = Turn(v, f)
  BY <1>1, <1>2 DEF FieldPlace, Turn, Off, Visited
<1> QED BY <1>1, <1>2, <1>5, <1>6 DEF FieldMade

\* A turn that writes x: what it goes on with, and what is known of the elements of x.
GoesOnWith(x) ==
  /\ x.type = "object" => stack' = Append(Advanced, ObjectFrame(Target, x.def))
  /\ x.type # "object" =>
       stack' = Advanced \/ \E F \in Frame : F.fn = "initArray" /\ stack' = Append(Advanced, F)
  /\ x.type = "array" =>
       /\ Top.fn = "initObject"
       /\ \A e \in Children(ros_values_', Target) : SameKind(ros_values_'[e], NewElement(Field))
  /\ \A c \in Len(ros_values_)+1..Len(ros_values_') : ros_values_'[c].type # "array"

\* The calls then, f being the innermost one.
LEMMA CallsThen ==
  ASSUME NEW v, NEW st, Arranged(v, st), CallsDefined(v, st), NEW w, KindsKept(v, w),
         NEW n \in Nat \ {0}, n = Len(st), NEW s2, s2 = Onward(st), NEW su,
         \/ su = s2
         \/ \E F \in Frame : /\ su = Append(s2, F)
                             /\ F.fn = "initObject" => w[F.at].def = F.def
  PROVE  CallsDefined(w, su)
<1>1. CallsDefined(w, s2) /\ s2 \in Seq(Frame) /\ Len(s2) = n
  <2>1. n \in 1..Len(st)
    BY LastIndex
  <2>2. st[n] \in Frame
    BY CallOf
  <2>3. PICK F : F = Stepped(st[Len(st)])
    OBVIOUS
  <2>4. s2 = Append(SubSeq(st, 1, Len(st) - 1), F)
    BY <2>3 DEF Onward, Stepped
  <2>5. /\ F \in Frame /\ F.fn = st[n].fn /\ F.at = st[n].at
        /\ F.fn = "initObject" => F.def = st[n].def
    BY <2>2, <2>3, NextTurn DEF Stepped
  <2>6. s2 = Append(SubSeq(st, 1, n - 1), F)
    BY <2>4
  <2>7. MovesOn(v, st, w, s2, n, F)
    BY <2>5, <2>6 DEF MovesOn
  <2> QED BY <2>7, CallsStayDefined
<1>2. ASSUME NEW F \in Frame, su = Append(s2, F), F.fn = "initObject" => w[F.at].def = F.def
      PROVE  CallsDefined(w, su)
  <2>1. Len(su) = n + 1 /\ su[n + 1] = F /\ \A i \in 1..n : su[i] = s2[i]
    BY <1>1, <1>2, AppendProperties
  <2>2. 1..n+1 = 1..n \cup {n + 1}
    OBVIOUS
  <2> QED BY <1>1, <1>2, <2>1, <2>2 DEF CallsDefined
<1> QED BY <1>1, <1>2

LEMMA TurnMade ==
  ASSUME Inv, StackMade, AtField, message' = message, NEW x, TurnWrites(ros_values_', x),
         SameKind(x, ros_values_[Target]), NEW su, Arranged(ros_values_', su),
         Len(ros_values_) <= Len(ros_values_'), GoesOnWith(x),
         Reached(ros_values_', stack') \subseteq
           NotWaiting(ros_values_', Advanced, Len(ros_values_))
  PROVE  StackMade'
<1>1. PICK v, w, st, s2, n, f, t, D :
        /\ v = ros_values_ /\ w = ros_values_' /\ st = stack /\ s2 = Advanced /\ n = Len(stack)
        /\ f = Top /\ t = Target /\ D = Reached(ros_values_, stack)
  OBVIOUS
<1>2. CallsDefined(v, st) /\ IsMessage(v) /\ \E M : PlacesMade(v, f, D, M)
  BY <1>1 DEF StackMade, AtField, Initialising
<1>3. PICK M : FieldsMade(v, f, D, M) /\ ElementsMade(v, M)
  BY <1>2 DEF PlacesMade
<1>4. TakesTurn(v, st, w, s2, n, f, x, t)
  BY <1>1, TakesTheTurn
<1>5. /\ Arranged(v, st) /\ n \in Nat \ {0} /\ n = Len(st) /\ f = st[n] /\ AtTurn(v, f)
      /\ w \in Seq(RosValue) /\ TurnsTo(v, w, f, x) /\ s2 = Onward(st) /\ t = Turn(v, f)
  BY <1>4 DEF TakesTurn
<1>6. NotWaiting(w, s2, Len(v)) = D \cup {t} /\ t \notin D /\ CallsReached(v, st)
  BY <1>1, <1>4, TurnReaches
<1>7. /\ v \in Seq(RosValue) /\ f \in Frame /\ FrameOK(v, f) /\ f.at \in 1..Len(v) /\ f.at \in D
      /\ Len(v) \in Nat /\ Len(w) \in Nat /\ n \in 1..n
  <2>1. n \in 1..Len(st) /\ n \in 1..n
    BY <1>5, LastIndex
  <2> QED BY <1>1, <1>5, <1>6, <2>1, CallOf, LenProperties DEF CallsReached
<1>8. t \in 1..Len(v) /\ v[t] = Made(f) /\ w[t] = x
  BY <1>5, <1>7, TurnIsMade DEF TurnsTo
\* Other values keep their kinds, and where their fields are.
<1>9. ASSUME NEW p \in 1..Len(v), p # t
      PROVE  /\ SameKind(w[p], v[p])
             /\ v[p].type = "object" => w[p].children.offset = v[p].children.offset
             /\ v[p].type # "object" => w[p] = v[p]
  <2>1. CASE w[p] = v[p]
    BY <2>1 DEF SameKind
  <2>2. CASE w[p] # v[p]
    <3>1. p = f.at /\ f.fn = "initObject"
      BY <1>5, <1>7, <1>9, <2>2, FrameForms DEF TurnsTo
    <3>2. /\ w[p].type = "object" /\ w[p].def = v[p].def
          /\ w[p].children.offset = v[p].children.offset /\ v[p].type = "object"
      BY <1>5, <1>7, <3>1 DEF TurnsTo, FrameOK
    <3> QED BY <3>2 DEF SameKind
  <2> QED BY <2>1, <2>2
<1>10. KindsKept(v, w)
  <2>1. SameKind(w[t], v[t])
    BY <1>1, <1>8
  <2> QED BY <1>1, <1>9, <2>1 DEF KindsKept
<1>11. ASSUME NEW p \in D, w[p].type = "object", NEW k \in FieldsFrom(w[p].def, 1)
       PROVE  FieldMade(w, M, p, k)
  <2>1. p \in 1..Len(v) /\ p # t
    BY <1>6 DEF Reached, NotWaiting
  <2>2. v[p].type = "object" /\ v[p].def = w[p].def /\ w[p].children.offset = v[p].children.offset
    BY <1>9, <1>11, <2>1 DEF SameKind
  <2>3. Has(f, p, k)
    BY <1>5 DEF Has, AtTurn
  <2>4. FieldMade(v, M, p, k)
    BY <1>3, <1>11, <2>2, <2>3 DEF FieldsMade
  <2> QED BY <1>5, <1>7, <1>10, <2>1, <2>2, <2>4, FieldStaysMade
<1>12. FieldsMade(w, Top', D \cup {t}, M)
  <2>1. ASSUME x.type = "object", NEW k \in FieldsFrom(x.def, 1) PROVE ~Has(Top', t, k)
    <3>1. stack' = Append(s2, ObjectFrame(t, x.def))
      BY <1>1, <2>1 DEF GoesOnWith
    <3>2. Top' = ObjectFrame(t, x.def)
      <4>1. stack'[Len(stack')] = ObjectFrame(t, x.def)
        <5>1. s2 \in Seq(Frame)
          BY <1>1, ReadyToEnter DEF Arranged
        <5> QED BY <3>1, <5>1, AppendProperties
      <4> QED BY <4>1 DEF Top
    <3>3. PICK F : F = Top'
      OBVIOUS
    <3>4. IsEmplacing(F) /\ F.at = t /\ F.next = 1
      BY <3>2, <3>3 DEF ObjectFrame, IsEmplacing
    <3>5. ~(k < 1)
      BY DEF FieldsFrom
    <3> QED BY <3>3, <3>4, <3>5 DEF Has
  <2> QED BY <1>8, <1>11, <2>1 DEF FieldsMade
<1>13. ElementsMade(w, M)
  <2> SUFFICES ASSUME NEW c \in 1..Len(w), w[c].type = "array"
               PROVE  \A e \in Children(w, c) : SameKind(w[e], NewElement(M[c]))
    BY DEF ElementsMade
  <2>1. c \in 1..Len(v)
    <3>1. c \notin Len(v)+1..Len(w)
      BY <1>1 DEF GoesOnWith
    <3> QED BY <3>1
  <2>2. CASE c = t
    <3>1. /\ f.fn = "initObject"
          /\ \A e \in Children(w, t) : SameKind(w[e], NewElement(Field))
      BY <1>1, <1>8, <2>2 DEF GoesOnWith
    <3>2. Field = Definitions[f.def][f.next] /\ v[f.at].def = f.def
      BY <1>1, <1>2, <1>5, <1>7, <3>1 DEF Field, MembersOf, CallsDefined
    <3>3. M[t] = Field
      BY <1>3, <1>5, <1>7, <3>1, <3>2, FieldKnown
    <3> QED BY <2>2, <3>1, <3>3
  <2>3. CASE c # t
    <3>1. v[c].type = "array" /\ w[c] = v[c]
      BY <1>9, <2>1, <2>3 DEF SameKind
    <3>2. PICK m : m = M[c]
      OBVIOUS
    <3>3. Apart(v)
      BY <1>5 DEF Arranged
    <3>4. \A e \in Children(w, c) : SameKind(w[e], NewElement(m))
      BY <1>3, <1>5, <1>7, <1>10, <2>1, <3>1, <3>2, <3>3, ElementsStayMade
    <3> QED BY <3>2, <3>4
  <2> QED BY <2>2, <2>3
<1>14. PlacesMade(w, Top', Reached(w, stack'), M)
  <2>1. Reached(w, stack') \subseteq D \cup {t}
    BY <1>1, <1>6
  <2> QED BY <1>12, <1>13, <2>1 DEF PlacesMade, FieldsMade
<1>15. CallsDefined(w, stack')
  <2>1. \/ stack' = s2
        \/ \E F \in Frame : stack' = Append(s2, F) /\ (F.fn = "initObject" => w[F.at].def = F.def)
    <3>1. CASE x.type = "object"
      <4>1. PICK F : F = ObjectFrame(t, x.def)
        OBVIOUS
      <4>2. F \in Frame /\ w[F.at].def = F.def
        <5>1. x.def \in DefNames /\ t \in Nat
          <6>1. x \in RosValue
            BY <1>5, <1>7, <1>8, <1>10, ElementOfSeq DEF KindsKept
          <6> QED BY <1>8, <3>1, <6>1, ValueParts
        <5> QED BY <1>8, <4>1, <5>1 DEF ObjectFrame, Frame
      <4> QED BY <1>1, <3>1, <4>1, <4>2 DEF GoesOnWith
    <3>2. CASE x.type # "object"
      BY <1>1, <3>2 DEF GoesOnWith
    <3> QED BY <3>1, <3>2
  <2> QED BY <1>2, <1>5, <1>10, <2>1, CallsThen
<1>16. IsMessage(w)'
  <2>1. 1 \in 1..Len(v)
    BY <1>8
  <2> QED BY <1>2, <1>10, <2>1 DEF IsMessage, KindsKept, SameKind
<1> QED BY <1>1, <1>14, <1>15, <1>16 DEF StackMade

\* A turn that does not call deeper.
LEMMA ScalarMade ==
  ASSUME Inv, StackMade, InitPrimitive \/ InitString \/ InitPrimitiveArray
  PROVE  StackMade'
<1>1. AtField /\ stack' = Advanced /\ message' = message
  BY DEF InitPrimitive, InitString, InitPrimitiveArray
<1>2. PICK y, e : y = ros_values_[Target] /\ e = y.element_type
  OBVIOUS
<1>3. PICK o \in Nat, l \in Nat :
        \/ /\ TargetType \in Primitives \cup {"string"}
           /\ ros_values_' = SetOffset(Counted, Target, o)
        \/ /\ TargetType = "primitive_array"
           /\ ros_values_' = SetBlob(Counted, Target, o, l)
  <2>1. PICK o \in Nat, k \in Nat : o = message_buffer_offset_ /\ k = 0
    BY TheOffsets
  <2>2. CASE InitPrimitive \/ InitString
    BY <2>1, <2>2 DEF InitPrimitive, InitString, SetOffset
  <2>3. CASE InitPrimitiveArray
    <3>1. ElementsStart \in Nat /\ ArrayLength \in Nat
      BY <2>3, LengthRead DEF InitPrimitiveArray
    <3> QED BY <2>3, <3>1 DEF InitPrimitiveArray, SetBlob
  <2> QED BY <2>2, <2>3
<1>4. PICK x : x = IF y.type = "primitive_array"
                   THEN [type |-> "primitive_array", offset |-> o, length |-> l, element_type |-> e]
                   ELSE [type |-> y.type, offset |-> o]
  OBVIOUS
<1>5. /\ Arranged(ros_values_', stack') /\ Len(ros_values_') = Len(ros_values_)
      /\ TurnWrites(ros_values_', x)
  <2>1. y.type = TargetType
    BY <1>2 DEF TargetType
  <2>2. "primitive_array" \notin Primitives \cup {"string"}
    BY DefinitionAssumption
  <2> QED BY <1>1, <1>2, <1>3, <1>4, <2>1, <2>2, ScalarKeeps
<1>6. y.type \notin {"object", "array"}
  BY <1>2, <1>3, DefinitionAssumption DEF TargetType
<1>7. SameKind(x, y) /\ x.type = y.type
  BY <1>2, <1>4, <1>6 DEF SameKind
<1>8. Len(ros_values_) \in Nat
  BY TheTurn
<1>9. Len(ros_values_) <= Len(ros_values_') /\ Len(ros_values_)+1..Len(ros_values_') = {}
  BY <1>5, <1>8
<1>10. GoesOnWith(x)
  BY <1>1, <1>6, <1>7, <1>9 DEF GoesOnWith
<1>11. Reached(ros_values_', stack') \subseteq NotWaiting(ros_values_', Advanced, Len(ros_values_))
  BY <1>1, <1>5 DEF Reached
<1> QED BY <1>1, <1>2, <1>5, <1>7, <1>9, <1>10, <1>11, TurnMade

LEMMA InitObjectMade == ASSUME Inv, StackMade, InitObject PROVE StackMade'
<1>1. /\ AtField /\ TargetType = "object" /\ stack' = Append(Advanced, ObjectFrame(Target, Field.of))
      /\ message' = message
  BY DEF InitObject
<1>2. PICK y, k : y = ros_values_[Target] /\ k = Len(ros_values_) + 1
  OBVIOUS
<1>3. PICK x : x = [type |-> "object", def |-> y.def, children |-> [offset |-> k, length |-> 0]]
  OBVIOUS
<1>4. /\ Arranged(ros_values_', stack') /\ Len(ros_values_') = Len(ros_values_)
      /\ TurnWrites(ros_values_', x)
  BY <1>2, <1>3, InitObjectKeeps
<1>5. y.type = "object" /\ y.def = Field.of
  <2>1. y = NewField(Field) \/ y = NewElement(Field)
    BY <1>1, <1>2, TargetMade
  <2>2. y.type = "object"
    BY <1>1, <1>2 DEF TargetType
  <2> QED BY <2>1, <2>2 DEF NewField, NewElement
<1>6. SameKind(x, y) /\ x.type = "object" /\ x.def = Field.of
  BY <1>3, <1>5 DEF SameKind
<1>7. Len(ros_values_) \in Nat
  BY TheTurn
<1>8. Len(ros_values_) <= Len(ros_values_') /\ Len(ros_values_)+1..Len(ros_values_') = {}
  BY <1>4, <1>7
<1>9. GoesOnWith(x)
  BY <1>1, <1>6, <1>8 DEF GoesOnWith
<1> QED BY <1>1, <1>2, <1>4, <1>6, <1>8, <1>9, ObjectReaches, TurnMade

\* The elements of an array are made for its field.
LEMMA InitArrayMade == ASSUME Inv, StackMade, InitArray PROVE StackMade'
<1>1. /\ AtField /\ TargetType = "array" /\ stack' = Append(Advanced, ArrayFrame(Target, Field))
      /\ (Dynamic => LengthThere) /\ message' = message
  BY DEF InitArray
<1>2. PICK l \in Nat, k \in Nat : l = ArrayLength /\ k = Len(ros_values_)
  BY <1>1, LengthRead, TheTurn
<1>3. PICK x, F : /\ x = [type |-> "array", children |-> [offset |-> k + 1, length |-> l]]
                  /\ F = ArrayFrame(Target, Field)
  OBVIOUS
<1>4. /\ Arranged(ros_values_', stack') /\ Len(ros_values_') = k + l
      /\ TurnWrites(ros_values_', x)
  BY <1>2, <1>3, InitArrayKeeps
<1>5. SameKind(x, ros_values_[Target]) /\ Top.fn = "initObject"
  BY <1>1, <1>3, ElementType DEF SameKind, TargetType
<1>6. F \in Frame /\ F.fn = "initArray" /\ F.at = Target /\ F.next = 1 /\ F.field = Field
  BY <1>1, <1>3, TheTurn DEF ArrayFrame, Frame
<1>7. PICK w, t : w = ros_values_' /\ t = Target
  OBVIOUS
<1>8. t \in 1..k /\ w[t] = x
  BY <1>1, <1>2, <1>4, <1>7, TheTurn DEF TurnWrites
<1>9. Fresh(w, F)
  <2>1. PICK s2 : s2 = Advanced
    OBVIOUS
  <2>2. PICK i : i \in 1..Len(stack') /\ stack'[i] = F
    <3>1. s2 \in Seq(Frame)
      BY <1>1, <2>1, ReadyToEnter DEF Arranged
    <3>2. Len(stack') = Len(s2) + 1 /\ stack'[Len(s2) + 1] = F /\ Len(s2) \in Nat
      BY <1>1, <1>3, <1>6, <2>1, <3>1, AppendProperties, LenProperties
    <3>3. Len(s2) + 1 \in 1..Len(s2) + 1
      BY <3>2
    <3> QED BY <3>2, <3>3
  <2> QED BY <1>4, <1>7, <2>2 DEF Arranged, FrameOK
<1>10. ASSUME NEW j \in 1..l PROVE w[k + 1 + j - 1] = NewElement(Field)
  BY <1>3, <1>6, <1>7, <1>8, <1>9, <1>10 DEF Fresh, Off
<1>11. ASSUME NEW c \in k+1..k+l PROVE w[c] = NewElement(Field)
  <2>1. PICK j : j = c - k
    OBVIOUS
  <2>2. j \in 1..l /\ k + 1 + j - 1 = c
    BY <2>1
  <2> QED BY <1>10, <2>2
<1>12. NewElement(Field).type # "array"
  BY <1>1, ElementValue, TheTurn, DefinitionAssumption DEF Member, Type
<1>13. Children(w, t) = k+1..k+l
  <2>1. Children(w, t) = k + 1 .. k + 1 + l - 1
    BY <1>3, <1>8 DEF Children
  <2> QED BY <2>1
<1>14. PICK y : y = NewElement(Field)
  OBVIOUS
<1>15. GoesOnWith(x)
  <2>1. \A e \in Children(w, t) : SameKind(w[e], y)
    BY <1>11, <1>13, <1>14 DEF SameKind
  <2>2. \A c \in Len(ros_values_)+1..Len(w) : w[c].type # "array"
    BY <1>2, <1>4, <1>7, <1>11, <1>12
  <2> QED BY <1>1, <1>3, <1>5, <1>6, <1>7, <1>14, <2>1, <2>2 DEF GoesOnWith
<1>16. Len(ros_values_) <= Len(ros_values_')
  BY <1>2, <1>4
<1> QED BY <1>1, <1>4, <1>5, <1>15, <1>16, ArrayReaches, TurnMade

\* The place w has behind v is that of field k, member m.
AddsField(v, w, f, k, m) ==
  /\ Len(w) = Len(v) + 1 /\ FieldPlace(v, f.at, k) = Len(v) + 1
  /\ m = Definitions[f.def][k] /\ w[Len(v) + 1] = NewField(m)

LEMMA StepMade ==
  ASSUME Inv, StackMade, message' = message,
         NEW n, NEW F, StepsOn(ros_values_, stack, ros_values_', stack', n, F),
         Top.fn = "initObject", F.fn = "initObject", F.def = Top.def, NEW m,
         \A k \in FieldsFrom(F.def, 1) :
           Has(F, F.at, k) => Has(Top, F.at, k) \/ AddsField(ros_values_, ros_values_', F, k, m),
         \A c \in Len(ros_values_)+1..Len(ros_values_') : Children(ros_values_', c) = {}
  PROVE  StackMade'
<1>1. PICK v, w, st, su, f, D :
        /\ v = ros_values_ /\ w = ros_values_' /\ st = stack /\ su = stack' /\ f = Top
        /\ D = Reached(ros_values_, stack)
  OBVIOUS
<1>2. StepsOn(v, st, w, su, n, F) /\ Reached(w, su) = D
  BY <1>1, ReachedOn
<1>3. /\ Arranged(v, st) /\ n \in Nat \ {0} /\ n = Len(st)
      /\ w \in Seq(RosValue) /\ Len(v) <= Len(w) /\ \A p \in 1..Len(v) : w[p] = v[p]
      /\ F \in Frame /\ F.at = st[n].at /\ su = Append(SubSeq(st, 1, n - 1), F)
  BY <1>2 DEF StepsOn
<1>4. f = st[n] /\ stack # <<>> /\ v \in Seq(RosValue) /\ Apart(v)
  BY <1>1, <1>3, EmptySeq DEF Top, Arranged
<1>5. f.at \in 1..Len(v) /\ v[f.at].type = "object" /\ Len(v) \in Nat /\ Len(w) \in Nat /\ n \in 1..n
  <2>1. n \in 1..Len(st) /\ n \in 1..n
    BY <1>3, LastIndex
  <2> QED BY <1>1, <1>3, <1>4, <2>1, CallOf, LenProperties DEF FrameOK
<1>6. CallsDefined(v, st) /\ IsMessage(v) /\ \E M : PlacesMade(v, f, D, M)
  BY <1>1, <1>4 DEF StackMade
<1>7. PICK M : FieldsMade(v, f, D, M) /\ ElementsMade(v, M)
  BY <1>6 DEF PlacesMade
<1>8. KindsKept(v, w)
  BY <1>3 DEF KindsKept, SameKind
<1>9. CallsDefined(w, su) /\ su \in Seq(Frame) /\ Len(su) = n /\ su[n] = F
  <2>1. MovesOn(v, st, w, su, n, F)
    BY <1>1, <1>3, <1>4, <1>6, <1>8 DEF MovesOn
  <2> QED BY <2>1, CallsStayDefined
<1>10. Top' = F /\ v[f.at].def = F.def
  BY <1>1, <1>3, <1>4, <1>5, <1>6, <1>9 DEF Top, CallsDefined
<1>11. PICK N : N = [c \in 1..Len(w) |-> IF c <= Len(v) THEN M[c] ELSE m]
  OBVIOUS
<1>12. \A c \in 1..Len(v) : N[c] = M[c]
  BY <1>3, <1>5, <1>11
<1>13. ASSUME NEW p \in D, w[p].type = "object", NEW k \in FieldsFrom(w[p].def, 1), Has(F, p, k)
       PROVE  FieldMade(w, N, p, k)
  <2>1. p \in 1..Len(v) /\ w[p] = v[p]
    BY <1>1, <1>3 DEF Reached, NotWaiting
  <2>2. CASE Has(f, p, k)
    <3>1. FieldMade(v, M, p, k)
      BY <1>7, <1>13, <2>1, <2>2 DEF FieldsMade
    <3> QED BY <1>3, <1>4, <1>8, <1>12, <1>13, <2>1, <3>1, FieldStaysMade
  <2>3. CASE ~Has(f, p, k)
    <3>1. p = F.at /\ w[p].def = F.def
      BY <1>3, <1>4, <1>10, <2>1, <2>3 DEF Has
    <3>2. AddsField(v, w, F, k, m)
      BY <1>1, <1>13, <2>3, <3>1
    <3>3. PICK c : c = Len(v) + 1
      OBVIOUS
    <3>4. FieldPlace(w, p, k) = c /\ c = Len(w) /\ w[c] = NewField(m) /\ m = Definitions[F.def][k]
      BY <2>1, <3>1, <3>2, <3>3 DEF AddsField, FieldPlace
    <3>5. N[c] = m /\ c \in 1..Len(w)
      BY <1>11, <3>3, <3>4
    <3> QED BY <3>1, <3>4, <3>5 DEF FieldMade, SameKind
  <2> QED BY <2>2, <2>3
<1>14. ElementsMade(w, N)
  <2> SUFFICES ASSUME NEW c \in 1..Len(w), w[c].type = "array"
               PROVE  \A e \in Children(w, c) : SameKind(w[e], NewElement(N[c]))
    BY DEF ElementsMade
  <2>1. CASE c \in 1..Len(v)
    <3>1. PICK e : e = M[c] /\ e = N[c]
      BY <1>12, <2>1
    <3>2. w[c] = v[c]
      BY <1>3, <2>1
    <3>3. \A q \in Children(w, c) : SameKind(w[q], NewElement(e))
      BY <1>3, <1>4, <1>7, <1>8, <2>1, <3>1, <3>2, ElementsStayMade
    <3> QED BY <3>1, <3>3
  <2>2. CASE c \notin 1..Len(v)
    <3>1. c \in Len(v)+1..Len(w)
      BY <2>2
    <3> QED BY <1>1, <3>1
  <2> QED BY <2>1, <2>2
<1>15. PlacesMade(w, F, D, N)
  BY <1>13, <1>14 DEF PlacesMade, FieldsMade
<1>16. IsMessage(w)'
  <2>1. 1 \in 1..Len(v)
    BY <1>5
  <2> QED BY <1>3, <1>6, <2>1 DEF IsMessage
<1> QED BY <1>1, <1>2, <1>9, <1>10, <1>15, <1>16 DEF StackMade

LEMMA EmplaceFieldMade == ASSUME Inv, StackMade, EmplaceField PROVE StackMade'
<1>1. /\ stack # <<>> /\ Emplacing /\ message' = message /\ Top.fn = "initObject"
      /\ Top.next <= Len(MembersOf(Top))
  BY DEF EmplaceField, Emplacing
<1>2. PICK v, w, f, F, m : /\ v = ros_values_ /\ w = ros_values_' /\ f = Top /\ F = Stepped(f)
                           /\ m = Definitions[f.def][f.next]
  OBVIOUS
<1>3. /\ Len(stack) \in 1..Len(stack) /\ f \in Frame /\ FrameOK(v, f) /\ IsEmplacing(f)
      /\ Off(v, f) + Places(v, f) = Len(v) + 1 /\ f = stack[Len(stack)]
  <2>1. /\ Len(stack) \in 1..Len(stack) /\ f \in Frame /\ FrameOK(v, f) /\ IsEmplacing(f)
        /\ f = stack[Len(stack)]
    BY <1>1, <1>2, TheTop, LastIndex DEF Emplacing, IsEmplacing
  <2>2. EmplacesLast(v, stack)
    BY <1>2 DEF Inv, Arranged
  <2> QED BY <2>1, <2>2 DEF EmplacesLast
<1>4. F.fn = "initObject" /\ F.def = f.def /\ F.at = f.at /\ F.next = f.next + 1 /\ IsEmplacing(F)
  BY <1>2, <1>3, FrameForms DEF Stepped, IsEmplacing
<1>5. v[f.at].def = f.def /\ Appended(v, w, f) /\ m \in Member
  <2>1. f.def \in DefNames
    BY <1>1, <1>2, <1>3, FrameForms
  <2>2. f.next \in 1..Len(Definitions[f.def])
    BY <1>1, <1>2, <1>3, <2>1, MembersAreCounted DEF FrameOK, MembersOf
  <2>3. m \in Member
    BY <1>2, <2>1, <2>2, MemberOf
  <2>4. v[f.at].def = f.def
    BY <1>1, <1>2, <1>3 DEF StackMade, CallsDefined
  <2> QED BY <1>2, <2>3, <2>4, EmplaceFieldKeeps
<1>6. ASSUME NEW k \in FieldsFrom(F.def, 1), Has(F, F.at, k), ~Has(f, F.at, k)
      PROVE  AddsField(v, w, F, k, m)
  <2>1. k < F.next /\ ~(k < f.next)
    BY <1>4, <1>6 DEF Has
  <2>2. k = f.next
    BY <1>3, <1>4, <2>1 DEF FieldsFrom, FrameOK
  <2>3. ~Definitions[f.def][f.next].const
    BY <1>4, <2>2 DEF FieldsFrom
  <2>4. FieldPlace(v, F.at, k) = Len(v) + 1
    BY <1>3, <1>4, <1>5, <2>2 DEF FieldPlace, Off, Places, IsEmplacing
  <2> QED BY <1>2, <1>4, <1>5, <2>2, <2>3, <2>4 DEF AddsField, Appended
<1>7. ASSUME NEW c \in Len(v)+1..Len(w) PROVE Children(w, c) = {}
  <2>1. Len(v) \in Nat
    BY LenProperties DEF Inv, Arranged
  <2>2. c = Len(v) + 1 /\ w[c] = NewField(m)
    BY <1>2, <1>5, <1>7, <2>1 DEF Appended
  <2>3. Childless(w[c])
    BY <1>5, <2>2, FieldValue
  <2>4. w[c].type \in {"object", "array"} => w[c].children = NoList
    BY <1>5, <2>2, DefinitionAssumption DEF NewField, NewElement, Member, Type
  <2> QED BY <2>4 DEF Children, NoList
<1> QED BY <1>1, <1>2, <1>4, <1>6, <1>7, EmplaceFieldSteps, StepMade

LEMMA AllEmplacedMade == ASSUME Inv, StackMade, AllEmplaced PROVE StackMade'
<1>1. /\ stack # <<>> /\ Emplacing /\ message' = message /\ Top.fn = "initObject"
      /\ Top.next > Len(MembersOf(Top)) /\ ros_values_' = ros_values_
  BY DEF AllEmplaced, Emplacing
<1>2. PICK f, F : f = Top /\ F = Begun(f)
  OBVIOUS
<1>3. F.fn = "initObject" /\ F.def = f.def /\ F.at = f.at /\ f \in Frame /\ FrameOK(ros_values_, f)
  BY <1>1, <1>2, TheTop, FrameForms DEF Begun
<1>4. ASSUME NEW k \in FieldsFrom(F.def, 1) PROVE Has(f, F.at, k)
  <2>1. Len(Definitions[f.def]) \in Nat /\ f.next \in Nat
    BY <1>2, <1>3, FrameForms, MembersAreCounted DEF FrameOK
  <2> QED BY <1>1, <1>2, <1>3, <2>1 DEF Has, FieldsFrom, MembersOf
<1>5. Len(ros_values_)+1..Len(ros_values_') = {}
  BY <1>1, LenProperties DEF Inv, Arranged
<1> QED BY <1>1, <1>2, <1>3, <1>4, <1>5, AllEmplacedSteps, StepMade

LEMMA SkipConstantMade == ASSUME Inv, StackMade, SkipConstant PROVE StackMade'
<1>1. /\ stack # <<>> /\ ~Emplacing /\ message' = message /\ Top.fn = "initObject"
      /\ ros_values_' = ros_values_
  BY DEF SkipConstant, Initialising
<1>2. PICK f, F : f = Top /\ F = Stepped(f)
  OBVIOUS
<1>3. F.fn = "initObject" /\ F.def = f.def /\ ~IsEmplacing(f)
  BY <1>1, <1>2, TheTop, FrameForms DEF Stepped, Emplacing, IsEmplacing
<1>4. Len(ros_values_)+1..Len(ros_values_') = {}
  BY <1>1, LenProperties DEF Inv, Arranged
<1> QED BY <1>1, <1>2, <1>3, <1>4, SkipConstantSteps, StepMade DEF Has

LEMMA ReturnMade == ASSUME Inv, StackMade, Return PROVE StackMade'
<1>1. /\ Finished /\ stack # <<>> /\ UNCHANGED <<message, ros_values_>> /\ stack' = Below
  BY DEF Return, Finished, Initialising
<1>2. PICK v, st, su, f, D : /\ v = ros_values_ /\ st = stack /\ su = stack' /\ f = Top
                             /\ D = Reached(ros_values_, stack)
  OBVIOUS
<1>3. Reached(v, su) = D /\ Len(su) = Len(st) - 1 /\ \A i \in 1..Len(su) : su[i] = st[i]
  BY <1>1, <1>2, ReturnReaches
<1>4. CallsDefined(v, st) /\ IsMessage(v) /\ \E M : PlacesMade(v, f, D, M)
  BY <1>1, <1>2 DEF StackMade
<1>5. ~IsEmplacing(f) /\ Len(st) \in Nat
  BY <1>1, <1>2, TheTop DEF Finished, Initialising
<1>6. CallsDefined(v, su)
  BY <1>3, <1>4, <1>5 DEF CallsDefined
<1>7. \A M, g : PlacesMade(v, f, D, M) => PlacesMade(v, g, D, M)
  BY <1>5 DEF PlacesMade, FieldsMade, Has
<1> QED BY <1>1, <1>2, <1>3, <1>4, <1>6, <1>7 DEF StackMade, IsMessage

LEMMA HydrateMade == ASSUME Inv, Hydrate PROVE StackMade'
<1>1. PICK x, f, w, su : /\ x = [type |-> "object", def |-> message.msg_def_,
                                 children |-> [offset |-> 2, length |-> 0]]
                         /\ f = ObjectFrame(1, message.msg_def_)
                         /\ w = ros_values_' /\ w = <<x>> /\ su = stack' /\ su = <<f>>
  BY DEF Hydrate
<1>2. Len(w) = 1 /\ Len(su) = 1 /\ su[1] = f /\ w[1] = x /\ 1..1 = {1} /\ message' = message
  BY <1>1 DEF Hydrate
<1>3. x.type = "object" /\ x.def = f.def /\ f.at = 1 /\ IsEmplacing(f) /\ f.next = 1
  BY <1>1 DEF ObjectFrame, IsEmplacing
<1>4. CallsDefined(w, su) /\ IsMessage(w)
  BY <1>1, <1>2, <1>3 DEF CallsDefined, IsMessage
<1>5. ASSUME NEW k \in FieldsFrom(x.def, 1) PROVE ~Has(f, 1, k)
  BY <1>3 DEF Has, FieldsFrom
<1>6. PlacesMade(w, f, Reached(w, su), w)
  BY <1>2, <1>3, <1>5 DEF PlacesMade, FieldsMade, ElementsMade, Reached, NotWaiting
<1>7. Top' = f /\ IsMessage(w)'
  BY <1>1, <1>2, <1>4 DEF Top, IsMessage
<1> QED BY <1>1, <1>4, <1>6, <1>7 DEF StackMade

LEMMA NextMade == Inv /\ StackMade /\ [Next]_vars => StackMade'
<1> SUFFICES ASSUME Inv, StackMade, [Next]_vars PROVE StackMade'
  OBVIOUS
<1>1. CASE Hydrate
  BY <1>1, HydrateMade
<1>2. CASE EmplaceField
  BY <1>2, EmplaceFieldMade
<1>3. CASE AllEmplaced
  BY <1>3, AllEmplacedMade
<1>4. CASE SkipConstant
  BY <1>4, SkipConstantMade
<1>5. CASE InitObject
  BY <1>5, InitObjectMade
<1>6. CASE InitPrimitive \/ InitString \/ InitPrimitiveArray
  BY <1>6, ScalarMade
<1>7. CASE InitArray
  BY <1>7, InitArrayMade
<1>8. CASE Return
  BY <1>8, ReturnMade
<1>9. CASE ReadPastEnd \/ Finish
  BY <1>9 DEF ReadPastEnd, Finish, Throw, EndParse, StackMade
<1>10. CASE UNCHANGED vars
  BY <1>10 DEF vars, StackMade, IsMessage, Top
<1> QED BY <1>1, <1>2, <1>3, <1>4, <1>5, <1>6, <1>7, <1>8, <1>9, <1>10 DEF Next, ParseStep

\* All fields and elements of the values v of a message.
AllMade(v) ==
  /\ IsMessage(v)
  /\ \E M : /\ \A p \in 1..Len(v) : v[p].type = "object" =>
                 \A k \in FieldsFrom(v[p].def, 1) : FieldMade(v, M, p, k)
            /\ ElementsMade(v, M)
DataMade == parsed_ => AllMade(data_)

LEMMA NextDataMade == Inv /\ StackMade /\ DataMade /\ [Next]_vars => DataMade'
<1> SUFFICES ASSUME Inv, StackMade, DataMade, [Next]_vars, parsed_' PROVE AllMade(data_)'
  BY DEF DataMade
<1>1. CASE Finish
  <2>1. Finished /\ stack # <<>> /\ Len(stack) = 1 /\ data_' = ros_values_ /\ message' = message
    BY <1>1 DEF Finish, Finished, Initialising, EndParse
  <2>2. PICK v, f, D : v = ros_values_ /\ f = Top /\ D = Reached(ros_values_, stack)
    OBVIOUS
  <2>3. D = 1..Len(v) /\ ~IsEmplacing(f)
    BY <2>1, <2>2, AllReached, TheTop DEF Finished, Initialising
  <2>4. IsMessage(v) /\ \E M : PlacesMade(v, f, D, M)
    BY <2>1, <2>2 DEF StackMade
  <2> QED BY <2>1, <2>2, <2>3, <2>4 DEF AllMade, PlacesMade, FieldsMade, Has, IsMessage
<1>2. CASE ~Finish
  <2>1. UNCHANGED <<message, parsed_, data_>>
    BY <1>2, OnlyFinishParses, Zenon
  <2> QED BY <2>1 DEF DataMade, AllMade, IsMessage
<1> QED BY <1>1, <1>2

\* The schema looks a field up by its name.
LEMMA FieldFound ==
  ASSUME NamesApart, NEW d \in DefNames, NEW k \in FieldsFrom(d, 1)
  PROVE  FieldNamed(d, Definitions[d][k].name) = Definitions[d][k]
<1>1. PICK m, B : m = Definitions[d][k] /\ B = {Definitions[d][j] : j \in DOMAIN Definitions[d]}
  OBVIOUS
<1>2. k \in DOMAIN Definitions[d] /\ ~m.const
  <2>1. Len(Definitions[d]) \in Nat /\ DOMAIN Definitions[d] = 1..Len(Definitions[d])
    BY LenProperties
  <2> QED BY <1>1, <2>1 DEF FieldsFrom
<1>3. ASSUME NEW e \in B, ~e.const, e.name = m.name PROVE e = m
  <2>1. PICK j \in DOMAIN Definitions[d] : e = Definitions[d][j]
    BY <1>1, <1>3
  <2> QED BY <1>1, <1>2, <1>3, <2>1 DEF NamesApart
<1>4. m \in B /\ FieldNamed(d, m.name) = CHOOSE e \in B : ~e.const /\ e.name = m.name
  BY <1>1, <1>2 DEF FieldNamed
<1>5. PICK e : e = CHOOSE z \in B : ~z.const /\ z.name = m.name
  OBVIOUS
<1>6. e \in B /\ ~e.const /\ e.name = m.name
  BY <1>2, <1>4, <1>5
<1> QED BY <1>1, <1>3, <1>4, <1>5, <1>6

\* The value of a field, made with its elements for member m.
LEMMA ValueConforms ==
  ASSUME NEW v \in Seq(RosValue), NEW c \in 1..Len(v), NEW m \in Member,
         SameKind(v[c], NewField(m)),
         v[c].type = "array" => \A e \in Children(v, c) : SameKind(v[e], NewElement(m)), NEW S
  PROVE  Conforms(S, v, schemaForField(S, m), v[c])
<1>1. PICK y, s : y = v[c] /\ s = schemaForField(S, m)
  OBVIOUS
<1>2. m.type \in Primitives \cup {"string", "object"}
  BY DEF Member, Type
<1>3. CASE ArraySize(m) = 0
  <2>1. SameKind(y, NewElement(m)) /\ y.type = m.type /\ m.type \notin {"array", "primitive_array"}
    BY <1>1, <1>2, <1>3, ElementValue, DefinitionAssumption DEF NewField, SameKind
  <2>2. m.type = "object" => y.def = m.of
    BY <2>1 DEF SameKind, NewElement
  <2> QED BY <1>1, <1>3, <2>1, <2>2 DEF Conforms, schemaForField
<1>4. CASE ArraySize(m) # 0 /\ m.type \in {"object", "string"}
  <2>1. y.type = "array"
    BY <1>1, <1>4 DEF NewField, SameKind
  <2>2. ASSUME NEW k \in 0 .. SizeOf(y) - 1
        PROVE  SameKind(At(v, y, k), NewElement(m))
    <3>1. PICK o \in Nat, l \in Nat : y.children.offset = o /\ y.children.length = l
      <4>1. y \in RosValue
        BY <1>1, ElementOfSeq
      <4> QED BY <2>1, <4>1, ValueParts
    <3>2. Children(v, c) = o .. o + l - 1 /\ At(v, y, k) = v[o + k] /\ SizeOf(y) = l
      BY <1>1, <2>1, <3>1 DEF Children, At, SizeOf
    <3>3. o + k \in Children(v, c)
      BY <3>2
    <3>4. PICK z : z = NewElement(m)
      OBVIOUS
    <3> QED BY <1>1, <2>1, <3>2, <3>3, <3>4
  <2>3. NewElement(m).type = m.type /\ (m.type = "object" => NewElement(m).def = m.of)
    BY DEF NewElement
  <2>4. s.type = "array"
    BY <1>1, <1>4 DEF schemaForField
  <2>5. ASSUME NEW k \in 0 .. SizeOf(y) - 1, NEW z, z = At(v, y, k)
        PROVE  s = IF z.type = "object" THEN [type |-> "array", children |-> S[z.def]]
                   ELSE [type |-> "array", member_type |-> z.type]
    BY <1>1, <1>4, <2>2, <2>3, <2>5 DEF SameKind, schemaForField
  <2> QED BY <1>1, <2>1, <2>4, <2>5 DEF Conforms
<1>5. CASE ArraySize(m) # 0 /\ m.type \notin {"object", "string"}
  <2>1. y.type = "primitive_array" /\ y.element_type = m.type /\ m.type # "object"
    BY <1>1, <1>5 DEF NewField, SameKind
  <2>2. \A k : At(v, y, k).type = m.type
    BY <2>1 DEF At
  <2>3. s = [type |-> "array", member_type |-> m.type]
    BY <1>1, <1>5 DEF schemaForField
  <2> QED BY <1>1, <2>1, <2>2, <2>3 DEF Conforms
<1> QED BY <1>3, <1>4, <1>5

\* getSchema() tells of every message, without reading it, what its fields are: the
\* values that the parser makes of it have the types, the element types and the
\* definitions that the schema has, however deep they are nested.
THEOREM SchemasAreTrue == Spec => []SchemaDescribes
<1>1. Init => StackMade /\ DataMade
  BY DEF Init, StackMade, DataMade
<1>2. Inv /\ DataMade => SchemaDescribes
  <2> SUFFICES ASSUME Inv, DataMade, NamesApart, parsed_ PROVE
        /\ data_[1].type = "object" /\ data_[1].def = message.msg_def_
        /\ \A p \in DOMAIN data_ : data_[p].type = "object" =>
             \A n \in 1..Depth :
               LET s == generateSchema[n][data_[p].def] IN
               /\ DOMAIN s = FieldNames(data_[p].def)
               /\ \A key \in DOMAIN s :
                    Conforms(generateSchema[n - 1], data_, s[key], Get(data_, data_[p], key))
    BY DEF SchemaDescribes
  <2>1. PICK v \in Seq(RosValue) : v = data_ /\ DOMAIN v = 1..Len(v)
    BY DEF Inv, RestOK
  <2>2. IsMessage(v)
    BY <2>1 DEF DataMade, AllMade
  <2>3. PICK M : /\ \A p \in 1..Len(v) : v[p].type = "object" =>
                      \A k \in FieldsFrom(v[p].def, 1) : FieldMade(v, M, p, k)
                 /\ ElementsMade(v, M)
    BY <2>1 DEF DataMade, AllMade
  <2>4. ASSUME NEW p \in 1..Len(v), v[p].type = "object", NEW n \in 1..Depth,
               NEW s, s = generateSchema[n][v[p].def], NEW S, S = generateSchema[n - 1]
        PROVE  /\ DOMAIN s = FieldNames(v[p].def)
               /\ \A key \in DOMAIN s : Conforms(S, v, s[key], Get(v, v[p], key))
    <3>1. PICK x, d : x \in RosValue /\ x = v[p] /\ d = x.def /\ d \in DefNames
      BY <2>4, ElementOfSeq, ValueParts
    <3>2. s = [name \in FieldNames(d) |-> schemaForField(S, FieldNamed(d, name))]
      <4>1. n \in Nat /\ n # 0
        BY DepthAssumption
      <4>2. generateSchema[n] = SchemaStep(n, S)
        BY <2>4, <4>1, SchemaIs
      <4>3. s = SchemaStep(n, S)[d]
        BY <2>4, <3>1, <4>2
      <4> QED BY <3>1, <4>1, <4>3 DEF SchemaStep
    <3>3. ASSUME NEW key \in FieldNames(d) PROVE Conforms(S, v, s[key], Get(v, x, key))
      <4>1. PICK k \in FieldsFrom(x.def, 1) :
              /\ Definitions[x.def][k].name = key
              /\ Get(v, x, key) = v[x.children.offset + FieldCount(x.def, k - 1)]
        <5>1. x \in RosValue /\ x.type = "object" /\ key \in FieldNames(x.def)
          BY <2>4, <3>1
        <5> QED BY <5>1, GetFinds
      <4>2. PICK c, m : c = FieldPlace(v, p, k) /\ m = Definitions[d][k]
        OBVIOUS
      <4>3. c \in 1..Len(v) /\ M[c] = m /\ SameKind(v[c], NewField(m)) /\ Get(v, x, key) = v[c]
        BY <2>3, <2>4, <3>1, <4>1, <4>2 DEF FieldMade, FieldPlace
      <4>4. m \in Member
        <5>1. k \in 1..Len(Definitions[d])
          BY <3>1 DEF FieldsFrom
        <5> QED BY <3>1, <4>2, <5>1, MemberOf
      <4>5. s[key] = schemaForField(S, m)
        BY <3>1, <3>2, <4>1, <4>2, FieldFound
      <4>6. v[c].type = "array" => \A e \in Children(v, c) : SameKind(v[e], NewElement(m))
        BY <2>3, <4>3 DEF ElementsMade
      <4> QED BY <4>3, <4>4, <4>5, <4>6, ValueConforms
    <3> QED BY <3>1, <3>2, <3>3
  <2> QED BY <2>1, <2>2, <2>4 DEF IsMessage
<1> QED BY <1>1, <1>2, Invariance, NextMade, NextDataMade, PTL DEF Spec

=============================================================================
