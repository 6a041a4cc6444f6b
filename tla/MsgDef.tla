------------------------------- MODULE MsgDef -------------------------------
(***************************************************************************)
(* parseMsgDef (lib/message_def_parser.cc) and the constructors of         *)
(* lib/ros_msg_types.h: the text of a message definition becomes the       *)
(* definition of a topic, the definitions it embeds, and pointers from     *)
(* each field of an embedded type to that definition.                      *)
(*                                                                         *)
(* A text is what the lines of the file say, after the package of the      *)
(* topic's type: members, and the embedded definitions with their members. *)
(* A type name has a package, "" where it is left out.                     *)
(***************************************************************************)
EXTENDS Naturals, Sequences

CONSTANTS
  Packages,   \* names of packages
  Bases,      \* names of types in a package
  Primitives, \* names of primitive types
  Texts,      \* the message definitions
  Main        \* stands for the definition of the topic among the embedded ones

TypeName == [pkg : Packages \cup {"std_msgs", ""}, base : Bases \cup {"Header"} \cup Primitives]

\* Lines of a definition: constants, and fields of a type.
Line == [const : BOOLEAN, type : TypeName]

ASSUME TextAssumption ==
  \A t \in Texts :
    /\ t.name \in TypeName
    /\ t.members \in Seq(Line)
    /\ t.embedded \in Seq([name : TypeName, members : Seq(Line)])
    /\ \A j, k \in DOMAIN t.embedded : t.embedded[j].name = t.embedded[k].name => j = k

ASSUME PrimitiveAssumption == Bases \cap Primitives = {} /\ "Header" \notin Primitives

ASSUME MainAssumption == Main \notin TypeName

VARIABLES
  text,                    \* what is parsed
  embedded_definition_map_,\* from names to indices of embedded definitions
  type_definition_,        \* from fields to names of embedded definitions
  todo,                    \* definitions whose fields are to be resolved
  at,                      \* the definition and the member under way
  status                   \* how far parseMsgDef is

vars == <<text, embedded_definition_map_, type_definition_, todo, at, status>>

-----------------------------------------------------------------------------
(* The grammar.                                                            *)

\* Mutant: nothing is removed.
Unchanged(name) == name

\* type and embedded_type_name: "std_msgs/" is removed.
Global(name) == IF name.pkg = "std_msgs" THEN [name EXCEPT !.pkg = ""] ELSE name

\* embedded_type_definition asks for a member at least.
Parses(t) == \A k \in DOMAIN t.embedded : t.embedded[k].members # <<>>

\* The members of a definition, its scope, and the type of one of its fields.
MembersOf(d) ==
  IF d = Main THEN text.members ELSE text.embedded[embedded_definition_map_[d]].members
ScopeOf(d) == IF d = Main THEN text.name.pkg ELSE d.pkg
TypeOf(d, k) == Global(MembersOf(d)[k].type)

\* FieldDef: a name that is not in primitive_type_map is an object.
IsPrimitive(name) == name.pkg = "" /\ name.base \in Primitives
IsObject(d, k) == ~MembersOf(d)[k].const /\ ~IsPrimitive(TypeOf(d, k))

Known(name) == name \in DOMAIN embedded_definition_map_

-----------------------------------------------------------------------------
Init ==
  /\ text \in Texts
  /\ embedded_definition_map_ = [name \in {} |-> 0]
  /\ type_definition_ = [field \in {} |-> Main]
  /\ todo = {}
  /\ at = [def |-> Main, member |-> 1]
  /\ status = "text"

\* phrase_parse does not come to the end of the text.
ParseFails ==
  /\ status = "text"
  /\ ~Parses(text)
  /\ status' = "thrown"
  /\ UNCHANGED <<text, embedded_definition_map_, type_definition_, todo, at>>

\* The constructor of MsgDef: emplace() keeps the first definition of a name.
EmplaceAll ==
  /\ status = "text"
  /\ Parses(text)
  /\ LET Named(n) == {k \in DOMAIN text.embedded : Global(text.embedded[k].name) = n}
         names == {Global(text.embedded[k].name) : k \in DOMAIN text.embedded} IN
     /\ embedded_definition_map_' =
          [n \in names |-> CHOOSE k \in Named(n) : \A j \in Named(n) : k <= j]
     /\ todo' = names
  /\ status' = "resolving"
  /\ UNCHANGED <<text, type_definition_, at>>

-----------------------------------------------------------------------------
(* initializeFieldTypeDefinitions: the topic's own fields first, then those*)
(* of the embedded definitions, in the order of an unordered_map.          *)

AtMember == status = "resolving" /\ at.member <= Len(MembersOf(at.def))

AfterMember == [at EXCEPT !.member = @ + 1]

SkipMember ==
  /\ AtMember
  /\ ~IsObject(at.def, at.member)
  /\ at' = AfterMember
  /\ UNCHANGED <<text, embedded_definition_map_, type_definition_, todo, status>>

\* Mutant: the package of the name is replaced by the scope.
FoundUnderScope(name) == Known([name EXCEPT !.pkg = ScopeOf(at.def)])

\* A name that lacks its package means the one of that name in the scope.
InScope(name) == [name EXCEPT !.pkg = ScopeOf(at.def)]
FoundInScope(name) == name.pkg = "" /\ Known(InScope(name))

\* Mutant: the name is taken to be one of the scope.
DefinitionInScope(name) == InScope(name)

\* What is found in the scope replaces what the name alone found.
Definition(name) == IF FoundInScope(name) THEN InScope(name) ELSE name

SetTypeDefinition ==
  LET name == TypeOf(at.def, at.member) IN
  /\ AtMember
  /\ IsObject(at.def, at.member)
  /\ Known(name) \/ FoundInScope(name)
  /\ type_definition_' =
       [field \in DOMAIN type_definition_ \cup {at} |->
          IF field = at THEN Definition(name) ELSE type_definition_[field]]
  /\ at' = AfterMember
  /\ UNCHANGED <<text, embedded_definition_map_, todo, status>>

\* "Unable to find embedded type"
NotFound ==
  LET name == TypeOf(at.def, at.member) IN
  /\ AtMember
  /\ IsObject(at.def, at.member)
  /\ ~Known(name) /\ ~FoundInScope(name)
  /\ status' = "thrown"
  /\ UNCHANGED <<text, embedded_definition_map_, type_definition_, todo, at>>

AllMembers == status = "resolving" /\ ~AtMember

NextDefinition ==
  /\ AllMembers
  /\ \E d \in todo :
       /\ at' = [def |-> d, member |-> 1]
       /\ todo' = todo \ {d}
  /\ UNCHANGED <<text, embedded_definition_map_, type_definition_, status>>

\* Mutant: the embedded definitions are left out.
DoneAfterTopic ==
  /\ AllMembers
  /\ status' = "done"
  /\ UNCHANGED <<text, embedded_definition_map_, type_definition_, todo, at>>

Done ==
  /\ AllMembers
  /\ todo = {}
  /\ status' = "done"
  /\ UNCHANGED <<text, embedded_definition_map_, type_definition_, todo, at>>

Next ==
  \/ ParseFails \/ EmplaceAll
  \/ SkipMember \/ SetTypeDefinition \/ NotFound
  \/ NextDefinition \/ Done

Spec == Init /\ [][Next]_vars

-----------------------------------------------------------------------------
(* Properties.                                                             *)

Definitions == DOMAIN embedded_definition_map_ \cup {Main}

TypeOK ==
  /\ text \in Texts
  /\ \A n \in DOMAIN embedded_definition_map_ :
       n \in TypeName /\ embedded_definition_map_[n] \in DOMAIN text.embedded
  /\ todo \subseteq DOMAIN embedded_definition_map_
  /\ at.def \in Definitions /\ at.member \in 1..Len(MembersOf(at.def)) + 1
  /\ \A f \in DOMAIN type_definition_ :
       f.def \in Definitions /\ f.member \in DOMAIN MembersOf(f.def) /\ Known(type_definition_[f])
  /\ status \in {"text", "resolving", "thrown", "done"}

\* The package a definition was written in.
Written(d) == IF d = Main THEN text.name ELSE text.embedded[embedded_definition_map_[d]].name

(***************************************************************************)
(* What ROS means by a type name in a definition of package pkg: a name    *)
(* with its package means just that, Header is the one of std_msgs, and    *)
(* any other name is of the same package.                                  *)
(***************************************************************************)
Meant(pkg, name) ==
  IF name.pkg # "" THEN name
  ELSE [pkg |-> IF name.base = "Header" THEN "std_msgs" ELSE pkg, base |-> name.base]

Embedded(t) == {t.embedded[k].name : k \in DOMAIN t.embedded}

\* The types that a definition of package pkg with these members needs.
Needs(pkg, members) ==
  {Meant(pkg, members[k].type) :
     k \in {l \in DOMAIN members : ~members[l].const /\ ~IsPrimitive(members[l].type)}}

\* The text embeds all it needs, as rosbag records it.
Complete(t) ==
  /\ Needs(t.name.pkg, t.members) \subseteq Embedded(t)
  /\ \A k \in DOMAIN t.embedded :
       Needs(t.embedded[k].name.pkg, t.embedded[k].members) \subseteq Embedded(t)

\* No package has a type of the same name as one of std_msgs.
Unambiguous(t) ==
  \A m, n \in Embedded(t) : m.pkg = "std_msgs" /\ m.base = n.base => n = m

(***************************************************************************)
(* A field gets the definition that ROS means, although std_msgs is taken  *)
(* out of all names and packages may be left out (ros_msg_types.h,         *)
(* setTypeDefinition), as long as no name of std_msgs is used twice.       *)
(***************************************************************************)
ResolvedAsMeant ==
  status = "done" /\ Complete(text) /\ Unambiguous(text) =>
    \A f \in DOMAIN type_definition_ :
      Written(type_definition_[f]) = Meant(Written(f.def).pkg, MembersOf(f.def)[f.member].type)

(***************************************************************************)
(* When a definition is handed out, every field of an embedded type in it  *)
(* and in all it embeds has its definition: the parser follows these       *)
(* pointers without looking (ros_msg_types.h, typeDefinition).             *)
(***************************************************************************)
NoFieldForgotten ==
  status = "done" =>
    \A d \in Definitions : \A k \in DOMAIN MembersOf(d) :
      IsObject(d, k) => [def |-> d, member |-> k] \in DOMAIN type_definition_

\* A complete text whose embedded definitions have members is not refused.
CompleteAccepted == status = "thrown" => ~Parses(text) \/ ~Complete(text)

\* "Embedded types include all the supporting sub types (aka non-primitives)
\* of a top-level message definition" (message_def_parser.cc:91): a complete
\* text is not refused.
SupportingTypesParse == status = "thrown" => ~Complete(text)

\* "The std_msgs namespace is included in the global namespace so we remove it
\* here" (message_def_parser.cc:92): a type named with std_msgs is still the one
\* of std_msgs.
StdMsgsMeant ==
  status = "done" /\ Complete(text) =>
    \A f \in DOMAIN type_definition_ :
      LET type == MembersOf(f.def)[f.member].type IN
      type.pkg = "std_msgs" => Written(type_definition_[f]) = type

=============================================================================
