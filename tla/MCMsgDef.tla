------------------------------ MODULE MCMsgDef ------------------------------
(***************************************************************************)
(* Definitions of a topic of package foo with up to two embedded ones,     *)
(* each of them with no field or one.                                      *)
(***************************************************************************)
EXTENDS MsgDef, SequencesExt

CONSTANTS
  EmbeddedNames, \* names of the embedded definitions
  LineTypes      \* types of fields

Name(pkg, base) == [pkg |-> pkg, base |-> base]

FooPoint == Name("foo", "Point")
BarPoint == Name("bar", "Point")
BarePoint == Name("", "Point")
BareHeader == Name("", "Header")
StdHeader == Name("std_msgs", "Header")
FooHeader == Name("foo", "Header")
StdString == Name("std_msgs", "String")
BareString == Name("", "String")
Uint8 == Name("", "uint8")

PlainNames == {StdHeader, StdString, FooPoint, BarPoint}
PlainTypes == {Uint8, BareHeader, StdHeader, StdString, BarePoint, BareString, BarPoint}
ClashNames == {StdHeader, FooHeader}
ClashTypes == {Uint8, StdHeader, FooHeader}

Fields == {[const |-> FALSE, type |-> t] : t \in LineTypes}
Constant == [const |-> TRUE, type |-> Uint8]

SmallDefinition == [name : EmbeddedNames, members : {<<>>} \cup {<<f>> : f \in Fields}]

\* No two definitions of one name, and none that contains itself.
MCTexts ==
  {t \in [name : {Name("foo", "Top")},
          members : {<<f, Constant>> : f \in Fields} \cup {<<Constant, f, f>> : f \in Fields},
          embedded : SeqOf(SmallDefinition, 2)] :
     LET HasField(d, e) == e.name \in Needs(d.name.pkg, d.members) IN
     \A j, k \in DOMAIN t.embedded :
       /\ t.embedded[j].name = t.embedded[k].name => j = k
       /\ ~(HasField(t.embedded[j], t.embedded[k]) /\ HasField(t.embedded[k], t.embedded[j]))}

=============================================================================
