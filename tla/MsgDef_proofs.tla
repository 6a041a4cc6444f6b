---------------------------- MODULE MsgDef_proofs ----------------------------
(***************************************************************************)
(* Proofs about the parser of message definitions, for any set of texts:   *)
(* no field of an embedded type is forgotten, each gets the definition     *)
(* that ROS means, and no complete text is refused.                        *)
(***************************************************************************)
EXTENDS MsgDef, WellFoundedInduction, SequenceTheorems, TLAPS

\* The name of the k-th embedded definition, std_msgs taken out.
GlobalName(k) == Global(text.embedded[k].name)

\* A name as one of the package that definition d was written in.
Scoped(d, name) == [name EXCEPT !.pkg = ScopeOf(d)]

\* The definition that a type named in d leads to.
Lookup(d, name) ==
  IF name.pkg = "" /\ Known(Scoped(d, name)) THEN Scoped(d, name) ELSE name

MapOK ==
  /\ \A n \in DOMAIN embedded_definition_map_ :
       /\ embedded_definition_map_[n] \in DOMAIN text.embedded
       /\ GlobalName(embedded_definition_map_[n]) = n
  /\ status \in {"resolving", "done"} =>
       \A k \in DOMAIN text.embedded : Known(GlobalName(k))

ProgressOK ==
  /\ status = "text" => at = [def |-> Main, member |-> 1]
  /\ at \in [def : Definitions, member : Nat \ {0}]
  /\ at.member <= Len(MembersOf(at.def)) + 1
  /\ todo \subseteq DOMAIN embedded_definition_map_ \ {at.def}
  /\ status = "done" => todo = {} /\ at.member > Len(MembersOf(at.def))

\* What has been passed has its definition.
PassedOK ==
  \A d \in Definitions \ todo : \A k \in DOMAIN MembersOf(d) :
    IsObject(d, k) /\ (d = at.def => k < at.member) =>
      [def |-> d, member |-> k] \in DOMAIN type_definition_

\* Each definition is the one that was looked up.
ResolvedOK ==
  \A f \in DOMAIN type_definition_ :
    /\ f.def \in Definitions
    /\ f.member \in DOMAIN MembersOf(f.def)
    /\ IsObject(f.def, f.member)
    /\ Known(type_definition_[f])
    /\ type_definition_[f] = Lookup(f.def, TypeOf(f.def, f.member))

StatusOK ==
  /\ status \in {"text", "resolving", "thrown", "done"}
  /\ status = "text" => DOMAIN embedded_definition_map_ = {} /\ DOMAIN type_definition_ = {}

\* The inductive invariant.
Inv ==
  /\ text \in Texts
  /\ MapOK /\ ProgressOK /\ PassedOK /\ ResolvedOK /\ StatusOK
  /\ CompleteAccepted

-----------------------------------------------------------------------------
(* Names and texts.                                                        *)

LEMMA LeastExists ==
  ASSUME NEW S \in SUBSET Nat, S # {}
  PROVE  \E k \in S : \A j \in S : k <= j
  <1>1. PICK k \in S : \A j \in S : ~(<<j, k>> \in OpToRel(<, Nat))
    BY WFMin, NatLessThanWellFounded
  <1>2. \A j \in S : ~(j < k)
    BY <1>1 DEF OpToRel
  <1> QED
    BY <1>2

LEMMA TextFacts ==
  ASSUME text \in Texts
  PROVE  /\ text.name \in TypeName
         /\ text.members \in Seq(Line)
         /\ text.embedded \in Seq([name : TypeName, members : Seq(Line)])
  BY TextAssumption

\* Global keeps the base, and changes only the package std_msgs.
LEMMA GlobalFacts ==
  ASSUME NEW n \in TypeName
  PROVE  /\ Global(n) \in TypeName
         /\ Global(n).base = n.base
         /\ Global(n).pkg = IF n.pkg = "std_msgs" THEN "" ELSE n.pkg
  BY DEF Global, TypeName

LEMMA SameName ==
  ASSUME NEW m \in TypeName, NEW n \in TypeName, m.pkg = n.pkg, m.base = n.base
  PROVE  m = n
  <1>1. m = [pkg |-> m.pkg, base |-> m.base] /\ n = [pkg |-> n.pkg, base |-> n.base]
    BY DEF TypeName
  <1> QED
    BY <1>1

LEMMA DefinitionFacts ==
  ASSUME text \in Texts, MapOK, NEW d \in Definitions
  PROVE  /\ MembersOf(d) \in Seq(Line)
         /\ Written(d) \in TypeName
         /\ ScopeOf(d) = IF d = Main THEN text.name.pkg ELSE d.pkg
         /\ d # Main => /\ Written(d) \in Embedded(text)
                        /\ d = Global(Written(d)) /\ d \in TypeName
  <1>1. CASE d = Main
    BY <1>1, TextFacts DEF MembersOf, Written, ScopeOf
  <1>2. CASE d # Main
    <2>1. PICK k \in DOMAIN text.embedded : k = embedded_definition_map_[d]
      BY <1>2 DEF MapOK, Definitions
    <2>2. text.embedded[k] \in [name : TypeName, members : Seq(Line)]
      <3>1. k \in 1..Len(text.embedded)
        BY <2>1, TextFacts, LenProperties
      <3> QED
        BY <3>1, TextFacts, ElementOfSeq
    <2>3. GlobalName(k) = d
      BY <1>2, <2>1 DEF MapOK, Definitions
    <2>4. Written(d) = text.embedded[k].name /\ MembersOf(d) = text.embedded[k].members
      BY <1>2, <2>1 DEF Written, MembersOf
    <2>5. Written(d) \in Embedded(text)
      BY <2>1, <2>4 DEF Embedded
    <2> QED
      BY <1>2, <2>2, <2>3, <2>4, <2>5, GlobalFacts DEF GlobalName, ScopeOf
  <1> QED
    BY <1>1, <1>2

LEMMA MemberFacts ==
  ASSUME text \in Texts, MapOK, NEW d \in Definitions, NEW k \in DOMAIN MembersOf(d)
  PROVE  /\ MembersOf(d)[k] \in Line
         /\ MembersOf(d)[k].type \in TypeName
         /\ TypeOf(d, k) \in TypeName
         /\ k \in Nat /\ k >= 1 /\ k <= Len(MembersOf(d))
  <1>1. MembersOf(d) \in Seq(Line)
    BY DefinitionFacts
  <1>2. k \in 1..Len(MembersOf(d)) /\ Len(MembersOf(d)) \in Nat
    BY <1>1, LenProperties
  <1>3. MembersOf(d)[k] \in Line
    BY <1>1, <1>2, ElementOfSeq
  <1>4. MembersOf(d)[k].type \in TypeName
    BY <1>3 DEF Line
  <1>5. TypeOf(d, k) \in TypeName
    BY <1>4, GlobalFacts DEF TypeOf
  <1>6. k \in Nat /\ k >= 1 /\ k <= Len(MembersOf(d))
    BY <1>2
  <1> QED
    BY <1>3, <1>4, <1>5, <1>6

LEMMA MapFacts ==
  ASSUME text \in Texts, MapOK
  PROVE  /\ DOMAIN embedded_definition_map_ \subseteq TypeName
         /\ Main \notin DOMAIN embedded_definition_map_
  <1> SUFFICES ASSUME NEW n \in DOMAIN embedded_definition_map_ PROVE n \in TypeName
    BY MainAssumption
  <1>1. PICK k \in DOMAIN text.embedded : k = embedded_definition_map_[n]
    BY DEF MapOK
  <1>2. k \in 1..Len(text.embedded)
    BY TextFacts, LenProperties
  <1>3. text.embedded[k] \in [name : TypeName, members : Seq(Line)]
    BY <1>2, TextFacts, ElementOfSeq
  <1>4. n = Global(text.embedded[k].name)
    BY <1>1 DEF MapOK, GlobalName
  <1> QED
    BY <1>3, <1>4, GlobalFacts

\* While the maps stay as they are, so do the definitions and their members.
LEMMA SameDefinitions ==
  ASSUME UNCHANGED <<text, embedded_definition_map_>>
  PROVE  /\ Definitions' = Definitions
         /\ \A d : /\ MembersOf(d)' = MembersOf(d) /\ ScopeOf(d)' = ScopeOf(d)
                   /\ Written(d)' = Written(d)
                   /\ \A k : TypeOf(d, k)' = TypeOf(d, k) /\ (IsObject(d, k)' <=> IsObject(d, k))
                   /\ \A n : Lookup(d, n)' = Lookup(d, n)
         /\ \A n : Known(n)' <=> Known(n)
         /\ \A k : GlobalName(k)' = GlobalName(k)
  BY DEF Definitions, MembersOf, ScopeOf, Written, TypeOf, IsObject, Lookup, Scoped, Known,
         GlobalName

-----------------------------------------------------------------------------
(* What ROS means by a name, and what is found for it.                     *)

LEMMA EmbeddedTyped ==
  ASSUME text \in Texts
  PROVE  Embedded(text) \subseteq TypeName
  <1>1. ASSUME NEW k \in DOMAIN text.embedded
        PROVE  text.embedded[k].name \in TypeName
    <2>1. k \in 1..Len(text.embedded)
      BY TextFacts, LenProperties
    <2>2. text.embedded[k] \in [name : TypeName, members : Seq(Line)]
      BY <2>1, TextFacts, ElementOfSeq
    <2> QED
      BY <2>2
  <1> QED
    BY <1>1 DEF Embedded

\* In an unambiguous text two embedded definitions have different names,
\* std_msgs taken out or not.
LEMMA EmbeddedOnce ==
  ASSUME text \in Texts, Unambiguous(text),
         NEW m \in Embedded(text), NEW n \in Embedded(text), Global(m) = Global(n)
  PROVE  m = n
  <1>1. m \in TypeName /\ n \in TypeName
    BY EmbeddedTyped
  <1>2. m.base = n.base
    BY <1>1, GlobalFacts
  <1>3. CASE m.pkg = "std_msgs" \/ n.pkg = "std_msgs"
    BY <1>2, <1>3 DEF Unambiguous
  <1>4. CASE m.pkg # "std_msgs" /\ n.pkg # "std_msgs"
    <2>1. m.pkg = n.pkg
      BY <1>1, <1>4, GlobalFacts
    <2> QED
      BY <1>1, <1>2, <2>1, SameName
  <1> QED
    BY <1>3, <1>4

\* The type of an object is one that the definition needs.
LEMMA ObjectNeeded ==
  ASSUME text \in Texts, MapOK, Complete(text),
         NEW d \in Definitions, NEW k \in DOMAIN MembersOf(d), IsObject(d, k)
  PROVE  Meant(Written(d).pkg, MembersOf(d)[k].type) \in Embedded(text)
  <1> DEFINE t == MembersOf(d)[k].type
  <1>1. t \in TypeName
    BY MemberFacts
  <1>2. ~IsPrimitive(t)
    <2>1. Global(t).base = t.base /\ (t.pkg = "" => Global(t).pkg = "")
      BY <1>1, GlobalFacts
    <2>2. ~IsPrimitive(Global(t))
      BY DEF IsObject, TypeOf
    <2> QED
      BY <2>1, <2>2 DEF IsPrimitive
  <1>3. ~MembersOf(d)[k].const
    BY DEF IsObject
  <1>4. Meant(Written(d).pkg, t) \in Needs(Written(d).pkg, MembersOf(d))
    BY <1>2, <1>3 DEF Needs
  <1>5. Needs(Written(d).pkg, MembersOf(d)) \subseteq Embedded(text)
    <2>1. CASE d = Main
      BY <2>1 DEF Complete, MembersOf, Written
    <2>2. CASE d # Main
      <3>1. embedded_definition_map_[d] \in DOMAIN text.embedded
        BY <2>2 DEF MapOK, Definitions
      <3> QED
        BY <2>2, <3>1 DEF Complete, MembersOf, Written
    <2> QED
      BY <2>1, <2>2
  <1> QED
    BY <1>4, <1>5

LEMMA Repackaged ==
  ASSUME NEW n \in TypeName, NEW x
  PROVE  /\ [n EXCEPT !.pkg = x] = [pkg |-> x, base |-> n.base]
         /\ n = [pkg |-> n.pkg, base |-> n.base]
  <1>1. PICK p, b : n = [pkg |-> p, base |-> b]
    BY DEF TypeName
  <1>2. n.pkg = p /\ n.base = b
    BY <1>1
  <1>3. [n EXCEPT !.pkg = x] = [pkg |-> x, base |-> b]
    BY <1>1
  <1> QED
    BY <1>1, <1>2, <1>3, Zenon

LEMMA GlobalOf ==
  ASSUME NEW n \in TypeName
  PROVE  Global(n) = IF n.pkg = "std_msgs" THEN [pkg |-> "", base |-> n.base] ELSE n
  BY Repackaged DEF Global

\* The type that ROS means, and how the parser finds it: by the name alone, or
\* by the name in its scope.
MeantAndFound(d, t, n, M) ==
  /\ n = Global(t) /\ t \in TypeName /\ n \in TypeName /\ M.base = t.base
  /\ \/ Global(M) = n /\ (t.pkg # "" \/ M.pkg = "std_msgs")
     \/ n.pkg = "" /\ Global(M) = Scoped(d, n) /\ M.pkg # "std_msgs"

LEMMA MeantByName ==
  ASSUME text \in Texts, MapOK, NEW d \in Definitions, NEW k \in DOMAIN MembersOf(d),
         Meant(Written(d).pkg, MembersOf(d)[k].type) \in TypeName
  PROVE  MeantAndFound(d, MembersOf(d)[k].type, TypeOf(d, k),
                       Meant(Written(d).pkg, MembersOf(d)[k].type))
  <1> SUFFICES ASSUME NEW t, t = MembersOf(d)[k].type, NEW n, n = TypeOf(d, k),
                      NEW M, M = Meant(Written(d).pkg, t), M \in TypeName
               PROVE  MeantAndFound(d, t, n, M)
    OBVIOUS
  <1> USE DEF MeantAndFound
  <1>1. n = Global(t) /\ t \in TypeName /\ n \in TypeName
    BY MemberFacts DEF TypeOf
  <1>2. Written(d) \in TypeName /\ (d # Main => d = Global(Written(d)))
    BY DefinitionFacts
  <1>3. ScopeOf(d) = IF d = Main THEN Written(d).pkg ELSE Global(Written(d)).pkg
    BY <1>2, DefinitionFacts DEF Written
  <1>4. PICK w, b : w = Written(d).pkg /\ b = t.base
    OBVIOUS
  <1>5. CASE t.pkg # ""
    BY <1>1, <1>5 DEF Meant
  <1>6. ASSUME t.pkg = ""
        PROVE  n = t /\ t = [pkg |-> "", base |-> b]
    BY <1>1, <1>4, <1>6, GlobalOf, Repackaged
  <1>7. CASE t.pkg = "" /\ b = "Header"
    <2>1. M = [pkg |-> "std_msgs", base |-> b]
      BY <1>4, <1>7 DEF Meant
    <2>2. M.pkg = "std_msgs" /\ M.base = b
      BY <2>1
    <2>3. Global(M) = [pkg |-> "", base |-> b]
      BY <2>2, GlobalOf
    <2> QED
      BY <1>1, <1>4, <1>6, <1>7, <2>2, <2>3
  <1>8. CASE t.pkg = "" /\ b # "Header"
    <2>1. M = [pkg |-> w, base |-> b]
      BY <1>4, <1>8 DEF Meant
    <2>2. M.pkg = w /\ M.base = b
      BY <2>1
    <2>3. CASE w = "std_msgs"
      <3>1. Global(M) = [pkg |-> "", base |-> b]
        BY <2>2, <2>3, GlobalOf
      <3> QED
        BY <1>1, <1>4, <1>6, <1>8, <2>2, <2>3, <3>1
    <2>4. CASE w # "std_msgs"
      <3>1. ScopeOf(d) = w
        BY <1>2, <1>3, <1>4, <2>4, GlobalFacts
      <3>2. Global(M) = M
        BY <2>2, <2>4, GlobalOf
      <3>3. n.base = b /\ n.pkg = ""
        BY <1>4, <1>6, <1>8
      <3>4. Scoped(d, n) = [pkg |-> w, base |-> b]
        BY <1>1, <3>1, <3>3, Repackaged DEF Scoped
      <3> QED
        BY <1>1, <1>4, <2>1, <2>2, <2>4, <3>2, <3>3, <3>4
    <2> QED
      BY <2>3, <2>4
  <1> QED
    BY <1>5, <1>7, <1>8

\* Nothing that a complete text needs is missing.
LEMMA NeededFound ==
  ASSUME text \in Texts, MapOK, status = "resolving", Complete(text),
         NEW d \in Definitions, NEW k \in DOMAIN MembersOf(d), IsObject(d, k)
  PROVE  LET n == TypeOf(d, k) IN Known(n) \/ (n.pkg = "" /\ Known(Scoped(d, n)))
  <1>1. PICK M : M = Meant(Written(d).pkg, MembersOf(d)[k].type)
    OBVIOUS
  <1>2. M \in Embedded(text) /\ M \in TypeName
    BY <1>1, ObjectNeeded, EmbeddedTyped
  <1>3. Known(Global(M))
    BY <1>2 DEF MapOK, GlobalName, Embedded
  <1>4. MeantAndFound(d, MembersOf(d)[k].type, TypeOf(d, k), M)
    BY <1>1, <1>2, MeantByName
  <1> QED
    BY <1>3, <1>4 DEF MeantAndFound

\* What is found for a field of a complete and unambiguous text is meant.
LEMMA FoundIsMeant ==
  ASSUME text \in Texts, MapOK, Complete(text), Unambiguous(text),
         NEW d \in Definitions, NEW k \in DOMAIN MembersOf(d), IsObject(d, k),
         \A j \in DOMAIN text.embedded : Known(GlobalName(j)),
         Known(Lookup(d, TypeOf(d, k)))
  PROVE  Written(Lookup(d, TypeOf(d, k))) = Meant(Written(d).pkg, MembersOf(d)[k].type)
  <1>1. PICK t, n, M, D : /\ t = MembersOf(d)[k].type /\ n = TypeOf(d, k)
                          /\ M = Meant(Written(d).pkg, t) /\ D = Lookup(d, n)
    OBVIOUS
  <1>2. M \in Embedded(text) /\ M \in TypeName
    BY <1>1, ObjectNeeded, EmbeddedTyped
  <1>3. Known(Global(M))
    BY <1>2 DEF GlobalName, Embedded
  <1>4. /\ n = Global(t) /\ t \in TypeName /\ n \in TypeName /\ M.base = t.base
        /\ \/ Global(M) = n /\ (t.pkg # "" \/ M.pkg = "std_msgs")
           \/ n.pkg = "" /\ Global(M) = Scoped(d, n) /\ M.pkg # "std_msgs"
    <2>1. MeantAndFound(d, t, n, M)
      BY <1>1, <1>2, MeantByName
    <2> QED
      BY <2>1 DEF MeantAndFound
  <1>5. Scoped(d, n).base = n.base /\ n.base = M.base
    <2>1. Scoped(d, n) = [pkg |-> ScopeOf(d), base |-> n.base]
      BY <1>4, Repackaged DEF Scoped
    <2>2. n.base = t.base
      BY <1>4, GlobalFacts
    <2>3. Scoped(d, n).base = n.base
      BY <2>1
    <2> QED
      BY <1>4, <2>2, <2>3
  <1>6. ASSUME NEW x, Known(x)
        PROVE  Written(x) \in Embedded(text) /\ x = Global(Written(x)) /\ Written(x) \in TypeName
    <2>1. x \in Definitions /\ x # Main
      BY <1>6, MapFacts DEF Definitions, Known
    <2> QED
      BY <2>1, DefinitionFacts
  <1>7. D = Global(M)
    <2>1. CASE n.pkg = "" /\ Known(Scoped(d, n))
      <3>1. D = Scoped(d, n)
        BY <1>1, <2>1 DEF Lookup
      <3>2. PICK e : e = Written(Scoped(d, n))
        OBVIOUS
      <3>3. e \in Embedded(text) /\ Scoped(d, n) = Global(e) /\ e \in TypeName
        BY <1>6, <2>1, <3>2
      <3>4. e.base = M.base
        BY <1>5, <3>3, GlobalFacts
      <3>5. CASE Global(M) = n /\ (t.pkg # "" \/ M.pkg = "std_msgs")
        <4>1. M.pkg = "std_msgs"
          <5>1. CASE t.pkg # ""
            <6>1. M = t
              BY <1>1, <5>1 DEF Meant
            <6> QED
              BY <1>4, <2>1, <5>1, <6>1, GlobalFacts
          <5> QED
            BY <3>5, <5>1
        <4>2. e = M
          BY <1>2, <3>3, <3>4, <4>1 DEF Unambiguous
        <4> QED
          BY <3>1, <3>3, <4>2
      <3>6. CASE n.pkg = "" /\ Global(M) = Scoped(d, n)
        BY <3>1, <3>6
      <3> QED
        BY <1>4, <3>5, <3>6
    <2>2. CASE ~(n.pkg = "" /\ Known(Scoped(d, n)))
      <3>1. D = n
        BY <1>1, <2>2 DEF Lookup
      <3> QED
        BY <1>3, <1>4, <2>2, <3>1
    <2> QED
      BY <2>1, <2>2
  <1>8. Known(D)
    BY <1>1
  <1>9. Written(D) \in Embedded(text) /\ Global(Written(D)) = Global(M)
    BY <1>6, <1>7, <1>8
  <1>10. Written(D) = M
    BY <1>2, <1>9, EmbeddedOnce
  <1> QED
    BY <1>1, <1>10

-----------------------------------------------------------------------------
(* The steps.                                                              *)

LEMMA InitOK == Init => Inv
  <1> SUFFICES ASSUME Init PROVE Inv
    OBVIOUS
  <1>1. /\ text \in Texts /\ DOMAIN embedded_definition_map_ = {} /\ todo = {}
        /\ DOMAIN type_definition_ = {} /\ at = [def |-> Main, member |-> 1] /\ status = "text"
    BY DEF Init
  <1>2. Definitions = {Main}
    BY <1>1 DEF Definitions
  <1>3. MembersOf(Main) \in Seq(Line) /\ Len(MembersOf(Main)) \in Nat
    BY <1>1, TextFacts, LenProperties DEF MembersOf
  <1>4. MapOK /\ StatusOK /\ ResolvedOK /\ CompleteAccepted
    BY <1>1 DEF MapOK, StatusOK, ResolvedOK, CompleteAccepted
  <1>5. at.def = Main /\ at.member = 1 /\ at \in [def : Definitions, member : Nat \ {0}]
    BY <1>1, <1>2
  <1>6. ProgressOK
    BY <1>1, <1>3, <1>5 DEF ProgressOK
  <1>7. PassedOK
    <2> SUFFICES ASSUME NEW k \in DOMAIN MembersOf(Main), k < 1 PROVE FALSE
      BY <1>2, <1>5 DEF PassedOK
    <2>1. k \in 1..Len(MembersOf(Main))
      BY <1>3, LenProperties
    <2> QED
      BY <2>1
  <1> QED
    BY <1>1, <1>4, <1>6, <1>7 DEF Inv

LEMMA ParseFailsStep == Inv /\ ParseFails => Inv'
  <1> SUFFICES ASSUME Inv, ParseFails PROVE Inv'
    OBVIOUS
  <1>1. /\ UNCHANGED <<text, embedded_definition_map_, type_definition_, todo, at>>
        /\ status' = "thrown" /\ ~Parses(text)
    BY DEF ParseFails
  <1>2. /\ Definitions' = Definitions
        /\ \A d : /\ MembersOf(d)' = MembersOf(d)
                  /\ \A k : TypeOf(d, k)' = TypeOf(d, k) /\ (IsObject(d, k)' <=> IsObject(d, k))
                  /\ \A n : Lookup(d, n)' = Lookup(d, n)
        /\ \A n : Known(n)' <=> Known(n)
        /\ \A k : GlobalName(k)' = GlobalName(k)
    BY <1>1, SameDefinitions
  <1>3. MapOK' /\ StatusOK'
    BY <1>1, <1>2 DEF Inv, MapOK, StatusOK
  <1>4. ProgressOK' /\ PassedOK' /\ ResolvedOK'
    BY <1>1, <1>2 DEF Inv, ProgressOK, PassedOK, ResolvedOK
  <1>5. CompleteAccepted'
    BY <1>1 DEF CompleteAccepted, Parses
  <1> QED
    BY <1>1, <1>3, <1>4, <1>5 DEF Inv

\* Every embedded definition gets an entry, under its name without std_msgs.
LEMMA EmplaceAllStep == Inv /\ EmplaceAll => Inv'
  <1> SUFFICES ASSUME Inv, EmplaceAll PROVE Inv'
    OBVIOUS
  <1> DEFINE Named(n) == {k \in DOMAIN text.embedded : GlobalName(k) = n}
             names == {GlobalName(k) : k \in DOMAIN text.embedded}
  <1>1. /\ status = "text" /\ status' = "resolving" /\ UNCHANGED <<text, type_definition_, at>>
        /\ embedded_definition_map_' =
             [n \in names |-> CHOOSE k \in Named(n) : \A j \in Named(n) : k <= j]
        /\ todo' = names
    BY DEF EmplaceAll, GlobalName
  <1>2. /\ text \in Texts /\ at = [def |-> Main, member |-> 1]
        /\ DOMAIN type_definition_ = {} /\ DOMAIN embedded_definition_map_ = {}
    BY <1>1 DEF Inv, StatusOK, ProgressOK
  <1>3. ASSUME NEW n \in names
        PROVE  embedded_definition_map_'[n] \in Named(n)
    <2>1. Named(n) # {}
      OBVIOUS
    <2>2. Named(n) \in SUBSET Nat
      <3>1. DOMAIN text.embedded = 1..Len(text.embedded) /\ Len(text.embedded) \in Nat
        BY <1>2, TextFacts, LenProperties
      <3> QED
        BY <3>1
    <2>3. \E k \in Named(n) : \A j \in Named(n) : k <= j
      BY <2>1, <2>2, LeastExists
    <2>4. embedded_definition_map_'[n] = CHOOSE k \in Named(n) : \A j \in Named(n) : k <= j
      BY <1>1
    <2> HIDE DEF Named
    <2> QED
      BY <2>3, <2>4
  <1>4. \A k : GlobalName(k)' = GlobalName(k)
    BY <1>1 DEF GlobalName
  <1>5. DOMAIN embedded_definition_map_' = names
    BY <1>1
  <1>6. \A n \in names : /\ embedded_definition_map_'[n] \in DOMAIN text.embedded
                         /\ GlobalName(embedded_definition_map_'[n]) = n
    BY <1>3
  <1>7. \A k \in DOMAIN text.embedded : GlobalName(k) \in names
    OBVIOUS
  <1> HIDE DEF names, Named
  <1>8. MapOK'
    BY <1>1, <1>4, <1>5, <1>6, <1>7 DEF MapOK, Known
  <1>9. Main \notin names
    <2>1. ASSUME NEW k \in DOMAIN text.embedded PROVE GlobalName(k) \in TypeName
      <3>1. text.embedded[k].name \in Embedded(text)
        BY DEF Embedded
      <3> QED
        BY <1>2, <3>1, EmbeddedTyped, GlobalFacts DEF GlobalName
    <2> QED
      BY <2>1, MainAssumption DEF names
  <1>10. Definitions' = names \cup {Main}
    BY <1>5 DEF Definitions
  <1>11. MembersOf(Main)' = text.members /\ Len(text.members) \in Nat
         /\ DOMAIN text.members = 1..Len(text.members)
    BY <1>1, <1>2, TextFacts, LenProperties DEF MembersOf
  <1>12. at' = at /\ at.def = Main /\ at.member = 1
    BY <1>1, <1>2
  <1>13. ProgressOK'
    <2>1. (at \in [def : Definitions, member : Nat \ {0}])'
      BY <1>1, <1>2, <1>10
    <2>2. (at.member <= Len(MembersOf(at.def)) + 1)'
      BY <1>11, <1>12
    <2>3. todo' \subseteq DOMAIN embedded_definition_map_' \ {at'.def}
      BY <1>1, <1>5, <1>9, <1>12
    <2> QED
      BY <1>1, <1>2, <2>1, <2>2, <2>3 DEF ProgressOK
  <1>14. PassedOK'
    <2> SUFFICES ASSUME NEW d \in Definitions' \ todo', NEW k \in DOMAIN MembersOf(d)',
                        d = at'.def => k < at'.member
                 PROVE  FALSE
      BY DEF PassedOK
    <2>1. d = Main
      BY <1>1, <1>10
    <2>2. k \in 1..Len(text.members) /\ k < 1
      BY <1>11, <1>12, <2>1
    <2> QED
      BY <2>2
  <1>15. ResolvedOK' /\ StatusOK' /\ CompleteAccepted'
    BY <1>1, <1>2 DEF ResolvedOK, StatusOK, CompleteAccepted
  <1> QED
    BY <1>1, <1>2, <1>8, <1>13, <1>14, <1>15 DEF Inv

\* A step over members leaves the maps of names alone.
LEMMA MembersStay ==
  ASSUME Inv, status = "resolving", UNCHANGED <<text, embedded_definition_map_>>,
         status' \in {"resolving", "done"}
  PROVE  /\ (text \in Texts)' /\ MapOK' /\ StatusOK' /\ CompleteAccepted'
         /\ Definitions' = Definitions
         /\ \A d : /\ MembersOf(d)' = MembersOf(d)
                   /\ \A k : TypeOf(d, k)' = TypeOf(d, k) /\ (IsObject(d, k)' <=> IsObject(d, k))
                   /\ \A n : Lookup(d, n)' = Lookup(d, n)
         /\ \A n : Known(n)' <=> Known(n)
  <1>1. /\ Definitions' = Definitions
        /\ \A d : /\ MembersOf(d)' = MembersOf(d)
                  /\ \A k : TypeOf(d, k)' = TypeOf(d, k) /\ (IsObject(d, k)' <=> IsObject(d, k))
                  /\ \A n : Lookup(d, n)' = Lookup(d, n)
        /\ \A n : Known(n)' <=> Known(n)
        /\ \A k : GlobalName(k)' = GlobalName(k)
    BY SameDefinitions
  <1>2. MapOK'
    BY <1>1 DEF Inv, MapOK
  <1>3. StatusOK' /\ CompleteAccepted'
    BY DEF StatusOK, CompleteAccepted
  <1> QED
    BY <1>1, <1>2, <1>3 DEF Inv

\* The member that a definition is at, and the one after it.
LEMMA MemberPassed ==
  ASSUME Inv, AtMember, at' = AfterMember, UNCHANGED <<text, embedded_definition_map_, todo, status>>
  PROVE  /\ at.def \in Definitions /\ at.member \in DOMAIN MembersOf(at.def)
         /\ at = [def |-> at.def, member |-> at.member]
         /\ at'.def = at.def /\ at'.member = at.member + 1
         /\ ProgressOK'
  <1>1. /\ at \in [def : Definitions, member : Nat \ {0}] /\ status = "resolving"
        /\ at.member <= Len(MembersOf(at.def)) /\ text \in Texts /\ MapOK
        /\ todo \subseteq DOMAIN embedded_definition_map_ \ {at.def}
    BY DEF Inv, ProgressOK, AtMember
  <1>2. PICK d, k : at = [def |-> d, member |-> k] /\ d = at.def /\ k = at.member
    BY <1>1
  <1>3. d \in Definitions /\ k \in Nat \ {0}
    BY <1>1, <1>2
  <1>4. at' = [def |-> d, member |-> k + 1]
    BY <1>2 DEF AfterMember
  <1>5. at'.def = d /\ at'.member = k + 1 /\ k + 1 \in Nat \ {0}
    BY <1>3, <1>4
  <1>6. DOMAIN MembersOf(d) = 1..Len(MembersOf(d)) /\ Len(MembersOf(d)) \in Nat
    BY <1>1, <1>3, DefinitionFacts, LenProperties
  <1>7. k \in DOMAIN MembersOf(d)
    BY <1>1, <1>2, <1>3, <1>6
  <1>8. Definitions' = Definitions /\ MembersOf(d)' = MembersOf(d)
    BY SameDefinitions
  <1>9. (at \in [def : Definitions, member : Nat \ {0}])'
    BY <1>3, <1>4, <1>5, <1>8
  <1>10. (at.member <= Len(MembersOf(at.def)) + 1)'
    BY <1>1, <1>2, <1>3, <1>5, <1>6, <1>8
  <1>11. ProgressOK'
    BY <1>1, <1>2, <1>5, <1>9, <1>10 DEF ProgressOK
  <1> QED
    BY <1>2, <1>3, <1>5, <1>7, <1>11

LEMMA SkipMemberStep == Inv /\ SkipMember => Inv'
  <1> SUFFICES ASSUME Inv, SkipMember PROVE Inv'
    OBVIOUS
  <1>1. /\ AtMember /\ ~IsObject(at.def, at.member) /\ at' = AfterMember
        /\ UNCHANGED <<text, embedded_definition_map_, type_definition_, todo, status>>
        /\ status = "resolving"
    BY DEF SkipMember, AtMember
  <1>2. /\ (text \in Texts)' /\ MapOK' /\ StatusOK' /\ CompleteAccepted'
        /\ Definitions' = Definitions
        /\ \A d : /\ MembersOf(d)' = MembersOf(d)
                  /\ \A k : TypeOf(d, k)' = TypeOf(d, k) /\ (IsObject(d, k)' <=> IsObject(d, k))
                  /\ \A n : Lookup(d, n)' = Lookup(d, n)
        /\ \A n : Known(n)' <=> Known(n)
    BY <1>1, MembersStay
  <1>3. at.member \in Nat /\ at'.def = at.def /\ at'.member = at.member + 1 /\ ProgressOK'
    BY <1>1, MemberPassed DEF Inv, ProgressOK
  <1>4. ResolvedOK'
    BY <1>1, <1>2 DEF Inv, ResolvedOK
  <1>5. PassedOK'
    <2> SUFFICES ASSUME NEW d \in Definitions \ todo, NEW k \in DOMAIN MembersOf(d),
                        IsObject(d, k), d = at.def => k < at.member + 1
                 PROVE  [def |-> d, member |-> k] \in DOMAIN type_definition_
      BY <1>1, <1>2, <1>3 DEF PassedOK
    <2>1. k \in Nat
      BY MemberFacts DEF Inv
    <2>2. d = at.def => k < at.member
      BY <1>1, <1>3, <2>1
    <2> QED
      BY <2>2 DEF Inv, PassedOK
  <1> QED
    BY <1>2, <1>3, <1>4, <1>5 DEF Inv

\* The definition that is set is the one that was looked up.
LEMMA SetTypeDefinitionStep == Inv /\ SetTypeDefinition => Inv'
  <1> SUFFICES ASSUME Inv, SetTypeDefinition PROVE Inv'
    OBVIOUS
  <1> DEFINE name == TypeOf(at.def, at.member)
  <1>1. /\ AtMember /\ IsObject(at.def, at.member) /\ at' = AfterMember
        /\ Known(name) \/ FoundInScope(name)
        /\ type_definition_' =
             [field \in DOMAIN type_definition_ \cup {at} |->
                IF field = at THEN Definition(name) ELSE type_definition_[field]]
        /\ UNCHANGED <<text, embedded_definition_map_, todo, status>>
        /\ status = "resolving"
    BY DEF SetTypeDefinition, AtMember
  <1>2. /\ (text \in Texts)' /\ MapOK' /\ StatusOK' /\ CompleteAccepted'
        /\ Definitions' = Definitions
        /\ \A d : /\ MembersOf(d)' = MembersOf(d)
                  /\ \A k : TypeOf(d, k)' = TypeOf(d, k) /\ (IsObject(d, k)' <=> IsObject(d, k))
                  /\ \A n : Lookup(d, n)' = Lookup(d, n)
        /\ \A n : Known(n)' <=> Known(n)
    BY <1>1, MembersStay
  <1>3. /\ at.member \in Nat /\ at'.def = at.def /\ at'.member = at.member + 1 /\ ProgressOK'
        /\ at.def \in Definitions /\ at.member \in DOMAIN MembersOf(at.def)
        /\ at = [def |-> at.def, member |-> at.member]
    BY <1>1, MemberPassed DEF Inv, ProgressOK
  <1>4. Definition(name) = Lookup(at.def, name) /\ Known(Definition(name))
    BY <1>1 DEF Definition, FoundInScope, InScope, Lookup, Scoped
  <1>5. /\ DOMAIN type_definition_' = DOMAIN type_definition_ \cup {at}
        /\ type_definition_'[at] = Definition(name)
        /\ \A f \in DOMAIN type_definition_ : f # at => type_definition_'[f] = type_definition_[f]
    BY <1>1
  <1>6. ResolvedOK'
    <2> SUFFICES ASSUME NEW f \in DOMAIN type_definition_ \cup {at}
                 PROVE  /\ f.def \in Definitions
                        /\ f.member \in DOMAIN MembersOf(f.def)
                        /\ IsObject(f.def, f.member)
                        /\ Known(type_definition_'[f])
                        /\ type_definition_'[f] = Lookup(f.def, TypeOf(f.def, f.member))
      BY <1>2, <1>5 DEF ResolvedOK
    <2>1. CASE f = at
      BY <1>1, <1>3, <1>4, <1>5, <2>1
    <2>2. CASE f # at
      BY <1>5, <2>2 DEF Inv, ResolvedOK
    <2> QED
      BY <2>1, <2>2
  <1>7. PassedOK'
    <2> SUFFICES ASSUME NEW d \in Definitions \ todo, NEW k \in DOMAIN MembersOf(d),
                        IsObject(d, k), d = at.def => k < at.member + 1
                 PROVE  [def |-> d, member |-> k] \in DOMAIN type_definition_'
      BY <1>1, <1>2, <1>3 DEF PassedOK
    <2>1. k \in Nat
      BY MemberFacts DEF Inv
    <2>2. CASE d = at.def /\ k = at.member
      BY <1>3, <1>5, <2>2
    <2>3. CASE ~(d = at.def /\ k = at.member)
      <3>1. d = at.def => k < at.member
        BY <1>3, <2>1, <2>3
      <3> QED
        BY <1>5, <3>1 DEF Inv, PassedOK
    <2> QED
      BY <2>2, <2>3
  <1> QED
    BY <1>2, <1>3, <1>6, <1>7 DEF Inv

\* A complete text never comes to this.
LEMMA NotFoundStep == Inv /\ NotFound => Inv'
  <1> SUFFICES ASSUME Inv, NotFound PROVE Inv'
    OBVIOUS
  <1> DEFINE name == TypeOf(at.def, at.member)
  <1>1. /\ status = "resolving" /\ at.member <= Len(MembersOf(at.def))
        /\ IsObject(at.def, at.member) /\ ~Known(name) /\ ~FoundInScope(name)
        /\ status' = "thrown"
        /\ UNCHANGED <<text, embedded_definition_map_, type_definition_, todo, at>>
    BY DEF NotFound, AtMember
  <1>2. /\ Definitions' = Definitions
        /\ \A d : /\ MembersOf(d)' = MembersOf(d)
                  /\ \A k : TypeOf(d, k)' = TypeOf(d, k) /\ (IsObject(d, k)' <=> IsObject(d, k))
                  /\ \A n : Lookup(d, n)' = Lookup(d, n)
        /\ \A n : Known(n)' <=> Known(n)
        /\ \A k : GlobalName(k)' = GlobalName(k)
    BY <1>1, SameDefinitions
  <1>3. MapOK' /\ StatusOK'
    BY <1>1, <1>2 DEF Inv, MapOK, StatusOK
  <1>4. ProgressOK' /\ PassedOK' /\ ResolvedOK'
    BY <1>1, <1>2 DEF Inv, ProgressOK, PassedOK, ResolvedOK
  <1>5. at.def \in Definitions /\ at.member \in DOMAIN MembersOf(at.def)
    <2>1. at.def \in Definitions /\ at.member \in Nat \ {0}
      BY DEF Inv, ProgressOK
    <2>2. DOMAIN MembersOf(at.def) = 1..Len(MembersOf(at.def)) /\ Len(MembersOf(at.def)) \in Nat
      BY <2>1, DefinitionFacts, LenProperties DEF Inv
    <2> QED
      BY <1>1, <2>1, <2>2
  <1>6. ~Complete(text)
    BY <1>1, <1>5, NeededFound DEF Inv, FoundInScope, InScope, Scoped
  <1>7. CompleteAccepted'
    BY <1>1, <1>6 DEF CompleteAccepted, Complete
  <1> QED
    BY <1>1, <1>3, <1>4, <1>7 DEF Inv

LEMMA NextDefinitionStep == Inv /\ NextDefinition => Inv'
  <1> SUFFICES ASSUME Inv, NextDefinition PROVE Inv'
    OBVIOUS
  <1>1. PICK e \in todo : /\ at' = [def |-> e, member |-> 1] /\ todo' = todo \ {e}
                          /\ UNCHANGED <<text, embedded_definition_map_, type_definition_, status>>
    BY DEF NextDefinition
  <1>2. status = "resolving" /\ at.member > Len(MembersOf(at.def))
    <2>1. at.def \in Definitions /\ at.member \in Nat
      BY DEF Inv, ProgressOK
    <2>2. Len(MembersOf(at.def)) \in Nat
      BY <2>1, DefinitionFacts, LenProperties DEF Inv
    <2> QED
      BY <2>1, <2>2 DEF NextDefinition, AllMembers, AtMember
  <1>3. /\ (text \in Texts)' /\ MapOK' /\ StatusOK' /\ CompleteAccepted'
        /\ Definitions' = Definitions
        /\ \A d : /\ MembersOf(d)' = MembersOf(d)
                  /\ \A k : TypeOf(d, k)' = TypeOf(d, k) /\ (IsObject(d, k)' <=> IsObject(d, k))
                  /\ \A n : Lookup(d, n)' = Lookup(d, n)
        /\ \A n : Known(n)' <=> Known(n)
    BY <1>1, <1>2, MembersStay
  <1>4. e \in Definitions /\ todo \subseteq DOMAIN embedded_definition_map_
    BY <1>1 DEF Inv, ProgressOK, Definitions
  <1>5. at'.def = e /\ at'.member = 1
    BY <1>1
  <1>6. Len(MembersOf(e)) \in Nat /\ MembersOf(e)' = MembersOf(e)
    BY <1>3, <1>4, DefinitionFacts, LenProperties DEF Inv
  <1>7. ProgressOK'
    <2>1. (at \in [def : Definitions, member : Nat \ {0}])'
      BY <1>1, <1>3, <1>4
    <2>2. (at.member <= Len(MembersOf(at.def)) + 1)'
      BY <1>5, <1>6
    <2> QED
      BY <1>1, <1>2, <1>4, <1>5, <2>1, <2>2 DEF ProgressOK
  <1>8. ResolvedOK'
    BY <1>1, <1>3 DEF Inv, ResolvedOK
  <1>9. PassedOK'
    <2> SUFFICES ASSUME NEW d \in Definitions \ (todo \ {e}), NEW k \in DOMAIN MembersOf(d),
                        IsObject(d, k), d = e => k < 1
                 PROVE  [def |-> d, member |-> k] \in DOMAIN type_definition_
      BY <1>1, <1>3, <1>5 DEF PassedOK
    <2>1. k \in Nat /\ k >= 1 /\ k <= Len(MembersOf(d))
      BY MemberFacts DEF Inv
    <2>2. d # e
      BY <2>1
    <2>3. d = at.def => k < at.member
      <3>1. at.member \in Nat
        BY DEF Inv, ProgressOK
      <3>2. Len(MembersOf(d)) \in Nat
        BY DefinitionFacts, LenProperties DEF Inv
      <3> QED
        BY <1>2, <2>1, <3>1, <3>2
    <2> QED
      BY <2>2, <2>3 DEF Inv, PassedOK
  <1> QED
    BY <1>3, <1>7, <1>8, <1>9 DEF Inv

LEMMA DoneStep == Inv /\ Done => Inv'
  <1> SUFFICES ASSUME Inv, Done PROVE Inv'
    OBVIOUS
  <1>1. /\ todo = {} /\ status' = "done"
        /\ UNCHANGED <<text, embedded_definition_map_, type_definition_, todo, at>>
    BY DEF Done
  <1>2. status = "resolving" /\ at.member > Len(MembersOf(at.def))
    <2>1. at.def \in Definitions /\ at.member \in Nat
      BY DEF Inv, ProgressOK
    <2>2. Len(MembersOf(at.def)) \in Nat
      BY <2>1, DefinitionFacts, LenProperties DEF Inv
    <2> QED
      BY <2>1, <2>2 DEF Done, AllMembers, AtMember
  <1>3. /\ (text \in Texts)' /\ MapOK' /\ StatusOK' /\ CompleteAccepted'
        /\ Definitions' = Definitions
        /\ \A d : /\ MembersOf(d)' = MembersOf(d)
                  /\ \A k : TypeOf(d, k)' = TypeOf(d, k) /\ (IsObject(d, k)' <=> IsObject(d, k))
                  /\ \A n : Lookup(d, n)' = Lookup(d, n)
        /\ \A n : Known(n)' <=> Known(n)
    BY <1>1, <1>2, MembersStay
  <1>4. ProgressOK' /\ PassedOK' /\ ResolvedOK'
    BY <1>1, <1>2, <1>3 DEF Inv, ProgressOK, PassedOK, ResolvedOK
  <1> QED
    BY <1>3, <1>4 DEF Inv

LEMMA StepKeepsInv == Inv /\ [Next]_vars => Inv'
  <1> SUFFICES ASSUME Inv, [Next]_vars PROVE Inv'
    OBVIOUS
  <1>1. CASE UNCHANGED vars
    <2>1. /\ UNCHANGED <<text, embedded_definition_map_, type_definition_, todo, at, status>>
      BY <1>1 DEF vars
    <2>2. /\ Definitions' = Definitions
          /\ \A d : /\ MembersOf(d)' = MembersOf(d)
                    /\ \A k : TypeOf(d, k)' = TypeOf(d, k) /\ (IsObject(d, k)' <=> IsObject(d, k))
                    /\ \A n : Lookup(d, n)' = Lookup(d, n)
          /\ \A n : Known(n)' <=> Known(n)
          /\ \A k : GlobalName(k)' = GlobalName(k)
      BY <2>1, SameDefinitions
    <2>3. MapOK' /\ StatusOK' /\ ProgressOK'
      BY <2>1, <2>2 DEF Inv, MapOK, StatusOK, ProgressOK
    <2>4. PassedOK' /\ ResolvedOK' /\ CompleteAccepted'
      BY <2>1, <2>2 DEF Inv, PassedOK, ResolvedOK, CompleteAccepted
    <2> QED
      BY <2>1, <2>3, <2>4 DEF Inv
  <1> QED
    BY <1>1, ParseFailsStep, EmplaceAllStep, SkipMemberStep, SetTypeDefinitionStep,
       NotFoundStep, NextDefinitionStep, DoneStep DEF Next

LEMMA ParserSound == Spec => []Inv
  BY InitOK, StepKeepsInv, PTL DEF Spec

-----------------------------------------------------------------------------
(* The theorems.                                                           *)

\* Pointers lead to definitions of the text, and the parser stays at a member.
THEOREM TypeCorrect == Spec => []TypeOK
  <1>1. Inv => TypeOK
    <2> SUFFICES ASSUME Inv PROVE TypeOK
      OBVIOUS
    <2>1. \A n \in DOMAIN embedded_definition_map_ :
            n \in TypeName /\ embedded_definition_map_[n] \in DOMAIN text.embedded
      BY MapFacts DEF Inv, MapOK
    <2>2. /\ at.def \in Definitions /\ at.member \in Nat \ {0}
          /\ at.member <= Len(MembersOf(at.def)) + 1
          /\ todo \subseteq DOMAIN embedded_definition_map_
      BY DEF Inv, ProgressOK
    <2>3. Len(MembersOf(at.def)) \in Nat
      BY <2>2, DefinitionFacts, LenProperties DEF Inv
    <2>4. at.member \in 1..Len(MembersOf(at.def)) + 1
      BY <2>2, <2>3
    <2> QED
      BY <2>1, <2>2, <2>4 DEF TypeOK, Inv, ResolvedOK, StatusOK
  <1> QED
    BY <1>1, ParserSound, PTL

\* When a definition is handed out, every field of an embedded type has its
\* definition, for the parser to follow (ros_msg_types.h, typeDefinition).
THEOREM NoneForgotten == Spec => []NoFieldForgotten
  <1>1. Inv => NoFieldForgotten
    <2> SUFFICES ASSUME Inv, status = "done",
                        NEW d \in Definitions, NEW k \in DOMAIN MembersOf(d), IsObject(d, k)
                 PROVE  [def |-> d, member |-> k] \in DOMAIN type_definition_
      BY DEF NoFieldForgotten
    <2>1. todo = {} /\ at.member > Len(MembersOf(at.def)) /\ at.member \in Nat
      BY DEF Inv, ProgressOK
    <2>2. k \in Nat /\ k <= Len(MembersOf(d)) /\ Len(MembersOf(d)) \in Nat
      BY MemberFacts, DefinitionFacts, LenProperties DEF Inv
    <2> QED
      BY <2>1, <2>2 DEF Inv, PassedOK
  <1> QED
    BY <1>1, ParserSound, PTL

\* Each field gets the definition that ROS means by the name of its type, as
\* long as no name of std_msgs is used twice (ros_msg_types.h,
\* setTypeDefinition).
THEOREM ResolvedRight == Spec => []ResolvedAsMeant
  <1>1. Inv => ResolvedAsMeant
    <2> SUFFICES ASSUME Inv, status = "done", Complete(text), Unambiguous(text),
                        NEW f \in DOMAIN type_definition_
                 PROVE  Written(type_definition_[f]) =
                          Meant(Written(f.def).pkg, MembersOf(f.def)[f.member].type)
      BY DEF ResolvedAsMeant
    <2>1. \A j \in DOMAIN text.embedded : Known(GlobalName(j))
      BY DEF Inv, MapOK
    <2>2. /\ f.def \in Definitions /\ f.member \in DOMAIN MembersOf(f.def)
          /\ IsObject(f.def, f.member)
          /\ Known(type_definition_[f])
          /\ type_definition_[f] = Lookup(f.def, TypeOf(f.def, f.member))
      BY DEF Inv, ResolvedOK
    <2> QED
      BY <2>1, <2>2, FoundIsMeant DEF Inv
  <1> QED
    BY <1>1, ParserSound, PTL

\* parseMsgDef throws only for a text that lacks a definition it needs, or
\* has one without members.
THEOREM CompleteIsAccepted == Spec => []CompleteAccepted
  <1>1. Inv => CompleteAccepted
    BY DEF Inv
  <1> QED
    BY <1>1, ParserSound, PTL

=============================================================================
