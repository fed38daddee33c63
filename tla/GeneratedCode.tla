---------------------------- MODULE GeneratedCode ----------------------------
(***************************************************************************)
(* What the functions do that formatter.c writes for a type: Create, Set,  *)
(* Add, Sax_Serialize and Deserialize, and a program that uses them. The   *)
(* Call* files of wsdl2c and Enumeration.c of xsd2c are such code.         *)
(*                                                                         *)
(* An object maps the fields of its type to sequences: << >> is NULL, a    *)
(* list its values. An element of the XML text has a name, attributes, a   *)
(* text ("" is none) and elements. What a callback does with the events of *)
(* the writer, and libxml2 with the text, is left out.                     *)
(***************************************************************************)
EXTENDS Wsdl2c

CONSTANT MaxSets          \* how often the program changes its object

VARIABLES
  app,       \* what the program is doing: "", "fill", "wrote", "read", "crashed"
  type,      \* the type it uses
  object,    \* the object it has filled in
  xml,       \* what Sax_Serialize made of it
  back       \* what Deserialize made of that: << >> or an object

appVars == <<app, type, object, xml, back>>

FieldNames(name) == {f.name : f \in FieldsOf(TypeNamed(name))}
Field(name, field) == CHOOSE f \in FieldsOf(TypeNamed(name)) : f.name = field
Element(name, attrs, text, elements) == [name |-> name, attrs |-> attrs, text |-> text, elements |-> elements]

IsText(local) == local = "string"
IsInt(local) == local \in {"int", "integer"}
IsFloat(local) == local \in {"float", "double"}

\* writeCodeFieldInitialize
Default(f) ==
  LET local == Local(f.type)
  IN  CASE IsList(f) -> << >>
        [] ~IsList(f) /\ (IsInt(local) \/ local = "boolean") -> <<0>>
        [] ~IsList(f) /\ IsFloat(local) -> <<"0.0">>
        [] OTHER -> << >>

Create(name) == [field \in FieldNames(name) |-> Default(Field(name, field))]
Set(obj, field, value) == [obj EXCEPT ![field] = value]
Add(obj, field, value) == [obj EXCEPT ![field] = @ \o value]

-----------------------------------------------------------------------------
(* Writing. A float is written with six decimals.                          *)
FloatText == "0.0" :> "0.000000" @@ "0.5" :> "0.500000" @@ "1e-9" :> "0.000000"

LeafText(f, value) ==
  LET local == Local(f.type)
  IN  CASE IsText(local) -> IF value = << >> THEN "" ELSE value[1]
        [] IsInt(local) -> ToString(value[1])
        [] IsFloat(local) -> FloatText[value[1]]
        [] OTHER -> ""

RECURSIVE Sax_Serialize(_, _, _)

SaxField(f, value) ==
  IF trGetBuildInFlag(f.type) = 1 THEN << Element(f.name, << >>, LeafText(f, value), << >>) >>
  ELSE IF value = << >> THEN << >>
  ELSE << Sax_Serialize(Local(f.type), value[1], f.name) >>

SaxFields(f, values) ==
  IF IsList(f) THEN FlattenSeq([i \in DOMAIN values |-> SaxField(f, << values[i] >>)])
  ELSE SaxField(f, values)

\* An attribute is written if it is neither NULL nor 0.
SaxAttribute(f, value) ==
  IF value = << >> \/ (trXSD2C(f.type).kind = "int" /\ value = <<0>>) THEN << >>
  ELSE << <<f.attr, value[1]>> >>

Sax_Serialize(name, obj, element) ==
  LET fields == TypeNamed(name).fields
      attrs == SelectSeq(fields, IsAttribute)
      elements == SelectSeq(fields, LAMBDA f : ~IsAttribute(f))
  IN  Element(element,
        FlattenSeq([i \in DOMAIN attrs |-> SaxAttribute(attrs[i], obj[attrs[i].name])]),
        "",
        FlattenSeq([i \in DOMAIN elements |-> SaxFields(elements[i], obj[elements[i].name])]))

\* A number among the attributes is handed on as the address of a text.
WriterCrashes(name, obj) ==
  \E f \in FieldsOf(TypeNamed(name)) :
     /\ IsAttribute(f) /\ trXSD2C(f.type).kind # "char*"
     /\ SaxAttribute(f, obj[f.name]) # << >>

-----------------------------------------------------------------------------
(* Reading. A field takes the last element of its name, a list all of      *)
(* them. An element without text has no string: what is made of it is read *)
(* from NULL.                                                              *)
Named(e, name) == SelectSeq(e.elements, LAMBDA k : k.name = name)

LeafValue(f, text) ==
  LET local == Local(f.type)
  IN  CASE IsText(local) -> <<text>>
        [] IsInt(local) -> <<Text!atoi(text)>>
        [] IsFloat(local) -> <<IF text = "0.500000" THEN "0.5" ELSE "0.0">>
        [] OTHER -> << >>

RECURSIVE Deserialize(_, _)

ReadElement(f, e) ==
  IF trGetBuildInFlag(f.type) = 1 THEN LeafValue(f, e.text)
  ELSE << Deserialize(Local(f.type), e) >>

\* Fault: what is read of a list is set, not added.
ReadLast(f, found) ==
  IF found = << >> \/ (trGetBuildInFlag(f.type) = 1 /\ ~Written(Local(f.type))) THEN Default(f)
  ELSE ReadElement(f, Last(found))

ReadElements(f, found) ==
  CASE found = << >> -> Default(f)
    [] found # << >> /\ trGetBuildInFlag(f.type) = 1 /\ ~Written(Local(f.type)) -> Default(f)
    [] found # << >> /\ IsList(f) /\ (trGetBuildInFlag(f.type) # 1 \/ Written(Local(f.type))) ->
         FlattenSeq([i \in DOMAIN found |-> ReadElement(f, found[i])])
    [] OTHER -> ReadElement(f, Last(found))

ReadAttribute(f, e) ==
  LET i == SelectInSeq(e.attrs, LAMBDA a : a[1] = f.attr)
  IN  IF i = 0 \/ ~Written(Local(f.type)) THEN Default(f) ELSE LeafValue(f, e.attrs[i][2])

Deserialize(name, e) ==
  [field \in FieldNames(name) |->
     LET f == Field(name, field)
     IN  IF IsAttribute(f) THEN ReadAttribute(f, e) ELSE ReadElements(f, Named(e, f.name))]

RECURSIVE ReaderCrashes(_, _)
ReaderCrashes(name, e) ==
  \E i \in DOMAIN e.elements : \E f \in FieldsOf(TypeNamed(name)) :
     /\ ~IsAttribute(f) /\ f.name = e.elements[i].name
     /\ IF trGetBuildInFlag(f.type) = 1 THEN Written(Local(f.type)) /\ e.elements[i].text = ""
        ELSE ReaderCrashes(Local(f.type), e.elements[i])

-----------------------------------------------------------------------------
(* A program that has compiled every file: it fills in an object, writes   *)
(* it and reads what it wrote.                                             *)
\* An object of a type with all its strings and numbers set.
Sample(name) ==
  [field \in FieldNames(name) |->
     LET f == Field(name, field)
     IN  CASE IsText(Local(f.type)) /\ ~IsAttribute(f) -> <<"s">>
           [] IsInt(Local(f.type)) /\ ~IsAttribute(f) -> <<2>>
           [] OTHER -> Default(f)]

Values(f) ==
  LET local == Local(f.type)
  IN  CASE IsText(local) -> {<<"s">>, <<"">>}
        [] IsInt(local) -> {<<1>>, <<2>>}
        [] IsFloat(local) -> {<<"0.5">>, <<"1e-9">>}
        [] local = "boolean" -> {<<1>>}
        [] trGetBuildInFlag(f.type) = 0 -> {<< Create(local) >>, << Sample(local) >>}
        [] OTHER -> {<<"id">>}

Filled == Cardinality({field \in DOMAIN object : object[field] # Default(Field(type, field))})

AppCreate(name) ==
  /\ app = "" /\ pc = "ended"
  /\ \A t \in DOMAIN sources : Compiles(t) /\ Links(t)
  /\ app' = "fill"
  /\ type' = name
  /\ object' = Create(name)
  /\ UNCHANGED <<xml, back, vars>>

AppSet(field, value) ==
  /\ app = "fill" /\ ~IsList(Field(type, field)) /\ Filled < MaxSets
  /\ object' = Set(object, field, value)
  /\ UNCHANGED <<app, type, xml, back, vars>>

AppAdd(field, value) ==
  /\ app = "fill" /\ IsList(Field(type, field)) /\ Len(object[field]) < MaxSets
  /\ object' = Add(object, field, value)
  /\ UNCHANGED <<app, type, xml, back, vars>>

AppWrite ==
  /\ app = "fill"
  /\ IF WriterCrashes(type, object) THEN app' = "crashed" /\ UNCHANGED xml
     ELSE app' = "wrote" /\ xml' = << Sax_Serialize(type, object, "root") >>
  /\ UNCHANGED <<type, object, back, vars>>

AppRead ==
  /\ app = "wrote"
  /\ IF ReaderCrashes(type, xml[1]) THEN app' = "crashed" /\ UNCHANGED back
     ELSE app' = "read" /\ back' = << Deserialize(type, xml[1]) >>
  /\ UNCHANGED <<type, object, xml, vars>>

App ==
  \/ \E name \in DOMAIN sources : AppCreate(name)
  \/ \E field \in DOMAIN object : \E value \in Values(Field(type, field)) :
       AppSet(field, value) \/ AppAdd(field, value)
  \/ AppWrite
  \/ AppRead

ProgramInit ==
  /\ Init
  /\ app = "" /\ type = "" /\ object = << >> /\ xml = << >> /\ back = << >>

\* The tools run, and then the program.
ProgramNext == (Next /\ UNCHANGED appVars) \/ App
Program == ProgramInit /\ [][ProgramNext]_<<vars, appVars>>

-----------------------------------------------------------------------------
\* What is lost on the way by design: a boolean or an ID is not written, an empty or
\* unset string has no text to read, a float has six decimals, and an attribute that
\* is not a text is not one for the writer.
RECURSIVE Lossless(_, _)
Lossless(name, obj) ==
  \A f \in FieldsOf(TypeNamed(name)) :
     LET values == obj[f.name]
         local == Local(f.type)
     IN  IF IsAttribute(f) THEN values = Default(f) \/ IsText(local)
         ELSE IF trGetBuildInFlag(f.type) = 0
           THEN \A i \in DOMAIN values : Lossless(local, values[i])
         ELSE IF IsText(local)
           THEN "" \notin Range(values) /\ (IsList(f) \/ values # << >>)
         ELSE IF IsFloat(local) THEN "1e-9" \notin Range(values)
         ELSE IsInt(local) \/ values = Default(f)

\* What Sax_Serialize of a generated type writes, Deserialize reads back, nested
\* objects and lists included, and neither fails on it (formatter.c:881, 1169).
RoundTrip ==
  /\ app = "read" /\ Lossless(type, object) => back = << object >>
  /\ app = "crashed" => ~Lossless(type, object)

=============================================================================
