------------------------------ MODULE Formatter ------------------------------
(***************************************************************************)
(* The files xsd2c writes (formatter.c), as names. A header is the headers *)
(* it includes, the names it declares and those it needs; a source is the  *)
(* names it uses, the ones it defines before their first use and the       *)
(* functions it defines. In both, twice is what two fields define alike.   *)
(* Struct(n) stands for the definition of a struct: pointers do without.   *)
(***************************************************************************)
EXTENDS Xsd2c

CONSTANT NotInC  \* the names that C has no use for: its keywords, those with a - or a .

Name(kind, a, b, c) == <<kind, a, b, c>>
Fn(type, op) == Name("function", type, op, "")
FieldFn(type, op, field) == Name("function", type, op, field)
Member(type, member) == Name("member", type, member, "")
Struct(type) == Name("struct", type, "", "")
NotC == Name("not C", "", "", "")

FieldsOf(obj) == Range(obj.fields)
\* What more than one of some sets has.
Twice(sets) ==
  UNION {sets[p[1]] \cap sets[p[2]] : p \in {q \in (DOMAIN sets) \X (DOMAIN sets) : q[1] # q[2]}}
IsList(field) == field.max > 1 \/ field.max = -1
IsAttribute(field) == field.attr # ""
\* A simple type with a restriction is a typedef, without Create and Free.
IsTypedef(obj) == obj.simple /\ obj.restriction # << >>
HasBase(obj) == obj.base # NoType

genFieldType(field, forceSingle) ==
  LET known == trXSD2CList(field.type)
  IN  IF ~IsList(field) \/ forceSingle THEN trXSD2C(field.type)
      ELSE IF known # NoC THEN known
      ELSE Pointer(field.parent \o "_" \o field.name \o "_List")

HasType(field, forceSingle) == genFieldType(field, forceSingle) # NoC
ListStruct(field) == Struct(genFieldType(field, FALSE).name)

\* The members a field has in its struct.
Slots(field) ==
  IF IsList(field) THEN {Member(field.parent, field.name \o "_head"), Member(field.parent, field.name \o "_tail")}
  ELSE {Member(field.parent, field.name)}

Written(type) == type \in {"string", "int", "integer", "float", "double"}

-----------------------------------------------------------------------------
(* Headers.                                                                *)
writeFieldPrimitiveList(field) ==
  IF IsList(field) /\ trGetBuildInFlag(field.type) > 0
    THEN {Struct(field.parent \o "_" \o field.name \o "_List")} ELSE {}

writeFieldDeclare(field) == IF HasType(field, FALSE) THEN Slots(field) ELSE {}

\* The list of a simple type lacks the word struct.
writeComplexTypeDeclare(obj) ==
  CASE obj.simple /\ obj.restriction = << >> -> [declares |-> {}, needs |-> {}]
    [] IsTypedef(obj) -> [declares |-> {Struct(obj.type)} \cup
         {Name("constant", obj.type, v, "") : v \in Range(obj.restriction[1].values)},
         needs |-> {NotC}]
    [] OTHER -> [declares |-> {Struct(obj.type), Struct(obj.type \o "_List")} \cup
         (IF trXSD2C(obj.base) # NoC THEN {Member(obj.type, "__base")} ELSE {}) \cup
         UNION {writeFieldDeclare(f) : f \in FieldsOf(obj)},
         needs |-> {}]

genFunctionNameGetter(field) ==
  IF HasType(field, FALSE) THEN {FieldFn(field.parent, "Get", field.name)} ELSE {}
genFunctionNameSetter(field) ==
  IF HasType(field, FALSE) THEN {FieldFn(field.parent, "Set", field.name)} ELSE {}
genFunctionNameAdder(field) ==
  IF HasType(field, TRUE) THEN {FieldFn(field.parent, "Add", field.name)} ELSE {}
genFunctionNameCreate(obj) == IF IsTypedef(obj) THEN {} ELSE {Fn(obj.type, "Create")}
genFunctionNameFree(obj) == IF IsTypedef(obj) THEN {} ELSE {Fn(obj.type, "Free")}
genFunctionNameSaxSerialize(obj) == {Fn(obj.type, "Sax_Serialize")}
genFunctionNameDeserialize(obj) == {Fn(obj.type, "Deserialize")}

writeFieldSetter(field) == IF field.max = 1 THEN genFunctionNameSetter(field) ELSE {}
writeListAdder(field) == IF IsList(field) THEN genFunctionNameAdder(field) ELSE {}

Prototypes(obj) ==
  genFunctionNameCreate(obj) \cup genFunctionNameFree(obj) \cup
  genFunctionNameSaxSerialize(obj) \cup genFunctionNameDeserialize(obj) \cup
  (IF IsTypedef(obj) THEN {}
   ELSE UNION {writeFieldSetter(f) \cup writeListAdder(f) \cup genFunctionNameGetter(f) : f \in FieldsOf(obj)})

\* A field's name is that of a member and of a parameter beside obj.
Misnamed(obj) == obj.type \in NotInC \/ \E f \in FieldsOf(obj) : f.name \in NotInC \cup {"obj"}

Includes(obj) ==
  {Local(f.type) : f \in {g \in FieldsOf(obj) : trGetBuildInFlag(g.type) = 0}} \cup
  (IF HasBase(obj) THEN {Local(obj.base)} ELSE {})

writeComplexTypeHeaderFile(obj) ==
  LET struct == writeComplexTypeDeclare(obj)
  IN  [includes |-> Includes(obj),
       declares |-> struct.declares \cup Prototypes(obj) \cup
                    UNION {writeFieldPrimitiveList(f) : f \in FieldsOf(obj)},
       twice |-> Twice([i \in DOMAIN obj.fields |-> writeFieldDeclare(obj.fields[i])]),
       needs |-> struct.needs \cup (IF Misnamed(obj) THEN {NotC} ELSE {})]

-----------------------------------------------------------------------------
(* Sources. A base is called by its name in the schema, prefix and all.    *)
writeCodeCreate(obj) ==
  IF genFunctionNameCreate(obj) = {} THEN {}
  ELSE {Struct(obj.type)} \cup UNION {Slots(f) : f \in FieldsOf(obj)} \cup
       (IF HasBase(obj) THEN {Member(obj.type, "__base"), Fn(Verbatim(obj.base), "Create")} ELSE {})

writeCodeGetter(field) ==
  CASE genFunctionNameGetter(field) = {} -> {}
    [] IsList(field) -> {Member(field.parent, field.name \o "_head")}
    [] OTHER -> Slots(field)

writeCodeSetter(field) == IF IsList(field) \/ genFunctionNameSetter(field) = {} THEN {} ELSE Slots(field)

writeCodeAdder(field) ==
  IF IsList(field) /\ genFunctionNameAdder(field) # {} THEN Slots(field) \cup {ListStruct(field)} ELSE {}

writeCodeFree(obj) ==
  IF genFunctionNameFree(obj) = {} THEN {}
  ELSE UNION {CASE IsList(f) -> {Member(f.parent, f.name \o "_head"), ListStruct(f)}
                [] ~IsList(f) /\ Local(f.type) = "string" -> Slots(f)
                [] OTHER -> {} : f \in FieldsOf(obj)}

\* An attribute is compared with NULL and used as a text, which C refuses for a float.
setSaxAttrs(obj) ==
  UNION {Slots(f) \cup (IF trXSD2C(f.type).kind \in {"float", "double"} THEN {NotC} ELSE {}) :
         f \in {g \in FieldsOf(obj) : IsAttribute(g)}}

\* The elements of a type; in the callback of a base, obj is bsce->obj but for one place.
SaxElement(field, inBase) ==
  (IF IsList(field) THEN {Member(field.parent, field.name \o "_head"), ListStruct(field)} ELSE {}) \cup
  (IF trGetBuildInFlag(field.type) # 1
     THEN {Fn(Local(field.type), "Sax_Serialize")} \cup
          (IF IsList(field) THEN {} ELSE Slots(field)) \cup
          (IF inBase /\ ~IsList(field) THEN {Name("variable", "obj", "", "")} ELSE {})
     ELSE IF ~IsList(field) /\ Written(Local(field.type)) THEN Slots(field) ELSE {})

SaxElements(obj, inBase) ==
  UNION {SaxElement(f, inBase) : f \in {g \in FieldsOf(obj) : ~IsAttribute(g)}}

BaseSerializer(obj) == {Name("base serializer", obj.type, part, "") : part \in {"struct", "start", "end"}}
writeCodeBaseOnStartElement(obj) == {Struct(obj.type)} \cup setSaxAttrs(obj)
writeCodeBaseOnEndElement(obj) == {Struct(obj.type)} \cup SaxElements(obj, TRUE)

writeCodeSaxSerialize(obj) ==
  IF HasBase(obj)
    THEN BaseSerializer(obj) \cup {Member(obj.type, "__base"), Fn(Verbatim(obj.base), "Sax_Serialize")}
    ELSE setSaxAttrs(obj) \cup SaxElements(obj, FALSE)

Store(field) == FieldFn(field.parent, IF IsList(field) THEN "Add" ELSE "Set", field.name)

writeCodeDeserialize(obj) ==
  LET Read(f) == IF IsAttribute(f) \/ trGetBuildInFlag(f.type) = 1
                   THEN (IF Written(Local(f.type)) THEN {Store(f)} ELSE {})
                   ELSE {Store(f), Fn(Local(f.type), "Deserialize")}
  IN  {Struct(obj.type), Fn(obj.type, "Create")} \cup UNION {Read(f) : f \in FieldsOf(obj)} \cup
      (IF HasBase(obj) THEN {Member(obj.type, "__base"), Fn(Verbatim(obj.base), "Deserialize")} ELSE {})

\* The functions of a field and of a type that a source defines.
FieldFunctions(field) ==
  genFunctionNameGetter(field) \cup
  (IF IsList(field) THEN genFunctionNameAdder(field) ELSE genFunctionNameSetter(field))

writeComplexTypeSourceFile(obj) ==
  [functions |-> genFunctionNameCreate(obj) \cup genFunctionNameFree(obj) \cup
                 genFunctionNameSaxSerialize(obj) \cup genFunctionNameDeserialize(obj) \cup
                 UNION {FieldFunctions(f) : f \in FieldsOf(obj)},
   twice |-> Twice([i \in DOMAIN obj.fields |-> FieldFunctions(obj.fields[i])]),
   defines |-> IF HasBase(obj) THEN BaseSerializer(obj) ELSE {},
   uses |-> writeCodeCreate(obj) \cup writeCodeFree(obj) \cup writeCodeSaxSerialize(obj) \cup
            writeCodeDeserialize(obj) \cup
            UNION {writeCodeGetter(f) \cup writeCodeSetter(f) \cup writeCodeAdder(f) : f \in FieldsOf(obj)} \cup
            (IF HasBase(obj) THEN writeCodeBaseOnStartElement(obj) \cup writeCodeBaseOnEndElement(obj) ELSE {})]

-----------------------------------------------------------------------------
(* xsdEngineRun: all headers, then all sources, of every type there is,    *)
(* those of earlier runs too. A file of that name is overwritten. What     *)
(* cannot be opened ends the round, and no one hears of it.                *)
FileWritten(dir, name, file) == [n \in DOMAIN dir \cup {name} |-> IF n = name THEN file ELSE dir[n]]

declareStructs ==
  \/ /\ pc = "headers" /\ next <= Len(objs)
     /\ headers' = FileWritten(headers, objs[next].type, writeComplexTypeHeaderFile(objs[next]))
     /\ next' = next + 1
     /\ UNCHANGED <<doc, pc, root, todo, targetNS, registry, skipped, sources>>
  \/ /\ pc = "headers"
     /\ pc' = "sources"
     /\ next' = 1
     /\ skipped' = (next <= Len(objs))
     /\ UNCHANGED <<doc, root, todo, targetNS, registry, headers, sources>>

writeSource ==
  \/ /\ pc = "sources" /\ next <= Len(objs)
     /\ sources' = FileWritten(sources, objs[next].type, writeComplexTypeSourceFile(objs[next]))
     /\ next' = next + 1
     /\ UNCHANGED <<doc, pc, root, todo, targetNS, registry, skipped, headers>>
  \/ /\ pc = "sources"
     /\ pc' = "written"
     /\ skipped' = (skipped \/ next <= Len(objs))
     /\ UNCHANGED <<doc, root, todo, targetNS, registry, next, headers, sources>>

\* Fault: the sources are written before the headers.
SourcesFirst ==
  /\ pc = "types" /\ todo = << >>
  /\ pc' = "sources"
  /\ next' = 1
  /\ UNCHANGED <<doc, root, todo, targetNS, registry, files>>

\* Fault: only the types of this schema get new headers.
OnlyNewHeaders ==
  /\ pc = "types" /\ todo = << >>
  /\ pc' = "headers"
  /\ next' = Cardinality(DOMAIN headers) + 1
  /\ UNCHANGED <<doc, root, todo, targetNS, registry, files>>

xsdEngineRun ==
  /\ pc = "types" /\ todo = << >>
  /\ pc' = "headers"
  /\ next' = 1
  /\ UNCHANGED <<doc, root, todo, targetNS, registry, files>>

-----------------------------------------------------------------------------
(* What a C compiler sees of a source file.                                *)
\* The files of a type are those of the last one of its name.
TypeNamed(name) == objs[SelectLastInSeq(objs, LAMBDA obj : obj.type = name)]

Included(type) ==
  LET rounds == Cardinality(DOMAIN headers)
      reach[n \in 0 .. rounds] == IF n = 0 THEN {type}
        ELSE reach[n - 1] \cup UNION {headers[h].includes : h \in reach[n - 1] \cap DOMAIN headers}
  IN  reach[rounds]

\* No name is defined twice and each one used is declared before.
Compiles(type) ==
  LET included == Included(type)
  IN  /\ included \subseteq DOMAIN headers
      /\ \A h \in included : headers[h].needs = {} /\ headers[h].twice = {}
      /\ sources[type].twice = {}
      /\ sources[type].uses \subseteq
           sources[type].defines \cup UNION {headers[h].declares : h \in included}

\* Each function a source uses is defined by one source.
Links(type) ==
  \A fn \in {n \in sources[type].uses : n[1] = "function"} :
    \E s \in DOMAIN sources : {t \in DOMAIN sources : fn \in sources[t].functions} = {s}

=============================================================================
