-------------------------------- MODULE Xsd2c --------------------------------
(***************************************************************************)
(* xsd2c (src/xsd2c): a schema is read construct by construct into a list  *)
(* of complex types (obj.c) and a registry of type names (tr.c); then one  *)
(* header and one source file are written per type (formatter.c).          *)
(*                                                                         *)
(* The calls of the xsdProc functions are a stack of pending calls, one    *)
(* action each. Of a file the model keeps the names it declares and the    *)
(* names it uses. A type name is a pair of prefix and local part; "" and   *)
(* NoType stand for an attribute that is absent.                           *)
(***************************************************************************)
EXTENDS Integers, FiniteSets, SequencesExt, TLC

CONSTANTS
  Documents, \* the schema and WSDL files the tools are run on
  Nodes      \* the XML elements of their schemas

\* A schema is a tree of nodes, its definitions the document as a whole.
ASSUME NodesAssumption == \A n \in Nodes : n.sub \in Seq(Nodes)
ASSUME RootsAssumption == \A d \in Documents : d.roots \in Seq(Nodes) /\ d.definitions \in Nodes

VARIABLES
  doc,       \* the document, see MCWsdl2c for its form
  pc,        \* what the tool is doing
  root,      \* the schema node of doc.roots it works on
  todo,      \* the calls that are pending, innermost first
  targetNS,  \* the prefix of the target namespace; "" is NULL
  types,     \* tr_head: type names and their C types, as registered
  lists,     \* trl_head: the same for lists
  objs,      \* objRegistry: the complex types, as created
  next,      \* the complex type whose file is written next
  skipped,   \* whether a file of this run could not be opened
  headers,   \* by file name: what <type>.h includes, declares and needs
  sources    \* by file name: what <type>.c defines and uses

registry == <<types, lists, objs>>
files == <<skipped, headers, sources>>
genVars == <<doc, pc, root, todo, targetNS, registry, next, files>>

Text == INSTANCE Codec
NoType == <<"", "">>
Local(type) == type[2]
\* A type name as it stands in the schema, where the formatter copies it.
Verbatim(type) == IF type[1] = "" THEN type[2] ELSE type[1] \o ":" \o type[2]

-----------------------------------------------------------------------------
(* The registry of types (tr.c). The first entry of a name counts.         *)
NoC == [kind |-> "", name |-> ""]
Basic(kind) == [kind |-> kind, name |-> ""]
Pointer(name) == [kind |-> "struct*", name |-> name]

Entry(ns, type, c, builtin) == [xsd |-> <<ns, type>>, c |-> c, builtin |-> builtin]

Lookup(reg, type) == SelectInSeq(reg, LAMBDA entry : entry.xsd = type)
trXSD2C(type) == LET i == Lookup(types, type) IN IF i = 0 THEN NoC ELSE types[i].c
trXSD2CList(type) == LET i == Lookup(lists, type) IN IF i = 0 THEN NoC ELSE lists[i].c
trGetBuildInFlag(type) == LET i == Lookup(types, type) IN IF i = 0 THEN -1 ELSE types[i].builtin

Builtins(ns) ==
  [i \in 1 .. 4 |-> Entry(ns, <<"ID", "IDREF", "IDREFS", "string">>[i], Basic("char*"), 1)] \o
  << Entry(ns, "integer", Basic("int"), 1), Entry(ns, "int", Basic("int"), 1),
     Entry(ns, "double", Basic("double"), 1), Entry(ns, "float", Basic("float"), 1),
     Entry(ns, "boolean", Basic("int"), 1) >>

-----------------------------------------------------------------------------
(* Reading a schema (xsd2c.c, obj.c). What is not listed is warned of and  *)
(* left out.                                                               *)
Keywords ==
  {"all", "annotation", "attribute", "attributeGroup", "choice", "complexType", "complexContent",
   "element", "enumeration", "extension", "group", "import", "include", "restriction", "schema",
   "sequence", "simpleContent", "simpleType", "minInclusive", "maxInclusive", "minExclusive",
   "maxExclusive"}
xsdGetKeyword(node) == IF node.kw \in Keywords THEN node.kw ELSE "unknown"

\* SelectSeq for a set: what of a sequence belongs to it.
Among(seq, set) == FlattenSeq([i \in DOMAIN seq |-> IF seq[i] \in set THEN << seq[i] >> ELSE << >>])
Children(node, keywords) == Among(node.sub, {n \in Range(node.sub) : xsdGetKeyword(n) \in keywords})

Call(proc, node, ct, name) == [proc |-> proc, node |-> node, ct |-> ct, name |-> name]

\* The calls for the children of a node: procs maps keywords to functions.
Calls(node, ct, procs) ==
  LET known == Children(node, DOMAIN procs)
  IN  [i \in DOMAIN known |-> Call(procs[known[i].kw], known[i], ct, "")]

Occurs(max) == CASE max = "" -> 1 [] max = "unbounded" -> -1 [] OTHER -> Text!atoi(max)

Top == Head(todo)
Doing(proc) == pc = "types" /\ todo # << >> /\ Top.proc = proc
Return(calls) == todo' = calls \o Tail(todo)
Crash == pc' = "crashed" /\ UNCHANGED <<doc, root, todo, targetNS, registry, next, files>>

fieldCreate(ct, name, type, max, attr) ==
  [name |-> name, type |-> type, max |-> max, attr |-> attr, parent |-> objs[ct].type]

objAddField(ct, field) == objs' = [objs EXCEPT ![ct].fields = Append(@, field)]

\* A name or a type that is missing is dereferenced.
AddField(ct, name, type, max, attr) ==
  IF name = "" \/ type = NoType THEN Crash
  ELSE /\ objAddField(ct, fieldCreate(ct, name, type, max, attr))
       /\ Return(<< >>)
       /\ UNCHANGED <<doc, pc, root, targetNS, types, lists, next, files>>
objAddElement(ct, name, type, max) == AddField(ct, name, type, max, "")
objAddAttribute(ct, name, type) == AddField(ct, "attr_" \o name, type, 1, name)

xsdProcAttribute ==
  /\ Doing("Attribute")
  /\ LET name == Top.node.name
     IN  IF name = "" THEN Return(<< >>) /\ UNCHANGED <<doc, pc, root, targetNS, registry, next, files>>
         ELSE objAddAttribute(Top.ct, name, Top.node.type)

\* An element without a type has a type of its own, which is read before the field is added.
InlineCalls(node, ct) ==
  LET name == objs[ct].type \o "_" \o node.name
      inner == Children(node, {"complexType"})
  IN  FlattenSeq([i \in DOMAIN inner |-> << Call("ComplexType", inner[i], 0, name),
                                            Call("InlineField", node, ct, name) >>])

xsdProcElement ==
  LET node == Top.node
      max == Occurs(node.max)
  IN  \/ /\ Doing("Element")
         /\ node.type # NoType
         /\ objAddElement(Top.ct, node.name, node.type, max)
      \/ /\ Doing("Element")
         /\ node.type = NoType
         /\ Return(InlineCalls(node, Top.ct))
         /\ UNCHANGED <<doc, pc, root, targetNS, registry, next, files>>
      \/ /\ Doing("InlineField")
         /\ objAddElement(Top.ct, node.name, <<"", Top.name>>, max)

xsdProcSequence ==
  /\ Doing("Sequence")
  /\ Return(Calls(Top.node, Top.ct, [element |-> "Element"]))
  /\ UNCHANGED <<doc, pc, root, targetNS, registry, next, files>>

xsdProcExtension ==
  LET base == Top.node.base
  IN  /\ Doing("Extension")
      /\ objs' = IF base = NoType THEN objs ELSE [objs EXCEPT ![Top.ct].base = base]
      /\ Return(IF base = NoType THEN << >>
                ELSE Calls(Top.node, Top.ct, [attribute |-> "Attribute", sequence |-> "Sequence"]))
      /\ UNCHANGED <<doc, pc, root, targetNS, types, lists, next, files>>

xsdProcComplexContent ==
  /\ Doing("ComplexContent")
  /\ Return(Calls(Top.node, Top.ct, [extension |-> "Extension"]))
  /\ UNCHANGED <<doc, pc, root, targetNS, registry, next, files>>

resCreate(base) == [type |-> base, mode |-> "empty", values |-> << >>]

\* The mode of a restriction is that of its last facet.
Restricted(node) ==
  LET facets == SelectSeq(node.sub, LAMBDA n : n.value # "" /\ xsdGetKeyword(n) \in
        {"minInclusive", "maxInclusive", "minExclusive", "maxExclusive", "enumeration"})
      values == SelectSeq(facets, LAMBDA n : n.kw = "enumeration")
      empty == resCreate(node.base)
  IN  IF facets = << >> THEN << empty >>
      ELSE << [empty EXCEPT !.mode = IF Last(facets).kw = "enumeration" THEN "enumeration" ELSE "minmax",
                            !.values = [i \in DOMAIN values |-> values[i].value]] >>

xsdProcRestriction ==
  /\ Doing("Restriction")
  /\ objs' = IF Top.node.base = NoType THEN objs
             ELSE [objs EXCEPT ![Top.ct].restriction = Restricted(Top.node)]
  /\ Return(<< >>)
  /\ UNCHANGED <<doc, pc, root, targetNS, types, lists, next, files>>

xsdProcSimpleContent ==
  /\ Doing("SimpleContent")
  /\ objs' = [objs EXCEPT ![Top.ct].simple = TRUE]
  /\ Return(Calls(Top.node, Top.ct, [restriction |-> "Restriction", attribute |-> "Attribute"]))
  /\ UNCHANGED <<doc, pc, root, targetNS, types, lists, next, files>>

trRegisterTypeNS(ns, name) == types' = Append(types, Entry(ns, name, Pointer(name), 0))
trRegisterListTypeNS(ns, name) == lists' = Append(lists, Entry(ns, name, Pointer(name \o "_List"), 0))

\* A type is registered when its complexType begins.
objCreateComplexType(name) ==
  /\ objs' = Append(objs, [type |-> name, base |-> NoType, fields |-> << >>, simple |-> FALSE,
                           restriction |-> << >>, full |-> <<targetNS, name>>])
  /\ trRegisterTypeNS(targetNS, name)
  /\ trRegisterListTypeNS(targetNS, name)

\* Without a target namespace objCreateComplexType copies from NULL.
xsdProcComplexType ==
  LET name == IF Top.name # "" THEN Top.name ELSE Top.node.name
  IN  /\ Doing("ComplexType")
      /\ IF name = "" THEN Return(<< >>) /\ UNCHANGED <<doc, pc, root, targetNS, registry, next, files>>
         ELSE IF targetNS = "" THEN Crash
         ELSE /\ objCreateComplexType(name)
              /\ Return(Calls(Top.node, Len(objs) + 1,
                   [simpleContent |-> "SimpleContent", complexContent |-> "ComplexContent",
                    attribute |-> "Attribute", sequence |-> "Sequence"]))
              /\ UNCHANGED <<doc, pc, root, targetNS, next, files>>

\* A named element at the root makes a type of its name, from its complexType
\* or, if it has none, from itself.
RootCall(node) ==
  LET inner == Children(node, {"complexType"})
  IN  IF xsdGetKeyword(node) = "complexType" THEN << Call("ComplexType", node, 0, "") >>
      ELSE IF xsdGetKeyword(node) # "element" \/ node.name = "" THEN << >>
      ELSE << Call("ComplexType", IF inner = << >> THEN node ELSE Head(inner), 0, node.name) >>

\* Without usable types a WSDL file is itself taken for the schema.
Roots ==
  LET first == IF doc.roots = << >> THEN "unknown" ELSE xsdGetKeyword(Head(doc.roots))
  IN  IF first \in {"element", "complexType", "simpleType", "schema"} THEN doc.roots
      ELSE << doc.definitions >>

runGenerator ==
  /\ pc = "generator"
  /\ pc' = "types"
  /\ todo' = FlattenSeq([i \in DOMAIN Roots[root].sub |-> RootCall(Roots[root].sub[i])])
  /\ UNCHANGED <<doc, root, targetNS, registry, next, files>>

\* Each run registers the built-in types again, under the prefixes it finds.
xsdInitTrModule ==
  LET node == Roots[root]
  IN  /\ pc = "inittr"
      /\ pc' = "initobj"
      /\ types' = types \o Builtins(IF node.xsd = "" THEN "xsd" ELSE node.xsd)
                        \o (IF node.enc = "" THEN << >> ELSE Builtins(node.enc))
      /\ UNCHANGED <<doc, root, todo, targetNS, lists, objs, next, files>>

\* A schema without a target namespace keeps the prefix of the one before it;
\* one whose namespace has no prefix ends the program.
xsdInitObjModule ==
  LET tns == Roots[root].tns
  IN  /\ pc = "initobj"
      /\ pc' = IF tns = "?" THEN "failed" ELSE "generator"
      /\ targetNS' = IF tns \in {"", "?"} THEN targetNS ELSE tns
      /\ UNCHANGED <<doc, root, todo, registry, next, files>>

=============================================================================
