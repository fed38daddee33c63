------------------------------- MODULE Wsdl2c -------------------------------
(***************************************************************************)
(* The main programs of xsd2c and wsdl2c (src/xsd2c/main.c, src/wsdl2c)    *)
(* around the engine of Xsd2c and Formatter. wsdl2c runs the engine on     *)
(* every schema of a WSDL file; then it follows services, bindings and     *)
(* port types to the operations, which it keeps in a list of calls, and    *)
(* writes a header of stubs for them.                                      *)
(*                                                                         *)
(* A document has the tool it is for, its schemas (roots), its root        *)
(* (definitions) and, for wsdl2c, whether the SOAP namespace is declared,  *)
(* whether the WSDL namespace has a prefix, ports, bindings, port types    *)
(* and messages.                                                           *)
(***************************************************************************)
EXTENDS Formatter

\* Ports, bindings, operations and parts are read in the order of the document.
IsSequence(s) == s \in Seq(Range(s))
ASSUME WsdlAssumption ==
  \A d \in Documents :
    /\ IsSequence(d.ports) /\ IsSequence(d.bindings)
    /\ \A t \in DOMAIN d.portTypes : IsSequence(d.portTypes[t])
    /\ \A m \in DOMAIN d.messages : IsSequence(d.messages[m])

VARIABLES
  callList,  \* the operations that were found
  stub       \* test_stub.h: << >> or its includes and prototypes

wsdlVars == <<callList, stub>>
toolVars == <<doc, root, targetNS, registry, next, files>>
vars == <<genVars, wsdlVars>>

CallVar(name, type_) == [name |-> name, type |-> type_]
CallFunc_Create(name) == [name |-> name, in |-> << >>, out |-> << >>]
CallFunc_Add_in(func, vars_) == [func EXCEPT !.in = @ \o vars_]
CallFunc_Set_out(func, var) == [func EXCEPT !.out = << var >>]
CallList_Add_operation(list, func) == Append(list, func)

-----------------------------------------------------------------------------
(* The main programs up to the calls.                                      *)
WSDLSchemas == {"element", "complexType", "simpleType", "schema"}

\* xsd2c refuses a document that has no schema, wsdl2c one that does not declare
\* the SOAP namespace.
Xsd2cStart ==
  /\ pc = "start" /\ doc.tool = "xsd2c"
  /\ pc' = IF doc.roots # << >> /\ (doc.wsdl => xsdGetKeyword(Head(doc.roots)) \in WSDLSchemas)
           THEN "inittr" ELSE "failed"
  /\ UNCHANGED <<toolVars, todo>>

Wsdl2cStart ==
  /\ pc = "start" /\ doc.tool = "wsdl2c"
  /\ pc' = IF doc.soap THEN "inittr" ELSE "failed"
  /\ UNCHANGED <<toolVars, todo>>

\* wsdl2c goes on to the next schema, xsd2c has only one.
Xsd2cEnd ==
  /\ pc = "written" /\ doc.tool = "xsd2c"
  /\ pc' = "ended"
  /\ UNCHANGED <<toolVars, todo>>

Wsdl2cNext ==
  /\ pc = "written" /\ doc.tool = "wsdl2c"
  /\ IF root < Len(Roots) THEN root' = root + 1 /\ pc' = "inittr" ELSE pc' = "parse" /\ UNCHANGED root
  /\ UNCHANGED <<doc, todo, targetNS, registry, next, files>>

-----------------------------------------------------------------------------
(* From the services to the operations.                                    *)
\* The query for a port names the WSDL prefix, or nothing: without a prefix it
\* finds no element of a document whose default namespace is that of WSDL.
SoapPorts == IF doc.prefixed THEN Among(doc.ports, {p \in Range(doc.ports) : p.address = "soap"}) ELSE << >>
BindingsNamed(name) ==
  Among(doc.bindings, {b \in Range(doc.bindings) : b.name = name /\ b.type # ""})
OperationsOf(portType) == IF portType \in DOMAIN doc.portTypes THEN doc.portTypes[portType] ELSE << >>
Operations(portType) ==
  Among(OperationsOf(portType), {op \in Range(OperationsOf(portType)) : op.name # ""})
\* The parts that have a name and a type or an element.
PartsOf(message) == IF message \in DOMAIN doc.messages THEN doc.messages[message] ELSE << >>
Parts(message) ==
  Among(PartsOf(message), {p \in Range(PartsOf(message)) : p.name # "" /\ p.type # NoType})
Vars(parts) == [i \in DOMAIN parts |-> CallVar(parts[i].name, parts[i].type)]

Parsing(proc) == pc = "calls" /\ todo # << >> /\ Top.proc = proc

wsdlParse ==
  /\ pc = "parse"
  /\ pc' = "calls"
  /\ todo' = [i \in DOMAIN SoapPorts |-> Call("Binding", << >>, 0, SoapPorts[i].binding)]
  /\ UNCHANGED <<toolVars, callList, stub>>

\* For a port without a binding the name is what a buffer is left with on the stack,
\* perhaps that of the port before, perhaps nothing that ends.
NameRead(name) == IF name # "" THEN {name} ELSE {""} \cup {b.name : b \in Range(doc.bindings)}
handleBinding ==
  \/ /\ Parsing("Binding")
     /\ \E name \in NameRead(Top.name) :
          LET found == BindingsNamed(name)
          IN  Return([i \in DOMAIN found |-> Call("PortType", << >>, 0, found[i].type)])
     /\ UNCHANGED <<toolVars, pc, callList, stub>>
  \/ /\ Parsing("Binding") /\ Top.name = ""
     /\ pc' = "crashed"
     /\ UNCHANGED <<toolVars, todo, callList, stub>>

handlePortType ==
  LET found == Operations(Top.name)
  IN  /\ Parsing("PortType")
      /\ Return([i \in DOMAIN found |-> Call("Operation", found[i], 0, "")])
      /\ UNCHANGED <<toolVars, pc, callList, stub>>

\* The calls of handlePortType for one operation: without a message for its
\* input, its output is not looked at ("none": no element, "": no message).
OperationCalls(op) ==
  IF op.input \in {"none", ""} THEN << >>
  ELSE << Call("Input", << >>, 0, op.input) >> \o
       (IF op.output \in {"none", ""} THEN << >> ELSE << Call("Output", << >>, 0, op.output) >>)

handleOperation ==
  /\ Parsing("Operation")
  /\ callList' = CallList_Add_operation(callList, CallFunc_Create(Top.node.name))
  /\ Return(OperationCalls(Top.node))
  /\ UNCHANGED <<toolVars, pc, stub>>

\* Fault: like an answer, a call has one part.
OneParameter ==
  LET parts == Vars(Parts(Top.name))
  IN  /\ Parsing("Input")
      /\ callList' = IF parts = << >> THEN callList
                     ELSE [callList EXCEPT ![Len(callList)] = CallFunc_Add_in(@, << Head(parts) >>)]
      /\ Return(<< >>)
      /\ UNCHANGED <<toolVars, pc, stub>>

handleInputParameters ==
  /\ Parsing("Input")
  /\ callList' = [callList EXCEPT ![Len(callList)] = CallFunc_Add_in(@, Vars(Parts(Top.name)))]
  /\ Return(<< >>)
  /\ UNCHANGED <<toolVars, pc, stub>>

\* Only the first part is returned.
handleOutputParameters ==
  LET parts == Vars(Parts(Top.name))
  IN  /\ Parsing("Output")
      /\ callList' = IF parts = << >> THEN callList
                     ELSE [callList EXCEPT ![Len(callList)] = CallFunc_Set_out(@, Head(parts))]
      /\ Return(<< >>)
      /\ UNCHANGED <<toolVars, pc, stub>>

-----------------------------------------------------------------------------
(* The stubs (codewriter.c), and the end of wsdl2c.                        *)
objRegistryGetComplexType(type_) == SelectInSeq(objs, LAMBDA obj : obj.full = type_)

writeOperation(call) ==
  [name |-> call.name, out |-> trXSD2C(call.out[1].type),
   in |-> [i \in DOMAIN call.in |-> <<trXSD2C(call.in[i].type), call.in[i].name>>]]

StubIncludes ==
  {Local(v.type) : v \in {w \in UNION {Range(call.in) : call \in Range(callList)} :
                          objRegistryGetComplexType(w.type) # 0}}

\* An operation without output has no CallVar to ask for its type.
codeWriteStubHeader ==
  /\ pc = "calls" /\ todo = << >>
  /\ IF \E call \in Range(callList) : call.out = << >>
       THEN pc' = "crashed" /\ UNCHANGED stub
       ELSE /\ stub' = << [includes |-> StubIncludes,
                           prototypes |-> [i \in DOMAIN callList |-> writeOperation(callList[i])]] >>
            /\ pc' = "free"
  /\ UNCHANGED <<toolVars, todo, callList>>

\* objFreeModule reads the link of a type it has freed.
FreeModules ==
  /\ pc = "free"
  /\ pc' \in {"ended"} \cup (IF objs = << >> THEN {} ELSE {"crashed"})
  /\ callList' = << >>
  /\ UNCHANGED <<toolVars, todo, stub>>

-----------------------------------------------------------------------------
Init ==
  /\ doc \in Documents
  /\ pc = "start" /\ root = 1 /\ todo = << >> /\ targetNS = "" /\ next = 1
  /\ types = << >> /\ lists = << >> /\ objs = << >>
  /\ skipped = FALSE
  /\ headers = [name \in {} |-> << >>]
  /\ sources = [name \in {} |-> << >>]
  /\ callList = << >> /\ stub = << >>

Engine ==
  \/ Xsd2cStart \/ Xsd2cEnd \/ Wsdl2cStart \/ Wsdl2cNext
  \/ xsdInitTrModule \/ xsdInitObjModule \/ runGenerator
  \/ xsdProcAttribute \/ xsdProcElement \/ xsdProcSequence \/ xsdProcExtension
  \/ xsdProcComplexContent \/ xsdProcRestriction \/ xsdProcSimpleContent \/ xsdProcComplexType
  \/ xsdEngineRun \/ declareStructs \/ writeSource

Calls2c ==
  \/ wsdlParse \/ handleBinding \/ handlePortType \/ handleOperation
  \/ handleInputParameters \/ handleOutputParameters
  \/ codeWriteStubHeader \/ FreeModules

Next ==
  \/ Engine /\ UNCHANGED wsdlVars
  \/ Calls2c

Spec == Init /\ [][Next]_vars

-----------------------------------------------------------------------------
(* Properties.                                                             *)
ObjectNames == {obj.type : obj \in Range(objs)}
\* The engine is through with all schemas and could open every file.
Generated == pc \in {"parse", "calls", "free", "ended"} /\ ~skipped

\* Type invariant: pending calls and fields belong to types that exist, and no
\* source is written without the header it includes (xsdEngineRun, xsd2c.c:1015).
TypeOK ==
  /\ pc \in {"start", "inittr", "initobj", "generator", "types", "headers", "sources", "written",
             "parse", "calls", "free", "ended", "failed", "crashed"}
  /\ root \in 1 .. Len(Roots)
  /\ next \in 1 .. Len(objs) + 1
  /\ \A i \in DOMAIN todo : todo[i].ct \in 0 .. Len(objs)
  /\ \A obj \in Range(objs) : \A f \in FieldsOf(obj) : f.max \in Int /\ f.parent = obj.type
  /\ DOMAIN headers \subseteq ObjectNames
  /\ skipped \/ DOMAIN sources \subseteq DOMAIN headers

\* Types whose code never compiles: derived and restricted ones, those with a float as
\* attribute, those with a field whose type is not registered under the name the field
\* has for it, because no schema has it or it is written inside the element and
\* registered with a prefix that the field lacks (xsd2c.c:342), those with a field that
\* occurs no times, whose setter is used before it is declared (formatter.c:454), and
\* those with a list of a type that took the name of a built-in one. obj.c:101 lets a
\* type have two fields of one name, whose functions are then defined twice, or one
\* named like an end of the list of another; and a name may be none in C.
Unsupported(obj) ==
  \/ HasBase(obj) \/ obj.simple \/ Misnamed(obj)
  \/ \E i, j \in DOMAIN obj.fields :
       /\ i # j
       /\ obj.fields[i].name = obj.fields[j].name \/ Slots(obj.fields[i]) \cap Slots(obj.fields[j]) # {}
  \/ \E f \in FieldsOf(obj) :
       \/ trXSD2C(f.type) = NoC
       \/ IsAttribute(f) /\ trXSD2C(f.type).kind \in {"float", "double"}
       \/ ~IsList(f) /\ f.max # 1
       \/ IsList(f) /\ trGetBuildInFlag(f.type) = 1 /\ trXSD2CList(f.type) # NoC

\* A type may refer to one further down or in a later schema of the document: all
\* headers are written anew after every schema, before the sources, so that in the
\* end every source finds what it uses, declared by its headers and defined by one
\* source, and nothing twice, unless it includes the header of an unsupported type
\* (xsdEngineRun, formatter.c:99).
SourcesCompile ==
  Generated =>
    \A name \in DOMAIN sources :
       (Compiles(name) /\ Links(name)) \/ \E h \in Included(name) : Unsupported(TypeNamed(h))

\* The operations of all ports with a SOAP address.
PortOperations(port) ==
  UNION {Range(Operations(b.type)) : b \in Range(BindingsNamed(port.binding))}
SoapOperations == UNION {PortOperations(port) : port \in Range(SoapPorts)}

\* The stubs are those of all operations; each takes every part of the message of its
\* operation, in order, returns the first part of the answer, and finds the headers of
\* the types it takes (wsdl2c.c:224, codewriter.c:33).
StubOfOperation(p, op) ==
  LET parts == Parts(op.input)
  IN  /\ p.name = op.name
      /\ p.in = [i \in DOMAIN parts |-> <<trXSD2C(parts[i].type), parts[i].name>>]
      /\ p.out = trXSD2C(Parts(op.output)[1].type)
StubFine(s) ==
  /\ {p.name : p \in Range(s.prototypes)} = {op.name : op \in SoapOperations}
  /\ \A op \in SoapOperations : \E p \in Range(s.prototypes) : StubOfOperation(p, op)
  /\ \A p \in Range(s.prototypes) : \A v \in Range(p.in) :
       v[1].kind = "struct*" => v[1].name \in s.includes \cap DOMAIN headers \/ skipped

\* Every SOAP port has a binding: else handleBinding looks for what nobody wrote.
Bound == \A port \in Range(SoapPorts) : port.binding # ""
\* Where all SOAP ports have a binding, the stubs written are complete.
StubComplete == Bound => \A s \in Range(stub) : StubFine(s)

=============================================================================
