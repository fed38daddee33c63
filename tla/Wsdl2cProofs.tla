---------------------------- MODULE Wsdl2cProofs ----------------------------
(***************************************************************************)
(* Proofs about the generators for any documents: type correctness, that   *)
(* what is written for supported types compiles, and that the stubs of     *)
(* wsdl2c are those of the operations of its document.                     *)
(***************************************************************************)
EXTENDS Wsdl2c, SequenceLemmas, FiniteSetTheorems

-----------------------------------------------------------------------------
(*                          The inductive invariant                        *)
ObjFields == {"type", "base", "fields", "simple", "restriction", "full"}

ObjFine(obj) ==
  /\ DOMAIN obj = ObjFields /\ obj.full[2] = obj.type
  /\ IsSeq(obj.fields)
  /\ \A f \in FieldsOf(obj) : f.max \in Int /\ f.parent = obj.type
ObjsInv == IsSeq(objs) /\ \A i \in DOMAIN objs : ObjFine(objs[i])

\* A call that fills in a type names one that exists.
CallFine(c) ==
  /\ c.ct \in 0 .. Len(objs)
  /\ pc = "types" => c.node \in Nodes /\ (c.ct = 0 => c.proc = "ComplexType")
TodoInv == IsSeq(todo) /\ \A c \in Range(todo) : CallFine(c)

\* A type in the registry is built in, or that of a complex type and has a list.
BuiltinEntry(e) == e.builtin = 1 /\ e.c.kind \in {"char*", "int", "double", "float"}
OwnEntry(e) ==
  /\ e.builtin = 0 /\ e.c = Pointer(e.xsd[2])
  /\ \E obj \in Range(objs) : obj.full = e.xsd
  /\ \E l \in Range(lists) : l.xsd = e.xsd
RegistryInv ==
  /\ IsSeq(types) /\ \A e \in Range(types) : BuiltinEntry(e) \/ OwnEntry(e)
  /\ IsSeq(lists) /\ \A l \in Range(lists) : l.c = Pointer(l.xsd[2] \o "_List")

\* Of the first n types the files are written, those of the last one of a name.
Latest(j, n) == \A k \in j + 1 .. n : objs[k].type # objs[j].type
HeadersUpTo(n) ==
  \A j \in 1 .. n :
    /\ objs[j].type \in DOMAIN headers
    /\ Latest(j, n) => headers[objs[j].type] = writeComplexTypeHeaderFile(objs[j])
SourcesUpTo(n) ==
  \A j \in 1 .. n :
    /\ objs[j].type \in DOMAIN sources
    /\ Latest(j, n) => sources[objs[j].type] = writeComplexTypeSourceFile(objs[j])

\* What is through with the headers, and with the sources.
HeadersDone == {"sources", "written", "parse", "calls", "free", "ended"}
SourcesDone == {"written", "parse", "calls", "free", "ended"}

FilesInv ==
  /\ IsFiniteSet(DOMAIN headers)
  /\ DOMAIN headers \subseteq ObjectNames /\ DOMAIN sources \subseteq ObjectNames
  /\ skipped \/ DOMAIN sources \subseteq DOMAIN headers
  /\ pc = "headers" => HeadersUpTo(next - 1)
  /\ pc \in HeadersDone => skipped \/ HeadersUpTo(Len(objs))
  /\ pc = "sources" => SourcesUpTo(next - 1)
  /\ pc \in SourcesDone => skipped \/ SourcesUpTo(Len(objs))

PlaceInv == doc \in Documents /\ root \in 1 .. Len(Roots) /\ next \in 1 .. Len(objs) + 1
PCs == {"start", "inittr", "initobj", "generator", "types", "headers", "sources", "written",
        "parse", "calls", "free", "ended", "failed", "crashed"}

IInv == pc \in PCs /\ PlaceInv /\ ObjsInv /\ TodoInv /\ RegistryInv /\ FilesInv

-----------------------------------------------------------------------------
(* What is read from a document.                                           *)
LEMMA AmongFacts ==
  ASSUME NEW s, IsSeq(s), NEW T
  PROVE  IsSeq(Among(s, T)) /\ Range(Among(s, T)) = Range(s) \cap T
<1>. DEFINE S == Range(s) \cap T
            part == [i \in DOMAIN s |-> IF s[i] \in T THEN << s[i] >> ELSE << >>]
<1>1. PICK n \in Nat : n = Len(s) /\ DOMAIN s = 1 .. n
  BY Elements
<1>2. \A i \in 1 .. n : s[i] \in T => s[i] \in S
  BY <1>1 DEF Range
<1>3. part \in [1 .. n -> Seq(S)]
  <2>1. \A i \in 1 .. n : (IF s[i] \in T THEN << s[i] >> ELSE << >>) \in Seq(S)
    <3>. HIDE DEF S
    <3>. QED
      BY <1>2
  <2>. HIDE DEF S
  <2>. QED
    BY <1>1, <2>1
<1>4. Among(s, T) = FlattenSeq(part)
  BY DEF Among
<1>5. /\ FlattenSeq(part) \in Seq(S)
      /\ \A i \in 1 .. n : Range(part[i]) \subseteq Range(FlattenSeq(part))
  <2>. HIDE DEF S, part
  <2>. QED
    BY <1>3, FlattenElements
<1>6. IsSeq(Among(s, T)) /\ Range(Among(s, T)) \subseteq S
  <2>. HIDE DEF S, part
  <2>. QED
    BY <1>4, <1>5, ElementsOf
<1>7. ASSUME NEW x \in S PROVE x \in Range(Among(s, T))
  <2>1. PICK i \in 1 .. n : s[i] = x
    BY <1>1 DEF Range
  <2>2. part[i] = << x >>
    BY <1>1, <2>1
  <2>3. x \in Range(<< x >>)
    BY DEF Range
  <2>. HIDE DEF part
  <2>. QED
    BY <1>4, <1>5, <2>2, <2>3
<1>. QED
  BY <1>6, <1>7

LEMMA ChildrenFacts ==
  ASSUME NEW node \in Nodes, NEW keywords
  PROVE  /\ IsSeq(Children(node, keywords))
         /\ \A n \in Range(Children(node, keywords)) : n \in Nodes /\ n \in Range(node.sub)
<1>1. node.sub \in Seq(Nodes)
  BY NodesAssumption
<1>2. IsSeq(node.sub) /\ Range(node.sub) \subseteq Nodes
  BY <1>1, ElementsOf
<1>. QED
  BY <1>2, AmongFacts DEF Children

\* A sequence that is made of another element by element.
LEMMA MappedFacts ==
  ASSUME NEW s, IsSeq(s), NEW t, DOMAIN t = DOMAIN s, NEW Made,
         t = [i \in DOMAIN s |-> t[i]], \A i \in DOMAIN s : t[i] \in Made
  PROVE  IsSeq(t) /\ Range(t) \subseteq Made
<1>1. PICK n \in Nat : DOMAIN s = 1 .. n
  BY Elements
<1>2. t \in [1 .. n -> Made]
  BY <1>1
<1>3. t \in Seq(Made)
  BY <1>2
<1>. QED
  BY <1>3, ElementsOf

LEMMA CallsFacts ==
  ASSUME NEW node \in Nodes, NEW ct, NEW procs
  PROVE  /\ IsSeq(Calls(node, ct, procs))
         /\ \A c \in Range(Calls(node, ct, procs)) : c.node \in Nodes /\ c.ct = ct
<1>. DEFINE known == Children(node, DOMAIN procs)
            Made == {Call(procs[n.kw], n, ct, "") : n \in Nodes}
<1>1. IsSeq(known) /\ \A n \in Range(known) : n \in Nodes
  BY ChildrenFacts
<1>2. Calls(node, ct, procs) = [i \in DOMAIN known |-> Call(procs[known[i].kw], known[i], ct, "")]
  BY DEF Calls
<1>3. PICK t : t = Calls(node, ct, procs)
  OBVIOUS
<1>4. DOMAIN t = DOMAIN known /\ t = [i \in DOMAIN known |-> t[i]]
  BY <1>2, <1>3
<1>5. \A i \in DOMAIN known : t[i] \in Made
  <2>1. \A i \in DOMAIN known : known[i] \in Nodes
    BY <1>1 DEF Range
  <2>. QED
    BY <1>2, <1>3, <2>1
<1>6. IsSeq(t) /\ Range(t) \subseteq Made
  <2>. HIDE DEF known, Made
  <2>. QED
    BY <1>1, <1>4, <1>5, MappedFacts
<1>7. ASSUME NEW c \in Made PROVE c.node \in Nodes /\ c.ct = ct
  <2>1. PICK n \in Nodes : c = Call(procs[n.kw], n, ct, "")
    OBVIOUS
  <2>. HIDE DEF Made
  <2>. QED
    BY <2>1 DEF Call
<1>. QED
  BY <1>3, <1>6, <1>7

LEMMA InlineFacts ==
  ASSUME NEW node \in Nodes, NEW ct
  PROVE  /\ IsSeq(InlineCalls(node, ct))
         /\ \A c \in Range(InlineCalls(node, ct)) :
              c.node \in Nodes /\ (c.ct = ct \/ (c.ct = 0 /\ c.proc = "ComplexType"))
<1>. DEFINE name == objs[ct].type \o "_" \o node.name
            inner == Children(node, {"complexType"})
            one(n) == << Call("ComplexType", n, 0, name), Call("InlineField", node, ct, name) >>
            Made == {Call("ComplexType", n, 0, name) : n \in Nodes} \cup {Call("InlineField", node, ct, name)}
            part == [i \in DOMAIN inner |-> one(inner[i])]
<1>1. IsSeq(inner) /\ \A n \in Range(inner) : n \in Nodes
  BY ChildrenFacts
<1>2. PICK k \in Nat : DOMAIN inner = 1 .. k
  BY <1>1, Elements
<1>3. part \in [1 .. k -> Seq(Made)]
  <2>1. ASSUME NEW i \in 1 .. k PROVE one(inner[i]) \in Seq(Made)
    <3>1. inner[i] \in Nodes
      BY <1>1, <1>2 DEF Range
    <3>2. Call("ComplexType", inner[i], 0, name) \in Made /\ Call("InlineField", node, ct, name) \in Made
      BY <3>1
    <3>3. \A S, x, y : x \in S /\ y \in S => << x, y >> \in Seq(S)
      OBVIOUS
    <3>. HIDE DEF Made
    <3>. QED
      BY <3>2, <3>3
  <2>. HIDE DEF Made, one
  <2>. QED
    BY <1>2, <2>1
<1>4. InlineCalls(node, ct) = FlattenSeq(part)
  BY DEF InlineCalls
<1>5. IsSeq(InlineCalls(node, ct)) /\ Range(InlineCalls(node, ct)) \subseteq Made
  <2>. HIDE DEF Made, part
  <2>1. FlattenSeq(part) \in Seq(Made)
    BY <1>3, FlattenElements
  <2>. QED
    BY <1>4, <2>1, ElementsOf
<1>6. ASSUME NEW c \in Made PROVE c.node \in Nodes /\ (c.ct = ct \/ (c.ct = 0 /\ c.proc = "ComplexType"))
  <2>1. CASE c = Call("InlineField", node, ct, name)
    BY <2>1 DEF Call
  <2>2. CASE \E n \in Nodes : c = Call("ComplexType", n, 0, name)
    <3>1. PICK n \in Nodes : c = Call("ComplexType", n, 0, name)
      BY <2>2
    <3>. QED
      BY <3>1 DEF Call
  <2>. QED
    BY <2>1, <2>2
<1>. QED
  BY <1>5, <1>6

LEMMA RootCallFacts ==
  ASSUME NEW node \in Nodes
  PROVE  \E name, n : n \in Nodes /\ RootCall(node) \in {<< >>, << Call("ComplexType", n, 0, name) >>}
<1>. DEFINE inner == Children(node, {"complexType"})
<1>1. IsSeq(inner) /\ \A n \in Range(inner) : n \in Nodes
  BY ChildrenFacts
<1>2. inner # << >> => Head(inner) \in Nodes
  BY <1>1, HeadElement
<1>3. RootCall(node) \in {<< >>, << Call("ComplexType", node, 0, "") >>,
        << Call("ComplexType", IF inner = << >> THEN node ELSE Head(inner), 0, node.name) >>}
  BY DEF RootCall
<1>. HIDE DEF inner
<1>. QED
  BY <1>2, <1>3

LEMMA RootsFacts ==
  ASSUME PlaceInv
  PROVE  IsSeq(Roots) /\ root \in DOMAIN Roots /\ \A n \in Range(Roots) : n \in Nodes
<1>1. doc.roots \in Seq(Nodes) /\ doc.definitions \in Nodes
  BY RootsAssumption DEF PlaceInv
<1>2. Roots \in Seq(Nodes)
  BY <1>1 DEF Roots
<1>. QED
  BY <1>2, ElementsOf, Elements DEF PlaceInv

LEMMA RootCallsFacts ==
  ASSUME NEW node \in Nodes, NEW calls,
         calls = FlattenSeq([i \in DOMAIN node.sub |-> RootCall(node.sub[i])])
  PROVE  IsSeq(calls) /\ \A c \in Range(calls) : c.node \in Nodes /\ c.ct = 0 /\ c.proc = "ComplexType"
<1>. DEFINE part == [i \in DOMAIN node.sub |-> RootCall(node.sub[i])]
            Made == UNION {Range(RootCall(n)) : n \in Nodes}
<1>1. PICK k \in Nat : node.sub \in Seq(Nodes) /\ DOMAIN node.sub = 1 .. k
  BY NodesAssumption
<1>2. ASSUME NEW n \in Nodes
      PROVE  /\ IsSeq(RootCall(n))
             /\ \A c \in Range(RootCall(n)) : c.node \in Nodes /\ c.ct = 0 /\ c.proc = "ComplexType"
  <2>1. PICK name, m : m \in Nodes /\ RootCall(n) \in {<< >>, << Call("ComplexType", m, 0, name) >>}
    BY RootCallFacts
  <2>2. CASE RootCall(n) = << >>
    <3>1. << >> \in Seq({}) /\ Range(<< >>) = {}
      BY DEF Range
    <3>. QED
      BY <2>2, <3>1, ElementsOf
  <2>3. CASE RootCall(n) = << Call("ComplexType", m, 0, name) >>
    <3>1. PICK c : c = Call("ComplexType", m, 0, name)
      OBVIOUS
    <3>2. << c >> \in Seq({c})
      OBVIOUS
    <3>3. IsSeq(<< c >>) /\ Range(<< c >>) \subseteq {c}
      BY <3>2, ElementsOf
    <3>4. c.node \in Nodes /\ c.ct = 0 /\ c.proc = "ComplexType"
      BY <2>1, <3>1 DEF Call
    <3>. QED
      BY <2>3, <3>1, <3>3, <3>4
  <2>. QED
    BY <2>1, <2>2, <2>3
<1>3. part \in [1 .. k -> Seq(Made)]
  <2>1. ASSUME NEW i \in 1 .. k PROVE RootCall(node.sub[i]) \in Seq(Made)
    <3>1. node.sub[i] \in Nodes
      BY <1>1
    <3>2. RootCall(node.sub[i]) \in Seq(Range(RootCall(node.sub[i])))
      BY <1>2, <3>1, Elements
    <3>3. Range(RootCall(node.sub[i])) \subseteq Made
      BY <3>1
    <3>4. \A A, B, s : s \in Seq(A) /\ A \subseteq B => s \in Seq(B)
      OBVIOUS
    <3>. HIDE DEF Made
    <3>. QED
      BY <3>2, <3>3, <3>4
  <2>. HIDE DEF Made
  <2>. QED
    BY <1>1, <2>1
<1>4. IsSeq(calls) /\ Range(calls) \subseteq Made
  <2>. HIDE DEF Made, part
  <2>1. FlattenSeq(part) \in Seq(Made)
    BY <1>3, FlattenElements
  <2>2. calls = FlattenSeq(part)
    BY DEF part
  <2>. QED
    BY <2>1, <2>2, ElementsOf
<1>5. \A c \in Made : c.node \in Nodes /\ c.ct = 0 /\ c.proc = "ComplexType"
  BY <1>2
<1>. QED
  BY <1>4, <1>5

-----------------------------------------------------------------------------
(* The registry of types: what is found under a name.                      *)
LEMMA LookupFacts ==
  ASSUME NEW reg, IsSeq(reg), NEW type
  PROVE  \/ Lookup(reg, type) = 0 /\ \A e \in Range(reg) : e.xsd # type
         \/ /\ Lookup(reg, type) \in DOMAIN reg /\ Lookup(reg, type) # 0
            /\ reg[Lookup(reg, type)] \in Range(reg) /\ reg[Lookup(reg, type)].xsd = type
<1>. DEFINE T == {i \in 1 .. Len(reg) : reg[i].xsd = type}
<1>1. PICK n \in Nat : n = Len(reg) /\ DOMAIN reg = 1 .. n
  BY Elements
<1>2. Lookup(reg, type) = IF T # {} THEN Min(T) ELSE 0
  BY DEF Lookup, SelectInSeq
<1>3. CASE T = {}
  <2>1. \A e \in Range(reg) : e.xsd # type
    BY <1>1, <1>3 DEF Range
  <2>. HIDE DEF T
  <2>. QED
    BY <1>2, <1>3, <2>1
<1>4. CASE T # {}
  <2>1. T \subseteq Nat
    BY <1>1
  <2>2. PICK i \in T : \A j \in T : i <= j
    <3>. HIDE DEF T
    <3>. QED
      BY <1>4, <2>1, SomeLeast
  <2>3. Min(T) = i
    <3>. HIDE DEF T
    <3>. QED
      BY <2>1, <2>2, FirstNumber
  <2>4. i \in DOMAIN reg /\ i # 0 /\ reg[i].xsd = type
    BY <1>1, <2>2
  <2>. HIDE DEF T
  <2>. QED
    BY <1>2, <1>4, <2>3, <2>4 DEF Range
<1>. QED
  BY <1>3, <1>4

TypeFound(type) ==
  /\ trGetBuildInFlag(type) \in {-1, 0, 1}
  /\ trGetBuildInFlag(type) = -1 => trXSD2C(type) = NoC
  /\ trGetBuildInFlag(type) = 1 => trXSD2C(type).kind \in {"char*", "int", "double", "float"}
  /\ trGetBuildInFlag(type) = 0 =>
       /\ trXSD2C(type) = Pointer(Local(type))
       /\ trXSD2CList(type) = Pointer(Local(type) \o "_List")
       /\ \E obj \in Range(objs) : obj.full = type
  /\ trXSD2CList(type) \in {NoC, Pointer(Local(type) \o "_List")}

LEMMA TypeFacts ==
  ASSUME RegistryInv, NEW type
  PROVE  TypeFound(type)
<1>. DEFINE i == Lookup(types, type)
            l == Lookup(lists, type)
<1>1. \/ i = 0 /\ \A e \in Range(types) : e.xsd # type
      \/ i \in DOMAIN types /\ i # 0 /\ types[i] \in Range(types) /\ types[i].xsd = type
  BY LookupFacts DEF RegistryInv
<1>2. \/ l = 0 /\ \A e \in Range(lists) : e.xsd # type
      \/ l \in DOMAIN lists /\ l # 0 /\ lists[l] \in Range(lists) /\ lists[l].xsd = type
  BY LookupFacts DEF RegistryInv
<1>3. /\ trXSD2C(type) = IF i = 0 THEN NoC ELSE types[i].c
      /\ trGetBuildInFlag(type) = IF i = 0 THEN -1 ELSE types[i].builtin
  BY DEF trXSD2C, trGetBuildInFlag
<1>4. trXSD2CList(type) = IF l = 0 THEN NoC ELSE lists[l].c
  BY DEF trXSD2CList
<1>. HIDE DEF i, l
<1>5. l # 0 => trXSD2CList(type) = Pointer(Local(type) \o "_List")
  BY <1>2, <1>4 DEF RegistryInv, Local
<1>6. i # 0 => BuiltinEntry(types[i]) \/ OwnEntry(types[i])
  BY <1>1 DEF RegistryInv
<1>7. CASE i = 0
  BY <1>3, <1>4, <1>5, <1>7 DEF TypeFound
<1>8. CASE i # 0 /\ BuiltinEntry(types[i])
  BY <1>3, <1>4, <1>5, <1>8 DEF TypeFound, BuiltinEntry
<1>9. CASE i # 0 /\ OwnEntry(types[i])
  <2>1. /\ trXSD2C(type) = Pointer(Local(type)) /\ trGetBuildInFlag(type) = 0
        /\ \E obj \in Range(objs) : obj.full = type
        /\ \E e \in Range(lists) : e.xsd = type
    BY <1>1, <1>3, <1>9 DEF OwnEntry, Local
  <2>. QED
    BY <1>2, <1>4, <1>5, <2>1 DEF TypeFound
<1>. QED
  BY <1>6, <1>7, <1>8, <1>9

-----------------------------------------------------------------------------
(* What a step of the engine leaves as it was: types are only added, and   *)
(* what is there keeps its name.                                           *)
Grows ==
  /\ Len(objs) <= Len(objs') /\ IsSeq(objs')
  /\ \A i \in DOMAIN objs : objs'[i].type = objs[i].type /\ objs'[i].full = objs[i].full

LEMMA GrowsFacts ==
  ASSUME ObjsInv, Grows
  PROVE  /\ ObjectNames \subseteq ObjectNames'
         /\ \A x : (\E obj \in Range(objs) : obj.full = x) => \E obj \in Range(objs') : obj.full = x
<1>1. PICK n \in Nat, m \in Nat :
        /\ n = Len(objs) /\ DOMAIN objs = 1 .. n
        /\ m = Len(objs') /\ DOMAIN objs' = 1 .. m
  <2>1. Len(objs) \in Nat /\ DOMAIN objs = 1 .. Len(objs)
    BY Elements DEF ObjsInv
  <2>2. Len(objs') \in Nat /\ DOMAIN objs' = 1 .. Len(objs')
    BY Elements DEF Grows
  <2>. QED
    BY <2>1, <2>2
<1>2. \A i \in 1 .. n : i \in 1 .. m
  BY <1>1 DEF Grows
<1>3. \A i \in 1 .. n : objs'[i] \in Range(objs') /\ objs'[i].type = objs[i].type /\ objs'[i].full = objs[i].full
  BY <1>1, <1>2 DEF Range, Grows
<1>4. ASSUME NEW obj \in Range(objs)
      PROVE  \E o \in Range(objs') : o.type = obj.type /\ o.full = obj.full
  <2>1. PICK i \in 1 .. n : obj = objs[i]
    BY <1>1 DEF Range
  <2>. QED
    BY <1>3, <2>1
<1>5. ObjectNames \subseteq ObjectNames'
  BY <1>4 DEF ObjectNames
<1>. QED
  BY <1>4, <1>5

LEMMA SameObjects ==
  ASSUME ObjsInv, objs' = objs
  PROVE  Grows /\ ObjsInv'
<1>1. Len(objs) \in Nat
  BY Elements DEF ObjsInv
<1>. QED
  BY <1>1 DEF ObjsInv, Grows, ObjFine, FieldsOf

\* A step that fills in a type.
LEMMA FilledIn ==
  ASSUME ObjsInv, NEW ct \in DOMAIN objs, NEW new, objs' = [objs EXCEPT ![ct] = new],
         ObjFine(new), new.type = objs[ct].type, new.full = objs[ct].full
  PROVE  Grows /\ ObjsInv'
<1>1. objs \in Seq(Range(objs)) /\ Len(objs) \in Nat /\ DOMAIN objs = 1 .. Len(objs)
  BY Elements DEF ObjsInv
<1>2. objs' \in Seq(Range(objs) \cup {new}) /\ Len(objs') = Len(objs)
  <2>1. \A i \in 1 .. Len(objs) : objs[i] \in Range(objs)
    BY <1>1 DEF Range
  <2>2. objs' \in [1 .. Len(objs) -> Range(objs) \cup {new}]
    BY <1>1, <2>1
  <2>. QED
    BY <1>1, <2>2
<1>3. IsSeq(objs')
  BY <1>2, ElementsOf
<1>4. DOMAIN objs' = DOMAIN objs
  OBVIOUS
<1>5. \A i \in DOMAIN objs : objs'[i] = IF i = ct THEN new ELSE objs[i]
  OBVIOUS
<1>6. Grows
  BY <1>1, <1>2, <1>3, <1>5 DEF Grows
<1>7. \A i \in DOMAIN objs' : ObjFine(objs'[i])
  BY <1>4, <1>5 DEF ObjsInv
<1>8. ObjsInv'
  BY <1>3, <1>7 DEF ObjsInv, ObjFine, FieldsOf
<1>. QED
  BY <1>6, <1>8

LEMMA RegistryStays ==
  ASSUME ObjsInv, RegistryInv, Grows, UNCHANGED <<types, lists>>
  PROVE  RegistryInv'
<1>1. \A e : OwnEntry(e) => OwnEntry(e)'
  BY GrowsFacts DEF OwnEntry
<1>2. \A e : BuiltinEntry(e) => BuiltinEntry(e)'
  BY DEF BuiltinEntry
<1>. QED
  BY <1>1, <1>2 DEF RegistryInv

\* A call is replaced by others.
LEMMA ReadStep ==
  ASSUME IInv, pc = "types", todo # << >>, UNCHANGED <<pc, doc, root, next, files>>,
         NEW calls, IsSeq(calls), todo' = calls \o Tail(todo),
         \A c \in Range(calls) : c.node \in Nodes /\ c.ct \in 0 .. Len(objs') /\ (c.ct = 0 => c.proc = "ComplexType"),
         Grows, ObjsInv', RegistryInv'
  PROVE  IInv'
<1>1. Len(objs) \in Nat /\ Len(objs') \in Nat /\ Len(objs) <= Len(objs')
  BY Elements DEF IInv, ObjsInv, Grows
<1>2. PlaceInv'
  BY <1>1 DEF IInv, PlaceInv, Roots
<1>3. IsSeq(todo') /\ Range(todo') = Range(calls) \cup Range(Tail(todo)) /\ Range(Tail(todo)) \subseteq Range(todo)
  <2>1. IsSeq(Tail(todo)) /\ Range(Tail(todo)) \subseteq Range(todo)
    BY HeadElement DEF IInv, TodoInv
  <2>. QED
    BY <2>1, ConcatElements
<1>4. \A c \in Range(todo') : CallFine(c)'
  BY <1>1, <1>3 DEF IInv, TodoInv, CallFine
<1>5. TodoInv'
  BY <1>3, <1>4 DEF TodoInv
<1>6. FilesInv'
  <2>1. ObjectNames \subseteq ObjectNames'
    BY GrowsFacts DEF IInv
  <2>2. "types" \notin HeadersDone /\ "types" \notin SourcesDone
    BY DEF HeadersDone, SourcesDone
  <2>. QED
    BY <2>1, <2>2 DEF IInv, FilesInv, files
<1>. QED
  BY <1>2, <1>5, <1>6 DEF IInv

LEMMA CrashStep == ASSUME IInv, Crash PROVE IInv'
<1>1. Grows /\ ObjsInv'
  BY SameObjects DEF IInv, Crash, registry
<1>2. RegistryInv'
  BY <1>1, RegistryStays DEF IInv, Crash, registry
<1>3. pc' = "crashed" /\ UNCHANGED <<doc, root, todo, next, files, objs>>
  BY DEF Crash, registry
<1>4. PlaceInv'
  BY <1>3 DEF IInv, PlaceInv, Roots
<1>5. TodoInv'
  BY <1>3 DEF IInv, TodoInv, CallFine
<1>6. FilesInv'
  BY <1>3 DEF IInv, FilesInv, files, HeadersDone, SourcesDone, ObjectNames
<1>. QED
  BY <1>1, <1>2, <1>3, <1>4, <1>5, <1>6 DEF IInv, PCs

LEMMA OccursInt == ASSUME NEW max PROVE Occurs(max) \in Int
<1>. DEFINE T == {i \in 1 .. Len(Text!Numerals) : Text!Numerals[i] = max}
<1>1. Text!atoi(max) = IF T # {} THEN Min(T) ELSE 0
  BY DEF Text!atoi, Text!SelectInSeq, Text!Min, Min
<1>2. T \subseteq Nat
  BY DEF Text!Numerals
<1>3. T # {} => Text!atoi(max) \in Int
  <2>. SUFFICES ASSUME T # {} PROVE Text!atoi(max) \in Int
    OBVIOUS
  <2>1. PICK i \in T : \A j \in T : i <= j
    <3>. HIDE DEF T
    <3>. QED
      BY <1>2, SomeLeast
  <2>2. Min(T) = i
    <3>. HIDE DEF T
    <3>. QED
      BY <1>2, <2>1, FirstNumber
  <2>. HIDE DEF T
  <2>. QED
    BY <1>1, <1>2, <2>1, <2>2
<1>4. ASSUME T = {} PROVE Text!atoi(max) \in Int
  <2>. HIDE DEF T
  <2>. QED
    BY <1>1, <1>4
<1>5. Text!atoi(max) \in Int
  BY <1>3, <1>4
<1>6. CASE max = ""
  <2>1. Occurs(max) = 1
    BY <1>6, Zenon DEF Occurs
  <2>. QED
    BY <2>1
<1>7. CASE max = "unbounded"
  BY <1>7 DEF Occurs
<1>8. CASE max # "" /\ max # "unbounded"
  <2>1. Occurs(max) = Text!atoi(max)
    BY <1>8, Zenon DEF Occurs
  <2>. QED
    BY <1>5, <2>1
<1>. QED
  BY <1>6, <1>7, <1>8

-----------------------------------------------------------------------------
(* The steps of reading a schema.                                          *)
LEMMA TopFine ==
  ASSUME IInv, pc = "types", todo # << >>
  PROVE  /\ Top \in Range(todo) /\ Top.node \in Nodes /\ Top.ct \in 0 .. Len(objs)
         /\ Top.proc # "ComplexType" => Top.ct \in DOMAIN objs
<1>1. Top \in Range(todo)
  BY HeadElement DEF IInv, TodoInv, Top
<1>2. DOMAIN objs = 1 .. Len(objs) /\ Len(objs) \in Nat
  BY Elements DEF IInv, ObjsInv
<1>3. Top.ct # 0 => Top.ct \in 1 .. Len(objs)
  BY <1>1, <1>2 DEF IInv, TodoInv, CallFine
<1>. QED
  BY <1>1, <1>2, <1>3 DEF IInv, TodoInv, CallFine

\* A call that only makes other calls.
LEMMA CallsStep ==
  ASSUME IInv, pc = "types", todo # << >>,
         UNCHANGED <<doc, pc, root, targetNS, registry, next, files>>,
         NEW calls, IsSeq(calls), Return(calls),
         \A c \in Range(calls) : c.node \in Nodes /\ c.ct \in 0 .. Len(objs) /\ (c.ct = 0 => c.proc = "ComplexType")
  PROVE  IInv'
<1>1. Grows /\ ObjsInv'
  BY SameObjects DEF IInv, registry
<1>2. RegistryInv'
  BY <1>1, RegistryStays DEF IInv, registry
<1>3. UNCHANGED <<pc, doc, root, next, files>> /\ todo' = calls \o Tail(todo) /\ Len(objs') = Len(objs)
  BY DEF registry, Return
<1>. QED
  BY <1>1, <1>2, <1>3, ReadStep

LEMMA NoCalls ==
  /\ IsSeq(<< >>) /\ Range(<< >>) = {}
<1>1. << >> \in Seq({}) /\ Range(<< >>) = {}
  BY DEF Range
<1>. QED
  BY <1>1, ElementsOf

\* A call that fills in a type and makes others.
LEMMA FillStep ==
  ASSUME IInv, pc = "types", todo # << >>, NEW ct \in DOMAIN objs, NEW new, objs' = [objs EXCEPT ![ct] = new],
         ObjFine(new), new.type = objs[ct].type, new.full = objs[ct].full,
         UNCHANGED <<doc, pc, root, targetNS, types, lists, next, files>>,
         NEW calls, IsSeq(calls), Return(calls),
         \A c \in Range(calls) : c.node \in Nodes /\ c.ct = ct
  PROVE  IInv'
<1>1. Grows /\ ObjsInv'
  BY FilledIn DEF IInv
<1>2. RegistryInv'
  BY <1>1, RegistryStays DEF IInv
<1>3. UNCHANGED <<pc, doc, root, next, files>> /\ todo' = calls \o Tail(todo)
  BY DEF Return
<1>4. DOMAIN objs = 1 .. Len(objs) /\ Len(objs) \in Nat /\ Len(objs) <= Len(objs') /\ Len(objs') \in Nat
  BY <1>1, Elements DEF IInv, ObjsInv, Grows
<1>5. \A c \in Range(calls) : c.node \in Nodes /\ c.ct \in 0 .. Len(objs') /\ (c.ct = 0 => c.proc = "ComplexType")
  BY <1>4
<1>. QED
  BY <1>1, <1>2, <1>3, <1>5, ReadStep

LEMMA AddFieldStep ==
  ASSUME IInv, pc = "types", todo # << >>, NEW ct \in DOMAIN objs,
         NEW name, NEW type, NEW max \in Int, NEW attr, AddField(ct, name, type, max, attr)
  PROVE  IInv'
<1>1. CASE Crash
  BY <1>1, CrashStep
<1>2. CASE ~(name = "" \/ type = NoType)
  <2>. DEFINE field == fieldCreate(ct, name, type, max, attr)
              obj == objs[ct]
              new == [obj EXCEPT !.fields = Append(@, field)]
  <2>0. ObjFine(obj)
    BY DEF IInv, ObjsInv
  <2>1. objs' = [objs EXCEPT ![ct] = new]
    BY <1>2 DEF AddField, objAddField
  <2>2. field.max \in Int /\ field.parent = obj.type
    BY DEF fieldCreate
  <2>3. IsSeq(new.fields) /\ Range(new.fields) = Range(obj.fields) \cup {field} /\ new.type = obj.type
        /\ new.full = obj.full /\ DOMAIN new = ObjFields
    <3>1. new.fields = Append(obj.fields, field) /\ new.type = obj.type /\ new.full = obj.full /\ DOMAIN new = ObjFields
      BY <2>0 DEF ObjFine, ObjFields
    <3>. HIDE DEF new, field, obj
    <3>. QED
      BY <3>1, <2>0, AppendElement DEF ObjFine
  <2>4. ObjFine(new)
    <3>. HIDE DEF new, field, obj
    <3>. QED
      BY <2>0, <2>2, <2>3 DEF ObjFine, FieldsOf
  <2>5. Return(<< >>) /\ UNCHANGED <<doc, pc, root, targetNS, types, lists, next, files>>
    BY <1>2 DEF AddField
  <2>. HIDE DEF new
  <2>. QED
    BY <2>1, <2>3, <2>4, <2>5, NoCalls, FillStep
<1>. QED
  BY <1>1, <1>2 DEF AddField

LEMMA AttributeStep == ASSUME IInv, xsdProcAttribute PROVE IInv'
<1>1. pc = "types" /\ todo # << >> /\ Top.ct \in DOMAIN objs
  BY TopFine DEF xsdProcAttribute, Doing
<1>2. CASE Top.node.name = ""
  BY <1>1, <1>2, CallsStep, NoCalls DEF xsdProcAttribute
<1>3. CASE Top.node.name # ""
  <2>1. AddField(Top.ct, "attr_" \o Top.node.name, Top.node.type, 1, Top.node.name)
    BY <1>3 DEF xsdProcAttribute, objAddAttribute
  <2>. QED
    BY <1>1, <2>1, AddFieldStep
<1>. QED
  BY <1>2, <1>3

LEMMA ElementStep == ASSUME IInv, xsdProcElement PROVE IInv'
<1>1. pc = "types" /\ todo # << >> /\ Top.ct \in DOMAIN objs /\ Top.node \in Nodes
  BY TopFine DEF xsdProcElement, Doing
<1>2. Occurs(Top.node.max) \in Int
  BY OccursInt
<1>3. CASE \E name, type : objAddElement(Top.ct, name, type, Occurs(Top.node.max))
  BY <1>1, <1>2, <1>3, AddFieldStep DEF objAddElement
<1>4. CASE /\ Return(InlineCalls(Top.node, Top.ct))
           /\ UNCHANGED <<doc, pc, root, targetNS, registry, next, files>>
  <2>1. /\ IsSeq(InlineCalls(Top.node, Top.ct))
        /\ \A c \in Range(InlineCalls(Top.node, Top.ct)) :
             c.node \in Nodes /\ (c.ct = Top.ct \/ (c.ct = 0 /\ c.proc = "ComplexType"))
    BY <1>1, InlineFacts
  <2>2. DOMAIN objs = 1 .. Len(objs) /\ Len(objs) \in Nat
    BY Elements DEF IInv, ObjsInv
  <2>3. \A c \in Range(InlineCalls(Top.node, Top.ct)) :
             c.node \in Nodes /\ c.ct \in 0 .. Len(objs) /\ (c.ct = 0 => c.proc = "ComplexType")
    BY <1>1, <2>1, <2>2
  <2>. QED
    BY <1>1, <1>4, <2>1, <2>3, CallsStep
<1>. QED
  BY <1>3, <1>4 DEF xsdProcElement

\* The calls for the children of the node at the top.
LEMMA TopCalls ==
  ASSUME IInv, pc = "types", todo # << >>, Top.proc # "ComplexType", NEW procs
  PROVE  /\ IsSeq(Calls(Top.node, Top.ct, procs)) /\ Top.ct \in DOMAIN objs /\ ObjFine(objs[Top.ct])
         /\ \A c \in Range(Calls(Top.node, Top.ct, procs)) :
              /\ c.node \in Nodes /\ c.ct = Top.ct
              /\ c.ct \in 0 .. Len(objs) /\ (c.ct = 0 => c.proc = "ComplexType")
<1>1. Top.ct \in DOMAIN objs /\ Top.node \in Nodes
  BY TopFine
<1>2. DOMAIN objs = 1 .. Len(objs) /\ Len(objs) \in Nat
  BY Elements DEF IInv, ObjsInv
<1>3. /\ IsSeq(Calls(Top.node, Top.ct, procs))
      /\ \A c \in Range(Calls(Top.node, Top.ct, procs)) : c.node \in Nodes /\ c.ct = Top.ct
  BY <1>1, CallsFacts
<1>. QED
  BY <1>1, <1>2, <1>3 DEF IInv, ObjsInv

LEMMA SequenceStep == ASSUME IInv, xsdProcSequence PROVE IInv'
<1>1. pc = "types" /\ todo # << >> /\ Top.proc # "ComplexType"
  BY DEF xsdProcSequence, Doing
<1>2. PICK procs :
        Return(Calls(Top.node, Top.ct, procs)) /\ UNCHANGED <<doc, pc, root, targetNS, registry, next, files>>
  BY DEF xsdProcSequence
<1>. QED
  BY <1>1, <1>2, TopCalls, CallsStep

LEMMA ComplexContentStep == ASSUME IInv, xsdProcComplexContent PROVE IInv'
<1>1. pc = "types" /\ todo # << >> /\ Top.proc # "ComplexType"
  BY DEF xsdProcComplexContent, Doing
<1>2. PICK procs :
        Return(Calls(Top.node, Top.ct, procs)) /\ UNCHANGED <<doc, pc, root, targetNS, registry, next, files>>
  BY DEF xsdProcComplexContent
<1>. QED
  BY <1>1, <1>2, TopCalls, CallsStep

LEMMA ExtensionStep == ASSUME IInv, xsdProcExtension PROVE IInv'
<1>1. pc = "types" /\ todo # << >> /\ Top.proc # "ComplexType"
  BY DEF xsdProcExtension, Doing
<1>2. CASE Top.node.base = NoType
  BY <1>1, <1>2, CallsStep, NoCalls DEF xsdProcExtension, registry
<1>3. CASE Top.node.base # NoType
  <2>. DEFINE new == [objs[Top.ct] EXCEPT !.base = Top.node.base]
  <2>1. PICK procs : Return(Calls(Top.node, Top.ct, procs))
    BY <1>3 DEF xsdProcExtension
  <2>2. objs' = [objs EXCEPT ![Top.ct] = new] /\ UNCHANGED <<doc, pc, root, targetNS, types, lists, next, files>>
    BY <1>3 DEF xsdProcExtension
  <2>3. Top.ct \in DOMAIN objs /\ ObjFine(objs[Top.ct])
    BY <1>1, TopCalls
  <2>4. ObjFine(new) /\ new.type = objs[Top.ct].type /\ new.full = objs[Top.ct].full
    BY <2>3 DEF ObjFine, ObjFields, FieldsOf
  <2>. HIDE DEF new
  <2>. QED
    BY <1>1, <2>1, <2>2, <2>3, <2>4, TopCalls, FillStep
<1>. QED
  BY <1>2, <1>3

LEMMA RestrictionStep == ASSUME IInv, xsdProcRestriction PROVE IInv'
<1>1. pc = "types" /\ todo # << >> /\ Top.proc # "ComplexType"
  BY DEF xsdProcRestriction, Doing
<1>2. CASE Top.node.base = NoType
  BY <1>1, <1>2, CallsStep, NoCalls DEF xsdProcRestriction, registry
<1>3. CASE Top.node.base # NoType
  <2>. DEFINE new == [objs[Top.ct] EXCEPT !.restriction = Restricted(Top.node)]
  <2>1. Return(<< >>)
    BY <1>3 DEF xsdProcRestriction
  <2>2. objs' = [objs EXCEPT ![Top.ct] = new] /\ UNCHANGED <<doc, pc, root, targetNS, types, lists, next, files>>
    BY <1>3 DEF xsdProcRestriction
  <2>3. Top.ct \in DOMAIN objs /\ ObjFine(objs[Top.ct])
    BY <1>1, TopCalls
  <2>4. ObjFine(new) /\ new.type = objs[Top.ct].type /\ new.full = objs[Top.ct].full
    BY <2>3 DEF ObjFine, ObjFields, FieldsOf
  <2>. HIDE DEF new
  <2>. QED
    BY <1>1, <2>1, <2>2, <2>3, <2>4, NoCalls, FillStep
<1>. QED
  BY <1>2, <1>3

LEMMA SimpleContentStep == ASSUME IInv, xsdProcSimpleContent PROVE IInv'
<1>1. pc = "types" /\ todo # << >> /\ Top.proc # "ComplexType"
  BY DEF xsdProcSimpleContent, Doing
<1>. DEFINE new == [objs[Top.ct] EXCEPT !.simple = TRUE]
<1>2. PICK procs : Return(Calls(Top.node, Top.ct, procs))
  BY DEF xsdProcSimpleContent
<1>3. objs' = [objs EXCEPT ![Top.ct] = new] /\ UNCHANGED <<doc, pc, root, targetNS, types, lists, next, files>>
  BY DEF xsdProcSimpleContent
<1>4. Top.ct \in DOMAIN objs /\ ObjFine(objs[Top.ct])
  BY <1>1, TopCalls
<1>5. ObjFine(new) /\ new.type = objs[Top.ct].type /\ new.full = objs[Top.ct].full
  BY <1>4 DEF ObjFine, ObjFields, FieldsOf
<1>. HIDE DEF new
<1>. QED
  BY <1>1, <1>2, <1>3, <1>4, <1>5, TopCalls, FillStep

\* A type begins: it is there, and registered under its name with a list.
LEMMA TypeBegins ==
  ASSUME IInv, NEW name, objCreateComplexType(name)
  PROVE  Grows /\ ObjsInv' /\ RegistryInv' /\ Len(objs') = Len(objs) + 1 /\ Len(objs) \in Nat
<1>. DEFINE obj == [type |-> name, base |-> NoType, fields |-> << >>, simple |-> FALSE,
                    restriction |-> << >>, full |-> <<targetNS, name>>]
            entry == Entry(targetNS, name, Pointer(name), 0)
            list == Entry(targetNS, name, Pointer(name \o "_List"), 0)
<1>1. objs' = Append(objs, obj) /\ types' = Append(types, entry) /\ lists' = Append(lists, list)
  BY DEF objCreateComplexType, trRegisterTypeNS, trRegisterListTypeNS
<1>2. ObjFine(obj) /\ obj.full = <<targetNS, name>>
  BY NoCalls DEF ObjFine, ObjFields, FieldsOf
<1>3. entry.builtin = 0 /\ entry.c = Pointer(entry.xsd[2]) /\ entry.xsd = <<targetNS, name>>
  BY DEF Entry
<1>4. list.c = Pointer(list.xsd[2] \o "_List") /\ list.xsd = <<targetNS, name>>
  BY DEF Entry
<1>. HIDE DEF obj, entry, list
<1>5. /\ objs \in Seq(Range(objs)) /\ Len(objs) \in Nat /\ DOMAIN objs = 1 .. Len(objs)
      /\ IsSeq(objs') /\ Range(objs') = Range(objs) \cup {obj}
  BY <1>1, Elements, AppendElement DEF IInv, ObjsInv
<1>6. /\ Len(objs') = Len(objs) + 1 /\ DOMAIN objs' = 1 .. Len(objs) + 1
      /\ \A i \in 1 .. Len(objs) : objs'[i] = objs[i]
      /\ objs'[Len(objs) + 1] = obj
  <2>1. \A S, s, x : s \in Seq(S) => /\ Len(Append(s, x)) = Len(s) + 1
                                     /\ DOMAIN Append(s, x) = 1 .. Len(s) + 1
                                     /\ \A i \in 1 .. Len(s) : Append(s, x)[i] = s[i]
                                     /\ Append(s, x)[Len(s) + 1] = x
    OBVIOUS
  <2>. QED
    BY <1>1, <1>5, <2>1
<1>7. Grows
  BY <1>5, <1>6 DEF Grows
<1>8. \A i \in DOMAIN objs' : ObjFine(objs'[i])
  <2>1. \A i \in DOMAIN objs' : i \in DOMAIN objs \/ i = Len(objs) + 1
    BY <1>5, <1>6
  <2>. QED
    BY <1>2, <1>5, <1>6, <2>1 DEF IInv, ObjsInv
<1>9. ObjsInv'
  BY <1>5, <1>8 DEF ObjsInv, ObjFine, FieldsOf
<1>10. /\ IsSeq(types') /\ Range(types') = Range(types) \cup {entry}
       /\ IsSeq(lists') /\ Range(lists') = Range(lists) \cup {list}
  BY <1>1, AppendElement DEF IInv, RegistryInv
<1>11. \A e : OwnEntry(e) => OwnEntry(e)'
  BY <1>7, <1>10, GrowsFacts DEF OwnEntry, IInv
<1>12. \A e : e = entry => OwnEntry(e)'
  BY <1>2, <1>3, <1>4, <1>5, <1>10 DEF OwnEntry
<1>13. \A e : BuiltinEntry(e) => BuiltinEntry(e)'
  BY DEF BuiltinEntry
<1>14. RegistryInv'
  BY <1>4, <1>10, <1>11, <1>12, <1>13 DEF RegistryInv, IInv
<1>. QED
  BY <1>5, <1>6, <1>7, <1>9, <1>14

LEMMA ComplexTypeStep == ASSUME IInv, xsdProcComplexType PROVE IInv'
<1>. DEFINE name == IF Top.name # "" THEN Top.name ELSE Top.node.name
<1>1. pc = "types" /\ todo # << >> /\ Top.node \in Nodes
  BY TopFine DEF xsdProcComplexType, Doing
<1>2. CASE Crash
  BY <1>2, CrashStep
<1>3. CASE Return(<< >>) /\ UNCHANGED <<doc, pc, root, targetNS, registry, next, files>>
  BY <1>1, <1>3, CallsStep, NoCalls
<1>4. CASE /\ objCreateComplexType(name)
           /\ \E procs : Return(Calls(Top.node, Len(objs) + 1, procs))
           /\ UNCHANGED <<doc, pc, root, targetNS, next, files>>
  <2>1. PICK procs : Return(Calls(Top.node, Len(objs) + 1, procs))
    BY <1>4
  <2>2. Grows /\ ObjsInv' /\ RegistryInv' /\ Len(objs') = Len(objs) + 1 /\ Len(objs) \in Nat
    BY <1>4, TypeBegins
  <2>3. /\ IsSeq(Calls(Top.node, Len(objs) + 1, procs))
        /\ \A c \in Range(Calls(Top.node, Len(objs) + 1, procs)) : c.node \in Nodes /\ c.ct = Len(objs) + 1
    BY <1>1, CallsFacts
  <2>4. \A c \in Range(Calls(Top.node, Len(objs) + 1, procs)) :
          c.node \in Nodes /\ c.ct \in 0 .. Len(objs') /\ (c.ct = 0 => c.proc = "ComplexType")
    BY <2>2, <2>3
  <2>. QED
    BY <1>1, <1>4, <2>1, <2>2, <2>3, <2>4, ReadStep DEF Return
<1>. QED
  BY <1>2, <1>3, <1>4 DEF xsdProcComplexType

-----------------------------------------------------------------------------
(* The files of a type depend on it and on the registry alone.             *)
LEMMA SameRegistry ==
  ASSUME UNCHANGED <<types, lists>>
  PROVE  \A t : /\ trXSD2C(t)' = trXSD2C(t) /\ trXSD2CList(t)' = trXSD2CList(t)
                /\ trGetBuildInFlag(t)' = trGetBuildInFlag(t)
<1>1. \A t : Lookup(types, t)' = Lookup(types, t) /\ Lookup(lists, t)' = Lookup(lists, t)
  BY DEF Lookup, SelectInSeq
<1>2. \A t : trXSD2C(t)' = trXSD2C(t)
  BY <1>1 DEF trXSD2C
<1>3. \A t : trXSD2CList(t)' = trXSD2CList(t)
  BY <1>1 DEF trXSD2CList
<1>4. \A t : trGetBuildInFlag(t)' = trGetBuildInFlag(t)
  BY <1>1 DEF trGetBuildInFlag
<1>. QED
  BY <1>2, <1>3, <1>4

LEMMA SameFieldNames ==
  ASSUME UNCHANGED <<types, lists>>, NEW f
  PROVE  /\ genFieldType(f, TRUE)' = genFieldType(f, TRUE) /\ genFieldType(f, FALSE)' = genFieldType(f, FALSE)
         /\ trXSD2C(f.type)' = trXSD2C(f.type) /\ trGetBuildInFlag(f.type)' = trGetBuildInFlag(f.type)
<1>. QED
  BY SameRegistry DEF genFieldType

LEMMA SameFieldParts ==
  ASSUME UNCHANGED <<types, lists>>, NEW f
  PROVE  /\ writeFieldPrimitiveList(f)' = writeFieldPrimitiveList(f)
         /\ writeFieldDeclare(f)' = writeFieldDeclare(f)
         /\ genFunctionNameGetter(f)' = genFunctionNameGetter(f)
         /\ genFunctionNameSetter(f)' = genFunctionNameSetter(f)
         /\ genFunctionNameAdder(f)' = genFunctionNameAdder(f)
         /\ writeFieldSetter(f)' = writeFieldSetter(f)
         /\ writeListAdder(f)' = writeListAdder(f)
<1>1. HasType(f, TRUE)' = HasType(f, TRUE) /\ HasType(f, FALSE)' = HasType(f, FALSE)
  BY SameFieldNames DEF HasType
<1>2. writeFieldPrimitiveList(f)' = writeFieldPrimitiveList(f)
  <2>1. trGetBuildInFlag(f.type)' = trGetBuildInFlag(f.type)
    BY SameRegistry
  <2>2. PICK b : b = trGetBuildInFlag(f.type) /\ b = trGetBuildInFlag(f.type)'
    BY <2>1
  <2>3. writeFieldPrimitiveList(f) =
          IF IsList(f) /\ b > 0 THEN {Struct(f.parent \o "_" \o f.name \o "_List")} ELSE {}
    BY <2>2 DEF writeFieldPrimitiveList
  <2>4. writeFieldPrimitiveList(f)' =
          IF IsList(f) /\ b > 0 THEN {Struct(f.parent \o "_" \o f.name \o "_List")} ELSE {}
    BY <2>2 DEF writeFieldPrimitiveList
  <2>. QED
    BY <2>3, <2>4
<1>3. writeFieldDeclare(f)' = writeFieldDeclare(f)
  BY <1>1 DEF writeFieldDeclare
<1>4. genFunctionNameGetter(f)' = genFunctionNameGetter(f)
  BY <1>1 DEF genFunctionNameGetter
<1>5. genFunctionNameSetter(f)' = genFunctionNameSetter(f)
  BY <1>1 DEF genFunctionNameSetter
<1>6. genFunctionNameAdder(f)' = genFunctionNameAdder(f)
  BY <1>1 DEF genFunctionNameAdder
<1>7. writeFieldSetter(f)' = writeFieldSetter(f)
  BY <1>5 DEF writeFieldSetter
<1>8. writeListAdder(f)' = writeListAdder(f)
  BY <1>6 DEF writeListAdder
<1>. QED
  BY <1>2, <1>3, <1>4, <1>5, <1>6, <1>7, <1>8

LEMMA SameHeader ==
  ASSUME UNCHANGED <<types, lists>>, NEW o
  PROVE  writeComplexTypeHeaderFile(o)' = writeComplexTypeHeaderFile(o)
<1>1. Includes(o)' = Includes(o)
  BY SameFieldNames DEF Includes
<1>2. Prototypes(o)' = Prototypes(o)
  BY SameFieldParts DEF Prototypes
<1>3. writeComplexTypeDeclare(o)' = writeComplexTypeDeclare(o)
  <2>1. \A t : trXSD2C(t)' = trXSD2C(t)
    BY SameRegistry
  <2>2. UNION {writeFieldDeclare(f) : f \in FieldsOf(o)}' = UNION {writeFieldDeclare(f) : f \in FieldsOf(o)}
    BY SameFieldParts
  <2>. QED
    BY <2>1, <2>2 DEF writeComplexTypeDeclare
<1>4. UNION {writeFieldPrimitiveList(f) : f \in FieldsOf(o)}' = UNION {writeFieldPrimitiveList(f) : f \in FieldsOf(o)}
  BY SameFieldParts
<1>5. Twice([i \in DOMAIN o.fields |-> writeFieldDeclare(o.fields[i])])' =
      Twice([i \in DOMAIN o.fields |-> writeFieldDeclare(o.fields[i])])
  BY SameFieldParts DEF Twice
<1>. QED
  BY <1>1, <1>2, <1>3, <1>4, <1>5 DEF writeComplexTypeHeaderFile

LEMMA SameSourceParts ==
  ASSUME UNCHANGED <<types, lists>>, NEW f
  PROVE  /\ writeCodeGetter(f)' = writeCodeGetter(f) /\ writeCodeSetter(f)' = writeCodeSetter(f)
         /\ writeCodeAdder(f)' = writeCodeAdder(f) /\ ListStruct(f)' = ListStruct(f)
         /\ \A inBase : SaxElement(f, inBase)' = SaxElement(f, inBase)
         /\ FieldFunctions(f)' = FieldFunctions(f)
<1>1. ListStruct(f)' = ListStruct(f)
  BY SameFieldNames DEF ListStruct
<1>2. writeCodeGetter(f)' = writeCodeGetter(f)
  BY SameFieldParts DEF writeCodeGetter
<1>3. writeCodeSetter(f)' = writeCodeSetter(f)
  BY SameFieldParts DEF writeCodeSetter
<1>4. writeCodeAdder(f)' = writeCodeAdder(f)
  BY <1>1, SameFieldParts DEF writeCodeAdder
<1>5. \A inBase : SaxElement(f, inBase)' = SaxElement(f, inBase)
  BY <1>1, SameFieldNames DEF SaxElement
<1>6. FieldFunctions(f)' = FieldFunctions(f)
  BY SameFieldParts DEF FieldFunctions
<1>. QED
  BY <1>1, <1>2, <1>3, <1>4, <1>5, <1>6

LEMMA SameSource ==
  ASSUME UNCHANGED <<types, lists>>, NEW o
  PROVE  writeComplexTypeSourceFile(o)' = writeComplexTypeSourceFile(o)
<1>1. writeCodeCreate(o)' = writeCodeCreate(o)
  BY DEF writeCodeCreate
<1>2. writeCodeFree(o)' = writeCodeFree(o)
  <2>. DEFINE Part(f) == CASE IsList(f) -> {Member(f.parent, f.name \o "_head"), ListStruct(f)}
                           [] ~IsList(f) /\ Local(f.type) = "string" -> Slots(f)
                           [] OTHER -> {}
  <2>1. \A f : Part(f)' = Part(f)
    BY SameSourceParts
  <2>2. UNION {Part(f) : f \in FieldsOf(o)}' = UNION {Part(f) : f \in FieldsOf(o)}
    <3>. HIDE DEF Part
    <3>. QED
      BY <2>1
  <2>. QED
    BY <2>2 DEF writeCodeFree
<1>3. setSaxAttrs(o)' = setSaxAttrs(o)
  BY SameRegistry DEF setSaxAttrs
<1>4. \A inBase : SaxElements(o, inBase)' = SaxElements(o, inBase)
  BY SameSourceParts DEF SaxElements
<1>5. writeCodeSaxSerialize(o)' = writeCodeSaxSerialize(o)
  BY <1>3, <1>4 DEF writeCodeSaxSerialize
<1>6. writeCodeDeserialize(o)' = writeCodeDeserialize(o)
  BY SameRegistry DEF writeCodeDeserialize
<1>7. UNION {writeCodeGetter(f) \cup writeCodeSetter(f) \cup writeCodeAdder(f) : f \in FieldsOf(o)}' =
      UNION {writeCodeGetter(f) \cup writeCodeSetter(f) \cup writeCodeAdder(f) : f \in FieldsOf(o)}
  BY SameSourceParts
<1>8. writeCodeBaseOnStartElement(o)' = writeCodeBaseOnStartElement(o)
      /\ writeCodeBaseOnEndElement(o)' = writeCodeBaseOnEndElement(o)
  BY <1>3, <1>4 DEF writeCodeBaseOnStartElement, writeCodeBaseOnEndElement
<1>9. UNION {FieldFunctions(f) : f \in FieldsOf(o)}' = UNION {FieldFunctions(f) : f \in FieldsOf(o)}
  BY SameSourceParts
<1>10. Twice([i \in DOMAIN o.fields |-> FieldFunctions(o.fields[i])])' =
       Twice([i \in DOMAIN o.fields |-> FieldFunctions(o.fields[i])])
  BY SameSourceParts DEF Twice
<1>. QED
  BY <1>1, <1>2, <1>5, <1>6, <1>7, <1>8, <1>9, <1>10 DEF writeComplexTypeSourceFile

LEMMA SameUpTo ==
  ASSUME UNCHANGED <<objs, types, lists>>, NEW n
  PROVE  /\ headers' = headers /\ HeadersUpTo(n) => HeadersUpTo(n)'
         /\ sources' = sources /\ SourcesUpTo(n) => SourcesUpTo(n)'
<1>1. \A j, k : Latest(j, k)' = Latest(j, k)
  BY DEF Latest
<1>2. \A j : writeComplexTypeHeaderFile(objs[j])' = writeComplexTypeHeaderFile(objs[j])
  BY SameHeader
<1>3. \A j : writeComplexTypeSourceFile(objs[j])' = writeComplexTypeSourceFile(objs[j])
  BY SameSource
<1>. QED
  BY <1>1, <1>2, <1>3 DEF HeadersUpTo, SourcesUpTo

-----------------------------------------------------------------------------
(* The steps of the main programs.                                         *)
LEMMA SameTodo ==
  ASSUME IInv, UNCHANGED <<todo, objs>>, pc' # "types"
  PROVE  TodoInv'
BY DEF IInv, TodoInv, CallFine

\* A step that writes no file and adds no type.
LEMMA QuietStep ==
  ASSUME IInv, UNCHANGED <<doc, objs, types, lists, skipped, headers, sources>>,
         pc' \in PCs, TodoInv', root' \in 1 .. Len(Roots), next' \in 1 .. Len(objs) + 1,
         pc' = "headers" => next' = 1, pc' # "sources",
         pc' \in HeadersDone => pc \in HeadersDone, pc' \in SourcesDone => pc \in SourcesDone
  PROVE  IInv'
<1>1. Grows /\ ObjsInv'
  BY SameObjects DEF IInv
<1>2. RegistryInv'
  BY <1>1, RegistryStays DEF IInv
<1>3. PlaceInv'
  BY DEF IInv, PlaceInv, Roots
<1>4. ObjectNames' = ObjectNames
  BY DEF ObjectNames
<1>5. \A n : (HeadersUpTo(n) => HeadersUpTo(n)') /\ (SourcesUpTo(n) => SourcesUpTo(n)')
  BY SameUpTo
<1>6. pc' = "headers" => HeadersUpTo(next - 1)'
  <2>1. 1 .. 1 - 1 = {}
    OBVIOUS
  <2>. QED
    BY <2>1 DEF HeadersUpTo
<1>7. (pc \in HeadersDone => skipped \/ HeadersUpTo(Len(objs))) /\ (pc \in SourcesDone => skipped \/ SourcesUpTo(Len(objs)))
  BY DEF IInv, FilesInv
<1>8. pc' \in HeadersDone => skipped' \/ HeadersUpTo(Len(objs))'
  BY <1>5, <1>7
<1>9. pc' \in SourcesDone => skipped' \/ SourcesUpTo(Len(objs))'
  BY <1>5, <1>7
<1>10. FilesInv'
  BY <1>4, <1>6, <1>8, <1>9 DEF IInv, FilesInv
<1>. QED
  BY <1>1, <1>2, <1>3, <1>10 DEF IInv

LEMMA Places ==
  ASSUME IInv
  PROVE  /\ root \in 1 .. Len(Roots) /\ next \in 1 .. Len(objs) + 1
         /\ Len(objs) \in Nat /\ DOMAIN objs = 1 .. Len(objs) /\ 1 \in 1 .. Len(objs) + 1
<1>1. Len(objs) \in Nat /\ DOMAIN objs = 1 .. Len(objs)
  BY Elements DEF IInv, ObjsInv
<1>. QED
  BY <1>1 DEF IInv, PlaceInv

LEMMA StartStep == ASSUME IInv, Xsd2cStart \/ Wsdl2cStart PROVE IInv'
<1>1. pc' \in {"inittr", "failed"} /\ UNCHANGED <<toolVars, todo>>
  BY DEF Xsd2cStart, Wsdl2cStart
<1>2. UNCHANGED <<doc, objs, types, lists, skipped, headers, sources, todo, root, next>>
  BY <1>1 DEF toolVars, registry, files
<1>3. TodoInv'
  BY <1>1, <1>2, SameTodo
<1>. QED
  BY <1>1, <1>2, <1>3, Places, QuietStep DEF PCs, HeadersDone, SourcesDone

LEMMA EndStep == ASSUME IInv, Xsd2cEnd PROVE IInv'
<1>1. pc = "written" /\ pc' = "ended" /\ UNCHANGED <<toolVars, todo>>
  BY DEF Xsd2cEnd
<1>2. UNCHANGED <<doc, objs, types, lists, skipped, headers, sources, todo, root, next>>
  BY <1>1 DEF toolVars, registry, files
<1>3. TodoInv'
  BY <1>1, <1>2, SameTodo
<1>. QED
  BY <1>1, <1>2, <1>3, Places, QuietStep DEF PCs, HeadersDone, SourcesDone

LEMMA NextSchemaStep == ASSUME IInv, Wsdl2cNext PROVE IInv'
<1>1. pc = "written" /\ pc' \in {"inittr", "parse"}
  BY DEF Wsdl2cNext
<1>2. UNCHANGED <<doc, objs, types, lists, skipped, headers, sources, todo, next>>
  BY DEF Wsdl2cNext, registry, files
<1>3. TodoInv'
  BY <1>1, <1>2, SameTodo
<1>4. root' \in 1 .. Len(Roots)
  <2>1. Len(Roots) \in Nat
    BY RootsFacts, Elements DEF IInv
  <2>. QED
    BY <2>1, Places DEF Wsdl2cNext
<1>. QED
  BY <1>1, <1>2, <1>3, <1>4, Places, QuietStep DEF PCs, HeadersDone, SourcesDone

LEMMA InitObjStep == ASSUME IInv, xsdInitObjModule PROVE IInv'
<1>1. pc' \in {"failed", "generator"}
  BY DEF xsdInitObjModule
<1>2. UNCHANGED <<doc, objs, types, lists, skipped, headers, sources, todo, root, next>>
  BY DEF xsdInitObjModule, registry, files
<1>3. TodoInv'
  BY <1>1, <1>2, SameTodo
<1>. QED
  BY <1>1, <1>2, <1>3, Places, QuietStep DEF PCs, HeadersDone, SourcesDone

LEMMA EngineRunStep == ASSUME IInv, xsdEngineRun PROVE IInv'
<1>1. pc' = "headers" /\ next' = 1
  BY DEF xsdEngineRun
<1>2. UNCHANGED <<doc, objs, types, lists, skipped, headers, sources, todo, root>>
  BY DEF xsdEngineRun, registry, files
<1>3. TodoInv'
  BY <1>1, <1>2, SameTodo
<1>. QED
  BY <1>1, <1>2, <1>3, Places, QuietStep DEF PCs, HeadersDone, SourcesDone

LEMMA GeneratorStep == ASSUME IInv, runGenerator PROVE IInv'
<1>1. pc' = "types" /\ UNCHANGED <<doc, objs, types, lists, skipped, headers, sources, root, next>>
  BY DEF runGenerator, registry, files
<1>2. PICK node : node = Roots[root]
  OBVIOUS
<1>3. node \in Nodes
  BY <1>2, RootsFacts DEF IInv, Range
<1>4. todo' = FlattenSeq([i \in DOMAIN node.sub |-> RootCall(node.sub[i])])
  BY <1>2 DEF runGenerator
<1>5. IsSeq(todo') /\ \A c \in Range(todo') : c.node \in Nodes /\ c.ct = 0 /\ c.proc = "ComplexType"
  BY <1>3, <1>4, RootCallsFacts
<1>6. 0 \in 0 .. Len(objs')
  BY <1>1, Places
<1>7. TodoInv'
  BY <1>1, <1>5, <1>6 DEF TodoInv, CallFine
<1>. QED
  BY <1>1, <1>7, Places, QuietStep DEF PCs, HeadersDone, SourcesDone

LEMMA BuiltinsFacts ==
  ASSUME NEW ns
  PROVE  IsSeq(Builtins(ns)) /\ \A e \in Range(Builtins(ns)) : BuiltinEntry(e)
<1>. DEFINE first == [i \in 1 .. 4 |-> Entry(ns, <<"ID", "IDREF", "IDREFS", "string">>[i], Basic("char*"), 1)]
            second == << Entry(ns, "integer", Basic("int"), 1), Entry(ns, "int", Basic("int"), 1),
                         Entry(ns, "double", Basic("double"), 1), Entry(ns, "float", Basic("float"), 1),
                         Entry(ns, "boolean", Basic("int"), 1) >>
            Fine == {Entry(ns, name, Basic(kind), 1) :
                       name \in {"ID", "IDREF", "IDREFS", "string", "integer", "int", "double", "float", "boolean"},
                       kind \in {"char*", "int", "double", "float"}}
<1>1. first \in Seq(Fine)
  <2>1. \A i \in 1 .. 4 : <<"ID", "IDREF", "IDREFS", "string">>[i] \in {"ID", "IDREF", "IDREFS", "string"}
    OBVIOUS
  <2>2. \A i \in 1 .. 4 : Entry(ns, <<"ID", "IDREF", "IDREFS", "string">>[i], Basic("char*"), 1) \in Fine
    BY <2>1
  <2>3. first \in [1 .. 4 -> Fine]
    <3>. HIDE DEF Fine
    <3>. QED
      BY <2>2
  <2>4. \A S, n, f : n \in Nat /\ f \in [1 .. n -> S] => f \in Seq(S)
    OBVIOUS
  <2>5. 4 \in Nat
    OBVIOUS
  <2>. HIDE DEF Fine, first
  <2>. QED
    BY <2>3, <2>4, <2>5
<1>2. second \in Seq(Fine)
  <2>1. \A S, a, b, c, d, e : a \in S /\ b \in S /\ c \in S /\ d \in S /\ e \in S => << a, b, c, d, e >> \in Seq(S)
    OBVIOUS
  <2>2. /\ Entry(ns, "integer", Basic("int"), 1) \in Fine /\ Entry(ns, "int", Basic("int"), 1) \in Fine
        /\ Entry(ns, "double", Basic("double"), 1) \in Fine /\ Entry(ns, "float", Basic("float"), 1) \in Fine
        /\ Entry(ns, "boolean", Basic("int"), 1) \in Fine
    OBVIOUS
  <2>. HIDE DEF Fine
  <2>. QED
    BY <2>1, <2>2
<1>3. Builtins(ns) = first \o second
  BY DEF Builtins
<1>4. Builtins(ns) \in Seq(Fine)
  <2>. HIDE DEF first, second, Fine
  <2>. QED
    BY <1>1, <1>2, <1>3
<1>5. ASSUME NEW e \in Fine PROVE BuiltinEntry(e)
  <2>1. PICK name, kind : e = Entry(ns, name, Basic(kind), 1) /\ kind \in {"char*", "int", "double", "float"}
    OBVIOUS
  <2>. HIDE DEF Fine
  <2>. QED
    BY <2>1 DEF BuiltinEntry, Entry, Basic
<1>. HIDE DEF Fine
<1>. QED
  BY <1>4, <1>5, ElementsOf

LEMMA InitTrStep == ASSUME IInv, xsdInitTrModule PROVE IInv'
<1>1. pc = "inittr" /\ pc' = "initobj" /\ UNCHANGED <<doc, objs, lists, skipped, headers, sources, todo, root, next>>
  BY DEF xsdInitTrModule, registry, files
<1>2. PICK a, b : /\ types' = types \o a \o b /\ IsSeq(a) /\ IsSeq(b)
                  /\ \A e \in Range(a) \cup Range(b) : BuiltinEntry(e)
  <2>. DEFINE node == Roots[root]
              xs == IF node.xsd = "" THEN "xsd" ELSE node.xsd
  <2>1. types' = types \o Builtins(xs) \o (IF node.enc = "" THEN << >> ELSE Builtins(node.enc))
    BY DEF xsdInitTrModule
  <2>. HIDE DEF node, xs
  <2>2. CASE node.enc = ""
    BY <2>1, <2>2, BuiltinsFacts, NoCalls
  <2>3. CASE node.enc # ""
    BY <2>1, <2>3, BuiltinsFacts
  <2>. QED
    BY <2>2, <2>3
<1>3. IsSeq(types') /\ Range(types') = Range(types) \cup Range(a) \cup Range(b)
  <2>1. IsSeq(types)
    BY DEF IInv, RegistryInv
  <2>2. IsSeq(types \o a) /\ Range(types \o a) = Range(types) \cup Range(a)
    BY <1>2, <2>1, ConcatElements
  <2>. QED
    BY <1>2, <2>2, ConcatElements
<1>4. Grows /\ ObjsInv'
  BY <1>1, SameObjects DEF IInv
<1>5. RegistryInv'
  <2>1. \A e : BuiltinEntry(e) => BuiltinEntry(e)'
    BY DEF BuiltinEntry
  <2>2. \A e : OwnEntry(e) => OwnEntry(e)'
    BY <1>1 DEF OwnEntry
  <2>. QED
    BY <1>1, <1>2, <1>3, <2>1, <2>2 DEF IInv, RegistryInv
<1>6. TodoInv'
  BY <1>1, SameTodo
<1>7. PlaceInv'
  BY <1>1 DEF IInv, PlaceInv, Roots
<1>8. FilesInv'
  BY <1>1 DEF IInv, FilesInv, HeadersDone, SourcesDone, ObjectNames
<1>. QED
  BY <1>1, <1>4, <1>5, <1>6, <1>7, <1>8 DEF IInv, PCs

\* The headers, one by one: a later one of a name takes the place of the earlier.
LEMMA HeaderStep == ASSUME IInv, declareStructs PROVE IInv'
<1>1. pc = "headers" /\ pc' \in {"headers", "sources"} /\ UNCHANGED <<doc, root, todo, objs, types, lists, sources>>
  BY DEF declareStructs, registry
<1>2. Grows /\ ObjsInv'
  BY <1>1, SameObjects DEF IInv
<1>3. RegistryInv'
  BY <1>1, <1>2, RegistryStays DEF IInv
<1>4. TodoInv'
  BY <1>1, SameTodo
<1>5. ObjectNames' = ObjectNames
  BY <1>1 DEF ObjectNames
<1>6. HeadersUpTo(next - 1) /\ IsFiniteSet(DOMAIN headers) /\ DOMAIN headers \subseteq ObjectNames
      /\ DOMAIN sources \subseteq ObjectNames /\ (skipped \/ DOMAIN sources \subseteq DOMAIN headers)
  BY <1>1 DEF IInv, FilesInv
<1>7. CASE /\ next <= Len(objs) /\ next' = next + 1 /\ pc' = "headers" /\ skipped' = skipped
           /\ headers' = FileWritten(headers, objs[next].type, writeComplexTypeHeaderFile(objs[next]))
  <2>1. next \in DOMAIN objs /\ next' \in 1 .. Len(objs) + 1 /\ next' - 1 = next /\ next \in Nat
    BY <1>7, Places
  <2>2. DOMAIN headers' = DOMAIN headers \cup {objs[next].type}
    BY <1>7 DEF FileWritten
  <2>3. \A n \in DOMAIN headers' :
          headers'[n] = IF n = objs[next].type THEN writeComplexTypeHeaderFile(objs[next]) ELSE headers[n]
    BY <1>7 DEF FileWritten
  <2>4. IsFiniteSet(DOMAIN headers')
    BY <1>6, <2>2, FS_AddElement
  <2>5. objs[next].type \in ObjectNames
    BY <2>1 DEF ObjectNames, Range
  <2>6. ASSUME NEW j \in 1 .. next
        PROVE  /\ objs[j].type \in DOMAIN headers'
               /\ Latest(j, next) => headers'[objs[j].type] = writeComplexTypeHeaderFile(objs[j])
    <3>1. CASE j = next
      BY <2>2, <2>3, <3>1
    <3>2. CASE j # next
      <4>1. j \in 1 .. next - 1 /\ next \in j + 1 .. next
        BY <2>1, <3>2
      <4>2. \A k \in j + 1 .. next - 1 : k \in j + 1 .. next
        BY <2>1, <4>1
      <4>3. Latest(j, next) => Latest(j, next - 1) /\ objs[next].type # objs[j].type
        BY <4>1, <4>2 DEF Latest
      <4>4. /\ objs[j].type \in DOMAIN headers
            /\ Latest(j, next - 1) => headers[objs[j].type] = writeComplexTypeHeaderFile(objs[j])
        BY <1>6, <4>1 DEF HeadersUpTo
      <4>. QED
        BY <2>2, <2>3, <4>3, <4>4
    <3>. QED
      BY <3>1, <3>2
  <2>7. PICK n : n = next /\ n = next' - 1
    BY <2>1
  <2>10. HeadersUpTo(n)'
    <3>1. \A j, m : Latest(j, m)' = Latest(j, m)
      BY <1>1 DEF Latest
    <3>2. \A j : writeComplexTypeHeaderFile(objs[j])' = writeComplexTypeHeaderFile(objs[j])
      BY <1>1, SameHeader
    <3>. QED
      BY <1>1, <2>6, <2>7, <3>1, <3>2 DEF HeadersUpTo
  <2>8. FilesInv'
    BY <1>1, <1>5, <1>6, <1>7, <2>2, <2>4, <2>5, <2>7, <2>10 DEF FilesInv, HeadersDone, SourcesDone
  <2>9. PlaceInv'
    BY <1>1, <2>1 DEF IInv, PlaceInv, Roots
  <2>. QED
    BY <1>2, <1>3, <1>4, <1>7, <2>8, <2>9 DEF IInv, PCs
<1>8. CASE pc' = "sources" /\ next' = 1 /\ skipped' = (next <= Len(objs)) /\ headers' = headers
  <2>1. ~skipped' => next - 1 = Len(objs)
    <3>1. ~skipped' => ~(next <= Len(objs))
      BY <1>8, Zenon
    <3>. QED
      BY <3>1, Places
  <2>2. \A n : HeadersUpTo(n) => HeadersUpTo(n)'
    BY <1>1, <1>8, SameUpTo
  <2>3. skipped' \/ HeadersUpTo(Len(objs))'
    <3>1. PICK n : n = next - 1
      OBVIOUS
    <3>2. HeadersUpTo(n)'
      BY <1>6, <2>2, <3>1
    <3>3. ~skipped' => n = Len(objs')
      BY <1>1, <2>1, <3>1
    <3>. QED
      BY <3>2, <3>3
  <2>4. ~skipped' => ObjectNames \subseteq DOMAIN headers
    BY <1>6, <2>1, Places DEF HeadersUpTo, ObjectNames, Range
  <2>5. SourcesUpTo(next - 1)'
    <3>1. 1 .. 1 - 1 = {}
      OBVIOUS
    <3>. QED
      BY <1>8, <3>1 DEF SourcesUpTo
  <2>6. FilesInv'
    BY <1>1, <1>5, <1>6, <1>8, <2>3, <2>4, <2>5 DEF FilesInv, SourcesDone
  <2>7. PlaceInv'
    BY <1>1, <1>8, Places DEF IInv, PlaceInv, Roots
  <2>. QED
    BY <1>2, <1>3, <1>4, <1>8, <2>6, <2>7 DEF IInv, PCs
<1>. QED
  BY <1>1, <1>7, <1>8 DEF declareStructs

LEMMA SourceStep == ASSUME IInv, writeSource PROVE IInv'
<1>1. pc = "sources" /\ pc' \in {"sources", "written"} /\ UNCHANGED <<doc, root, todo, objs, types, lists, headers>>
  BY DEF writeSource, registry
<1>2. Grows /\ ObjsInv'
  BY <1>1, SameObjects DEF IInv
<1>3. RegistryInv'
  BY <1>1, <1>2, RegistryStays DEF IInv
<1>4. TodoInv'
  BY <1>1, SameTodo
<1>5. ObjectNames' = ObjectNames
  BY <1>1 DEF ObjectNames
<1>6. SourcesUpTo(next - 1) /\ IsFiniteSet(DOMAIN headers) /\ DOMAIN headers \subseteq ObjectNames
      /\ DOMAIN sources \subseteq ObjectNames /\ (skipped \/ DOMAIN sources \subseteq DOMAIN headers)
      /\ (skipped \/ HeadersUpTo(Len(objs)))
  BY <1>1 DEF IInv, FilesInv, HeadersDone
<1>7. skipped \/ HeadersUpTo(Len(objs))'
  <2>1. \A n : HeadersUpTo(n) => HeadersUpTo(n)'
    BY <1>1, SameUpTo
  <2>. QED
    BY <1>1, <1>6, <2>1
<1>8. CASE /\ next <= Len(objs) /\ next' = next + 1 /\ pc' = "sources" /\ skipped' = skipped
           /\ sources' = FileWritten(sources, objs[next].type, writeComplexTypeSourceFile(objs[next]))
  <2>1. next \in DOMAIN objs /\ next' \in 1 .. Len(objs) + 1 /\ next' - 1 = next /\ next \in Nat
    BY <1>8, Places
  <2>2. DOMAIN sources' = DOMAIN sources \cup {objs[next].type}
    BY <1>8 DEF FileWritten
  <2>3. \A n \in DOMAIN sources' :
          sources'[n] = IF n = objs[next].type THEN writeComplexTypeSourceFile(objs[next]) ELSE sources[n]
    BY <1>8 DEF FileWritten
  <2>4. objs[next].type \in ObjectNames
    BY <2>1 DEF ObjectNames, Range
  <2>5. skipped \/ DOMAIN sources' \subseteq DOMAIN headers
    BY <1>6, <2>1, <2>2, Places DEF HeadersUpTo
  <2>6. ASSUME NEW j \in 1 .. next
        PROVE  /\ objs[j].type \in DOMAIN sources'
               /\ Latest(j, next) => sources'[objs[j].type] = writeComplexTypeSourceFile(objs[j])
    <3>1. CASE j = next
      BY <2>2, <2>3, <3>1
    <3>2. CASE j # next
      <4>1. j \in 1 .. next - 1 /\ next \in j + 1 .. next
        BY <2>1, <3>2
      <4>2. \A k \in j + 1 .. next - 1 : k \in j + 1 .. next
        BY <2>1, <4>1
      <4>3. Latest(j, next) => Latest(j, next - 1) /\ objs[next].type # objs[j].type
        BY <4>1, <4>2 DEF Latest
      <4>4. /\ objs[j].type \in DOMAIN sources
            /\ Latest(j, next - 1) => sources[objs[j].type] = writeComplexTypeSourceFile(objs[j])
        BY <1>6, <4>1 DEF SourcesUpTo
      <4>. QED
        BY <2>2, <2>3, <4>3, <4>4
    <3>. QED
      BY <3>1, <3>2
  <2>7. PICK n : n = next /\ n = next' - 1
    BY <2>1
  <2>8. SourcesUpTo(n)'
    <3>1. \A j, m : Latest(j, m)' = Latest(j, m)
      BY <1>1 DEF Latest
    <3>2. \A j : writeComplexTypeSourceFile(objs[j])' = writeComplexTypeSourceFile(objs[j])
      BY <1>1, SameSource
    <3>. QED
      BY <1>1, <2>6, <2>7, <3>1, <3>2 DEF SourcesUpTo
  <2>9. FilesInv'
    BY <1>1, <1>5, <1>6, <1>7, <1>8, <2>2, <2>4, <2>5, <2>7, <2>8 DEF FilesInv, HeadersDone, SourcesDone
  <2>10. PlaceInv'
    BY <1>1, <2>1 DEF IInv, PlaceInv, Roots
  <2>. QED
    BY <1>2, <1>3, <1>4, <1>8, <2>9, <2>10 DEF IInv, PCs
<1>9. CASE pc' = "written" /\ next' = next /\ skipped' = (skipped \/ next <= Len(objs)) /\ sources' = sources
  <2>1. ~skipped' => next - 1 = Len(objs) /\ ~skipped
    <3>1. ~skipped' => ~(next <= Len(objs)) /\ ~skipped
      BY <1>9, Zenon
    <3>. QED
      BY <3>1, Places
  <2>2. skipped' \/ SourcesUpTo(Len(objs))'
    <3>1. PICK n : n = next - 1
      OBVIOUS
    <3>2. SourcesUpTo(n)'
      BY <1>1, <1>6, <1>9, <3>1, SameUpTo
    <3>3. ~skipped' => n = Len(objs')
      BY <1>1, <2>1, <3>1
    <3>. QED
      BY <3>2, <3>3
  <2>3. skipped' \/ (HeadersUpTo(Len(objs))' /\ DOMAIN sources \subseteq DOMAIN headers)
    BY <1>6, <1>7, <2>1
  <2>4. FilesInv'
    BY <1>1, <1>5, <1>6, <1>9, <2>2, <2>3 DEF FilesInv
  <2>5. PlaceInv'
    BY <1>1, <1>9, Places DEF IInv, PlaceInv, Roots
  <2>. QED
    BY <1>2, <1>3, <1>4, <1>9, <2>4, <2>5 DEF IInv, PCs
<1>. QED
  BY <1>1, <1>8, <1>9 DEF writeSource

-----------------------------------------------------------------------------
(* The steps of wsdl2c behind the engine: what is found is a sequence.     *)
LEMMA DocumentFacts ==
  ASSUME PlaceInv, NEW name
  PROVE  /\ IsSeq(SoapPorts) /\ IsSeq(BindingsNamed(name)) /\ IsSeq(Operations(name)) /\ IsSeq(Parts(name))
         /\ \A p \in Range(SoapPorts) : p \in Range(doc.ports)
<1>1. /\ IsSequence(doc.ports) /\ IsSequence(doc.bindings)
      /\ \A t \in DOMAIN doc.portTypes : IsSequence(doc.portTypes[t])
      /\ \A m \in DOMAIN doc.messages : IsSequence(doc.messages[m])
  BY WsdlAssumption DEF PlaceInv
<1>2. \A s : IsSequence(s) => IsSeq(s)
  BY ElementsOf DEF IsSequence
<1>3. IsSeq(SoapPorts) /\ \A p \in Range(SoapPorts) : p \in Range(doc.ports)
  BY <1>1, <1>2, AmongFacts, NoCalls DEF SoapPorts
<1>4. IsSeq(BindingsNamed(name))
  BY <1>1, <1>2, AmongFacts DEF BindingsNamed
<1>5. IsSeq(OperationsOf(name)) /\ IsSeq(PartsOf(name))
  BY <1>1, <1>2, NoCalls DEF OperationsOf, PartsOf
<1>6. IsSeq(Operations(name)) /\ IsSeq(Parts(name))
  BY <1>5, AmongFacts DEF Operations, Parts
<1>. QED
  BY <1>3, <1>4, <1>6

\* Calls of the parser are about no type.
LEMMA MadeCalls ==
  ASSUME NEW s, IsSeq(s), NEW t, DOMAIN t = DOMAIN s, t = [i \in DOMAIN s |-> t[i]],
         \A i \in DOMAIN s : t[i].ct = 0
  PROVE  IsSeq(t) /\ \A c \in Range(t) : c.ct = 0
<1>1. \A i \in DOMAIN s : t[i] \in Range(t)
  BY DEF Range
<1>2. IsSeq(t)
  BY <1>1, MappedFacts
<1>. QED
  BY <1>2 DEF Range

\* A step of the parser.
LEMMA ParseStep ==
  ASSUME IInv, pc \in {"parse", "calls"}, pc' \in {"calls", "free", "ended", "crashed"}, UNCHANGED toolVars,
         IsSeq(todo'), \A c \in Range(todo') : c.ct = 0 \/ c \in Range(todo)
  PROVE  IInv'
<1>1. UNCHANGED <<doc, objs, types, lists, skipped, headers, sources, root, next>>
  BY DEF toolVars, registry, files
<1>2. 0 \in 0 .. Len(objs') /\ Len(objs') = Len(objs)
  BY <1>1, Places
<1>3. TodoInv'
  BY <1>2 DEF IInv, TodoInv, CallFine
<1>. QED
  BY <1>1, <1>3, Places, QuietStep DEF PCs, HeadersDone, SourcesDone

\* A call is replaced by others.
LEMMA ReplacedStep ==
  ASSUME IInv, pc = "calls", pc' = pc, todo # << >>, UNCHANGED toolVars,
         NEW calls, IsSeq(calls), \A c \in Range(calls) : c.ct = 0, todo' = calls \o Tail(todo)
  PROVE  IInv'
<1>1. IsSeq(Tail(todo)) /\ Range(Tail(todo)) \subseteq Range(todo)
  BY HeadElement DEF IInv, TodoInv
<1>2. IsSeq(todo') /\ Range(todo') = Range(calls) \cup Range(Tail(todo))
  BY <1>1, ConcatElements
<1>. QED
  BY <1>1, <1>2, ParseStep

LEMMA ParseCalls ==
  ASSUME IInv, pc = "calls", pc' = pc, todo # << >>, UNCHANGED toolVars,
         NEW s, IsSeq(s), NEW t, DOMAIN t = DOMAIN s, t = [i \in DOMAIN s |-> t[i]],
         \A i \in DOMAIN s : t[i].ct = 0, todo' = t \o Tail(todo)
  PROVE  IInv'
BY MadeCalls, ReplacedStep

LEMMA BindingStep == ASSUME IInv, handleBinding PROVE IInv'
<1>1. pc = "calls" /\ todo # << >> /\ UNCHANGED toolVars
  BY DEF handleBinding, Parsing
<1>2. CASE pc' = "crashed" /\ UNCHANGED todo
  <2>1. IsSeq(todo') /\ \A c \in Range(todo') : c \in Range(todo)
    BY <1>2 DEF IInv, TodoInv
  <2>. QED
    BY <1>1, <1>2, <2>1, ParseStep
<1>3. CASE ~(pc' = "crashed" /\ UNCHANGED todo)
  <2>1. PICK name : /\ pc' = pc
                    /\ LET found == BindingsNamed(name)
                       IN  Return([i \in DOMAIN found |-> Call("PortType", << >>, 0, found[i].type)])
    BY <1>3 DEF handleBinding
  <2>. DEFINE found == BindingsNamed(name)
              calls == [i \in DOMAIN found |-> Call("PortType", << >>, 0, found[i].type)]
  <2>2. todo' = calls \o Tail(todo)
    BY <2>1 DEF Return
  <2>3. IsSeq(found)
    BY DocumentFacts DEF IInv
  <2>4. \A i \in DOMAIN found : calls[i].ct = 0
    BY DEF Call
  <2>5. DOMAIN calls = DOMAIN found /\ calls = [i \in DOMAIN found |-> calls[i]]
    OBVIOUS
  <2>. HIDE DEF found, calls
  <2>. QED
    BY <1>1, <2>1, <2>2, <2>3, <2>4, <2>5, ParseCalls
<1>. QED
  BY <1>2, <1>3

LEMMA PortTypeStep == ASSUME IInv, handlePortType PROVE IInv'
<1>. DEFINE found == Operations(Top.name)
            calls == [i \in DOMAIN found |-> Call("Operation", found[i], 0, "")]
<1>1. pc = "calls" /\ pc' = pc /\ todo # << >> /\ UNCHANGED toolVars /\ todo' = calls \o Tail(todo)
  BY DEF handlePortType, Parsing, Return
<1>2. IsSeq(found)
  BY DocumentFacts DEF IInv
<1>3. \A i \in DOMAIN found : calls[i].ct = 0
  BY DEF Call
<1>4. DOMAIN calls = DOMAIN found /\ calls = [i \in DOMAIN found |-> calls[i]]
  OBVIOUS
<1>. HIDE DEF found, calls
<1>. QED
  BY <1>1, <1>2, <1>3, <1>4, ParseCalls

LEMMA WsdlParseStep == ASSUME IInv, wsdlParse PROVE IInv'
<1>. DEFINE found == SoapPorts
            calls == [i \in DOMAIN found |-> Call("Binding", << >>, 0, found[i].binding)]
<1>1. pc = "parse" /\ pc' = "calls" /\ UNCHANGED toolVars /\ todo' = calls
  BY DEF wsdlParse
<1>2. IsSeq(found)
  BY DocumentFacts DEF IInv
<1>3. \A i \in DOMAIN found : calls[i].ct = 0
  BY DEF Call
<1>4. DOMAIN calls = DOMAIN found /\ calls = [i \in DOMAIN found |-> calls[i]]
  OBVIOUS
<1>. HIDE DEF found, calls
<1>5. IsSeq(todo') /\ \A c \in Range(todo') : c.ct = 0
  BY <1>1, <1>2, <1>3, <1>4, MadeCalls
<1>. QED
  BY <1>1, <1>5, ParseStep

LEMMA OperationCallsFacts ==
  ASSUME NEW op
  PROVE  IsSeq(OperationCalls(op)) /\ \A c \in Range(OperationCalls(op)) : c.ct = 0
<1>1. PICK a : a = Call("Input", << >>, 0, op.input)
  OBVIOUS
<1>2. PICK b : b = Call("Output", << >>, 0, op.output)
  OBVIOUS
<1>3. a.ct = 0 /\ b.ct = 0
  BY <1>1, <1>2 DEF Call
<1>4. OperationCalls(op) \in {<< >>, << a >> \o << >>, << a >> \o << b >>}
  BY <1>1, <1>2 DEF OperationCalls
<1>5. \A x : IsSeq(<< x >>) /\ Range(<< x >>) = {x}
  <2>1. \A x : << x >> \in Seq({x}) /\ Range(<< x >>) = {x}
    BY DEF Range
  <2>. QED
    BY <2>1, ElementsOf
<1>6. IsSeq(<< a >> \o << >>) /\ Range(<< a >> \o << >>) = {a}
  BY <1>5, NoCalls, ConcatElements
<1>7. IsSeq(<< a >> \o << b >>) /\ Range(<< a >> \o << b >>) = {a, b}
  BY <1>5, ConcatElements
<1>. QED
  BY <1>3, <1>4, <1>6, <1>7, NoCalls

LEMMA OperationStep == ASSUME IInv, handleOperation PROVE IInv'
<1>1. pc = "calls" /\ pc' = pc /\ todo # << >> /\ UNCHANGED toolVars /\ todo' = OperationCalls(Top.node) \o Tail(todo)
  BY DEF handleOperation, Parsing, Return
<1>. QED
  BY <1>1, OperationCallsFacts, ReplacedStep

LEMMA ParameterStep == ASSUME IInv, handleInputParameters \/ handleOutputParameters PROVE IInv'
<1>1. pc = "calls" /\ pc' = pc /\ todo # << >> /\ UNCHANGED toolVars /\ todo' = << >> \o Tail(todo)
  BY DEF handleInputParameters, handleOutputParameters, Parsing, Return
<1>. QED
  BY <1>1, NoCalls, ReplacedStep

LEMMA StubStep == ASSUME IInv, codeWriteStubHeader PROVE IInv'
<1>1. pc = "calls" /\ pc' \in {"free", "crashed"} /\ UNCHANGED <<toolVars, todo>>
  BY DEF codeWriteStubHeader
<1>2. IsSeq(todo') /\ \A c \in Range(todo') : c \in Range(todo)
  BY <1>1 DEF IInv, TodoInv
<1>. QED
  BY <1>1, <1>2, ParseStep

LEMMA FreeStep == ASSUME IInv, FreeModules PROVE IInv'
<1>1. pc = "free" /\ pc' \in {"ended", "crashed"} /\ UNCHANGED <<toolVars, todo>>
  BY DEF FreeModules
<1>2. UNCHANGED <<doc, objs, types, lists, skipped, headers, sources, todo, root, next>>
  BY <1>1 DEF toolVars, registry, files
<1>3. TodoInv'
  BY <1>1, <1>2, SameTodo
<1>. QED
  BY <1>1, <1>2, <1>3, Places, QuietStep DEF PCs, HeadersDone, SourcesDone

-----------------------------------------------------------------------------
LEMMA InitFine == Init => IInv
<1>. SUFFICES ASSUME Init PROVE IInv
  OBVIOUS
<1>1. /\ doc \in Documents /\ pc = "start" /\ root = 1 /\ next = 1 /\ todo = << >> /\ objs = << >>
      /\ types = << >> /\ lists = << >> /\ DOMAIN headers = {} /\ DOMAIN sources = {}
  BY DEF Init
<1>2. IsSeq(<< >>) /\ Range(<< >>) = {} /\ DOMAIN << >> = {} /\ Len(<< >>) = 0
  BY NoCalls
<1>3. root \in 1 .. Len(Roots)
  <2>1. doc.roots \in Seq(Nodes) /\ doc.definitions \in Nodes
    BY <1>1, RootsAssumption
  <2>2. Roots \in Seq(Nodes) /\ Roots # << >>
    BY <2>1 DEF Roots
  <2>. QED
    BY <1>1, <2>2
<1>4. PlaceInv
  BY <1>1, <1>2, <1>3 DEF PlaceInv
<1>5. FilesInv
  <2>1. IsFiniteSet({})
    BY FS_EmptySet
  <2>. QED
    BY <1>1, <2>1 DEF FilesInv, HeadersDone, SourcesDone
<1>. QED
  BY <1>1, <1>2, <1>4, <1>5 DEF IInv, ObjsInv, TodoInv, RegistryInv, PCs

LEMMA NextFine == IInv /\ [Next]_vars => IInv'
<1>. SUFFICES ASSUME IInv, [Next]_vars PROVE IInv'
  OBVIOUS
<1>1. CASE Engine
  BY <1>1, StartStep, EndStep, NextSchemaStep, InitTrStep, InitObjStep, GeneratorStep, AttributeStep,
     ElementStep, SequenceStep, ExtensionStep, ComplexContentStep, RestrictionStep, SimpleContentStep,
     ComplexTypeStep, EngineRunStep, HeaderStep, SourceStep DEF Engine
<1>2. CASE Calls2c
  BY <1>2, WsdlParseStep, BindingStep, PortTypeStep, OperationStep, ParameterStep, StubStep, FreeStep DEF Calls2c
<1>3. CASE UNCHANGED vars
  <2>1. UNCHANGED <<doc, pc, root, todo, types, lists, objs, next, skipped, headers, sources>>
    BY <1>3 DEF vars, genVars, registry, files
  <2>2. Grows /\ ObjsInv' /\ RegistryInv'
    BY <2>1, SameObjects, RegistryStays DEF IInv
  <2>3. PlaceInv' /\ TodoInv'
    BY <2>1 DEF IInv, PlaceInv, Roots, TodoInv, CallFine
  <2>4. \A n : (HeadersUpTo(n) => HeadersUpTo(n)') /\ (SourcesUpTo(n) => SourcesUpTo(n)')
    BY <2>1, SameUpTo
  <2>5. FilesInv'
    <3>1. (HeadersUpTo(next - 1) => HeadersUpTo(next - 1)') /\ (HeadersUpTo(Len(objs)) => HeadersUpTo(Len(objs))')
          /\ (SourcesUpTo(next - 1) => SourcesUpTo(next - 1)') /\ (SourcesUpTo(Len(objs)) => SourcesUpTo(Len(objs))')
      BY <2>1, <2>4
    <3>2. ObjectNames' = ObjectNames
      BY <2>1 DEF ObjectNames
    <3>. QED
      BY <2>1, <3>1, <3>2 DEF IInv, FilesInv
  <2>. QED
    BY <2>1, <2>2, <2>3, <2>5 DEF IInv
<1>. QED
  BY <1>1, <1>2, <1>3 DEF Next

LEMMA Inductive == Spec => []IInv
<1>. QED
  BY InitFine, NextFine, PTL DEF Spec

\* Whatever the document, the generators keep their types: a call or a field never
\* belongs to a type that does not exist, and no source file is written without the
\* header it includes.
THEOREM TypeCorrect == Spec => []TypeOK
<1>1. IInv => TypeOK
  <2>. SUFFICES ASSUME IInv PROVE TypeOK
    OBVIOUS
  <2>1. \A i \in DOMAIN todo : todo[i].ct \in 0 .. Len(objs)
    BY DEF IInv, TodoInv, CallFine, Range
  <2>2. \A obj \in Range(objs) : \A f \in FieldsOf(obj) : f.max \in Int /\ f.parent = obj.type
    BY DEF IInv, ObjsInv, ObjFine, Range
  <2>3. DOMAIN headers \subseteq ObjectNames /\ (skipped \/ DOMAIN sources \subseteq DOMAIN headers)
    BY DEF IInv, FilesInv
  <2>. QED
    BY <2>1, <2>2, <2>3, Places DEF IInv, PCs, TypeOK
<1>. QED
  BY <1>1, Inductive, PTL

-----------------------------------------------------------------------------
(* The files of a name are those of the last type of the name.             *)
LEMMA SomeGreatest ==
  ASSUME NEW n \in Nat, NEW T, T \subseteq 1 .. n, T # {}
  PROVE  \E x \in T : (\A y \in T : y <= x) /\ Max(T) = x
<1>. DEFINE U == {n - x : x \in T}
<1>1. U \subseteq Nat /\ U # {}
  <2>1. \A x \in 1 .. n : n - x \in Nat
    OBVIOUS
  <2>2. PICK x : x \in T
    OBVIOUS
  <2>3. n - x \in U
    BY <2>2
  <2>. QED
    BY <2>1, <2>3
<1>2. PICK u \in U : \A v \in U : u <= v
  <2>. HIDE DEF U
  <2>. QED
    BY <1>1, SomeLeast
<1>3. PICK x \in T : u = n - x
  BY <1>2
<1>4. \A y \in T : y <= x
  <2>1. \A y \in T : n - y \in U
    OBVIOUS
  <2>2. \A y \in T : u <= n - y
    BY <1>2, <2>1
  <2>3. ASSUME NEW y \in T PROVE y <= x
    <3>1. x \in Int /\ y \in Int /\ n - x <= n - y
      BY <1>3, <2>2
    <3>. QED
      BY <3>1
  <2>. QED
    BY <2>3
<1>5. \A z \in T : (\A y \in T : y <= z) => z = x
  BY <1>4
<1>6. \A y \in T : x >= y
  BY <1>4
<1>7. \A z \in T : (\A y \in T : z >= y) => z = x
  BY <1>6
<1>. QED
  BY <1>4, <1>6, <1>7 DEF Max

FilesOf(name) ==
  /\ TypeNamed(name) \in Range(objs) /\ TypeNamed(name).type = name /\ ObjFine(TypeNamed(name))
  /\ headers[name] = writeComplexTypeHeaderFile(TypeNamed(name))
  /\ sources[name] = writeComplexTypeSourceFile(TypeNamed(name))

LEMMA FilesFacts ==
  ASSUME IInv, Generated
  PROVE  DOMAIN headers = ObjectNames /\ DOMAIN sources = ObjectNames /\ \A name \in ObjectNames : FilesOf(name)
<1>1. PICK n \in Nat : n = Len(objs) /\ DOMAIN objs = 1 .. n
  BY Places
<1>2. HeadersUpTo(n) /\ SourcesUpTo(n) /\ DOMAIN headers \subseteq ObjectNames /\ DOMAIN sources \subseteq ObjectNames
  BY <1>1 DEF IInv, FilesInv, Generated, HeadersDone, SourcesDone
<1>3. DOMAIN headers = ObjectNames /\ DOMAIN sources = ObjectNames
  <2>1. ASSUME NEW name \in ObjectNames PROVE name \in DOMAIN headers /\ name \in DOMAIN sources
    <3>1. PICK j \in 1 .. n : objs[j].type = name
      BY <1>1 DEF ObjectNames, Range
    <3>. QED
      BY <1>2, <3>1 DEF HeadersUpTo, SourcesUpTo
  <2>. QED
    BY <1>2, <2>1
<1>4. ASSUME NEW name \in ObjectNames PROVE FilesOf(name)
  <2>. DEFINE T == {i \in 1 .. Len(objs) : objs[i].type = name}
  <2>1. T \subseteq 1 .. n /\ T # {}
    BY <1>1 DEF ObjectNames, Range
  <2>2. PICK x \in T : (\A y \in T : y <= x) /\ Max(T) = x
    <3>. HIDE DEF T
    <3>. QED
      BY <2>1, SomeGreatest
  <2>3. SelectLastInSeq(objs, LAMBDA obj : obj.type = name) = IF T # {} THEN Max(T) ELSE 0
    BY DEF SelectLastInSeq
  <2>4. TypeNamed(name) = objs[x]
    <3>. HIDE DEF T
    <3>. QED
      BY <2>1, <2>2, <2>3 DEF TypeNamed
  <2>5. x \in 1 .. n /\ objs[x].type = name
    BY <1>1
  <2>6. Latest(x, n)
    <3>1. ASSUME NEW k \in x + 1 .. n, objs[k].type = name PROVE FALSE
      <4>1. k \in T /\ ~(k <= x)
        BY <1>1, <2>5, <3>1
      <4>. HIDE DEF T
      <4>. QED
        BY <2>2, <4>1
    <3>. QED
      BY <2>5, <3>1 DEF Latest
  <2>. HIDE DEF T
  <2>7. /\ headers[name] = writeComplexTypeHeaderFile(objs[x])
        /\ sources[name] = writeComplexTypeSourceFile(objs[x])
    BY <1>2, <2>5, <2>6 DEF HeadersUpTo, SourcesUpTo
  <2>8. objs[x] \in Range(objs) /\ ObjFine(objs[x])
    BY <1>1, <2>5 DEF Range, IInv, ObjsInv
  <2>. QED
    BY <2>4, <2>5, <2>7, <2>8 DEF FilesOf
<1>. QED
  BY <1>3, <1>4

-----------------------------------------------------------------------------
(* What a source includes, step by step.                                   *)
Step(R, n) == R[n - 1] \cup UNION {headers[h].includes : h \in R[n - 1] \cap DOMAIN headers}
Reached(R, type, rounds) ==
  /\ R[0] = {type} /\ \A n \in 1 .. rounds : R[n] = Step(R, n)
  /\ Included(type) = R[rounds]

LEMMA ReachFunction ==
  ASSUME NEW type, NEW rounds \in Nat, rounds = Cardinality(DOMAIN headers)
  PROVE  \E R : Reached(R, type, rounds)
<1>. DEFINE G(h, m) == [n \in 0 .. m |-> IF n = 0 THEN {type} ELSE
                          h[n - 1] \cup UNION {headers[x].includes : x \in h[n - 1] \cap DOMAIN headers}]
            Fixed(m) == \E h : h = G(h, m)
            T == {m \in Nat : Fixed(m)}
            R == CHOOSE h : h = G(h, rounds)
<1>1. 0 \in T
  <2>1. [n \in 0 .. 0 |-> {type}] = G([n \in 0 .. 0 |-> {type}], 0)
    OBVIOUS
  <2>2. Fixed(0)
    BY <2>1
  <2>. HIDE DEF Fixed
  <2>. QED
    BY <2>2
<1>2. ASSUME NEW m \in Nat, m \in T PROVE m + 1 \in T
  <2>1. Fixed(m)
    <3>. HIDE DEF Fixed
    <3>. QED
      BY <1>2
  <2>2. PICK h : h = G(h, m)
    BY <2>1
  <2>. DEFINE x == h[m] \cup UNION {headers[y].includes : y \in h[m] \cap DOMAIN headers}
              g == [i \in 0 .. m + 1 |-> IF i = m + 1 THEN x ELSE h[i]]
  <2>3. ASSUME NEW i \in 0 .. m + 1
        PROVE  g[i] = IF i = 0 THEN {type} ELSE
                        g[i - 1] \cup UNION {headers[y].includes : y \in g[i - 1] \cap DOMAIN headers}
    <3>1. CASE i = m + 1
      <4>1. m \in 0 .. m + 1 /\ m # m + 1 /\ i # 0 /\ i - 1 = m
        BY <3>1
      <4>2. g[i] = x /\ g[i - 1] = h[m]
        <5>. HIDE DEF x
        <5>. QED
          BY <3>1, <4>1
      <4>. QED
        BY <4>1, <4>2
    <3>2. CASE i # m + 1
      <4>1. i \in 0 .. m /\ (i # 0 => i - 1 \in 0 .. m /\ i - 1 \in 0 .. m + 1 /\ i - 1 # m + 1)
        BY <3>2
      <4>2. h[i] = IF i = 0 THEN {type} ELSE
                     h[i - 1] \cup UNION {headers[y].includes : y \in h[i - 1] \cap DOMAIN headers}
        BY <2>2, <4>1
      <4>3. g[i] = h[i] /\ (i # 0 => g[i - 1] = h[i - 1])
        <5>. HIDE DEF x
        <5>. QED
          BY <3>2, <4>1
      <4>. HIDE DEF g
      <4>. QED
        BY <4>1, <4>2, <4>3
    <3>. QED
      BY <3>1, <3>2
  <2>4. g = G(g, m + 1)
    <3>. HIDE DEF x
    <3>1. DOMAIN g = 0 .. m + 1 /\ g = [i \in 0 .. m + 1 |-> g[i]]
      OBVIOUS
    <3>. HIDE DEF g
    <3>. QED
      BY <2>3, <3>1
  <2>5. Fixed(m + 1)
    BY <2>4
  <2>. HIDE DEF Fixed, g, G
  <2>. QED
    BY <2>5
<1>3. rounds \in T
  <2>1. \A k \in Nat : k \in T => k + 1 \in T
    BY <1>2
  <2>. HIDE DEF T
  <2>. QED
    BY <1>1, <2>1, AllNumbers
<1>4. Fixed(rounds)
  <2>. HIDE DEF Fixed
  <2>. QED
    BY <1>3
<1>5. R = G(R, rounds)
  BY <1>4
<1>6. Included(type) = R[rounds]
  BY DEF Included
<1>7. R[0] = {type} /\ \A n \in 1 .. rounds : R[n] = Step(R, n)
  <2>. HIDE DEF R
  <2>. QED
    BY <1>5 DEF Step
<1>8. Reached(R, type, rounds)
  <2>. HIDE DEF R
  <2>. QED
    BY <1>6, <1>7 DEF Reached
<1>. QED
  BY <1>8

LEMMA IncludedFacts ==
  ASSUME IsFiniteSet(DOMAIN headers), NEW type \in DOMAIN headers
  PROVE  /\ type \in Included(type) /\ headers[type].includes \subseteq Included(type)
         /\ \A S : type \in S /\ (\A h \in S \cap Included(type) \cap DOMAIN headers : headers[h].includes \subseteq S)
                     => Included(type) \subseteq S
<1>1. PICK rounds \in Nat : rounds = Cardinality(DOMAIN headers) /\ rounds # 0
  <2>1. Cardinality(DOMAIN headers) \in Nat /\ Cardinality(DOMAIN headers) # 0
    BY FS_CardinalityType, FS_EmptySet
  <2>. QED
    BY <2>1
<1>2. PICK R : Reached(R, type, rounds)
  BY <1>1, ReachFunction
<1>3. \A n \in 1 .. rounds : R[n - 1] \subseteq R[n]
  BY <1>2 DEF Reached, Step
<1>4. ASSUME NEW m \in 0 .. rounds PROVE \A n \in m .. rounds : R[m] \subseteq R[n]
  <2>. DEFINE T == {k \in Nat : m + k <= rounds => R[m] \subseteq R[m + k]}
  <2>1. 0 \in T
    OBVIOUS
  <2>2. ASSUME NEW k \in Nat, k \in T PROVE k + 1 \in T
    <3>1. ASSUME m + (k + 1) <= rounds PROVE R[m] \subseteq R[m + (k + 1)]
      <4>1. m + (k + 1) \in 1 .. rounds /\ m + (k + 1) - 1 = m + k /\ m + k <= rounds
        BY <3>1
      <4>2. R[m + k] \subseteq R[m + (k + 1)]
        BY <1>3, <4>1
      <4>3. R[m] \subseteq R[m + k]
        BY <2>2, <4>1
      <4>. QED
        BY <4>2, <4>3
    <3>. QED
      BY <3>1
  <2>3. Nat \subseteq T
    <3>. HIDE DEF T
    <3>. QED
      BY <2>1, <2>2, AllNumbers
  <2>4. ASSUME NEW n \in m .. rounds PROVE R[m] \subseteq R[n]
    <3>1. n - m \in Nat /\ m + (n - m) = n /\ n <= rounds
      OBVIOUS
    <3>2. n - m \in T
      <4>. HIDE DEF T
      <4>. QED
        BY <2>3, <3>1
    <3>. QED
      BY <3>1, <3>2
  <2>. QED
    BY <2>4
<1>5. \A n \in 0 .. rounds : R[n] \subseteq Included(type)
  <2>1. \A n \in 0 .. rounds : rounds \in n .. rounds
    OBVIOUS
  <2>. QED
    BY <1>2, <1>4, <2>1 DEF Reached
<1>6. type \in Included(type)
  BY <1>2, <1>5 DEF Reached
<1>7. headers[type].includes \subseteq Included(type)
  <2>1. 1 \in 1 .. rounds /\ 1 - 1 = 0 /\ 1 \in 0 .. rounds
    BY <1>1
  <2>2. R[1] = Step(R, 1) /\ type \in R[0]
    BY <1>2, <2>1 DEF Reached
  <2>3. headers[type].includes \subseteq R[1]
    BY <2>1, <2>2 DEF Step
  <2>. QED
    BY <1>5, <2>1, <2>3
<1>8. ASSUME NEW S, type \in S,
             \A h \in S \cap Included(type) \cap DOMAIN headers : headers[h].includes \subseteq S
      PROVE  Included(type) \subseteq S
  <2>. DEFINE T == {k \in Nat : k <= rounds => R[k] \subseteq S}
  <2>1. 0 \in T
    BY <1>2, <1>8 DEF Reached
  <2>2. ASSUME NEW k \in Nat, k \in T PROVE k + 1 \in T
    <3>1. ASSUME k + 1 <= rounds PROVE R[k + 1] \subseteq S
      <4>1. k + 1 \in 1 .. rounds /\ k + 1 - 1 = k /\ k \in 0 .. rounds /\ k <= rounds
        BY <3>1
      <4>2. R[k + 1] = R[k] \cup UNION {headers[h].includes : h \in R[k] \cap DOMAIN headers}
        BY <1>2, <4>1 DEF Reached, Step
      <4>3. R[k] \subseteq S /\ R[k] \subseteq Included(type)
        BY <1>5, <2>2, <4>1
      <4>. QED
        BY <1>8, <4>2, <4>3
    <3>. QED
      BY <3>1
  <2>3. Nat \subseteq T
    <3>. HIDE DEF T
    <3>. QED
      BY <2>1, <2>2, AllNumbers
  <2>4. rounds \in T
    <3>. HIDE DEF T
    <3>. QED
      BY <2>3
  <2>. QED
    BY <1>2, <2>4 DEF Reached
<1>. QED
  BY <1>6, <1>7, <1>8

-----------------------------------------------------------------------------
(* What the source of a supported type uses and who declares it.           *)
\* A field of a supported type: it has a C type, its list too, and what is not
\* built in has a header of its own.
FieldFine(f) ==
  /\ HasType(f, TRUE) /\ HasType(f, FALSE) /\ trGetBuildInFlag(f.type) \in {0, 1}
  /\ ~IsList(f) => f.max = 1
  /\ IsAttribute(f) => trXSD2C(f.type).kind \notin {"float", "double"}
  /\ IsList(f) => IF trGetBuildInFlag(f.type) = 1
                  THEN ListStruct(f) = Struct(f.parent \o "_" \o f.name \o "_List")
                  ELSE ListStruct(f) = Struct(Local(f.type) \o "_List")
  /\ trGetBuildInFlag(f.type) = 0 => Local(f.type) \in ObjectNames

LEMMA FieldFacts ==
  ASSUME RegistryInv, ObjsInv, NEW o, ~Unsupported(o), NEW f \in FieldsOf(o)
  PROVE  FieldFine(f)
<1>1. /\ trXSD2C(f.type) # NoC /\ (IsList(f) \/ f.max = 1)
      /\ ~(IsAttribute(f) /\ trXSD2C(f.type).kind \in {"float", "double"})
      /\ ~(IsList(f) /\ trGetBuildInFlag(f.type) = 1 /\ trXSD2CList(f.type) # NoC)
  BY DEF Unsupported
<1>2. TypeFound(f.type)
  BY TypeFacts
<1>3. trGetBuildInFlag(f.type) \in {0, 1}
  BY <1>1, <1>2 DEF TypeFound
<1>4. \A name : Pointer(name) # NoC /\ Pointer(name).name = name
  BY DEF Pointer, NoC
<1>5. HasType(f, TRUE)
  BY <1>1 DEF HasType, genFieldType
<1>6. CASE ~IsList(f)
  <2>1. HasType(f, FALSE)
    BY <1>1, <1>6 DEF HasType, genFieldType
  <2>2. trGetBuildInFlag(f.type) = 0 => Local(f.type) \in ObjectNames
    BY <1>2 DEF TypeFound, ObjsInv, ObjFine, ObjectNames, Local, Range
  <2>. QED
    BY <1>1, <1>3, <1>5, <1>6, <2>1, <2>2 DEF FieldFine
<1>7. CASE IsList(f)
  <2>1. genFieldType(f, FALSE) = IF trXSD2CList(f.type) # NoC THEN trXSD2CList(f.type)
                                 ELSE Pointer(f.parent \o "_" \o f.name \o "_List")
    BY <1>7 DEF genFieldType
  <2>2. HasType(f, FALSE)
    BY <1>4, <2>1 DEF HasType
  <2>3. trGetBuildInFlag(f.type) = 0 => Local(f.type) \in ObjectNames
    BY <1>2 DEF TypeFound, ObjsInv, ObjFine, ObjectNames, Local, Range
  <2>4. trGetBuildInFlag(f.type) = 1 => ListStruct(f) = Struct(f.parent \o "_" \o f.name \o "_List")
    BY <1>1, <1>4, <1>7, <2>1 DEF ListStruct
  <2>5. trGetBuildInFlag(f.type) = 0 => ListStruct(f) = Struct(Local(f.type) \o "_List")
    BY <1>2, <1>4, <2>1 DEF ListStruct, TypeFound
  <2>. QED
    BY <1>1, <1>3, <1>5, <1>7, <2>2, <2>3, <2>4, <2>5 DEF FieldFine
<1>. QED
  BY <1>6, <1>7

LEMMA NameParts ==
  /\ \A type, op : Fn(type, op)[1] = "function" /\ Fn(type, op)[2] = type
  /\ \A type, op, field : LET fn == FieldFn(type, op, field) IN fn[1] = "function" /\ fn[2] = type /\ fn[4] = field
  /\ \A type, member : Member(type, member)[1] = "member"
  /\ \A type : Struct(type)[1] = "struct"
BY DEF Fn, FieldFn, Member, Struct, Name

LEMMA FieldNames ==
  ASSUME NEW f
  PROVE  /\ \A n \in FieldFunctions(f) : n[1] = "function" /\ n[2] = f.parent /\ n[4] = f.name
         /\ \A n \in writeFieldDeclare(f) : n[1] = "member"
<1>. DEFINE fns == {FieldFn(f.parent, "Get", f.name), FieldFn(f.parent, "Set", f.name), FieldFn(f.parent, "Add", f.name)}
<1>1. FieldFunctions(f) \subseteq fns
  BY DEF FieldFunctions, genFunctionNameGetter, genFunctionNameSetter, genFunctionNameAdder
<1>2. \A n \in fns : n[1] = "function" /\ n[2] = f.parent /\ n[4] = f.name
  BY NameParts
<1>3. writeFieldDeclare(f) \subseteq Slots(f)
  BY DEF writeFieldDeclare
<1>4. \E a, b, c : Slots(f) \subseteq {Member(f.parent, a), Member(f.parent, b), Member(f.parent, c)}
  BY DEF Slots
<1>5. \A n \in Slots(f) : n[1] = "member"
  BY <1>4, NameParts
<1>. QED
  BY <1>1, <1>2, <1>3, <1>5

\* Two fields of a supported type have no member and no function in common.
LEMMA NothingTwice ==
  ASSUME NEW o, ~Unsupported(o)
  PROVE  /\ Twice([i \in DOMAIN o.fields |-> writeFieldDeclare(o.fields[i])]) = {}
         /\ Twice([i \in DOMAIN o.fields |-> FieldFunctions(o.fields[i])]) = {}
<1>1. ASSUME NEW i \in DOMAIN o.fields, NEW j \in DOMAIN o.fields, i # j
      PROVE  /\ writeFieldDeclare(o.fields[i]) \cap writeFieldDeclare(o.fields[j]) = {}
             /\ FieldFunctions(o.fields[i]) \cap FieldFunctions(o.fields[j]) = {}
  <2>1. PICK f, g : f = o.fields[i] /\ g = o.fields[j]
    OBVIOUS
  <2>2. f.name # g.name /\ Slots(f) \cap Slots(g) = {}
    BY <1>1, <2>1 DEF Unsupported
  <2>3. writeFieldDeclare(f) \subseteq Slots(f) /\ writeFieldDeclare(g) \subseteq Slots(g)
    BY DEF writeFieldDeclare
  <2>4. \A h : \A n \in FieldFunctions(h) : n[4] = h.name
    BY FieldNames
  <2>5. FieldFunctions(f) \cap FieldFunctions(g) = {}
    BY <2>2, <2>4
  <2>. QED
    BY <2>1, <2>2, <2>3, <2>5
<1>2. ASSUME NEW s, \A i, j \in DOMAIN s : i # j => s[i] \cap s[j] = {}
      PROVE  Twice(s) = {}
  BY <1>2 DEF Twice
<1>3. Twice([i \in DOMAIN o.fields |-> writeFieldDeclare(o.fields[i])]) = {}
  BY <1>1, <1>2
<1>4. Twice([i \in DOMAIN o.fields |-> FieldFunctions(o.fields[i])]) = {}
  BY <1>1, <1>2
<1>. QED
  BY <1>3, <1>4

\* The header of a supported type.
HeaderFine(o) ==
  LET file == writeComplexTypeHeaderFile(o)
  IN  /\ file.needs = {} /\ file.twice = {}
      /\ file.includes = {Local(f.type) : f \in {g \in FieldsOf(o) : trGetBuildInFlag(g.type) = 0}}
      /\ {Struct(o.type), Struct(o.type \o "_List"), Fn(o.type, "Create"), Fn(o.type, "Free"),
          Fn(o.type, "Sax_Serialize"), Fn(o.type, "Deserialize")} \subseteq file.declares
      /\ \A f \in FieldsOf(o) :
           /\ Slots(f) \cup {Store(f)} \subseteq file.declares
           /\ IsList(f) /\ trGetBuildInFlag(f.type) = 1 => ListStruct(f) \in file.declares

LEMMA HeaderFacts ==
  ASSUME RegistryInv, ObjsInv, NEW o, ~Unsupported(o)
  PROVE  HeaderFine(o)
<1>. DEFINE struct == writeComplexTypeDeclare(o)
            file == writeComplexTypeHeaderFile(o)
<1>1. ~HasBase(o) /\ ~o.simple
  BY DEF Unsupported
<1>0. file.twice = {} /\ file.needs = struct.needs
  <2>1. ~Misnamed(o)
    BY DEF Unsupported
  <2>. QED
    BY <2>1, NothingTwice DEF writeComplexTypeHeaderFile
<1>2. /\ file.includes = Includes(o)
      /\ file.declares = struct.declares \cup Prototypes(o) \cup UNION {writeFieldPrimitiveList(f) : f \in FieldsOf(o)}
  BY DEF writeComplexTypeHeaderFile
<1>3. Includes(o) = {Local(f.type) : f \in {g \in FieldsOf(o) : trGetBuildInFlag(g.type) = 0}}
  BY <1>1 DEF Includes
<1>4. ~IsTypedef(o)
  BY <1>1 DEF IsTypedef
<1>5. /\ struct.needs = {}
      /\ {Struct(o.type), Struct(o.type \o "_List")} \cup UNION {writeFieldDeclare(f) : f \in FieldsOf(o)}
           \subseteq struct.declares
  BY <1>1, <1>4 DEF writeComplexTypeDeclare
<1>6. {Fn(o.type, "Create"), Fn(o.type, "Free"), Fn(o.type, "Sax_Serialize"), Fn(o.type, "Deserialize")}
        \cup UNION {writeFieldSetter(f) \cup writeListAdder(f) \cup genFunctionNameGetter(f) : f \in FieldsOf(o)}
        \subseteq Prototypes(o)
  BY <1>4 DEF Prototypes, genFunctionNameCreate, genFunctionNameFree, genFunctionNameSaxSerialize,
              genFunctionNameDeserialize
<1>7. ASSUME NEW f \in FieldsOf(o)
      PROVE  /\ Slots(f) \cup {Store(f)} \subseteq file.declares
             /\ IsList(f) /\ trGetBuildInFlag(f.type) = 1 => ListStruct(f) \in file.declares
  <2>1. FieldFine(f)
    BY FieldFacts
  <2>2. Slots(f) \subseteq struct.declares
    BY <1>5, <2>1 DEF writeFieldDeclare, FieldFine
  <2>3. Store(f) \in writeFieldSetter(f) \cup writeListAdder(f)
    BY <2>1 DEF Store, writeFieldSetter, writeListAdder, genFunctionNameSetter, genFunctionNameAdder, FieldFine
  <2>4. Store(f) \in Prototypes(o)
    BY <1>6, <2>3
  <2>5. IsList(f) /\ trGetBuildInFlag(f.type) = 1 => ListStruct(f) \in writeFieldPrimitiveList(f)
    <3>1. \A b : b = 1 => b > 0
      OBVIOUS
    <3>2. trGetBuildInFlag(f.type) = 1 => trGetBuildInFlag(f.type) > 0
      BY <3>1, Zenon
    <3>. QED
      BY <2>1, <3>2, Zenon DEF FieldFine, writeFieldPrimitiveList
  <2>. HIDE DEF struct, file
  <2>. QED
    BY <1>2, <2>2, <2>4, <2>5
<1>. HIDE DEF struct
<1>8. {Struct(o.type), Struct(o.type \o "_List"), Fn(o.type, "Create"), Fn(o.type, "Free"),
       Fn(o.type, "Sax_Serialize"), Fn(o.type, "Deserialize")} \subseteq file.declares
  <2>. HIDE DEF file
  <2>. QED
    BY <1>2, <1>5, <1>6
<1>. QED
  BY <1>0, <1>2, <1>3, <1>5, <1>7, <1>8 DEF HeaderFine

\* What the source of a type uses is declared by its own header and by those of
\* the types of its fields.
OfFieldTypes(o) ==
  UNION {{Fn(Local(f.type), "Sax_Serialize"), Fn(Local(f.type), "Deserialize"), Struct(Local(f.type) \o "_List")} :
         f \in {g \in FieldsOf(o) : trGetBuildInFlag(g.type) = 0}}
Seen(o) == writeComplexTypeHeaderFile(o).declares \cup OfFieldTypes(o)

LEMMA FieldUses ==
  ASSUME RegistryInv, ObjsInv, NEW o, ~Unsupported(o), NEW f \in FieldsOf(o)
  PROVE  /\ Slots(f) \subseteq Seen(o) /\ Store(f) \in Seen(o)
         /\ IsList(f) => {Member(f.parent, f.name \o "_head"), ListStruct(f)} \subseteq Seen(o)
         /\ trGetBuildInFlag(f.type) # 1 =>
              {Fn(Local(f.type), "Sax_Serialize"), Fn(Local(f.type), "Deserialize")} \subseteq Seen(o)
         /\ IsAttribute(f) => trXSD2C(f.type).kind \notin {"float", "double"}
<1>1. FieldFine(f) /\ HeaderFine(o)
  BY FieldFacts, HeaderFacts
<1>2. Slots(f) \subseteq Seen(o) /\ Store(f) \in Seen(o)
  BY <1>1 DEF HeaderFine, Seen
<1>3. trGetBuildInFlag(f.type) = 0 =>
        {Fn(Local(f.type), "Sax_Serialize"), Fn(Local(f.type), "Deserialize"), Struct(Local(f.type) \o "_List")}
          \subseteq Seen(o)
  BY DEF OfFieldTypes, Seen
<1>4. trGetBuildInFlag(f.type) # 1 => trGetBuildInFlag(f.type) = 0
  BY <1>1 DEF FieldFine
<1>5. IsList(f) => Member(f.parent, f.name \o "_head") \in Seen(o)
  BY <1>2 DEF Slots
<1>6. IsList(f) => ListStruct(f) \in Seen(o)
  <2>1. CASE trGetBuildInFlag(f.type) = 1
    BY <1>1, <2>1 DEF HeaderFine, Seen
  <2>2. CASE trGetBuildInFlag(f.type) = 0
    <3>1. IsList(f) => ListStruct(f) = Struct(Local(f.type) \o "_List")
      BY <1>1, <2>2 DEF FieldFine
    <3>. QED
      BY <1>3, <2>2, <3>1
  <2>. QED
    BY <1>4, <2>1, <2>2
<1>7. IsAttribute(f) => trXSD2C(f.type).kind \notin {"float", "double"}
  BY <1>1 DEF FieldFine
<1>. QED
  BY <1>2, <1>3, <1>4, <1>5, <1>6, <1>7

LEMMA UsesFacts ==
  ASSUME RegistryInv, ObjsInv, NEW o, ~Unsupported(o)
  PROVE  writeComplexTypeSourceFile(o).uses \subseteq Seen(o)
<1>1. ~HasBase(o) /\ ~IsTypedef(o)
  BY DEF Unsupported, IsTypedef
<1>2. {Struct(o.type), Fn(o.type, "Create")} \subseteq Seen(o)
  BY HeaderFacts DEF HeaderFine, Seen
<1>3. writeCodeCreate(o) \subseteq Seen(o)
  <2>1. UNION {Slots(f) : f \in FieldsOf(o)} \subseteq Seen(o)
    BY FieldUses
  <2>. QED
    BY <1>1, <1>2, <2>1 DEF writeCodeCreate
<1>4. writeCodeFree(o) \subseteq Seen(o)
  <2>. DEFINE Part(f) == CASE IsList(f) -> {Member(f.parent, f.name \o "_head"), ListStruct(f)}
                           [] ~IsList(f) /\ Local(f.type) = "string" -> Slots(f)
                           [] OTHER -> {}
  <2>1. ASSUME NEW f \in FieldsOf(o) PROVE Part(f) \subseteq Seen(o)
    <3>1. /\ Slots(f) \subseteq Seen(o)
          /\ IsList(f) => {Member(f.parent, f.name \o "_head"), ListStruct(f)} \subseteq Seen(o)
      BY FieldUses
    <3>. QED
      BY <3>1
  <2>2. UNION {Part(f) : f \in FieldsOf(o)} \subseteq Seen(o)
    <3>. HIDE DEF Part
    <3>. QED
      BY <2>1
  <2>. QED
    BY <2>2 DEF writeCodeFree
<1>5. setSaxAttrs(o) \subseteq Seen(o)
  <2>. DEFINE Part(f) == Slots(f) \cup (IF trXSD2C(f.type).kind \in {"float", "double"} THEN {NotC} ELSE {})
  <2>1. ASSUME NEW f \in {g \in FieldsOf(o) : IsAttribute(g)} PROVE Part(f) \subseteq Seen(o)
    BY FieldUses
  <2>2. UNION {Part(f) : f \in {g \in FieldsOf(o) : IsAttribute(g)}} \subseteq Seen(o)
    <3>. HIDE DEF Part
    <3>. QED
      BY <2>1
  <2>. QED
    BY <2>2 DEF setSaxAttrs
<1>6. SaxElements(o, FALSE) \subseteq Seen(o)
  <2>1. ASSUME NEW f \in FieldsOf(o) PROVE SaxElement(f, FALSE) \subseteq Seen(o)
    <3>1. /\ Slots(f) \subseteq Seen(o)
          /\ IsList(f) => {Member(f.parent, f.name \o "_head"), ListStruct(f)} \subseteq Seen(o)
          /\ trGetBuildInFlag(f.type) # 1 => Fn(Local(f.type), "Sax_Serialize") \in Seen(o)
      BY FieldUses
    <3>. QED
      BY <3>1 DEF SaxElement
  <2>. QED
    BY <2>1 DEF SaxElements
<1>7. writeCodeSaxSerialize(o) \subseteq Seen(o)
  BY <1>1, <1>5, <1>6 DEF writeCodeSaxSerialize
<1>8. writeCodeDeserialize(o) \subseteq Seen(o)
  <2>. DEFINE Read(f) == IF IsAttribute(f) \/ trGetBuildInFlag(f.type) = 1
                         THEN (IF Written(Local(f.type)) THEN {Store(f)} ELSE {})
                         ELSE {Store(f), Fn(Local(f.type), "Deserialize")}
  <2>1. ASSUME NEW f \in FieldsOf(o) PROVE Read(f) \subseteq Seen(o)
    <3>1. Store(f) \in Seen(o) /\ (trGetBuildInFlag(f.type) # 1 => Fn(Local(f.type), "Deserialize") \in Seen(o))
      BY FieldUses
    <3>. QED
      BY <3>1
  <2>2. UNION {Read(f) : f \in FieldsOf(o)} \subseteq Seen(o)
    <3>. HIDE DEF Read
    <3>. QED
      BY <2>1
  <2>3. writeCodeDeserialize(o) = {Struct(o.type), Fn(o.type, "Create")} \cup UNION {Read(f) : f \in FieldsOf(o)}
    BY <1>1 DEF writeCodeDeserialize
  <2>. HIDE DEF Read
  <2>. QED
    BY <1>2, <2>2, <2>3
<1>9. ASSUME NEW f \in FieldsOf(o)
      PROVE  writeCodeGetter(f) \cup writeCodeSetter(f) \cup writeCodeAdder(f) \subseteq Seen(o)
  <2>1. /\ Slots(f) \subseteq Seen(o)
        /\ IsList(f) => {Member(f.parent, f.name \o "_head"), ListStruct(f)} \subseteq Seen(o)
    BY FieldUses
  <2>2. writeCodeGetter(f) \subseteq Seen(o)
    BY <2>1 DEF writeCodeGetter
  <2>3. writeCodeSetter(f) \subseteq Seen(o)
    BY <2>1 DEF writeCodeSetter
  <2>4. writeCodeAdder(f) \subseteq Seen(o)
    BY <2>1 DEF writeCodeAdder
  <2>. QED
    BY <2>2, <2>3, <2>4
<1>10. UNION {writeCodeGetter(f) \cup writeCodeSetter(f) \cup writeCodeAdder(f) : f \in FieldsOf(o)} \subseteq Seen(o)
  BY <1>9
<1>11. writeComplexTypeSourceFile(o).uses =
         writeCodeCreate(o) \cup writeCodeFree(o) \cup writeCodeSaxSerialize(o) \cup writeCodeDeserialize(o) \cup
         UNION {writeCodeGetter(f) \cup writeCodeSetter(f) \cup writeCodeAdder(f) : f \in FieldsOf(o)}
  BY <1>1 DEF writeComplexTypeSourceFile
<1>. QED
  BY <1>3, <1>4, <1>7, <1>8, <1>10, <1>11

\* The functions of a source are of its type; those its header declares are among
\* them, if the type is supported.
LEMMA FunctionFacts ==
  ASSUME NEW o, ObjFine(o)
  PROVE  /\ \A n \in writeComplexTypeSourceFile(o).functions : n[2] = o.type
         /\ {Fn(o.type, "Sax_Serialize"), Fn(o.type, "Deserialize")} \subseteq writeComplexTypeSourceFile(o).functions
         /\ ~Unsupported(o) =>
              /\ writeComplexTypeSourceFile(o).twice = {}
              /\ \A n \in writeComplexTypeHeaderFile(o).declares :
                    n[1] = "function" => n \in writeComplexTypeSourceFile(o).functions
<1>. DEFINE functions == writeComplexTypeSourceFile(o).functions
            own == genFunctionNameCreate(o) \cup genFunctionNameFree(o) \cup
                   genFunctionNameSaxSerialize(o) \cup genFunctionNameDeserialize(o)
            fields == UNION {FieldFunctions(f) : f \in FieldsOf(o)}
<1>1. functions = own \cup fields
  BY DEF writeComplexTypeSourceFile
<1>2. \A n \in own : n[2] = o.type
  BY NameParts DEF genFunctionNameCreate, genFunctionNameFree, genFunctionNameSaxSerialize, genFunctionNameDeserialize
<1>3. \A n \in fields : n[2] = o.type
  <2>1. \A f \in FieldsOf(o) : \A n \in FieldFunctions(f) : n[2] = o.type
    BY FieldNames DEF ObjFine
  <2>. QED
    BY <2>1
<1>4. {Fn(o.type, "Sax_Serialize"), Fn(o.type, "Deserialize")} \subseteq own
  BY DEF genFunctionNameSaxSerialize, genFunctionNameDeserialize
<1>5. ASSUME ~Unsupported(o)
      PROVE  \A n \in writeComplexTypeHeaderFile(o).declares : n[1] = "function" => n \in functions
  <2>. DEFINE struct == writeComplexTypeDeclare(o).declares
              lists_ == UNION {writeFieldPrimitiveList(f) : f \in FieldsOf(o)}
  <2>1. writeComplexTypeHeaderFile(o).declares = struct \cup Prototypes(o) \cup lists_
    BY DEF writeComplexTypeHeaderFile
  <2>2. \A n \in lists_ : n[1] = "struct"
    <3>1. \A f \in FieldsOf(o) : \A n \in writeFieldPrimitiveList(f) : n[1] = "struct"
      <4>1. ASSUME NEW f \in FieldsOf(o), NEW n \in writeFieldPrimitiveList(f) PROVE n[1] = "struct"
        <5>1. n = Struct(f.parent \o "_" \o f.name \o "_List")
          BY <4>1, Zenon DEF writeFieldPrimitiveList
        <5>. QED
          BY <5>1, NameParts
      <4>. QED
        BY <4>1
    <3>. QED
      BY <3>1
  <2>3. \A n \in struct : n[1] # "function"
    <3>1. \A f \in FieldsOf(o) : \A n \in writeFieldDeclare(f) : n[1] = "member"
      BY FieldNames
    <3>2. ~o.simple /\ ~IsTypedef(o)
      BY <1>5 DEF Unsupported, IsTypedef
    <3>. QED
      BY <3>1, <3>2, NameParts DEF writeComplexTypeDeclare
  <2>4. Prototypes(o) \subseteq functions
    <3>1. \A f \in FieldsOf(o) :
            writeFieldSetter(f) \cup writeListAdder(f) \cup genFunctionNameGetter(f) \subseteq FieldFunctions(f)
      BY DEF writeFieldSetter, writeListAdder, FieldFunctions, IsList
    <3>. QED
      BY <1>1, <3>1 DEF Prototypes
  <2>. HIDE DEF struct, lists_, functions
  <2>. QED
    BY <2>1, <2>2, <2>3, <2>4
<1>6. ~Unsupported(o) => writeComplexTypeSourceFile(o).twice = {}
  BY NothingTwice DEF writeComplexTypeSourceFile
<1>. HIDE DEF own, fields
<1>. QED
  BY <1>1, <1>2, <1>3, <1>4, <1>5, <1>6

LEMMA SupportedLinks ==
  ASSUME IInv, Generated, NEW name \in DOMAIN sources,
         \A h \in Included(name) : ~Unsupported(TypeNamed(h))
  PROVE  Links(name)
<1>1. DOMAIN headers = ObjectNames /\ DOMAIN sources = ObjectNames /\ \A h \in ObjectNames : FilesOf(h)
  BY FilesFacts
<1>2. RegistryInv /\ ObjsInv /\ IsFiniteSet(DOMAIN headers) /\ name \in DOMAIN headers
  BY <1>1 DEF IInv, FilesInv
<1>3. name \in Included(name)
  BY <1>2, IncludedFacts
<1>4. PICK o : o = TypeNamed(name)
  OBVIOUS
<1>5. /\ o.type = name /\ ObjFine(o) /\ ~Unsupported(o)
      /\ sources[name] = writeComplexTypeSourceFile(o)
  BY <1>1, <1>2, <1>3, <1>4 DEF FilesOf
<1>6. \A t \in DOMAIN sources :
        /\ \A n \in sources[t].functions : n[2] = t
        /\ {Fn(t, "Sax_Serialize"), Fn(t, "Deserialize")} \subseteq sources[t].functions
  BY <1>1, FunctionFacts DEF FilesOf
<1>7. ASSUME NEW fn \in sources[name].uses, fn[1] = "function"
      PROVE  \E s \in DOMAIN sources : fn \in sources[s].functions
  <2>1. fn \in Seen(o)
    BY <1>2, <1>5, <1>7, UsesFacts
  <2>2. CASE fn \in writeComplexTypeHeaderFile(o).declares
    BY <1>5, <1>7, <2>2, FunctionFacts
  <2>3. CASE fn \in OfFieldTypes(o)
    <3>1. PICK f \in FieldsOf(o) :
            /\ trGetBuildInFlag(f.type) = 0
            /\ fn \in {Fn(Local(f.type), "Sax_Serialize"), Fn(Local(f.type), "Deserialize"), Struct(Local(f.type) \o "_List")}
      BY <2>3 DEF OfFieldTypes
    <3>2. fn # Struct(Local(f.type) \o "_List")
      BY <1>7, NameParts
    <3>3. Local(f.type) \in ObjectNames
      BY <1>2, <1>5, <3>1, FieldFacts DEF FieldFine
    <3>. QED
      BY <1>1, <1>6, <3>1, <3>2, <3>3
  <2>. QED
    BY <2>1, <2>2, <2>3 DEF Seen
<1>8. ASSUME NEW fn, NEW s \in DOMAIN sources, fn \in sources[s].functions
      PROVE  {t \in DOMAIN sources : fn \in sources[t].functions} = {s}
  BY <1>6, <1>8
<1>. QED
  BY <1>7, <1>8 DEF Links

LEMMA SupportedCompiles ==
  ASSUME IInv, Generated, NEW name \in DOMAIN sources,
         \A h \in Included(name) : ~Unsupported(TypeNamed(h))
  PROVE  Compiles(name)
<1>1. DOMAIN headers = ObjectNames /\ DOMAIN sources = ObjectNames /\ \A h \in ObjectNames : FilesOf(h)
  BY FilesFacts
<1>2. RegistryInv /\ ObjsInv /\ IsFiniteSet(DOMAIN headers) /\ name \in DOMAIN headers
  BY <1>1 DEF IInv, FilesInv
<1>3. /\ name \in Included(name) /\ headers[name].includes \subseteq Included(name)
      /\ \A S : name \in S /\ (\A h \in S \cap Included(name) \cap DOMAIN headers : headers[h].includes \subseteq S)
                  => Included(name) \subseteq S
  BY <1>2, IncludedFacts
<1>4. ASSUME NEW h \in Included(name), h \in ObjectNames
      PROVE  HeaderFine(TypeNamed(h)) /\ headers[h] = writeComplexTypeHeaderFile(TypeNamed(h)) /\ TypeNamed(h).type = h
  <2>1. HeaderFine(TypeNamed(h))
    BY <1>2, HeaderFacts
  <2>. QED
    BY <1>1, <1>4, <2>1 DEF FilesOf
<1>5. Included(name) \subseteq DOMAIN headers
  <2>1. ASSUME NEW h \in ObjectNames, h \in Included(name) PROVE headers[h].includes \subseteq ObjectNames
    <3>1. PICK o : o = TypeNamed(h)
      OBVIOUS
    <3>2. headers[h].includes = {Local(f.type) : f \in {g \in FieldsOf(o) : trGetBuildInFlag(g.type) = 0}}
      BY <1>4, <2>1, <3>1 DEF HeaderFine
    <3>3. \A f \in FieldsOf(o) : FieldFine(f)
      BY <1>2, <2>1, <3>1, FieldFacts
    <3>. QED
      BY <3>2, <3>3 DEF FieldFine
  <2>. QED
    BY <1>1, <1>2, <1>3, <2>1
<1>6. \A h \in Included(name) : headers[h].needs = {} /\ headers[h].twice = {}
  BY <1>1, <1>4, <1>5 DEF HeaderFine
<1>7. sources[name].uses \subseteq UNION {headers[h].declares : h \in Included(name)}
  <2>1. PICK o : o = TypeNamed(name)
    OBVIOUS
  <2>2. sources[name] = writeComplexTypeSourceFile(o) /\ headers[name] = writeComplexTypeHeaderFile(o)
    BY <1>1, <1>2, <2>1 DEF FilesOf
  <2>3. sources[name].uses \subseteq headers[name].declares \cup OfFieldTypes(o)
    BY <1>2, <1>3, <2>1, <2>2, UsesFacts DEF Seen
  <2>4. HeaderFine(o)
    BY <1>2, <1>3, <1>4, <1>1, <2>1
  <2>5. ASSUME NEW f \in FieldsOf(o), trGetBuildInFlag(f.type) = 0
        PROVE  {Fn(Local(f.type), "Sax_Serialize"), Fn(Local(f.type), "Deserialize"), Struct(Local(f.type) \o "_List")}
                 \subseteq UNION {headers[h].declares : h \in Included(name)}
    <3>1. PICK h : h = Local(f.type)
      OBVIOUS
    <3>2. h \in headers[name].includes
      BY <2>2, <2>4, <2>5, <3>1 DEF HeaderFine
    <3>3. h \in Included(name) /\ h \in ObjectNames
      BY <1>1, <1>3, <1>5, <3>2
    <3>4. HeaderFine(TypeNamed(h)) /\ headers[h] = writeComplexTypeHeaderFile(TypeNamed(h)) /\ TypeNamed(h).type = h
      BY <1>4, <3>3
    <3>5. {Fn(h, "Sax_Serialize"), Fn(h, "Deserialize"), Struct(h \o "_List")} \subseteq headers[h].declares
      BY <3>4 DEF HeaderFine
    <3>. QED
      BY <3>1, <3>3, <3>5
  <2>6. OfFieldTypes(o) \subseteq UNION {headers[h].declares : h \in Included(name)}
    BY <2>5 DEF OfFieldTypes
  <2>. QED
    BY <1>3, <2>3, <2>6
<1>8. sources[name].twice = {}
  BY <1>1, <1>2, <1>3, FunctionFacts DEF FilesOf
<1>. QED
  BY <1>5, <1>6, <1>7, <1>8 DEF Compiles

\* The files of every document compile once all schemas are through and every file
\* could be opened: each source finds whatever it uses in the headers it includes,
\* each function it uses is defined by one source, and nothing is defined twice, unless
\* one of the headers is that of an unsupported type.
THEOREM AlwaysCompiles == Spec => []SourcesCompile
<1>1. IInv => SourcesCompile
  BY SupportedCompiles, SupportedLinks DEF SourcesCompile
<1>. QED
  BY <1>1, Inductive, PTL

-----------------------------------------------------------------------------
(*                    The operations and their stubs                       *)
\* The call that an operation ends as.
NoMessage == {"none", ""}
Final(op) ==
  [name |-> op.name,
   in |-> IF op.input \in NoMessage THEN << >> ELSE Vars(Parts(op.input)),
   out |-> IF op.input \in NoMessage \/ op.output \in NoMessage \/ Parts(op.output) = << >> THEN << >>
           ELSE << Vars(Parts(op.output))[1] >>]

\* The operations that pending calls lead to.
BindingOperations(name) == UNION {Range(Operations(b.type)) : b \in Range(BindingsNamed(name))}
Leads(c) ==
  CASE c.proc = "Binding" -> BindingOperations(c.name)
    [] c.proc = "PortType" -> Range(Operations(c.name))
    [] c.proc = "Operation" -> {c.node}
    [] OTHER -> {}
Pending(q) == UNION {Leads(c) : c \in Range(q)}

\* Between two operations, what was found and what is pending are the operations
\* of the document; within one, its call is the last of the list.
Collected(list, q) ==
  \E D : Range(list) = {Final(op) : op \in D} /\ D \cup Pending(q) = SoapOperations
Walking(q) ==
  /\ IsSeq(q)
  /\ \A c \in Range(q) : c.proc \in {"Binding", "PortType", "Operation"} /\ (c.proc = "Binding" => c.name # "")
Begun(op) == CallFunc_Create(op.name)
Taken(op) == [name |-> op.name, in |-> Vars(Parts(op.input)), out |-> << >>]
Output(op) == Call("Output", << >>, 0, op.output)
Within1(done, rest, op, call) ==
  /\ IsSeq(done) /\ Walking(rest) /\ Collected(Append(done, Final(op)), rest)
  /\ callList = Append(done, call) /\ op.input \notin NoMessage
AtInput == \E done, rest, op :
  Within1(done, rest, op, Begun(op)) /\ todo = OperationCalls(op) \o rest
AtOutput == \E done, rest, op :
  Within1(done, rest, op, Taken(op)) /\ op.output \notin NoMessage /\ todo = << Output(op) >> \o rest
Between == Walking(todo) /\ IsSeq(callList) /\ Collected(callList, todo)

StubsFine == \A s \in Range(stub) : StubFine(s)

StubsInv ==
  /\ pc \notin {"calls", "free", "ended", "crashed"} => callList = << >>
  /\ pc = "calls" => Between \/ AtInput \/ AtOutput
  /\ stub # << >> => pc \in {"free", "ended", "crashed"} /\ StubsFine

LEMMA SameDocument ==
  ASSUME UNCHANGED doc
  PROVE  /\ SoapOperations' = SoapOperations
         /\ \A name : Parts(name)' = Parts(name)
         /\ \A op : Final(op)' = Final(op) /\ Taken(op)' = Taken(op)
         /\ \A list, q : Collected(list, q)' = Collected(list, q)
<1>1. \A name : Operations(name)' = Operations(name)
  BY DEF Operations, OperationsOf
<1>2. \A name : BindingsNamed(name)' = BindingsNamed(name)
  BY DEF BindingsNamed
<1>3. \A name : Parts(name)' = Parts(name)
  BY DEF Parts, PartsOf
<1>4. \A name : BindingOperations(name)' = BindingOperations(name)
  BY <1>1, <1>2 DEF BindingOperations
<1>5. \A c : Leads(c)' = Leads(c)
  BY <1>1, <1>4 DEF Leads
<1>6. \A q : Pending(q)' = Pending(q)
  BY <1>5 DEF Pending
<1>7. SoapPorts' = SoapPorts
  BY DEF SoapPorts
<1>8. SoapOperations' = SoapOperations
  BY <1>1, <1>2, <1>7 DEF SoapOperations, PortOperations
<1>9. \A op : Final(op)' = Final(op) /\ Taken(op)' = Taken(op)
  BY <1>3 DEF Final, Taken, Vars
<1>10. \A list, q : Collected(list, q)' = Collected(list, q)
  BY <1>6, <1>8, <1>9 DEF Collected
<1>. QED
  BY <1>3, <1>8, <1>9, <1>10

LEMMA LastReplaced ==
  ASSUME NEW s, IsSeq(s), NEW x, NEW y
  PROVE  /\ Append(s, x)[Len(Append(s, x))] = x
         /\ [Append(s, x) EXCEPT ![Len(Append(s, x))] = y] = Append(s, y)
<1>1. PICK S : s \in Seq(S) /\ x \in S /\ y \in S
  <2>1. PICK T : s \in Seq(T)
    BY DEF IsSeq
  <2>2. s \in Seq(T \cup {x, y})
    BY <2>1
  <2>. QED
    BY <2>2
<1>0. PICK n \in Nat : n = Len(s)
  BY <1>1
<1>4. ASSUME NEW z \in S
      PROVE  /\ Len(Append(s, z)) = n + 1 /\ DOMAIN Append(s, z) = 1 .. n + 1
             /\ Append(s, z) = [i \in 1 .. n + 1 |-> Append(s, z)[i]]
             /\ \A i \in 1 .. n : Append(s, z)[i] = s[i]
             /\ Append(s, z)[n + 1] = z
  <2>1. Append(s, z) \in Seq(S) /\ Len(Append(s, z)) = n + 1
    BY <1>0, <1>1
  <2>2. DOMAIN Append(s, z) = 1 .. n + 1 /\ Append(s, z) = [i \in 1 .. n + 1 |-> Append(s, z)[i]]
    <3>1. \A w : w \in Seq(S) => DOMAIN w = 1 .. Len(w) /\ w = [i \in 1 .. Len(w) |-> w[i]]
      OBVIOUS
    <3>2. PICK w : w = Append(s, z)
      OBVIOUS
    <3>. QED
      BY <1>0, <2>1, <3>1, <3>2
  <2>. QED
    BY <1>0, <1>1, <2>1, <2>2
<1>2. /\ Len(Append(s, x)) = n + 1 /\ DOMAIN Append(s, x) = 1 .. n + 1 /\ DOMAIN Append(s, y) = 1 .. n + 1
      /\ Append(s, y) = [i \in 1 .. n + 1 |-> Append(s, y)[i]]
      /\ \A i \in 1 .. n : Append(s, x)[i] = s[i] /\ Append(s, y)[i] = s[i]
      /\ Append(s, x)[n + 1] = x /\ Append(s, y)[n + 1] = y
  BY <1>1, <1>4
<1>3. \A i \in 1 .. n + 1 : i \in 1 .. n \/ i = n + 1
  BY <1>0
<1>. QED
  BY <1>0, <1>2, <1>3

LEMMA VarsFacts ==
  ASSUME NEW parts, IsSeq(parts)
  PROVE  IsSeq(Vars(parts)) /\ << >> \o Vars(parts) = Vars(parts) /\ (parts = << >> <=> Vars(parts) = << >>)
         /\ (parts # << >> => Head(Vars(parts)) = Vars(parts)[1])
<1>1. PICK t : t = Vars(parts)
  OBVIOUS
<1>2. DOMAIN t = DOMAIN parts /\ t = [i \in DOMAIN parts |-> t[i]] /\ \A i \in DOMAIN parts : t[i] \in Range(t)
  BY <1>1 DEF Vars, Range
<1>3. IsSeq(t)
  BY <1>2, MappedFacts
<1>4. t \in Seq(Range(t)) /\ parts \in Seq(Range(parts)) /\ Len(t) = Len(parts) /\ Len(t) \in Nat
  <2>1. t \in Seq(Range(t)) /\ parts \in Seq(Range(parts))
    BY <1>3, Elements
  <2>2. DOMAIN t = 1 .. Len(t) /\ DOMAIN parts = 1 .. Len(parts) /\ Len(t) \in Nat /\ Len(parts) \in Nat
    BY <1>3, Elements
  <2>. QED
    BY <1>2, <2>1, <2>2
<1>. QED
  BY <1>1, <1>3, <1>4

LEMMA PendingFacts ==
  ASSUME NEW a, IsSeq(a), NEW b, IsSeq(b)
  PROVE  /\ Pending(a \o b) = Pending(a) \cup Pending(b)
         /\ a # << >> => Pending(a) = Leads(Head(a)) \cup Pending(Tail(a))
         /\ Walking(a) /\ Walking(b) => Walking(a \o b)
         /\ Walking(a) /\ a # << >> => Walking(Tail(a)) /\ Head(a).proc \in {"Binding", "PortType", "Operation"}
<1>1. IsSeq(a \o b) /\ Range(a \o b) = Range(a) \cup Range(b)
  BY ConcatElements
<1>2. a # << >> => Head(a) \in Range(a) /\ IsSeq(Tail(a)) /\ Range(a) = {Head(a)} \cup Range(Tail(a))
  BY HeadElement
<1>3. Pending(a \o b) = Pending(a) \cup Pending(b)
  BY <1>1 DEF Pending
<1>4. a # << >> => Pending(a) = Leads(Head(a)) \cup Pending(Tail(a))
  BY <1>2 DEF Pending
<1>5. Walking(a) /\ Walking(b) => Walking(a \o b)
  BY <1>1 DEF Walking
<1>6. Walking(a) /\ a # << >> => Walking(Tail(a)) /\ Head(a).proc \in {"Binding", "PortType", "Operation"}
  BY <1>2 DEF Walking
<1>. QED
  BY <1>3, <1>4, <1>5, <1>6

LEMMA SingleFacts == ASSUME NEW x PROVE IsSeq(<< x >>) /\ Range(<< x >>) = {x}
<1>1. << x >> \in Seq({x}) /\ Range(<< x >>) = {x}
  BY DEF Range
<1>. QED
  BY <1>1, ElementsOf

LEMMA ConsFacts ==
  ASSUME NEW x, NEW q, IsSeq(q)
  PROVE  << x >> \o q # << >> /\ Head(<< x >> \o q) = x /\ Tail(<< x >> \o q) = q /\ << >> \o q = q
<1>1. PICK S : q \in Seq(S) /\ x \in S
  <2>1. PICK T : q \in Seq(T)
    BY DEF IsSeq
  <2>2. q \in Seq(T \cup {x})
    BY <2>1
  <2>. QED
    BY <2>2
<1>. QED
  BY <1>1

\* The calls for an operation, in front of the others.
LEMMA OperationFirst ==
  ASSUME NEW op, op.input \notin NoMessage, NEW rest, IsSeq(rest)
  PROVE  LET q == OperationCalls(op) \o rest
         IN  /\ q # << >> /\ Head(q) = Call("Input", << >>, 0, op.input)
             /\ Tail(q) = IF op.output \in NoMessage THEN rest ELSE << Output(op) >> \o rest
<1>1. PICK a : a = Call("Input", << >>, 0, op.input)
  OBVIOUS
<1>2. PICK b : b = Output(op)
  OBVIOUS
<1>3. OperationCalls(op) = IF op.output \in NoMessage THEN << a >> \o << >> ELSE << a >> \o << b >>
  BY <1>1, <1>2 DEF OperationCalls, NoMessage, Output
<1>4. \A x : IsSeq(<< x >>)
  BY SingleFacts
<1>5. IsSeq(<< b >> \o rest)
  BY <1>4, ConcatElements
<1>6. << a >> \o << >> \o rest = << a >> \o rest
  BY <1>4, NoCalls, ConsFacts, ConcatAssociative DEF IsSeq
<1>7. (<< a >> \o << b >>) \o rest = << a >> \o (<< b >> \o rest)
  <2>1. PICK S : rest \in Seq(S) /\ a \in S /\ b \in S
    <3>1. PICK T : rest \in Seq(T)
      BY DEF IsSeq
    <3>2. rest \in Seq(T \cup {a, b})
      BY <3>1
    <3>. QED
      BY <3>2
  <2>. QED
    BY <2>1
<1>. QED
  BY <1>1, <1>2, <1>3, <1>5, <1>6, <1>7, ConsFacts

LEMMA EnginePlace ==
  ASSUME Engine
  PROVE  pc \notin {"calls", "free", "ended", "crashed"} /\ pc' # "calls"
<1>1. CASE Xsd2cStart \/ Xsd2cEnd \/ Wsdl2cStart \/ Wsdl2cNext \/ xsdInitTrModule \/ xsdInitObjModule \/ runGenerator
  BY <1>1 DEF Xsd2cStart, Xsd2cEnd, Wsdl2cStart, Wsdl2cNext, xsdInitTrModule, xsdInitObjModule, runGenerator
<1>2. CASE xsdProcAttribute \/ xsdProcElement
  BY <1>2 DEF xsdProcAttribute, xsdProcElement, objAddAttribute, objAddElement, AddField, Crash, Doing
<1>3. CASE xsdProcSequence \/ xsdProcExtension \/ xsdProcComplexContent \/ xsdProcRestriction \/ xsdProcSimpleContent
  BY <1>3 DEF xsdProcSequence, xsdProcExtension, xsdProcComplexContent, xsdProcRestriction, xsdProcSimpleContent, Doing
<1>4. CASE xsdProcComplexType
  BY <1>4 DEF xsdProcComplexType, Crash, Doing
<1>5. CASE xsdEngineRun \/ declareStructs \/ writeSource
  BY <1>5 DEF xsdEngineRun, declareStructs, writeSource
<1>. QED
  BY <1>1, <1>2, <1>3, <1>4, <1>5 DEF Engine

LEMMA EngineStubs ==
  ASSUME StubsInv, Engine, UNCHANGED wsdlVars
  PROVE  StubsInv'
BY EnginePlace DEF StubsInv, wsdlVars

\* A step from the services towards the operations.
LEMMA WalkStep ==
  ASSUME Between, todo # << >>, UNCHANGED <<doc, callList>>,
         NEW calls, Walking(calls), Pending(calls) = Leads(Top), todo' = calls \o Tail(todo)
  PROVE  Between'
<1>1. IsSeq(todo) /\ Walking(todo) /\ IsSeq(calls)
  BY DEF Between, Walking
<1>2. Pending(todo) = Leads(Top) \cup Pending(Tail(todo)) /\ Walking(Tail(todo))
  BY <1>1, PendingFacts DEF Top
<1>3. IsSeq(Tail(todo))
  BY <1>2 DEF Walking
<1>4. PICK q : q = calls \o Tail(todo)
  OBVIOUS
<1>5. Walking(q) /\ Pending(q) = Pending(todo)
  BY <1>1, <1>2, <1>3, <1>4, PendingFacts
<1>6. Collected(callList, q)
  BY <1>5 DEF Between, Collected
<1>7. PICK l : l = callList
  OBVIOUS
<1>8. Collected(l, q)'
  BY <1>6, <1>7, SameDocument
<1>9. todo' = q /\ callList' = l /\ Walking(q)'
  BY <1>4, <1>5, <1>7 DEF Walking
<1>. QED
  BY <1>8, <1>9 DEF Between, Walking

LEMMA NotWithin ==
  ASSUME AtInput \/ AtOutput
  PROVE  todo # << >> /\ (Top.proc = "Input" \/ Top.proc = "Output")
<1>1. CASE AtInput
  <2>1. PICK done, rest, op : Within1(done, rest, op, Begun(op)) /\ todo = OperationCalls(op) \o rest
    BY <1>1 DEF AtInput
  <2>2. op.input \notin NoMessage /\ IsSeq(rest)
    BY <2>1 DEF Within1, Walking
  <2>. QED
    <3>1. todo # << >> /\ Head(todo) = Call("Input", << >>, 0, op.input)
      BY <2>1, <2>2, OperationFirst
    <3>. QED
      BY <3>1 DEF Top, Call
<1>2. CASE AtOutput
  <2>1. PICK done, rest, op : Within1(done, rest, op, Taken(op)) /\ todo = << Output(op) >> \o rest
    BY <1>2 DEF AtOutput
  <2>2. IsSeq(rest)
    BY <2>1 DEF Within1, Walking
  <2>. QED
    BY <2>1, <2>2, ConsFacts DEF Top, Call, Output
<1>. QED
  BY <1>1, <1>2

\* The calls made for a sequence of things lead to what each of them leads to.
StepOn(c) == c.proc \in {"Binding", "PortType", "Operation"} /\ (c.proc = "Binding" => c.name # "")
LEMMA MadePending ==
  ASSUME NEW s, IsSeq(s), NEW t, DOMAIN t = DOMAIN s, t = [i \in DOMAIN s |-> t[i]],
         \A i \in DOMAIN s : StepOn(t[i])
  PROVE  Walking(t) /\ Pending(t) = UNION {Leads(t[i]) : i \in DOMAIN s}
<1>1. \A i \in DOMAIN s : t[i] \in Range(t)
  BY DEF Range
<1>2. IsSeq(t)
  BY <1>1, MappedFacts
<1>3. Range(t) = {t[i] : i \in DOMAIN s}
  BY DEF Range
<1>. QED
  BY <1>2, <1>3 DEF Walking, Pending, StepOn

LEMMA ParseStubs == ASSUME IInv, Bound, StubsInv, wsdlParse PROVE StubsInv'
<1>1. callList = << >> /\ callList' = callList /\ stub = << >> /\ stub' = stub /\ UNCHANGED doc /\ pc' = "calls"
  BY DEF StubsInv, wsdlParse, toolVars
<1>. DEFINE s == SoapPorts
            t == [i \in DOMAIN s |-> Call("Binding", << >>, 0, s[i].binding)]
<1>2. IsSeq(s) /\ todo' = t
  BY DocumentFacts DEF IInv, wsdlParse
<1>3. DOMAIN t = DOMAIN s /\ t = [i \in DOMAIN s |-> t[i]]
  OBVIOUS
<1>4. \A i \in DOMAIN s : t[i].proc = "Binding" /\ t[i].name = s[i].binding
  BY DEF Call
<1>4a. \A i \in DOMAIN s : t[i].name # ""
  <2>1. \A i \in DOMAIN s : s[i].binding # ""
    BY DEF Bound, Range
  <2>. HIDE DEF s, t
  <2>. QED
    BY <1>4, <2>1
<1>5. \A i \in DOMAIN s : Leads(t[i]) = PortOperations(s[i])
  <2>. HIDE DEF s, t
  <2>. QED
    BY <1>4 DEF Leads, BindingOperations, PortOperations
<1>6. SoapOperations = UNION {PortOperations(s[i]) : i \in DOMAIN s}
  BY DEF SoapOperations, Range
<1>7. PICK q : q = t
  OBVIOUS
<1>. HIDE DEF s, t
<1>12. \A i \in DOMAIN s : StepOn(t[i])
  BY <1>4, <1>4a DEF StepOn
<1>8. Walking(q) /\ Pending(q) = SoapOperations
  BY <1>2, <1>3, <1>5, <1>6, <1>7, <1>12, MadePending
<1>9. Collected(<< >>, q)
  <2>1. Range(<< >>) = {Final(op) : op \in {}}
    BY NoCalls
  <2>. QED
    BY <1>8, <2>1 DEF Collected
<1>10. Collected(<< >>, q)'
  BY <1>1, <1>9, SameDocument
<1>11. Between'
  BY <1>1, <1>2, <1>7, <1>8, <1>10, NoCalls DEF Between, Walking
<1>. QED
  BY <1>1, <1>11 DEF StubsInv

LEMMA BindingStubs == ASSUME IInv, StubsInv, handleBinding PROVE StubsInv'
<1>. DEFINE s == BindingsNamed(Top.name)
            t == [i \in DOMAIN s |-> Call("PortType", << >>, 0, s[i].type)]
<1>0. pc = "calls" /\ todo # << >> /\ Top.proc = "Binding" /\ UNCHANGED <<doc, callList, stub>>
  BY DEF handleBinding, Parsing, toolVars
<1>2. Between /\ stub = << >>
  BY <1>0, NotWithin DEF StubsInv
<1>1. /\ pc = "calls" /\ pc' = pc /\ todo # << >> /\ Top.proc = "Binding" /\ UNCHANGED <<doc, callList, stub>>
      /\ todo' = t \o Tail(todo)
  <2>1. Top \in Range(todo) /\ Walking(todo)
    BY <1>0, <1>2, HeadElement DEF Between, Walking, Top
  <2>2. Top.name # ""
    BY <1>0, <2>1 DEF Walking
  <2>. QED
    BY <1>0, <2>2 DEF handleBinding, NameRead, Return
<1>3. IsSeq(s)
  BY DocumentFacts DEF IInv
<1>4. DOMAIN t = DOMAIN s /\ t = [i \in DOMAIN s |-> t[i]]
  OBVIOUS
<1>5. \A i \in DOMAIN s : t[i].proc = "PortType" /\ t[i].name = s[i].type
  BY DEF Call
<1>6. \A i \in DOMAIN s : Leads(t[i]) = Range(Operations(s[i].type))
  <2>. HIDE DEF s, t
  <2>. QED
    BY <1>5 DEF Leads
<1>7. Leads(Top) = UNION {Range(Operations(s[i].type)) : i \in DOMAIN s}
  <2>1. Leads(Top) = UNION {Range(Operations(b.type)) : b \in Range(s)}
    BY <1>1 DEF Leads, BindingOperations
  <2>2. Range(s) = {s[i] : i \in DOMAIN s}
    <3>. HIDE DEF s
    <3>. QED
      BY DEF Range
  <2>. HIDE DEF s
  <2>. QED
    BY <2>1, <2>2
<1>. HIDE DEF s, t
<1>10. \A i \in DOMAIN s : StepOn(t[i])
  BY <1>5 DEF StepOn
<1>8. Walking(t) /\ Pending(t) = Leads(Top)
  BY <1>3, <1>4, <1>5, <1>6, <1>7, <1>10, MadePending
<1>9. Between'
  BY <1>1, <1>2, <1>8, WalkStep
<1>. QED
  BY <1>1, <1>2, <1>9 DEF StubsInv

LEMMA PortTypeStubs == ASSUME IInv, StubsInv, handlePortType PROVE StubsInv'
<1>. DEFINE s == Operations(Top.name)
            t == [i \in DOMAIN s |-> Call("Operation", s[i], 0, "")]
<1>1. pc = "calls" /\ pc' = pc /\ todo # << >> /\ Top.proc = "PortType" /\ UNCHANGED <<doc, callList, stub>>
      /\ todo' = t \o Tail(todo)
  BY DEF handlePortType, Parsing, Return, toolVars
<1>2. Between /\ stub = << >>
  BY <1>1, NotWithin DEF StubsInv
<1>3. IsSeq(s)
  BY DocumentFacts DEF IInv
<1>4. DOMAIN t = DOMAIN s /\ t = [i \in DOMAIN s |-> t[i]]
  OBVIOUS
<1>5. \A i \in DOMAIN s : t[i].proc = "Operation" /\ t[i].node = s[i]
  BY DEF Call
<1>6. \A i \in DOMAIN s : Leads(t[i]) = {s[i]}
  <2>. HIDE DEF s, t
  <2>. QED
    BY <1>5 DEF Leads
<1>7. Leads(Top) = UNION {{s[i]} : i \in DOMAIN s}
  BY <1>1 DEF Leads, Range
<1>. HIDE DEF s, t
<1>10. \A i \in DOMAIN s : StepOn(t[i])
  BY <1>5 DEF StepOn
<1>8. Walking(t) /\ Pending(t) = Leads(Top)
  BY <1>3, <1>4, <1>5, <1>6, <1>7, <1>10, MadePending
<1>9. Between'
  BY <1>1, <1>2, <1>8, WalkStep
<1>. QED
  BY <1>1, <1>2, <1>9 DEF StubsInv

\* An operation begins a call; with an input message, the call is finished later.
LEMMA OperationStubs == ASSUME IInv, StubsInv, handleOperation PROVE StubsInv'
<1>1. PICK op : op = Top.node
  OBVIOUS
<1>2. pc = "calls" /\ pc' = pc /\ todo # << >> /\ Top.proc = "Operation" /\ UNCHANGED <<doc, stub>>
      /\ todo' = OperationCalls(op) \o Tail(todo) /\ callList' = Append(callList, Begun(op))
  BY <1>1 DEF handleOperation, Parsing, Return, toolVars, CallList_Add_operation, Begun
<1>3. Between /\ stub = << >>
  BY <1>2, NotWithin DEF StubsInv
<1>4. PICK done, rest, l : done = callList /\ rest = Tail(todo) /\ l = Append(done, Final(op))
  OBVIOUS
<1>5. IsSeq(done) /\ Walking(rest) /\ IsSeq(rest) /\ Pending(todo) = {op} \cup Pending(rest)
  <2>1. IsSeq(todo) /\ Walking(todo)
    BY <1>3 DEF Between, Walking
  <2>2. Leads(Top) = {op}
    BY <1>1, <1>2 DEF Leads
  <2>3. Walking(rest) /\ Pending(todo) = {op} \cup Pending(rest)
    BY <1>2, <1>4, <2>1, <2>2, PendingFacts DEF Top
  <2>. QED
    BY <1>3, <1>4, <2>3 DEF Between, Walking
<1>6. IsSeq(l) /\ Collected(l, rest)
  <2>1. PICK D : Range(done) = {Final(o) : o \in D} /\ D \cup Pending(todo) = SoapOperations
    BY <1>3, <1>4 DEF Between, Collected
  <2>2. IsSeq(l) /\ Range(l) = Range(done) \cup {Final(op)}
    BY <1>4, <1>5, AppendElement
  <2>3. Range(l) = {Final(o) : o \in D \cup {op}} /\ (D \cup {op}) \cup Pending(rest) = SoapOperations
    BY <1>5, <2>1, <2>2
  <2>. QED
    BY <2>2, <2>3 DEF Collected
<1>7. Collected(l, rest)' /\ (Final(op))' = Final(op)
  BY <1>2, <1>6, SameDocument
<1>8. CASE op.input \in NoMessage
  <2>1. Final(op) = Begun(op) /\ OperationCalls(op) = << >>
    BY <1>8 DEF Final, Begun, CallFunc_Create, OperationCalls, NoMessage
  <2>2. callList' = l /\ todo' = rest
    BY <1>2, <1>4, <1>5, <2>1, ConsFacts
  <2>3. Between'
    BY <1>5, <1>6, <1>7, <2>2 DEF Between, Walking
  <2>. QED
    BY <1>2, <1>3, <2>3 DEF StubsInv
<1>9. CASE op.input \notin NoMessage
  <2>1. Within1(done, rest, op, Begun(op))'
    BY <1>2, <1>4, <1>5, <1>7, <1>9 DEF Within1, Walking, Begun, CallFunc_Create
  <2>2. todo' = OperationCalls(op) \o rest
    BY <1>2, <1>4
  <2>3. AtInput'
    BY <2>1, <2>2 DEF AtInput, OperationCalls, Begun, CallFunc_Create
  <2>. QED
    BY <1>2, <1>3, <2>3 DEF StubsInv
<1>. QED
  BY <1>8, <1>9

LEMMA InputStubs == ASSUME IInv, StubsInv, handleInputParameters PROVE StubsInv'
<1>1. pc = "calls" /\ pc' = pc /\ todo # << >> /\ Top.proc = "Input" /\ UNCHANGED <<doc, stub>>
      /\ todo' = << >> \o Tail(todo)
      /\ callList' = [callList EXCEPT ![Len(callList)] = CallFunc_Add_in(@, Vars(Parts(Top.name)))]
  BY DEF handleInputParameters, Parsing, Return, toolVars
<1>2. AtInput /\ stub = << >>
  <2>1. ~Between
    BY <1>1, PendingFacts DEF Between, Walking, Top
  <2>2. ~AtOutput
    <3>. SUFFICES ASSUME AtOutput PROVE FALSE
      OBVIOUS
    <3>1. PICK done, rest, op : Within1(done, rest, op, Taken(op)) /\ todo = << Output(op) >> \o rest
      BY DEF AtOutput
    <3>2. Top = Output(op)
      BY <3>1, ConsFacts DEF Within1, Walking, Top
    <3>. QED
      BY <1>1, <3>2 DEF Output, Call
  <2>. QED
    BY <1>1, <2>1, <2>2 DEF StubsInv
<1>3. PICK done, rest, op : Within1(done, rest, op, Begun(op)) /\ todo = OperationCalls(op) \o rest
  BY <1>2 DEF AtInput
<1>4. /\ IsSeq(done) /\ Walking(rest) /\ IsSeq(rest) /\ Collected(Append(done, Final(op)), rest)
      /\ callList = Append(done, Begun(op)) /\ op.input \notin NoMessage
  BY <1>3 DEF Within1, Walking
<1>5. /\ Head(todo) = Call("Input", << >>, 0, op.input)
      /\ Tail(todo) = IF op.output \in NoMessage THEN rest ELSE << Output(op) >> \o rest
  BY <1>3, <1>4, OperationFirst
<1>6. Top.name = op.input
  BY <1>5 DEF Top, Call
<1>7. IsSeq(Vars(Parts(op.input))) /\ << >> \o Vars(Parts(op.input)) = Vars(Parts(op.input))
  BY VarsFacts, DocumentFacts DEF IInv
<1>8. CallFunc_Add_in(Begun(op), Vars(Parts(op.input))) = Taken(op)
  BY <1>7 DEF CallFunc_Add_in, Begun, CallFunc_Create, Taken
<1>9. callList' = Append(done, Taken(op))
  BY <1>1, <1>4, <1>6, <1>8, LastReplaced
<1>10. PICK l : l = Append(done, Final(op))
  OBVIOUS
<1>11. Collected(l, rest)' /\ (Final(op))' = Final(op) /\ (Taken(op))' = Taken(op) /\ IsSeq(l)
  BY <1>1, <1>4, <1>10, SameDocument, AppendElement
<1>12. CASE op.output \in NoMessage
  <2>1. Taken(op) = Final(op)
    BY <1>4, <1>12 DEF Taken, Final
  <2>2. callList' = l /\ todo' = rest
    BY <1>1, <1>4, <1>5, <1>9, <1>10, <1>12, <2>1, ConsFacts
  <2>3. Between'
    BY <1>4, <1>11, <2>2 DEF Between, Walking
  <2>. QED
    BY <1>1, <1>2, <2>3 DEF StubsInv
<1>13. CASE op.output \notin NoMessage
  <2>1. IsSeq(<< Output(op) >> \o rest)
    BY <1>4, SingleFacts, ConcatElements
  <2>2. todo' = << Output(op) >> \o rest
    BY <1>1, <1>5, <1>13, <2>1, ConsFacts
  <2>3. Within1(done, rest, op, Taken(op))'
    BY <1>4, <1>9, <1>10, <1>11 DEF Within1, Walking
  <2>4. AtOutput'
    BY <1>13, <2>2, <2>3 DEF AtOutput, Output
  <2>. QED
    BY <1>1, <1>2, <2>4 DEF StubsInv
<1>. QED
  BY <1>12, <1>13

LEMMA OutputStubs == ASSUME IInv, StubsInv, handleOutputParameters PROVE StubsInv'
<1>1. pc = "calls" /\ pc' = pc /\ todo # << >> /\ Top.proc = "Output" /\ UNCHANGED <<doc, stub>>
      /\ todo' = << >> \o Tail(todo)
      /\ callList' = IF Vars(Parts(Top.name)) = << >> THEN callList
                     ELSE [callList EXCEPT ![Len(callList)] = CallFunc_Set_out(@, Head(Vars(Parts(Top.name))))]
  BY DEF handleOutputParameters, Parsing, Return, toolVars
<1>2. AtOutput /\ stub = << >>
  <2>1. ~Between
    BY <1>1, PendingFacts DEF Between, Walking, Top
  <2>2. ~AtInput
    <3>. SUFFICES ASSUME AtInput PROVE FALSE
      OBVIOUS
    <3>1. PICK done, rest, op : Within1(done, rest, op, Begun(op)) /\ todo = OperationCalls(op) \o rest
      BY DEF AtInput
    <3>2. op.input \notin NoMessage /\ IsSeq(rest)
      BY <3>1 DEF Within1, Walking
    <3>3. Top = Call("Input", << >>, 0, op.input)
      BY <3>1, <3>2, OperationFirst DEF Top
    <3>. QED
      BY <1>1, <3>3 DEF Call
  <2>. QED
    BY <1>1, <2>1, <2>2 DEF StubsInv
<1>3. PICK done, rest, op : /\ Within1(done, rest, op, Taken(op)) /\ op.output \notin NoMessage
                            /\ todo = << Output(op) >> \o rest
  BY <1>2 DEF AtOutput
<1>4. /\ IsSeq(done) /\ Walking(rest) /\ IsSeq(rest) /\ Collected(Append(done, Final(op)), rest)
      /\ callList = Append(done, Taken(op)) /\ op.input \notin NoMessage
  BY <1>3 DEF Within1, Walking
<1>5. Head(todo) = Output(op) /\ Tail(todo) = rest
  BY <1>3, <1>4, ConsFacts
<1>6. Top.name = op.output
  BY <1>5 DEF Top, Call, Output
<1>7. PICK parts, vars_ : parts = Parts(op.output) /\ vars_ = Vars(parts)
  OBVIOUS
<1>8. (parts = << >> <=> vars_ = << >>) /\ (parts # << >> => Head(vars_) = vars_[1])
  BY <1>7, VarsFacts, DocumentFacts DEF IInv
<1>9. callList' = Append(done, Final(op))
  <2>1. CASE vars_ = << >>
    <3>1. Final(op) = Taken(op)
      BY <1>4, <1>7, <1>8, <2>1 DEF Final, Taken
    <3>. QED
      BY <1>1, <1>4, <1>6, <1>7, <2>1, <3>1
  <2>2. CASE vars_ # << >>
    <3>1. CallFunc_Set_out(Taken(op), Head(vars_)) = Final(op)
      BY <1>3, <1>4, <1>7, <1>8, <2>2 DEF CallFunc_Set_out, Final, Taken
    <3>. QED
      BY <1>1, <1>4, <1>6, <1>7, <2>2, <3>1, LastReplaced
  <2>. QED
    BY <2>1, <2>2
<1>10. PICK l : l = Append(done, Final(op))
  OBVIOUS
<1>11. Collected(l, rest)' /\ IsSeq(l)
  BY <1>1, <1>4, <1>10, SameDocument, AppendElement
<1>12. callList' = l /\ todo' = rest
  BY <1>1, <1>4, <1>5, <1>9, <1>10, ConsFacts
<1>13. Between'
  BY <1>4, <1>11, <1>12 DEF Between, Walking
<1>. QED
  BY <1>1, <1>2, <1>13 DEF StubsInv

LEMMA SameStub ==
  ASSUME UNCHANGED <<doc, types, lists, headers, skipped>>, NEW s
  PROVE  StubFine(s) => StubFine(s)'
<1>1. \A t : trXSD2C(t)' = trXSD2C(t)
  BY SameRegistry
<1>2. SoapOperations' = SoapOperations /\ \A name : Parts(name)' = Parts(name)
  BY SameDocument
<1>. QED
  BY <1>1, <1>2, ZenonT(40) DEF StubFine, StubOfOperation

\* The prototype of a call, in front of its parts.
LEMMA OperationWritten ==
  ASSUME IInv, NEW op, Final(op).out # << >>
  PROVE  /\ writeOperation(Final(op)).name = op.name
         /\ writeOperation(Final(op)).out = trXSD2C(Parts(op.output)[1].type)
         /\ writeOperation(Final(op)).in =
              [i \in DOMAIN Parts(op.input) |-> <<trXSD2C(Parts(op.input)[i].type), Parts(op.input)[i].name>>]
<1>1. op.input \notin NoMessage /\ op.output \notin NoMessage /\ Parts(op.output) # << >>
  BY DEF Final
<1>2. 1 \in DOMAIN Parts(op.output)
  <2>1. IsSeq(Parts(op.output))
    BY DocumentFacts DEF IInv
  <2>. QED
    BY <1>1, <2>1, TailFacts
<1>3. /\ Final(op).name = op.name /\ Final(op).in = Vars(Parts(op.input))
      /\ Final(op).out = << CallVar(Parts(op.output)[1].name, Parts(op.output)[1].type) >>
  BY <1>1, <1>2 DEF Final, Vars
<1>. QED
  BY <1>3 DEF writeOperation, Vars, CallVar

LEMMA StubIsFine ==
  ASSUME IInv, Between, pc = "calls", todo = << >>, \A call \in Range(callList) : call.out # << >>,
         NEW s, s = [includes |-> StubIncludes,
                     prototypes |-> [i \in DOMAIN callList |-> writeOperation(callList[i])]]
  PROVE  StubFine(s)
<1>1. Range(callList) = {Final(op) : op \in SoapOperations}
  <2>1. Pending(<< >>) = {}
    BY NoCalls DEF Pending
  <2>. QED
    BY <2>1 DEF Between, Collected
<1>2. Range(s.prototypes) = {writeOperation(call) : call \in Range(callList)}
  BY DEF Range
<1>3. \A op \in SoapOperations : Final(op) \in Range(callList) /\ Final(op).out # << >>
  BY <1>1
<1>4. ASSUME NEW op \in SoapOperations
      PROVE  /\ writeOperation(Final(op)) \in Range(s.prototypes)
             /\ writeOperation(Final(op)).name = op.name
             /\ writeOperation(Final(op)).out = trXSD2C(Parts(op.output)[1].type)
             /\ writeOperation(Final(op)).in =
                  [i \in DOMAIN Parts(op.input) |-> <<trXSD2C(Parts(op.input)[i].type), Parts(op.input)[i].name>>]
  BY <1>2, <1>3, OperationWritten
<1>5. \A p \in Range(s.prototypes) : \E op \in SoapOperations : p = writeOperation(Final(op))
  BY <1>1, <1>2
<1>6. {p.name : p \in Range(s.prototypes)} = {op.name : op \in SoapOperations}
  <2>1. ASSUME NEW p \in Range(s.prototypes) PROVE p.name \in {op.name : op \in SoapOperations}
    <3>1. PICK op \in SoapOperations : p = writeOperation(Final(op))
      BY <1>5
    <3>2. p.name = op.name
      BY <1>4, <3>1
    <3>. QED
      BY <3>2
  <2>2. ASSUME NEW op \in SoapOperations PROVE op.name \in {p.name : p \in Range(s.prototypes)}
    <3>1. PICK p \in Range(s.prototypes) : p.name = op.name
      BY <1>4
    <3>. QED
      BY <3>1
  <2>. QED
    BY <2>1, <2>2
<1>7. \A op \in SoapOperations : \E p \in Range(s.prototypes) :
         LET parts == Parts(op.input)
         IN  /\ p.name = op.name
             /\ p.in = [i \in DOMAIN parts |-> <<trXSD2C(parts[i].type), parts[i].name>>]
             /\ p.out = trXSD2C(Parts(op.output)[1].type)
  BY <1>4
<1>8. ASSUME NEW p \in Range(s.prototypes), NEW v \in Range(p.in), v[1].kind = "struct*"
      PROVE  v[1].name \in s.includes \cap DOMAIN headers \/ skipped
  <2>1. PICK call \in Range(callList) : p = writeOperation(call)
    BY <1>2
  <2>2. PICK w \in Range(call.in) : v = <<trXSD2C(w.type), w.name>>
    <3>1. p.in = [i \in DOMAIN call.in |-> <<trXSD2C(call.in[i].type), call.in[i].name>>]
      BY <2>1 DEF writeOperation
    <3>. QED
      BY <3>1 DEF Range
  <2>3. PICK type : type = w.type
    OBVIOUS
  <2>4. TypeFound(type) /\ trXSD2C(type).kind = "struct*"
    BY <1>8, <2>2, <2>3, TypeFacts DEF IInv
  <2>5. /\ trXSD2C(type).name = Local(type)
        /\ \E obj \in Range(objs) : obj.full = type
    <3>1. trGetBuildInFlag(type) = 0
      <4>1. trGetBuildInFlag(type) # -1
        <5>1. trGetBuildInFlag(type) = -1 => trXSD2C(type) = NoC
          BY <2>4, Zenon DEF TypeFound
        <5>2. NoC.kind = ""
          BY DEF NoC
        <5>. QED
          BY <2>4, <5>1, <5>2, Zenon
      <4>2. trGetBuildInFlag(type) # 1
        BY <2>4 DEF TypeFound
      <4>. QED
        BY <2>4, <4>1, <4>2 DEF TypeFound
    <3>. QED
      BY <2>4, <3>1 DEF TypeFound, Pointer
  <2>6. objRegistryGetComplexType(type) # 0
    <3>. DEFINE T == {i \in 1 .. Len(objs) : objs[i].full = type}
    <3>1. objRegistryGetComplexType(type) = IF T # {} THEN Min(T) ELSE 0
      BY DEF objRegistryGetComplexType, SelectInSeq
    <3>2. T \subseteq Nat /\ T # {}
      BY <2>5, Places DEF Range
    <3>3. PICK i \in T : \A j \in T : i <= j
      <4>. HIDE DEF T
      <4>. QED
        BY <3>2, SomeLeast
    <3>4. Min(T) = i
      <4>. HIDE DEF T
      <4>. QED
        BY <3>2, <3>3, FirstNumber
    <3>5. i # 0
      BY <3>3
    <3>. HIDE DEF T
    <3>. QED
      BY <3>1, <3>2, <3>4, <3>5
  <2>7. Local(type) \in s.includes
    <3>1. s.includes = StubIncludes
      OBVIOUS
    <3>2. w \in UNION {Range(c.in) : c \in Range(callList)}
      BY <2>1, <2>2
    <3>. QED
      BY <2>3, <2>6, <3>1, <3>2 DEF StubIncludes
  <2>8. Local(type) \in DOMAIN headers \/ skipped
    <3>1. skipped \/ HeadersUpTo(Len(objs))
      BY DEF IInv, FilesInv, HeadersDone
    <3>2. PICK i \in 1 .. Len(objs) : objs[i].full = type /\ ObjFine(objs[i])
      BY <2>5, Places DEF Range, IInv, ObjsInv
    <3>3. objs[i].type = Local(type)
      BY <3>2 DEF ObjFine, Local
    <3>. QED
      BY <3>1, <3>2, <3>3 DEF HeadersUpTo
  <2>. QED
    BY <2>2, <2>3, <2>5, <2>7, <2>8
<1>. QED
  BY <1>6, <1>7, <1>8 DEF StubFine, StubOfOperation

LEMMA WriteStubs == ASSUME IInv, StubsInv, codeWriteStubHeader PROVE StubsInv'
<1>1. pc = "calls" /\ todo = << >> /\ UNCHANGED <<doc, types, lists, headers, skipped>>
  BY DEF codeWriteStubHeader, toolVars, registry, files
<1>2. Between /\ stub = << >>
  BY <1>1, NotWithin DEF StubsInv
<1>3. CASE pc' = "crashed" /\ UNCHANGED stub
  BY <1>2, <1>3 DEF StubsInv
<1>4. CASE ~ \E call \in Range(callList) : call.out = << >>
  <2>1. PICK s : s = [includes |-> StubIncludes,
                      prototypes |-> [i \in DOMAIN callList |-> writeOperation(callList[i])]]
    OBVIOUS
  <2>2. stub' = << s >> /\ pc' = "free"
    BY <1>4, <2>1 DEF codeWriteStubHeader
  <2>3. StubFine(s)
    BY <1>1, <1>2, <1>4, <2>1, StubIsFine
  <2>4. StubFine(s)'
    BY <1>1, <2>3, SameStub
  <2>5. Range(stub') = {s}
    BY <2>2, SingleFacts
  <2>6. StubsFine'
    BY <2>4, <2>5 DEF StubsFine
  <2>. QED
    BY <2>2, <2>6 DEF StubsInv
<1>. QED
  BY <1>3, <1>4 DEF codeWriteStubHeader

LEMMA SameStubs ==
  ASSUME UNCHANGED <<doc, types, lists, headers, skipped, stub>>, StubsFine
  PROVE  StubsFine'
<1>1. \A s : StubFine(s) => StubFine(s)'
  BY SameStub
<1>. QED
  BY <1>1 DEF StubsFine

LEMMA FreeStubs == ASSUME StubsInv, FreeModules PROVE StubsInv'
<1>1. pc = "free" /\ pc' \in {"ended", "crashed"} /\ UNCHANGED <<doc, types, lists, headers, skipped, stub>>
  BY DEF FreeModules, toolVars, registry, files
<1>. QED
  BY <1>1, SameStubs DEF StubsInv

LEMMA StubsInductive == ASSUME IInv, Bound, StubsInv, [Next]_vars PROVE StubsInv'
<1>1. CASE Engine /\ UNCHANGED wsdlVars
  BY <1>1, EngineStubs
<1>2. CASE Calls2c
  BY <1>2, ParseStubs, BindingStubs, PortTypeStubs, OperationStubs, InputStubs, OutputStubs, WriteStubs,
     FreeStubs DEF Calls2c
<1>3. CASE UNCHANGED vars
  <2>1. UNCHANGED <<doc, pc, todo, types, lists, headers, skipped, callList, stub>>
    BY <1>3 DEF vars, genVars, registry, files, wsdlVars
  <2>2. stub # << >> /\ StubsFine => StubsFine'
    BY <2>1, SameStubs
  <2>3. \A list, q : Collected(list, q)' = Collected(list, q)
    BY <2>1, SameDocument
  <2>4. Between => Between'
    BY <2>1, <2>3 DEF Between, Walking
  <2>5. \A op : Final(op)' = Final(op) /\ Taken(op)' = Taken(op)
    BY <2>1, SameDocument
  <2>6. \A done, rest, op, call : Within1(done, rest, op, call) => Within1(done, rest, op, call)'
    BY <2>1, <2>3, <2>5 DEF Within1, Walking
  <2>7. AtInput => AtInput'
    BY <2>1, <2>6 DEF AtInput, Begun, CallFunc_Create
  <2>8. AtOutput => AtOutput'
    BY <2>1, <2>5, <2>6 DEF AtOutput, Output
  <2>. QED
    BY <2>1, <2>2, <2>4, <2>7, <2>8 DEF StubsInv
<1>. QED
  BY <1>1, <1>2, <1>3 DEF Next

LEMMA SameDocumentStep == ASSUME [Next]_vars PROVE UNCHANGED doc
<1>1. CASE Engine
  BY <1>1 DEF Engine, toolVars, Xsd2cStart, Xsd2cEnd, Wsdl2cStart, Wsdl2cNext, xsdInitTrModule, xsdInitObjModule,
     runGenerator, xsdProcAttribute, xsdProcElement, objAddAttribute, objAddElement, AddField, Crash,
     xsdProcSequence, xsdProcExtension, xsdProcComplexContent, xsdProcRestriction, xsdProcSimpleContent,
     xsdProcComplexType, xsdEngineRun, declareStructs, writeSource
<1>2. CASE Calls2c
  BY <1>2 DEF Calls2c, toolVars, wsdlParse, handleBinding, handlePortType, handleOperation, handleInputParameters,
     handleOutputParameters, codeWriteStubHeader, FreeModules
<1>3. CASE UNCHANGED vars
  BY <1>3 DEF vars, genVars
<1>. QED
  BY <1>1, <1>2, <1>3 DEF Next

\* The stubs that wsdl2c writes for a document whose SOAP ports all have a binding
\* are those of its operations, no other: each takes all parts of its message in order, returns the first part of
\* the answer, and the headers of the types it takes are included and were written.
THEOREM StubsComplete == Spec => []StubComplete
<1>. DEFINE J == Bound => StubsInv
<1>1. Init => J
  BY DEF Init, StubsInv
<1>2. IInv /\ J /\ [Next]_vars => J'
  <2>1. ASSUME IInv, [Next]_vars PROVE Bound' => Bound
    <3>1. UNCHANGED doc
      BY <2>1, SameDocumentStep
    <3>. QED
      BY <3>1 DEF Bound, SoapPorts
  <2>. QED
    BY <2>1, StubsInductive
<1>3. J => StubComplete
  <2>1. stub = << >> => Range(stub) = {}
    BY NoCalls
  <2>. QED
    BY <2>1 DEF StubsInv, StubsFine, StubComplete
<1>. HIDE DEF J
<1>. QED
  BY <1>1, <1>2, <1>3, Inductive, PTL DEF Spec

=============================================================================
