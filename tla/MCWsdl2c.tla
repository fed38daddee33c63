------------------------------ MODULE MCWsdl2c ------------------------------
(***************************************************************************)
(* Documents for xsd2c and wsdl2c: the schema of wsdl2c's own calls, one   *)
(* with attributes and floats, unsupported types, and WSDL files with      *)
(* several schemas that refer to each other.                               *)
(***************************************************************************)
EXTENDS GeneratedCode

Node(kw) == [kw |-> kw, name |-> "", type |-> NoType, base |-> NoType, max |-> "", value |-> "",
             sub |-> << >>, tns |-> "", xsd |-> "", enc |-> ""]
Schema(tns, sub) == [Node("schema") EXCEPT !.tns = tns, !.xsd = "xs", !.sub = sub]
Xs(name) == <<"xs", name>>
Tns(name) == <<"t", name>>
El(name, t) == [Node("element") EXCEPT !.name = name, !.type = t]
Many(name, t) == [El(name, t) EXCEPT !.max = "unbounded"]
Attr(name, t) == [Node("attribute") EXCEPT !.name = name, !.type = t]
Seq_(sub) == [Node("sequence") EXCEPT !.sub = sub]
CT(name, sub) == [Node("complexType") EXCEPT !.name = name, !.sub = sub]
Extends(base, sub) ==
  << [Node("complexContent") EXCEPT !.sub = << [Node("extension") EXCEPT !.base = base, !.sub = sub] >>] >>
Enum(v) == [Node("enumeration") EXCEPT !.value = v]
Restricts(base, facets, attrs) ==
  << [Node("simpleContent") EXCEPT !.sub =
        << [Node("restriction") EXCEPT !.base = base, !.sub = facets] >> \o attrs] >>

Doc == [tool |-> "xsd2c", wsdl |-> FALSE, roots |-> << >>, definitions |-> Node("definitions"),
        soap |-> TRUE, prefixed |-> TRUE, ports |-> << >>, bindings |-> << >>,
        portTypes |-> [p \in {} |-> << >>], messages |-> [m \in {} |-> << >>]]
Xsd(tns, sub) == [Doc EXCEPT !.roots = << Schema(tns, sub) >>]

\* The calls of wsdl2c (call.xsd), each type before the one it needs.
Var == CT("Var", << Seq_(<< El("name", Xs("string")), El("type", Xs("string")) >>) >>)
Func == CT("Func", << Seq_(<< El("name", Xs("string")), Many("in", Tns("Var")), El("out", Tns("Var")) >>) >>)
List == CT("List", << Seq_(<< Many("operation", Tns("Func")) >>) >>)

Item == CT("Item", << Seq_(<< El("on", Xs("boolean")), El("size", Xs("float")),
                              Many("word", Xs("string")), [El("pair", Xs("int")) EXCEPT !.max = "2"],
                              El("key", Xs("ID")) >>),
                      Attr("label", Xs("string")), Attr("count", Xs("int")), Attr("", Xs("int")) >>)
Inline == CT("Outer", << Seq_(<< [Node("element") EXCEPT !.name = "part", !.sub =
                << Node("annotation"), CT("", << Seq_(<< El("n", Xs("int")) >>) >>) >>],
                El("n", Xs("int")) >>) >>)
Derived == CT("Derived", Extends(Tns("Var"), << Seq_(<< El("more", Xs("int")) >>), Attr("a", Xs("string")) >>))
Level == CT("Level", Restricts(Xs("string"), << Enum("low"), Enum("high") >>, << Attr("a", Xs("string")) >>))
Range_ == CT("Span", Restricts(Xs("int"), << [Node("minInclusive") EXCEPT !.value = "1"] >>, << >>))
Plain == CT("Plain", << [Node("simpleContent") EXCEPT !.sub = << Node("extension") >>] >>)

Never == CT("Never", << Seq_(<< [El("x", Xs("int")) EXCEPT !.max = "0"] >>) >>)
OwnString == CT("string", << Seq_(<< El("n", Xs("int")) >>) >>)
Alike == << CT("Alike", << Seq_(<< El("x", Xs("int")), Many("x", Xs("string")) >>) >>),
             CT("Ends", << Seq_(<< El("p_head", Xs("int")), Many("p", Xs("int")) >>) >>),
             CT("Label", << Seq_(<< El("attr_a", Xs("int")) >>), Attr("a", Xs("string")) >>) >>
Unnamable == << CT("Self", << Seq_(<< El("obj", Xs("int")) >>) >>), CT("int", << >>),
                CT("Dash", << Seq_(<< El("a-b", Xs("int")) >>) >>), CT("Mixed", << Seq_(<< El("d", Tns("Dash")) >>) >>) >>
Words == CT("Words", << Seq_(<< Many("word", Xs("string")) >>) >>)

Port(binding, address) == [binding |-> binding, address |-> address]
Binding(name, t) == [name |-> name, type |-> t]
Op(name, input, output) == [name |-> name, input |-> input, output |-> output]
Part(name, t) == [name |-> name, type |-> t]

Second(tns) == [Schema(tns, << CT("Later", << Seq_(<< El("v", Xs("int")) >>) >>) >>) EXCEPT !.enc = "enc"]
Wsdl == [Doc EXCEPT !.tool = "wsdl2c", !.wsdl = TRUE,
  !.roots = << Schema("t", << CT("Early", << Seq_(<< El("l", <<"u", "Later">>), Many("v", Tns("Var")) >>) >>), Var >>),
               Second("u") >>,
  !.ports = << Port("B", "soap"), Port("B", "http") >>,
  !.bindings = << Binding("B", "P"), Binding("C", "Q") >>,
  !.portTypes = "P" :> << Op("get", "getIn", "getOut"), Op("put", "putIn", "putOut") >> @@
                "Q" :> << Op("other", "getIn", "getOut") >>,
  !.messages = "getIn" :> << Part("e", Tns("Early")), Part("n", Xs("int")) >> @@
               "getOut" :> << Part("", Xs("int")), Part("l", <<"u", "Later">>), Part("n", Xs("int")) >> @@
               "putIn" :> << >> @@
               "putOut" :> << Part("ok", Xs("int")) >>]

OneWay == [Wsdl EXCEPT !.portTypes = "P" :> << Op("tell", "getIn", "none") >>]

MCDocuments ==
  { Xsd("t", << List, Func, Var >>),
    Xsd("t", << Item >>), Xsd("t", << Inline, [El("Root", NoType) EXCEPT !.sub = << CT("", << Attr("a", Xs("string")) >>) >>] >>),
    Xsd("t", << Derived, Var >>), Xsd("t", << Level, Range_, Plain, El("Bare", NoType) >>),
    Xsd("t", << CT("Weight", << Attr("w", Xs("float")) >>), CT("Lost", << Seq_(<< El("x", Tns("Nowhere")) >>) >>) >>),
    Xsd("t", << Var, El("Var", NoType) >>), Xsd("t", << Never >>), Xsd("xs", << OwnString, Words >>),
    Xsd("t", Alike), Xsd("t", Unnamable),
    Xsd("", << Var >>), Xsd("?", << Var >>), [Doc EXCEPT !.wsdl = TRUE],
    [Xsd("t", << CT("NoType", << Seq_(<< Node("element") >>), Attr("a", NoType) >>) >>) EXCEPT !.wsdl = TRUE],
    Xsd("t", << CT("", << Attr("a", Xs("int")) >>), CT("NoName", << Seq_(<< El("", Xs("int")) >>) >>) >>),
    Wsdl, OneWay,
    [Wsdl EXCEPT !.roots = << Wsdl.roots[1], Second("") >>],
    [Wsdl EXCEPT !.ports = << Port("", "soap"), Port("B", "soap") >>],
    [Wsdl EXCEPT !.prefixed = FALSE], [Wsdl EXCEPT !.soap = FALSE], [Wsdl EXCEPT !.roots = << >>] }

MCNotInC == {"int", "a-b"}

RECURSIVE NodesFrom(_)
NodesFrom(node) == {node} \cup UNION {NodesFrom(n) : n \in Range(node.sub)}
MCNodes == UNION {NodesFrom(n) : n \in UNION {Range(d.roots) \cup {d.definitions} : d \in MCDocuments}}

=============================================================================
