----------------------------- MODULE MCSoapCall -----------------------------
(* Instances of SoapCall for TLC: two routers, one of them under a context *)
(* that is taken, a service that is there twice, one down, and a default.   *)
EXTENDS SoapCall

New == [op |-> "new"]
Serve(op, router, method, func, status) ==
  [op |-> op, router |-> router, urn |-> "u", method |-> method, func |-> func, status |-> status]
At(router, context) == [op |-> "register", router |-> router, context |-> context]

TwoRouters ==
  <<New, Serve("service", 1, "m", "f", "up"), Serve("service", 1, "n", "f", "down"),
    Serve("service", 1, "m", "g", "up"), At(1, "/a"),
    New, Serve("default", 2, "d", "h", "up"), At(2, "/b"), At(2, "/a")>>

Call(scheme, path, method, again, big) ==
  [urn |-> "u", method |-> method, url |-> IF scheme = "none" THEN Null ELSE Uri(scheme, path),
   action |-> Uri("null", "act"), again |-> again, big |-> big]

First == Call("soap.udp", "/a", "m", FALSE, FALSE)
Second == Call("soap.udp", "/b", "m", FALSE, FALSE)
Again == Call("soap.udp", "/b", "m", TRUE, FALSE)
Big == Call("soap.udp", "/a", "m", FALSE, TRUE)
Web == Call("http", "/a", "m", FALSE, FALSE)
WebDown == Call("http", "/a", "n", FALSE, FALSE)
WebAgain == Call("http", "/b", "m", TRUE, FALSE)
Nowhere == Call("http", "/c", "m", FALSE, FALSE)
SameTo == Call("none", "", "m", TRUE, FALSE)
NoTo == Call("none", "", "m", FALSE, FALSE)
Unknown == Call("gopher", "/a", "m", FALSE, FALSE)

CONSTANTS c1, c2
Both(one, two) == [c \in {c1, c2} |-> IF c = c1 THEN one ELSE two]

Line(enabled, encrypts, signs, force) ==
  [enabled |-> enabled, encrypts |-> encrypts, signs |-> signs,
   forceEncrypt |-> force, forceVerify |-> force, forceSign |-> force,
   uuid |-> {c1, c2, "server"}]
Without(line, who) == [line EXCEPT !.uuid = @ \ {who}]

Clear == Line(FALSE, FALSE, FALSE, TRUE)
Sealed == Line(TRUE, TRUE, TRUE, TRUE)
NoKey == Line(TRUE, FALSE, TRUE, TRUE)
BadSeal == Line(TRUE, TRUE, FALSE, FALSE)

Case(one, two, lines) ==
  {[program |-> TwoRouters, work |-> Both(one, two), cfg |-> line] : line \in lines}

AllScenarios == UNION {
  Case(<<First, Second>>, << >>, {Clear, Sealed}),
  Case(<<First, Again>>, << >>, {Clear, Sealed, BadSeal}),
  Case(<<First>>, <<Second>>, {Clear}),
  Case(<<First>>, <<Web>>, {Sealed, NoKey, BadSeal}),
  Case(<<Big>>, <<First>>, {Clear}),
  Case(<<Web, SameTo>>, << >>, {Clear, Sealed}),
  Case(<<WebDown, WebAgain, Unknown>>, << >>, {Clear, BadSeal}),
  Case(<<Nowhere, NoTo, First>>, << >>, {Sealed, NoKey}),
  Case(<<First, SameTo, First>>, << >>, {Clear}),
  Case(<<First>>, <<Web>>, {Without(Clear, "server"), Without(Sealed, c2)})}
=============================================================================
