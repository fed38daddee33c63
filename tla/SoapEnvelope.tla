---------------------------- MODULE SoapEnvelope ----------------------------
(***************************************************************************)
(* A SOAP message as the library sees it: libcsoap/soap-env.c,             *)
(* soap-addressing.c, soap-fault.c, soap-xml.c and soap-xmlsec.c, as pure  *)
(* operators on one record.                                                *)
(*                                                                         *)
(* The document is kept as three lists. header: the WS-Addressing entries  *)
(* and signatures among the children of Header, in document order. body:   *)
(* the elements below Envelope that follow Header, in document order, each *)
(* with its depth: Body has depth 1, the method element is the first of    *)
(* depth 2. cur is the depth of env->cur, which is always on the last path *)
(* of the document, or Dangling. layers is the number of EncryptedData     *)
(* elements around the method, which hide its name.                        *)
(***************************************************************************)
EXTENDS Integers, Sequences, SequencesExt

(* A URI, or what else stands where the library reads one.                 *)
Uri(scheme, path) == [scheme |-> scheme, path |-> path, num |-> 0]
Id(who, n) == [scheme |-> "id", path |-> who, num |-> n]
Null == Uri("null", "null")          \* no xmlURI
Empty == Uri("", "")                 \* an element without content

Dangling == -9
EncryptedData == "EncryptedData"
Fault == "Fault"

Entry(name, val) == [name |-> name, val |-> val]
Element(name, depth) == [name |-> name, depth |-> depth]

-----------------------------------------------------------------------------
(* Children of an element: soap-xml.c and the static functions of          *)
(* soap-addressing.c.                                                      *)
get_child_element(kids, name) == SelectInSeq(kids, LAMBDA k : k.name = name)

extract_uri(kids, name) ==
  LET i == get_child_element(kids, name) IN IF i = 0 THEN Null ELSE kids[i].val

add_node(kids, name, val) == Append(kids, Entry(name, IF val = Null THEN Empty ELSE val))

set_content_uri(kids, i, val) == IF val = Null THEN kids ELSE [kids EXCEPT ![i].val = val]

(* The element keeps its place and takes a new content.                    *)
SetContent(kids, name, val) ==
  LET i == get_child_element(kids, name)
  IN  IF i = 0 THEN add_node(kids, name, val) ELSE set_content_uri(kids, i, val)

(* xmlUnlinkNode, xmlFreeNode: the first element of that name goes.        *)
Unlinked(kids, name) ==
  LET i == get_child_element(kids, name) IN IF i = 0 THEN kids ELSE RemoveAt(kids, i)

\* Fault: a new element is added beside the old one.
ReplacedBeside(kids, name, val) == add_node(kids, name, val)

Replaced(kids, name, val) == add_node(Unlinked(kids, name), name, val)

-----------------------------------------------------------------------------
(* The message addressing properties of an envelope.                       *)
OnHeader(env, kids) == [env EXCEPT !.header = kids]

soap_addressing_get_message_id(env) == extract_uri(env.header, "MessageID")
soap_addressing_set_message_id(env, id) == OnHeader(env, SetContent(env.header, "MessageID", id))
soap_addressing_set_message_id_string(env, id) == OnHeader(env, SetContent(env.header, "MessageID", id))

soap_addressing_get_action(env) == extract_uri(env.header, "Action")
soap_addressing_set_action(env, action) == OnHeader(env, SetContent(env.header, "Action", action))
soap_addressing_set_action_string(env, action) ==
  IF action = Null THEN env ELSE soap_addressing_set_action(env, action)

soap_addressing_get_to_address(env) == extract_uri(env.header, "To")
soap_addressing_set_to_address(env, address) == OnHeader(env, Replaced(env.header, "To", address))
soap_addressing_set_to_address_string(env, to) ==
  IF to = Null THEN env ELSE soap_addressing_set_to_address(env, to)

soap_addressing_get_from_address(env) == extract_uri(env.header, "From")
soap_addressing_set_from_address(env, address) == OnHeader(env, Replaced(env.header, "From", address))
soap_addressing_set_from_address_string(env, from) == soap_addressing_set_from_address(env, from)

soap_addressing_get_reply_to_address(env) == extract_uri(env.header, "ReplyTo")
soap_addressing_set_reply_to_address(env, address) == OnHeader(env, Replaced(env.header, "ReplyTo", address))

soap_addressing_get_fault_to_address(env) == extract_uri(env.header, "FaultTo")
soap_addressing_set_fault_to_address(env, address) == OnHeader(env, Replaced(env.header, "FaultTo", address))

soap_addressing_get_relates_to(env) == extract_uri(env.header, "RelatesTo")
soap_addressing_add_relates_to(env, id) == OnHeader(env, Replaced(env.header, "RelatesTo", id))

-----------------------------------------------------------------------------
(* Envelopes: soap-env.c.                                                  *)
soap_env_get_body(env) == SelectInSeq(env.body, LAMBDA e : e.depth = 1 /\ e.name = "Body")

(* The first child of Body: a place in env.body, 0 if there is none.       *)
soap_env_get_method(env) ==
  LET b == soap_env_get_body(env)
  IN  IF b = 0 \/ b = Len(env.body) \/ env.body[b + 1].depth # 2 THEN 0 ELSE b + 1

(* The element the method stands in, once it is encrypted.                 *)
soap_env_find_methodname(env) ==
  LET m == soap_env_get_method(env)
  IN  IF m = 0 THEN "none" ELSE IF env.layers > 0 THEN EncryptedData ELSE env.body[m].name

soap_env_find_urn(env) == IF env.layers > 0 THEN "xmlenc" ELSE env.urn

(* The walk starts at Body and goes on to the elements behind it.          *)
soap_env_get_fault(env) ==
  LET b == soap_env_get_body(env)
  IN  IF b = 0 THEN 0
      ELSE SelectInSubSeq(env.body, b, Len(env.body), LAMBDA e : e.depth = 1 /\ e.name = Fault)

(* What a program that looks for a fault below Body would find.            *)
FaultBelowBody(env) == \E i \in DOMAIN env.body : env.body[i] = Element(Fault, 2)

soap_env_new_from_doc(env) == [env EXCEPT !.cur = 2]

Document(header, method, urn) ==
  [header |-> header, body |-> <<Element("Body", 1)>> \o method, urn |-> urn, layers |-> 0, cur |-> 2]

soap_env_new_with_method(urn, method) ==
  soap_env_new_from_doc(Document(<< >>, <<Element(method, 2)>>, urn))

Response(method) == method \o "Response"

(* A request without a method makes the call fail: Null for the envelope.  *)
soap_env_new_with_response(request) ==
  LET m == soap_env_find_methodname(request)
  IN  soap_env_new_with_method(soap_env_find_urn(request), Response(m))

soap_fault_build(reason) ==
  Document(<< >>, <<Element(Fault, 2), Element(reason, 3)>>, "")

soap_env_new_with_fault(reason) == soap_env_new_from_doc(soap_fault_build(reason))

soap_env_add_item(env, name) ==
  [env EXCEPT !.body = Append(@, Element(name, env.cur + 1))]
soap_env_push_item(env, name) == [soap_env_add_item(env, name) EXCEPT !.cur = @ + 1]
soap_env_pop_item(env) == [env EXCEPT !.cur = @ - 1]

-----------------------------------------------------------------------------
(* XML security: soap-xmlsec.c. What xmlsec itself answers is a parameter. *)
(* A signature covers the body it was made of, as encrypted as that was.   *)
Signature(ok, layers) == Entry("Signature", [scheme |-> IF ok THEN "valid" ELSE "broken",
                                             path |-> "", num |-> layers])

(* Needs a To address to name the key; the method element is replaced.     *)
EncryptPossible(env) == soap_addressing_get_to_address(env) # Null
soap_xmlsec_encrypt(env) == [env EXCEPT !.layers = @ + 1, !.cur = Dangling]

(* The entry is in the header before the first step that can fail.         *)
soap_xmlsec_sign(env, ok) == OnHeader(env, Append(env.header, Signature(ok, env.layers)))

(* Only the first signature is looked at; a message without one passes.    *)
soap_xmlsec_verify(env) ==
  LET s == get_child_element(env.header, "Signature")
  IN  s = 0 \/ env.header[s] = Signature(TRUE, env.layers)

(* One layer, if there is one; a message without a method fails.           *)
DecryptPossible(env) == soap_env_get_method(env) # 0
soap_xmlsec_decrypt(env) ==
  IF env.layers = 0 THEN env ELSE [env EXCEPT !.layers = @ - 1, !.cur = Dangling]
=============================================================================
