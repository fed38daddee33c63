-------------------------------- MODULE Codec --------------------------------
(***************************************************************************)
(* The conversions of nanoHTTP as functions of their input: base64         *)
(* (nanohttp-base64.c), the URL parser (nanohttp-url.c), header pairs and  *)
(* content types (nanohttp-common.c), heads of answers                     *)
(* (nanohttp-response.c).                                                  *)
(*                                                                         *)
(* A text is a sequence of tokens: a punctuation mark or a word, a string  *)
(* each. Base64 is about bytes: numbers on the one side, sextets and Pad   *)
(* on the other.                                                           *)
(***************************************************************************)
EXTENDS Naturals, Sequences, SequencesExt

Missing == << >>                       \* NULL
Least(S) == CHOOSE x \in S : \A y \in S : x <= y

-----------------------------------------------------------------------------
(* Base64.                                                                 *)
Pad == 64
Part(s, g, width) == SubSeq(s, width * (g - 1) + 1, IF width * g < Len(s) THEN width * g ELSE Len(s))
Parts(s, width) == [g \in 1 .. (Len(s) + width - 1) \div width |-> Part(s, g, width)]
At(s, i) == IF i <= Len(s) THEN s[i] ELSE 0

encodeblock(in) ==
  << At(in, 1) \div 4,
     (At(in, 1) % 4) * 16 + At(in, 2) \div 16,
     IF Len(in) > 1 THEN (At(in, 2) % 16) * 4 + At(in, 3) \div 64 ELSE Pad,
     IF Len(in) > 2 THEN At(in, 3) % 64 ELSE Pad >>

base64_encode_string(bytes) ==
  LET parts == Parts(bytes, 3)
  IN  FlattenSeq([g \in DOMAIN parts |-> encodeblock(parts[g])])

decodeblock(in) ==
  << (in[1] * 4 + At(in, 2) \div 16) % 256,
     (At(in, 2) * 16 + At(in, 3) \div 4) % 256,
     (At(in, 3) % 4) * 64 + At(in, 4) >>

\* A character counts if the text goes on behind it: without padding the last does not.
Counted(text) ==
  LET kept[i \in 0 .. Len(text)] ==
        IF i = 0 THEN << >>
        ELSE IF i = Len(text) \/ text[i] = Pad THEN kept[i - 1]
        ELSE Append(kept[i - 1], text[i])
  IN  kept[Len(text)]

base64_decode_string(text) ==
  LET parts == Parts(Counted(text), 4)
  IN  FlattenSeq([g \in DOMAIN parts |-> SubSeq(decodeblock(parts[g]), 1, Len(parts[g]) - 1)])

Colon == 58
Basic(user, password) == base64_encode_string(user \o <<Colon>> \o password)

\* The user and the password the server sees.
_httpd_decode_authorization(text) ==
  LET plain == base64_decode_string(text)
      colon == SelectInSeq(plain, LAMBDA b : b = Colon)
  IN  IF colon = 0 THEN <<plain, << >> >>
      ELSE <<SubSeq(plain, 1, colon - 1), SubSeq(plain, colon + 1, Len(plain))>>

-----------------------------------------------------------------------------
(* URLs. The mark behind the protocol is not looked at but for the colon,  *)
(* the host may be empty, and a colon that ends the text goes to the       *)
(* context.                                                                *)
FirstOf(s, from, marks) ==
  Least({i \in from .. Len(s) : s[i] \in marks} \cup {Len(s) + 1})

NoUrl == [ok |-> FALSE, protocol |-> "", host |-> << >>, port |-> << >>, context |-> << >>]

hurl_parse(s) ==
  LET colon == FirstOf(s, 1, {":"})
      start == colon + 3
      host == FirstOf(s, start, {":", "/"})
      path == IF host < Len(s) /\ s[host] = ":" THEN FirstOf(s, host, {"/"}) ELSE host
      protocol == SubSeq(s, 1, colon - 1)
  IN  IF colon = 1 \/ start > Len(s) \/ protocol \notin {<<"http">>, <<"https">>} THEN NoUrl
      ELSE [ok |-> TRUE, protocol |-> protocol[1],
            host |-> SubSeq(s, start, host - 1),
            port |-> IF path > host THEN SubSeq(s, host + 1, path - 1) ELSE protocol,
            context |-> SubSeq(s, path, Len(s))]

-----------------------------------------------------------------------------
(* Header pairs. A name has the spelling of the documents, or another one. *)
Named(name) == [name |-> name, spelling |-> "standard"]
hpairnode_new(key, value, next) == << [key |-> key, value |-> value] >> \o next

Find(pairs, Test(_)) ==
  LET i == SelectInSeq(pairs, Test) IN IF i = 0 THEN Missing ELSE pairs[i].value
hpairnode_get(pairs, name) == Find(pairs, LAMBDA p : p.key = Named(name))
hpairnode_get_ignore_case(pairs, name) == Find(pairs, LAMBDA p : p.key.name = name)

httpc_set_header(header, name, value) ==
  LET i == SelectInSeq(header, LAMBDA p : p.key = Named(name))
  IN  IF i # 0 THEN [header EXCEPT ![i].value = value]
      ELSE hpairnode_new(Named(name), value, header)

\* Lengths as their text, and read back: what is no number is 0.
Numerals == <<"1", "2", "3", "4", "5", "6", "7", "8", "9", "10", "11", "12">>
Numeral(n) == IF n = 0 THEN "" ELSE Numerals[n]
atoi(token) == SelectInSeq(Numerals, LAMBDA numeral : numeral = token)

\* The transfer of a message with this header, and its length.
Transfer(header) ==
  LET length == hpairnode_get_ignore_case(header, "Content-Length")
  IN  IF length # Missing THEN [type |-> "length", length |-> atoi(length[1])]
      ELSE [type |-> IF hpairnode_get_ignore_case(header, "Transfer-Encoding") = <<"chunked">>
                       THEN "chunked" ELSE "close",
            length |-> 0]

-----------------------------------------------------------------------------
(* Content types, read token by token. A value ends at a blank or a        *)
(* semicolon, but a semicolon behind the blank begins the next key.        *)
Blanks == {" ", "\t", "\r"}

TypeToken(st, ch) ==
  IF ch = ";" THEN [st EXCEPT !.mode = "key"]
  ELSE IF ch \in Blanks THEN st ELSE [st EXCEPT !.type = Append(@, ch)]

KeyToken(st, ch) ==
  IF ch = "=" THEN [st EXCEPT !.mode = "value"]
  ELSE IF ch \in Blanks THEN st ELSE [st EXCEPT !.key = Append(@, ch)]

ValueToken(st, ch) ==
  LET begun == st.begun \/ ch # " "
      now == [st EXCEPT !.begun = begun]
  IN  IF ch \in {" ", ";"} /\ ~st.quoted /\ begun
        THEN [st EXCEPT !.mode = "key", !.begun = FALSE, !.key = << >>, !.value = << >>,
                        !.params = Append(@, [key |-> st.key, value |-> st.value])]
      ELSE IF ch = "\"" THEN [now EXCEPT !.quoted = ~@]
      ELSE IF begun /\ ch # "\r" THEN [now EXCEPT !.value = Append(@, ch)]
      ELSE now

content_type_new(s) ==
  LET Token(st, ch) == CASE st.mode = "type" -> TypeToken(st, ch)
                         [] st.mode = "key" -> KeyToken(st, ch)
                         [] st.mode = "value" -> ValueToken(st, ch)
      start == [mode |-> "type", type |-> << >>, key |-> << >>, value |-> << >>,
                quoted |-> FALSE, begun |-> FALSE, params |-> << >>]
  IN  FoldLeft(Token, start, Append(s, " "))

Param(ct, name) == Find(ct.params, LAMBDA p : p.key = <<name>>)

\* Without a semicolon the array of the type has no end: the comparison may fail.
MayBeRelated(ct) ==
  CASE ct.type # <<"multipart/related">> -> {FALSE}
    [] ct.mode = "type" -> BOOLEAN
    [] OTHER -> {TRUE}

\* What httpc_mime_begin sends.
MultipartRelated(start, info, type, boundary) ==
  <<"multipart/related", ";", " ", "type", "=", "\"">> \o <<type>> \o
  <<"\"", ";", " ", "start", "=", "\"">> \o <<start>> \o
  <<"\"", ";", " ", "start-info", "=", "\"">> \o info \o
  <<"\"", ";", " ", "boundary", "=", "\"">> \o <<boundary>> \o <<"\"">>

-----------------------------------------------------------------------------
(* The head of an answer: code, reason phrase or none, pairs in order, and *)
(* how its lines end. Without a phrase the first pair is taken for it; at  *)
(* a bare line feed the last character of each value goes.                 *)
Shortened(pair) ==
  IF pair.key.name = "Content-Length" THEN [pair EXCEPT !.value = << Numeral(atoi(@[1]) \div 10) >>]
  ELSE [pair EXCEPT !.value = Append(Front(@), "cut")]

_hresponse_parse_header(head) ==
  LET pairs == IF head.reason \/ head.pairs = << >> THEN head.pairs ELSE Tail(head.pairs)
      list == Reverse(IF head.eol = "crlf" THEN pairs
                      ELSE [i \in DOMAIN pairs |-> Shortened(pairs[i])])
      type == hpairnode_get(list, "Content-Type")
  IN  [ok |-> head.reason \/ head.pairs # << >>,
       errcode |-> head.code,
       transfer |-> Transfer(list),
       content_type |-> content_type_new(IF head.eol = "crlf" THEN type ELSE Missing)]
=============================================================================
