---------------------------- MODULE MCHttpClient ----------------------------
(* Instances of HttpClient for TLC.                                        *)
EXTENDS HttpClient, TLC

Host == <<"http", ":", "/", "/", "h">>
Odd == <<"http", ":", "/", "/", "h", ":", "80", ":", "/", "p">>
Secure == <<"https", ":", "/", "/", "h", ":", "443", "/", "p">>
NoProtocol == <<":", "/", "/", "h">>
NoHost == <<"http", ":", "/", "/", "/", "p">>
Gopher == <<"gopher", ":", "/", "/", "h">>

File(blocks) == [there |-> TRUE, blocks |-> blocks]
Absent == [there |-> FALSE, blocks |-> << >>]

Get(url, user, password) ==
  [method |-> "GET", url |-> url, auth |-> TRUE, user |-> user, password |-> password]
Soap(url, attached) == [method |-> "POST", url |-> url, files |-> attached]

a == 97
Padded == Get(Host, <<a>>, <<200, a, 255>>)     \* 5 bytes
Unpadded == Get(Secure, <<a>>, <<a>>)           \* 3 bytes
Long == Get(Host, <<a, a>>, <<a, a, a, a>>)     \* 7 bytes: too long for AuthSize
Full == Soap(Host, <<File(<<2, 0>>), File(<<1>>)>>)
Empty == Soap(Secure, <<File(<<0>>)>>)
Lacking == Soap(Host, <<File(<<1>>), Absent>>)
Envelope(url) == Soap(url, << >>)

CONSTANTS t1, t2
Both(one, two) == [t \in {t1, t2} |-> IF t = t1 THEN one ELSE two]

AllScenarios == {
  Both(<<Envelope(Odd), Padded>>, << >>),
  Both(<<Envelope(Host), Envelope(Host)>>, << >>),
  Both(<<Envelope(Host)>>, <<Envelope(Host)>>),
  Both(<<Full>>, <<Unpadded>>),
  Both(<<Envelope(Host), Long>>, << >>),
  Both(<<Empty>>, <<Lacking>>),
  Both(<<Envelope(NoProtocol), Get(NoHost, << >>, <<a>>)>>, <<Envelope(Gopher)>>)}

Pair(name, value) == [key |-> Named(name), value |-> value]
Other(name, value) == [key |-> [name |-> name, spelling |-> "other"], value |-> value]
Head200(pairs) == [code |-> 200, reason |-> TRUE, eol |-> "crlf", pairs |-> pairs]

Related == MultipartRelated("start", << >>, "text/xml", "b")
NoStart == <<"multipart/related", ";", "boundary", "=", "b", " ", ";", "start", "=", "s">>
Length == Pair("Content-Length", <<"12">>)
Chunked == Pair("Transfer-Encoding", <<"chunked">>)

Documents == Head200(<<Pair("Content-Type", <<"text/xml">>), Length>>)
WithParts == Head200(<<Pair("Content-Type", Related), Chunked>>)
OddHeads == {
  Documents, WithParts,
  Head200(<<Other("Content-Type", Related), Length>>),
  Head200(<<Pair("Content-Type", NoStart), Length>>),
  Head200(<<Pair("Content-Type", <<"multipart/related">>)>>),
  Head200(<<Pair("Server", <<"s">>), Pair("Content-Type", <<"text/xml">>), Length>>),
  [Head200(<<Length>>) EXCEPT !.reason = FALSE],
  [Head200(<<Pair("Content-Type", <<"text/xml">>), Length>>) EXCEPT !.eol = "lf"],
  [Head200(<<Chunked>>) EXCEPT !.code = 500]}

AllAnswers ==
  [url \in {Host, Odd, Secure, NoProtocol, NoHost, Gopher} |->
     CASE url = Odd -> OddHeads
       [] url = Host -> {WithParts}
       [] OTHER -> {Documents}]
=============================================================================
