--------------------------- MODULE MCHttpSession ---------------------------
(* Instances of HttpSession for TLC: a SOAP service, a secured one, the    *)
(* admin page and a service whose function is NULL.                        *)
EXTENDS HttpSession

CONSTANTS c1, c2

TwoConns == {c1, c2}

Registered ==
  <<[context |-> "/soap",   auth |-> FALSE, func |-> "soap"],
    [context |-> "/secure", auth |-> TRUE,  func |-> "soap"],
    [context |-> "/nhttp",  auth |-> FALSE, func |-> "admin"],
    [context |-> "/null",   auth |-> FALSE, func |-> "NULL"]>>

\* No default service, or the secured one.
DefaultChoices == {0, 2}

Get(path) == [path |-> path, method |-> "GET", close |-> FALSE, cred |-> FALSE,
              body |-> "none", long |-> FALSE, action |-> "none", target |-> ""]
Post(path) == [Get(path) EXCEPT !.method = "POST", !.body = "xml"]
Admin(what) == [Get("/nhttp") EXCEPT !.action = what, !.target = "/soap"]

Call == Post("/soap")
LastCall == [Call EXCEPT !.close = TRUE]
BadCall == [Call EXCEPT !.body = "broken"]
Multipart == [Call EXCEPT !.body = "mime"]
SecretCall == [Post("/secure") EXCEPT !.cred = TRUE]
PlainSecretCall == Post("/secure")

AllRequests ==
  {Call, LastCall, BadCall, Multipart, SecretCall, PlainSecretCall,
   Get("/soap"), Get("/nhttp"), Get("/null"), Post("/nhttp"), Get("/other"),
   Admin("statistics"), Admin("activate"), Admin("passivate"),
   [Admin("statistics") EXCEPT !.target = "/other"]}

\* A head of more than MAX_HEADER_SIZE bytes, and what it may be cut to.
LongCall == [SecretCall EXCEPT !.long = TRUE, !.close = TRUE]
CutCalls == {[LongCall EXCEPT !.close = x, !.cred = y] : x, y \in BOOLEAN}

StrayRequests == {Admin("passivate")}

EveryRequest == AllRequests \cup CutCalls

\* One client sends any request and then one of these, or one too long and
\* then a call, while the other client does one of the last two.
Seconds == {Call, BadCall, Multipart, PlainSecretCall, Get("/nhttp"),
            Admin("statistics"), Admin("activate")}
Pairs == (AllRequests \X Seconds) \cup {<<LongCall, Call>>}
Others == {<<Call>>, <<Admin("passivate")>>}

ClientWork == {[c \in TwoConns |-> IF c = c1 THEN a ELSE b] : a \in Pairs, b \in Others}

=============================================================================
