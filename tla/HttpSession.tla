---------------------------- MODULE HttpSession ----------------------------
(***************************************************************************)
(* What the session threads of the nanoHTTP server do with the requests of *)
(* their connections (httpd_session_main in nanohttp/nanohttp-server.c):   *)
(* reading a request, finding its service, counting it, authenticating it, *)
(* running the service function, accounting for it, and going on with the  *)
(* connection or closing it. The service functions are the two the library *)
(* brings along: the SOAP one (libcsoap/soap-nhttp.c) and the admin page   *)
(* (nanohttp/nanohttp-admin.c), which reads the statistics of a service    *)
(* and takes it up and down while other sessions use it.                   *)
(*                                                                         *)
(* A client sends its requests without waiting for answers. Its connection *)
(* carries one unit per request head, one for what a head has beyond       *)
(* MAX_HEADER_SIZE, and one per request body; these two are read as a body *)
(* by whoever wants to, and what is left of them is read as a request.     *)
(* Threads, slots and failing connections are in HttpServer, transfer      *)
(* encodings in HttpStream.                                                *)
(***************************************************************************)
EXTENDS Naturals, Sequences, FiniteSets

CONSTANTS Conns,      \* connections, each with its session thread
          Requests,   \* what may be in a request
          Strays,     \* what the bytes of a body may spell
          Workloads,  \* what the clients send: [Conns -> Seq(Requests)]
          Services,   \* the list of registered services, in order
          Defaults,   \* the choices of _httpd_services_default, 0 for NULL
          NoConn,     \* no holder of a lock
          NoLength    \* no Content-Length

Bodies == {"400", "401", "500", "501", "document", "page"}

ASSUME SessionAssumption ==
  /\ Requests # {}
  /\ Requests \subseteq
       [path : STRING, method : {"GET", "POST"}, close : BOOLEAN,
        cred : BOOLEAN, body : {"none", "xml", "broken", "mime"},
        long : BOOLEAN,   \* its head has more than MAX_HEADER_SIZE bytes
        action : {"none", "statistics", "activate", "passivate"},
        target : STRING]
  /\ Strays \subseteq {r \in Requests : r.body = "none"}
  /\ Workloads \subseteq [Conns -> Seq(Requests)]
  /\ Services \in Seq([context : STRING, auth : BOOLEAN,
                       func : {"soap", "admin", "NULL"}])
  /\ Defaults \subseteq 0 .. Len(Services)
  /\ IsFiniteSet(Conns) /\ NoConn \notin Conns
  /\ NoLength \notin Bodies

ServiceIds == DOMAIN Services

VARIABLES
  \* ------------------------------------------------ shared by the sessions
  default,     \* _httpd_services_default
  up,          \* [ServiceIds]: status = NHTTPD_SERVICE_UP
  statistics,  \* [ServiceIds]: struct service_statistics
  writer,      \* [ServiceIds]: who holds the rwlock for writing
  readers,     \* [ServiceIds]: who holds it for reading
  \* ------------------------------------------------ per session
  spc,         \* where httpd_session_main is
  req,         \* the request in hand
  service,     \* what httpd_find_service returned, 0 for NULL
  done,        \* done
  header,      \* Content-Length in rconn->header
  out,         \* type of rconn->out, "NULL" before the first answer
  copy,        \* values read from the statistics, while they are in use
  \* ------------------------------------------------ per connection
  input,       \* units that have not been read
  sent,        \* the requests the client sends, fixed
  log          \* history: the answers given so far

shared == <<default, up, statistics, writer, readers>>
locks == <<writer, readers>>
session == <<spc, req, service, done, header, out, copy>>
vars == <<shared, session, input, sent, log>>

Unit(k, r) == [kind |-> k, req |-> r]

\* What hrequest_new_from_socket leaves of a request to the input stream.
BodyUnits(r) ==
  (IF r.long THEN <<Unit("rest", r)>> ELSE << >>)
    \o (IF r.body = "none" THEN << >> ELSE <<Unit("body", r)>>)

\* The units of a sequence of requests, from the i-th request on.
UnitsFrom(rs, i) ==
  LET from[k \in 1 .. Len(rs) + 1] ==
        IF k = Len(rs) + 1 THEN << >>
        ELSE (<<Unit("head", rs[k])>> \o BodyUnits(rs[k])) \o from[k + 1]
  IN  from[i]

Drop(s, k) == SubSeq(s, k + 1, Len(s))

\* The next bytes on the connection are what a request left behind.
Adrift(s) == s # << >> /\ Head(s).kind # "head"

(* What may be left of s when some of its bytes have been read: whole      *)
(* units, or a unit in part. The rest of a unit is read at one go: a bound.*)
PartRead(s, k) == <<Unit("rest", s[k].req)>> \o Drop(s, k)
Remains(s) ==
  {Drop(s, k) : k \in 1 .. Len(s)}
    \cup {PartRead(s, k) : k \in {j \in 1 .. Len(s) : s[j].kind # "rest"}}

(* What is left when the body of r has been read to its end. Behind a head *)
(* that was cut, the stream begins too early, and ends where the length    *)
(* says that survived the cut, or with the connection if none did.         *)
BodyRead(s, r) ==
  IF r.long THEN {s} \cup Remains(s) ELSE {IF Adrift(s) THEN Tail(s) ELSE s}

\* The first service with this context, or the default one.
httpd_find_service(path) ==
  LET found == {s \in ServiceIds : Services[s].context = path}
  IN  IF found = {} THEN default
      ELSE CHOOSE s \in found : \A t \in found : s <= t

(* A sum is modelled by the list of what has been added to it.             *)
NoStatistics == [requests |-> 0, bytes |-> << >>, time |-> << >>]

-----------------------------------------------------------------------------
(* Every service has been registered and is up; the sessions of all        *)
(* connections have just been started.                                     *)
Init ==
  /\ default \in Defaults
  /\ up = [s \in ServiceIds |-> TRUE]
  /\ statistics = [s \in ServiceIds |-> NoStatistics]
  /\ writer = [s \in ServiceIds |-> NoConn]
  /\ readers = [s \in ServiceIds |-> {}]
  /\ sent \in Workloads
  /\ input = [c \in Conns |-> UnitsFrom(sent[c], 1)]
  /\ spc = [c \in Conns |-> "read"]
  /\ req \in [Conns -> {CHOOSE r \in Requests : TRUE}]
  /\ service = [c \in Conns |-> 0]
  /\ done = [c \in Conns |-> FALSE]
  /\ header = [c \in Conns |-> NoLength]
  /\ out = [c \in Conns |-> "NULL"]
  /\ copy = [c \in Conns |-> NoStatistics]
  /\ log = [c \in Conns |-> << >>]

Goto(c, label) == spc' = [spc EXCEPT ![c] = label]

\* `while (!done)`: on to the next request, or out of the loop.
Loop(c) == Goto(c, IF done'[c] THEN "close" ELSE "read")

-----------------------------------------------------------------------------
(*                                Answers                                  *)

\* httpd_send_header: the output stream follows the header as it is now.
SendHeader(c) ==
  out' = [out EXCEPT ![c] = IF header'[c] = NoLength THEN "close" ELSE "length"]

\* The k-th answer of a connection, for the history; `ran` if a service
\* function gave it, `by` the service that counted the request.
Record(c, by, ran, body) ==
  log' = [log EXCEPT ![c] =
            Append(@, [req |-> req'[c], by |-> by, ran |-> ran, body |-> body,
                       declared |-> header'[c],
                       left |-> Adrift(input'[c]) \/ req'[c].long])]

\* _httpd_send_html_message, and _soap_nhttp_send_document: the length is
\* set; distinct bodies have distinct lengths.
SendWithLength(c, by, ran, body) ==
  /\ header' = [header EXCEPT ![c] = body]
  /\ SendHeader(c)
  /\ Record(c, by, ran, body)

\* The admin page: the header goes out as earlier answers left it.
SendPage(c, by) ==
  /\ UNCHANGED header
  /\ SendHeader(c)
  /\ Record(c, by, TRUE, "page")

-----------------------------------------------------------------------------
(*                           Reading a request                             *)

(* What a head that is cut at MAX_HEADER_SIZE says: the request line comes *)
(* first, but headers may be lost, and nobody is told.                     *)
Cuts(r) ==
  {q \in Requests :
     /\ q.long /\ q.path = r.path /\ q.method = r.method
     /\ q.action = r.action /\ q.target = r.target
     /\ (q.close => r.close) /\ (q.cred => r.cred)
     /\ (q.body = "mime" => r.body = "mime")}

AsRead(r) == IF r.long THEN Cuts(r) ELSE {r}

\* Fault: the head is read in blocks, and what follows is lost.
ReadRequestAhead(c) ==
  /\ spc[c] = "read" /\ input[c] # << >> /\ ~Adrift(input[c])
  /\ \E r \in AsRead(Head(input[c]).req) : r.body # "mime" /\ req' = [req EXCEPT ![c] = r]
  /\ input' = [input EXCEPT ![c] =
                 Drop(@, IF Len(@) > 1 /\ ~Adrift(Tail(@)) THEN 2 ELSE 1)]
  /\ done' = [done EXCEPT ![c] = req'[c].close]
  /\ Goto(c, "find")
  /\ UNCHANGED <<shared, service, header, out, copy, sent, log>>

(* hrequest_new_from_socket, byte by byte up to the empty line or to       *)
(* MAX_HEADER_SIZE; then "Connection: close" or HTTP/1.0.                  *)
ReadRequest(c) ==
  /\ spc[c] = "read" /\ input[c] # << >> /\ ~Adrift(input[c])
  /\ \E r \in AsRead(Head(input[c]).req) : r.body # "mime" /\ req' = [req EXCEPT ![c] = r]
  /\ input' = [input EXCEPT ![c] = Tail(@)]
  /\ done' = [done EXCEPT ![c] = req'[c].close]
  /\ Goto(c, "find")
  /\ UNCHANGED <<shared, service, header, out, copy, sent, log>>

\* A multipart body its parser refuses: 400, and out of the loop.
ReadMalformed(c) ==
  /\ spc[c] = "read" /\ input[c] # << >> /\ ~Adrift(input[c])
  /\ \E r \in AsRead(Head(input[c]).req) : \E left \in BodyRead(Tail(input[c]), r) :
       /\ r.body = "mime"
       /\ req' = [req EXCEPT ![c] = r]
       /\ input' = [input EXCEPT ![c] = left]
  /\ done' = [done EXCEPT ![c] = TRUE]
  /\ UNCHANGED <<shared, service, copy, sent>>
  /\ SendWithLength(c, 0, FALSE, "400")
  /\ Loop(c)

(* What a request left unread is taken for a head, up to an empty line in  *)
(* it or further on, or to MAX_HEADER_SIZE: whatever request it spells.    *)
Misread(c) ==
  /\ spc[c] = "read" /\ Adrift(input[c])
  /\ \E r \in Strays, left \in Remains(input[c]) :
       /\ req' = [req EXCEPT ![c] = r]
       /\ input' = [input EXCEPT ![c] = left]
       /\ done' = [done EXCEPT ![c] = r.close]
  /\ Goto(c, "find")
  /\ UNCHANGED <<shared, service, header, out, copy, sent, log>>

\* The client has closed its end, or the timeout has passed.
ReadFails(c) ==
  /\ spc[c] = "read" /\ (input[c] = << >> \/ Adrift(input[c]))
  /\ done' = [done EXCEPT ![c] = TRUE]
  /\ Loop(c)
  /\ UNCHANGED <<shared, req, service, header, out, copy, input, sent, log>>

-----------------------------------------------------------------------------
(*                       Dispatching it to a service                       *)

\* httpd_find_service, and the service is NHTTPD_SERVICE_UP.
FindService(c) ==
  /\ spc[c] = "find"
  /\ service' = [service EXCEPT ![c] = httpd_find_service(req[c].path)]
  /\ service'[c] # 0 /\ up[service'[c]]
  /\ Goto(c, "count")
  /\ UNCHANGED <<shared, req, done, header, out, copy, input, sent, log>>

\* It is down: 500, and the connection is kept.
ServiceDown(c) ==
  /\ spc[c] = "find"
  /\ service' = [service EXCEPT ![c] = httpd_find_service(req[c].path)]
  /\ service'[c] # 0 /\ ~up[service'[c]]
  /\ UNCHANGED <<shared, req, done, copy, input, sent>>
  /\ SendWithLength(c, 0, FALSE, "500")
  /\ Loop(c)

\* There is none: 501.
NoService(c) ==
  /\ spc[c] = "find"
  /\ service' = [service EXCEPT ![c] = httpd_find_service(req[c].path)]
  /\ service'[c] = 0
  /\ done' = [done EXCEPT ![c] = TRUE]
  /\ UNCHANGED <<shared, req, copy, input, sent>>
  /\ SendWithLength(c, 0, FALSE, "501")
  /\ Loop(c)

Unlocked(s) == writer[s] = NoConn /\ readers[s] = {}

\* Fault: the number of requests is updated without the lock.
CountLockNone(c) ==
  /\ spc[c] = "count"
  /\ writer' = [writer EXCEPT ![service[c]] = c]
  /\ copy' = [copy EXCEPT ![c] = statistics[service[c]]]
  /\ Goto(c, "counting")
  /\ UNCHANGED <<default, up, statistics, readers, req, service, done, header,
                 out, input, sent, log>>

\* pthread_rwlock_wrlock, and the load of requests++ ...
CountLock(c) ==
  /\ spc[c] = "count" /\ Unlocked(service[c])
  /\ writer' = [writer EXCEPT ![service[c]] = c]
  /\ copy' = [copy EXCEPT ![c] = statistics[service[c]]]
  /\ Goto(c, "counting")
  /\ UNCHANGED <<default, up, statistics, readers, req, service, done, header,
                 out, input, sent, log>>

\* Fault: the count goes the wrong way.
CountUnlockDown(c) ==
  /\ spc[c] = "counting"
  /\ statistics' = [statistics EXCEPT ![service[c]].requests = copy[c].requests - 1]
  /\ copy' = [copy EXCEPT ![c] = NoStatistics]
  /\ writer' = [writer EXCEPT ![service[c]] = NoConn]
  /\ Goto(c, "auth")
  /\ UNCHANGED <<default, up, readers, req, service, done, header, out,
                 input, sent, log>>

\* ... its store, and pthread_rwlock_unlock.
CountUnlock(c) ==
  /\ spc[c] = "counting"
  /\ statistics' = [statistics EXCEPT ![service[c]].requests = copy[c].requests + 1]
  /\ copy' = [copy EXCEPT ![c] = NoStatistics]
  /\ writer' = [writer EXCEPT ![service[c]] = NoConn]
  /\ Goto(c, "auth")
  /\ UNCHANGED <<default, up, readers, req, service, done, header, out,
                 input, sent, log>>

\* Fault: credentials are good for the rest of the connection.
AcceptedOnce(c) ==
  \/ Services[service[c]].auth => req[c].cred
  \/ \E i \in DOMAIN log[c] : log[c][i].ran /\ log[c][i].req.cred

\* _httpd_authenticate_request
Accepted(c) == Services[service[c]].auth => req[c].cred

Authenticate(c) ==
  /\ spc[c] = "auth" /\ Accepted(c) /\ Services[service[c]].func # "NULL"
  /\ Goto(c, "func")
  /\ UNCHANGED <<shared, req, service, done, header, out, copy, input, sent, log>>

\* httpd_send_unauthorized, and out of the loop.
Unauthorized(c) ==
  /\ spc[c] = "auth" /\ ~Accepted(c)
  /\ done' = [done EXCEPT ![c] = TRUE]
  /\ UNCHANGED <<shared, req, service, copy, input, sent>>
  /\ SendWithLength(c, service[c], FALSE, "401")
  /\ Loop(c)

\* The service function is NULL: 501, and the connection is kept.
NotImplemented(c) ==
  /\ spc[c] = "auth" /\ Accepted(c) /\ Services[service[c]].func = "NULL"
  /\ UNCHANGED <<shared, req, service, done, copy, input, sent>>
  /\ SendWithLength(c, service[c], FALSE, "501")
  /\ Loop(c)

-----------------------------------------------------------------------------
(*                         The service functions                           *)

(* soap_nhttp_process. Only POST is served; the XML parser reads the body  *)
(* to its end, unless an error in it makes the parser give up earlier.     *)
SoapProcess(c) ==
  /\ spc[c] = "func" /\ Services[service[c]].func = "soap"
  /\ \E left \in {input[c]} \cup BodyRead(input[c], req[c]) :
       /\ req[c].method # "POST" => left = input[c]
       /\ req[c].method = "POST" /\ req[c].body = "xml" => left \in BodyRead(input[c], req[c])
       /\ input' = [input EXCEPT ![c] = left]
  /\ UNCHANGED <<shared, req, service, done, copy, sent>>
  /\ SendWithLength(c, service[c], TRUE,
                    IF req[c].method = "POST" THEN "document" ELSE "501")
  /\ Goto(c, "account")

AdminRuns(c, action) ==
  /\ spc[c] = "func" /\ Services[service[c]].func = "admin"
  /\ (IF req[c].method = "GET" THEN req[c].action ELSE "none") = action

\* _httpd_admin_entry: a page with links, or the refusal of other methods.
AdminPage(c) ==
  /\ AdminRuns(c, "none")
  /\ UNCHANGED <<shared, req, service, done, copy, input, sent>>
  /\ SendPage(c, service[c])
  /\ Goto(c, "account")

\* _httpd_admin_enable_service, _httpd_admin_disable_service
AdminSwitch(c) ==
  /\ \E on \in BOOLEAN :
       /\ AdminRuns(c, IF on THEN "activate" ELSE "passivate")
       /\ LET s == httpd_find_service(req[c].target)
          IN  up' = IF s = 0 THEN up ELSE [up EXCEPT ![s] = on]
  /\ UNCHANGED <<default, statistics, locks, req, service, done, copy, input, sent>>
  /\ SendPage(c, service[c])
  /\ Goto(c, "account")

\* _httpd_admin_list_statistics: "Service not found!"
AdminFindsNothing(c) ==
  /\ AdminRuns(c, "statistics") /\ httpd_find_service(req[c].target) = 0
  /\ UNCHANGED <<shared, req, service, done, copy, input, sent>>
  /\ SendPage(c, service[c])
  /\ Goto(c, "account")

\* Fault: the statistics are read without the lock.
AdminReadLockNone(c) ==
  /\ AdminRuns(c, "statistics")
  /\ LET s == httpd_find_service(req[c].target)
     IN  /\ s # 0
         /\ readers' = [readers EXCEPT ![s] = @ \cup {c}]
         /\ copy' = [copy EXCEPT ![c] = [statistics[s] EXCEPT !.time = << >>]]
  /\ Goto(c, "reading")
  /\ UNCHANGED <<default, up, statistics, writer, req, service, done, header,
                 out, input, sent, log>>

\* pthread_rwlock_rdlock, and the loads of the counts ...
AdminReadLock(c) ==
  /\ AdminRuns(c, "statistics")
  /\ LET s == httpd_find_service(req[c].target)
     IN  /\ s # 0 /\ writer[s] = NoConn
         /\ readers' = [readers EXCEPT ![s] = @ \cup {c}]
         /\ copy' = [copy EXCEPT ![c] = [statistics[s] EXCEPT !.time = << >>]]
  /\ Goto(c, "reading")
  /\ UNCHANGED <<default, up, statistics, writer, req, service, done, header,
                 out, input, sent, log>>

\* Fault: the function returns without giving the lock back.
AdminReadUnlockNot(c) ==
  /\ spc[c] = "reading"
  /\ LET s == httpd_find_service(req[c].target)
     IN  copy' = [copy EXCEPT ![c].time = statistics[s].time]
  /\ UNCHANGED <<shared, req, service, done, input, sent>>
  /\ SendPage(c, service[c])
  /\ Goto(c, "account")

\* ... of the time, pthread_rwlock_unlock, and the page is sent.
AdminReadUnlock(c) ==
  /\ spc[c] = "reading"
  /\ LET s == httpd_find_service(req[c].target)
     IN  /\ copy' = [copy EXCEPT ![c].time = statistics[s].time]
         /\ readers' = [readers EXCEPT ![s] = @ \ {c}]
  /\ UNCHANGED <<default, up, statistics, writer, req, service, done, input, sent>>
  /\ SendPage(c, service[c])
  /\ Goto(c, "account")

-----------------------------------------------------------------------------
(*                         Accounting and going on                         *)

(* What is added for an answer: the byte counters of the connection, which *)
(* no request resets, and the time since its session began. They cover the *)
(* connection's earlier answers too, whatever service gave them.           *)
Total(c) == <<c, Len(log[c])>>

\* The second pthread_rwlock_wrlock, and the sums of bytes.
AccountLock(c) ==
  /\ spc[c] = "account" /\ Unlocked(service[c])
  /\ writer' = [writer EXCEPT ![service[c]] = c]
  /\ statistics' = [statistics EXCEPT ![service[c]].bytes = Append(@, Total(c))]
  /\ copy' = [copy EXCEPT ![c] = NoStatistics]
  /\ Goto(c, "accounting")
  /\ UNCHANGED <<default, up, readers, req, service, done, header, out,
                 input, sent, log>>

\* timeradd, pthread_rwlock_unlock; an answer without a length is the last.
AccountUnlock(c) ==
  /\ spc[c] = "accounting"
  /\ statistics' = [statistics EXCEPT ![service[c]].time = Append(@, Total(c))]
  /\ writer' = [writer EXCEPT ![service[c]] = NoConn]
  /\ done' = [done EXCEPT ![c] = @ \/ out[c] = "close"]
  /\ Loop(c)
  /\ UNCHANGED <<default, up, readers, req, service, header, out, copy, input,
                 sent, log>>

\* httpd_free and hsocket_close; nobody reads the rest of the input.
Close(c) ==
  /\ spc[c] = "close"
  /\ input' = [input EXCEPT ![c] = << >>]
  /\ Goto(c, "ended")
  /\ UNCHANGED <<shared, req, service, done, header, out, copy, sent, log>>

httpd_session_main(c) ==
  \/ ReadRequest(c) \/ ReadMalformed(c) \/ Misread(c) \/ ReadFails(c)
  \/ FindService(c) \/ ServiceDown(c) \/ NoService(c)
  \/ CountLock(c) \/ CountUnlock(c)
  \/ Authenticate(c) \/ Unauthorized(c) \/ NotImplemented(c)
  \/ SoapProcess(c) \/ AdminPage(c) \/ AdminSwitch(c) \/ AdminFindsNothing(c)
  \/ AdminReadLock(c) \/ AdminReadUnlock(c)
  \/ AccountLock(c) \/ AccountUnlock(c)
  \/ Close(c)

Next == \E c \in Conns : httpd_session_main(c)

Spec == Init /\ [][Next]_vars

\* Every session thread is scheduled; a lock that is free is got.
FairSpec == Spec /\ \A c \in Conns : WF_vars(httpd_session_main(c))

-----------------------------------------------------------------------------
(*                               Properties                                *)

SessionPC == {"read", "find", "count", "counting", "auth", "func", "reading",
              "account", "accounting", "close", "ended"}

Sums == Seq(Conns \X Nat)
Statistics == [requests : Nat, bytes : Sums, time : Sums]
Lengths == Bodies \cup {NoLength}
Answers == [req : Requests, by : {0} \cup ServiceIds, ran : BOOLEAN,
            body : Bodies, declared : Lengths, left : BOOLEAN]

\* Every variable has its type.
TypeOK ==
  /\ default \in Defaults
  /\ up \in [ServiceIds -> BOOLEAN]
  /\ statistics \in [ServiceIds -> Statistics]
  /\ writer \in [ServiceIds -> Conns \cup {NoConn}]
  /\ readers \in [ServiceIds -> SUBSET Conns]
  /\ sent \in Workloads
  /\ input \in [Conns -> Seq([kind : {"head", "rest", "body"}, req : Requests])]
  /\ spc \in [Conns -> SessionPC]
  /\ req \in [Conns -> Requests]
  /\ service \in [Conns -> {0} \cup ServiceIds]
  /\ done \in [Conns -> BOOLEAN]
  /\ header \in [Conns -> Lengths]
  /\ out \in [Conns -> {"NULL", "close", "length"}]
  /\ copy \in [Conns -> Statistics]
  /\ log \in [Conns -> Seq(Answers)]

Answered(P(_)) ==
  Cardinality(UNION {{c} \X {i \in DOMAIN log[c] : P(log[c][i])} : c \in Conns})
At(s, labels) == Cardinality({c \in Conns : service[c] = s /\ spc[c] \in labels})

\* The answers of a service's function that have been accounted for.
Accounted(s) ==
  UNION {{c} \X {i \in DOMAIN log[c] :
                   /\ log[c][i].by = s /\ log[c][i].ran
                   /\ i = Len(log[c]) => spc[c] \notin {"account", "accounting"}} : c \in Conns}

(* No session's update of a service's statistics is lost to another one's: *)
(* what is answered or under way has been counted once, and for each       *)
(* answer of its function, what the connection's counters and its          *)
(* session's clock showed has been added once.                             *)
StatisticsExact ==
  \A s \in ServiceIds :
    LET time == statistics[s].time
    IN  /\ statistics[s].requests =
             Answered(LAMBDA a : a.by = s) + At(s, {"auth", "func", "reading"})
        /\ {time[i] : i \in DOMAIN time} = Accounted(s)
        /\ \A i, j \in DOMAIN time : i # j => time[i] # time[j]

(* What the admin page shows of a service is a moment of its statistics:   *)
(* bytes and time of the same requests, none of them uncounted.            *)
SnapshotConsistent ==
  \A c \in Conns :
    spc[c] = "account" /\ log[c][Len(log[c])].req.action = "statistics" =>
      copy[c].bytes = copy[c].time /\ Len(copy[c].time) <= copy[c].requests

(* The function of a secured service runs for requests whose own           *)
(* credentials were accepted, wherever they are on their connection.       *)
Authorised ==
  \A c \in Conns : \A i \in DOMAIN log[c] :
    log[c][i].ran /\ Services[log[c][i].by].auth => log[c][i].req.cred

(* A connection goes on only behind an answer whose end the client can     *)
(* tell, and only if the client did not ask for its end.                   *)
Delimited(c) ==
  spc[c] = "read" /\ log[c] # << >> =>
    LET last == log[c][Len(log[c])]
    IN  last.declared # NoLength /\ ~last.req.close

(* The answers on a connection answer its requests in their order, until   *)
(* one leaves something of its request unread: its body, or what its head  *)
(* has beyond MAX_HEADER_SIZE. Until then, what there is to read when a    *)
(* request is expected are the requests not yet answered.                  *)
InStep ==
  \A c \in Conns :
    LET inStep(i) == \A j \in 1 .. i : ~log[c][j].left
    IN  /\ \A i \in DOMAIN log[c] :
             inStep(i - 1) => i <= Len(sent[c]) /\ log[c][i].req \in AsRead(sent[c][i])
        /\ spc[c] = "read" /\ inStep(Len(log[c])) =>
             input[c] = UnitsFrom(sent[c], Len(log[c]) + 1)
        /\ Delimited(c)

\* Sessions never wait for each other's locks for ever.
SessionsEnd == \A c \in Conns : <>(spc[c] = "ended")

(* What the documentation says, and the code does not do.                  *)

(* "The Content-Length entity-header field indicates the size of the       *)
(* entity-body [...] sent to the recipient" (HEADER_CONTENT_LENGTH).       *)
LengthMatchesBody ==
  \A c \in Conns : \A i \in DOMAIN log[c] :
    log[c][i].declared \in {NoLength, log[c][i].body}

=============================================================================
