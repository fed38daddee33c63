------------------------------ MODULE SoapCall ------------------------------
(***************************************************************************)
(* SOAP calls from end to end: soap_client_invoke (libcsoap/soap-client.c),*)
(* the transports (soap-transport.c, soap-nhttp.c, soap-nudp.c), the       *)
(* server with its routers and services (soap-server.c, soap-router.c,     *)
(* soap-service.c) and the network in between.                             *)
(*                                                                         *)
(* Every client is a process of its own. The server process has a main     *)
(* thread, which registers, runs and destroys, one UDP thread, and one     *)
(* thread per HTTP session. A call is named <<client, n>>. HTTP is a       *)
(* connection that carries a request and its answer or breaks; UDP loses,  *)
(* doubles and reorders.                                                   *)
(***************************************************************************)
EXTENDS SoapEnvelope, FiniteSets

CONSTANTS Clients,
          Scenarios,   \* what the server registers, with routers it has made,
                       \* what each application asks for, the command line
                       \* and what xmlsec answers
          MaxCalls,    \* calls of a client at most
          MaxFaults,   \* datagrams lost or doubled, connections broken
          MaxSockets   \* descriptors a client process has for UDP

\* A name with "Response" behind it is not "Fault"; the C library's users pass
\* the handle of a router that soap_router_new has returned.
ASSUME CallAssumption ==
  /\ MaxCalls \in Nat /\ MaxFaults \in Nat /\ MaxSockets \in Nat
  /\ "server" \notin Clients /\ Response(EncryptedData) # Fault
  /\ \A s \in Scenarios :
       /\ \A c \in Clients : /\ s.work[c] \in Seq(ToSet(s.work[c]))
                             /\ Len(s.work[c]) <= MaxCalls
                             /\ \A r \in ToSet(s.work[c]) : Response(r.method) # Fault
       /\ s.program \in Seq(ToSet(s.program))
       /\ \A i \in DOMAIN s.program : s.program[i].op # "new" =>
            s.program[i].router \in 1 .. Cardinality({k \in 1 .. i - 1 : s.program[k].op = "new"})
       /\ {s.cfg.enabled, s.cfg.encrypts, s.cfg.signs, s.cfg.forceEncrypt,
           s.cfg.forceVerify, s.cfg.forceSign} \subseteq BOOLEAN
       /\ s.cfg.uuid \subseteq Clients \cup {"server"}

VARIABLES
  server,    \* the main thread: pc, and the registrations it has still to make
  routers,   \* the struct SoapRouters
  registry,  \* the list from `head` in soap-server.c
  udp,       \* the thread of soap_nudp_server_run
  jobs,      \* soap_server_process as it runs, in any thread
  net,       \* datagrams on their way or in a socket
  clients,   \* each client's context, call and last result
  cfg,       \* the command line, and which processes' builds have uuid_create
  spent,     \* of MaxFaults, and history: how often each request was doubled
  served     \* history: what services did for each call

vars == <<server, routers, registry, udp, jobs, net, clients, cfg, spent, served>>

Calls == Clients \X (1 .. MaxCalls)
NoEnv == Document(<< >>, << >>, "none")
ServerPort == <<"server", 0>>
Http == << >>               \* where an HTTP session answers: its connection
NoService == [urn |-> "", method |-> "", func |-> "", status |-> "none"]
Outcomes == {"response", "fault", "nothing", "error"}

-----------------------------------------------------------------------------
(* Transports of a client. The walk of soap_transport_add comes to the     *)
(* second entry and stays there: with three it never ends.                 *)
soap_transport_add(list, scheme) == IF Len(list) < 3 THEN Append(list, scheme) ELSE list

soap_client_init == soap_transport_add(soap_transport_add(soap_transport_add(
                      << >>, "https"), "http"), "soap.udp")

Transport(to) == SelectInSeq(soap_client_init, LAMBDA s : s = to.scheme)

-----------------------------------------------------------------------------
(* The server's lists.                                                     *)
service_new(op) == [urn |-> op.urn, method |-> op.method, func |-> op.func, status |-> op.status]

\* Fault: a context that is taken goes to the router that came last.
LastRouter(path) ==
  LET i == SelectLastInSeq(registry, LAMBDA r : r.context = path)
  IN  IF i = 0 THEN 0 ELSE registry[i].router

soap_server_find_router(path) ==
  LET i == SelectInSeq(registry, LAMBDA r : r.context = path)
  IN  IF i = 0 THEN 0 ELSE registry[i].router

soap_router_find_service(r, urn, method) ==
  LET list == routers[r].services
      i == SelectInSeq(list, LAMBDA s : s.urn = urn /\ s.method = method)
  IN  IF i = 0 THEN routers[r].default ELSE list[i]

-----------------------------------------------------------------------------
(* The main thread: soap_router_new, the registrations, soap_server_run,   *)
(* and after httpd_run has returned soap_server_destroy.                   *)
Registering(kind) ==
  /\ server.pc = "setup" /\ server.todo # << >> /\ Head(server.todo).op = kind
  /\ server' = [server EXCEPT !.todo = Tail(@)]
  /\ UNCHANGED <<udp, jobs, net, clients, cfg, spent, served>>

soap_router_new ==
  /\ Registering("new")
  /\ routers' = Append(routers, [services |-> << >>, default |-> NoService])
  /\ UNCHANGED registry

soap_router_register_service ==
  /\ Registering("service")
  /\ LET op == Head(server.todo)
     IN  routers' = [routers EXCEPT ![op.router].services = Append(@, service_new(op))]
  /\ UNCHANGED registry

soap_router_register_default_service ==
  /\ Registering("default")
  /\ LET op == Head(server.todo)
     IN  routers' = [routers EXCEPT ![op.router] =
                       [services |-> Append(@.services, service_new(op)),
                        default |-> service_new(op)]]
  /\ UNCHANGED registry

soap_server_register_router ==
  /\ Registering("register")
  /\ LET op == Head(server.todo)
     IN  registry' = Append(registry, [context |-> op.context, router |-> op.router])
  /\ UNCHANGED routers

MainStep(from, to) ==
  /\ server.pc = from
  /\ server' = [server EXCEPT !.pc = to]
  /\ UNCHANGED <<routers, registry, net, clients, cfg, spent, served>>

\* soap_transport_server_run: pthread_create may fail, and nobody notices.
soap_server_run ==
  /\ server.todo = << >>
  /\ MainStep("setup", "running")
  /\ \E pc \in {"test", "absent"} : udp' = [udp EXCEPT !.pc = pc, !.running = TRUE]
  /\ UNCHANGED jobs

\* A signal ends httpd_run.
Stop == MainStep("running", "stopped") /\ UNCHANGED <<udp, jobs>>

\* soap_server_destroy frees the routers first; `head` still names them.
FreeRouters == MainStep("stopped", "freed") /\ UNCHANGED <<udp, jobs>>

\* soap_nudp_server_destroy asks the thread to end and does not wait for it.
soap_server_destroy ==
  /\ MainStep("freed", "destroyed")
  /\ udp' = [udp EXCEPT !.running = FALSE]
  /\ UNCHANGED jobs

\* Fault: what the UDP thread was at is not over.
ExitBusy == MainStep("destroyed", "exited") /\ udp' = [udp EXCEPT !.pc = "ended"] /\ UNCHANGED jobs

Exit ==
  /\ MainStep("destroyed", "exited")
  /\ udp' = [udp EXCEPT !.pc = "ended"]
  /\ jobs' = {}

Alive == server.pc # "exited"

\* Without uuid_create the new MessageID is printed into a string literal.
Nameless(j) ==
  j.at = "complete" /\ soap_addressing_get_message_id(j.env) = Null /\ "server" \notin cfg.uuid

\* A lookup in freed routers, a router freed under each of its contexts, a
\* stranger's datagram without a To, herror_release of an unset status.
Undefined ==
  \/ server.pc \in {"freed", "destroyed"} /\ \E j \in jobs : j.at \in {"route", "call"}
  \/ server.pc = "freed" /\ \E i, k \in DOMAIN registry :
                                i # k /\ registry[i].router = registry[k].router
  \/ udp.pc \in {"receive", "release"}
  \/ \E j \in jobs : Nameless(j)

Crash ==
  /\ Alive /\ Undefined
  /\ server' = [server EXCEPT !.pc = "exited"]
  /\ udp' = [udp EXCEPT !.pc = "ended"]
  /\ jobs' = {}
  /\ UNCHANGED <<routers, registry, net, clients, cfg, spent, served>>

-----------------------------------------------------------------------------
(* soap_server_process, in three steps: up to the call of the service,     *)
(* which runs without a lock, the service, and the answer.                 *)
Destination(env) == soap_addressing_get_to_address(env)

Router(env) == IF Destination(env) = Null THEN 0 ELSE soap_server_find_router(Destination(env).path)

Service(env, r) ==
  IF r = 0 THEN NoService
  ELSE soap_router_find_service(r, soap_env_find_urn(env), soap_env_find_methodname(env))

\* Why no service is called for a request, "" if one is.
Reason(env, r, service) ==
  IF soap_env_find_methodname(env) = "none" THEN "NoUrnFound"
  ELSE IF Destination(env) = Null THEN "DestinationMissing"
  ELSE IF r = 0 THEN "NoRouter"
  ELSE IF service = NoService THEN "NoService"
  ELSE IF service.status # "up" THEN "ServiceDown"
  ELSE ""

Verified(env) == ~cfg.enabled \/ soap_xmlsec_verify(env)
Decryptable(env) == ~cfg.enabled \/ DecryptPossible(env)
Plain(env) == IF cfg.enabled THEN soap_xmlsec_decrypt(env) ELSE env

_soap_server_fillup_header(env, call) ==
  LET e == IF soap_addressing_get_message_id(env) = Null
             THEN soap_addressing_set_message_id_string(env, Id("server", call[2])) ELSE env
  IN  IF soap_addressing_get_from_address(e) = Null
        THEN soap_addressing_set_from_address_string(e, Uri("name", "server")) ELSE e

Encrypts(env) == cfg.enabled /\ cfg.encrypts /\ EncryptPossible(env)

Secured(env) ==
  LET e == IF Encrypts(env) THEN soap_xmlsec_encrypt(env) ELSE env
  IN  IF cfg.enabled THEN soap_xmlsec_sign(e, cfg.signs) ELSE e

JobStep(j, k) ==
  /\ jobs' = (jobs \ {j}) \cup {k}
  /\ UNCHANGED <<server, routers, registry, udp, net, clients, cfg, spent>>

Reply(j, at, env) == JobStep(j, [j EXCEPT !.at = at, !.env = env])

Route(j) ==
  /\ j.at = "route"
  /\ \E env \in {Plain(j.env)} : \E r \in {Router(env)} : \E service \in {Service(env, r)} :
       IF ~Verified(j.env) \/ ~Decryptable(j.env)
         THEN Reply(j, "send", soap_env_new_with_fault("Unreadable"))
       ELSE IF Reason(env, r, service) # ""
         THEN Reply(j, "complete", soap_env_new_with_fault(Reason(env, r, service)))
       ELSE JobStep(j, [j EXCEPT !.at = "call", !.env = env, !.service = service])
  /\ UNCHANGED served

\* Fault: the error a service returns is not looked at.
AnswerAnyway(env, outcome) ==
  IF outcome = "nothing" THEN soap_env_new_with_fault("NoEnvelope")
  ELSE soap_env_new_with_response(env)

Answer(env, outcome) ==
  CASE outcome = "response" -> soap_env_new_with_response(env)
    [] outcome = "fault"    -> soap_env_new_with_fault("Application")
    [] outcome = "nothing"  -> soap_env_new_with_fault("NoEnvelope")
    [] outcome = "error"    -> soap_env_new_with_fault("ServiceError")

CallService(j) ==
  /\ j.at = "call"
  /\ \E outcome \in Outcomes :
       /\ Reply(j, "complete", Answer(j.env, outcome))
       /\ served' = [served EXCEPT ![j.call] =
            Append(@, [service |-> j.service, outcome |-> outcome,
                       method |-> soap_env_find_methodname(j.env)])]

Sendable(j) == j.at \in {"send", "complete"} /\ ~Nameless(j)

\* What is sent: an answer that says the message was unreadable gets no header.
Completed(j) ==
  IF j.at = "send" THEN {j.env}
  ELSE UNION {{Secured(env)} : env \in {_soap_server_fillup_header(j.env, j.call)}}

-----------------------------------------------------------------------------
(* A client: soap_client_invoke up to the transport.                       *)
Addressed(env, c, n, r) ==
  LET acted == soap_addressing_set_action_string(env, r.action)
      sent == soap_addressing_set_to_address_string(acted, r.url)
      from == soap_addressing_set_from_address_string(sent, Uri("name", c))
  IN  soap_addressing_set_message_id_string(from, Id(c, n))

\* The status of soap_xmlsec_sign is always H_OK: only encryption can be forced.
Unsendable(env) == cfg.enabled /\ cfg.forceEncrypt /\ ~Encrypts(env)

Returned(client, status, env, of) ==
  [client EXCEPT !.pc = "idle", !.status = status, !.answer = env, !.of = of]

Failed(client) == Returned(client, "error", NoEnv, << >>)

\* Fault: the socket of the first call is kept.
SocketReused(c, n) == <<c, 1>>

\* Each call over UDP has a socket of its own, which is never closed.
Socket(c, n) == <<c, n>>

Datagram(to, from, env, call, big) ==
  [to |-> to, from |-> from, env |-> env, call |-> call, whole |-> ~big, copy |-> 0]

NewJob(env, call, from) ==
  [at |-> "route", env |-> env, call |-> call, from |-> from, service |-> NoService]

\* History: what the application means by the call.
NowAsked(asked, r) ==
  IF r.again THEN [asked EXCEPT !.path = IF r.url = Null THEN @ ELSE r.url.path,
                                !.fresh = FALSE, !.big = r.big]
  ELSE [urn |-> r.urn, method |-> r.method, path |-> r.url.path, fresh |-> TRUE, big |-> r.big]

soap_client_invoke(c) ==
    LET old == clients[c]
        r == Head(old.todo)
        n == old.n + 1
        fresh == soap_env_new_with_method(r.urn, r.method)
        ready == Addressed(IF r.again THEN old.ctx ELSE fresh, c, n, r)
        env == Secured(ready)
        to == soap_addressing_get_to_address(env)
        begun == [old EXCEPT !.n = n, !.todo = Tail(@), !.ctx = env,
                    !.asked = NowAsked(@, r)]
        Fails(client) == /\ clients' = [clients EXCEPT ![c] = Failed(client)]
                         /\ UNCHANGED <<jobs, net>>
    IN  /\ old.pc = "idle" /\ old.todo # << >>
        /\ UNCHANGED <<server, routers, registry, udp, cfg, spent, served>>
        /\ IF c \notin cfg.uuid
             THEN /\ clients' = [clients EXCEPT ![c] = [begun EXCEPT !.pc = "dead"]]
                  /\ UNCHANGED <<jobs, net>>
           ELSE IF Unsendable(ready) THEN Fails([begun EXCEPT !.ctx = ready])
           ELSE IF to = Null \/ Transport(to) = 0 THEN Fails(begun)
           ELSE IF to.scheme = "soap.udp"
             THEN IF old.sockets = MaxSockets THEN Fails(begun)
                  ELSE /\ clients' = [clients EXCEPT ![c] =
                            [begun EXCEPT !.pc = "udp", !.sockets = @ + 1]]
                       /\ net' = net \cup
                            {Datagram(ServerPort, Socket(c, n), env, <<c, n>>, r.big)}
                       /\ UNCHANGED jobs
           ELSE IF server.pc # "running" \/ soap_server_find_router(to.path) = 0
             THEN Fails(begun)
           ELSE /\ clients' = [clients EXCEPT ![c] = [begun EXCEPT !.pc = "http"]]
                /\ jobs' = jobs \cup {NewJob(env, <<c, n>>, Http)}
                /\ UNCHANGED net

\* What soap_client_invoke does with the answer.
Taken(client, env, of) ==
  IF ~Verified(env) /\ cfg.forceVerify THEN Failed(client)
  ELSE Returned(client, "ok", IF Decryptable(env) THEN Plain(env) ELSE env, of)

-----------------------------------------------------------------------------
(* The thread of soap_nudp_server_run.                                     *)
UdpStep(from, to) ==
  /\ Alive /\ udp.pc = from
  /\ udp' = [udp EXCEPT !.pc = to]
  /\ UNCHANGED <<server, routers, registry, clients, cfg, spent, served>>

\* Fault: the thread ends after one datagram.
TestRunningNot == UdpStep("test", "ended") /\ UNCHANGED <<jobs, net>>

TestRunning ==
  /\ UdpStep("test", IF udp.running THEN "receive" ELSE "ended")
  /\ UNCHANGED <<jobs, net>>

\* Only the local part of the address is kept.
LocalPart(env) ==
  soap_addressing_set_to_address_string(env, Uri("null", soap_addressing_get_to_address(env).path))

\* A datagram of more than 4095 bytes is cut, and then no XML.
_soap_nudp_receive_document ==
  /\ Alive /\ udp.pc = "receive"
  /\ \E d \in net :
       /\ d.to = ServerPort
       /\ d.whole => Destination(d.env) # Null
       /\ net' = net \ {d}
       /\ udp' = [udp EXCEPT !.pc = IF d.whole THEN "busy" ELSE "release",
                             !.after = IF udp.running THEN @ ELSE @ + 1]
       /\ jobs' = IF d.whole THEN jobs \cup {NewJob(LocalPart(d.env), d.call, d.from)} ELSE jobs
  /\ UNCHANGED <<server, routers, registry, clients, cfg, spent, served>>

\* The unset status that is released may also do no harm.
Released == UdpStep("release", "test") /\ UNCHANGED <<jobs, net>>

\* Fault: the thread goes on to receive.
UdpSendOn(j) ==
  /\ Sendable(j) /\ j.from # Http
  /\ UdpStep("busy", "receive")
  /\ jobs' = jobs \ {j}
  /\ net' = net \cup {Datagram(j.from, ServerPort, env, j.call, FALSE) : env \in Completed(j)}

\* The status of _soap_nudp_send_document is not looked at.
UdpSend(j) ==
  /\ Sendable(j) /\ j.from # Http
  /\ UdpStep("busy", "test")
  /\ jobs' = jobs \ {j}
  /\ net' = net \cup {Datagram(j.from, ServerPort, env, j.call, FALSE) : env \in Completed(j)}

\* An answer finds its client if the connection is still there.
HttpSend(j) ==
  LET c == j.call[1]
      there == clients[c].pc = "http" /\ clients[c].n = j.call[2]
  IN  /\ Sendable(j) /\ j.from = Http
      /\ jobs' = jobs \ {j}
      /\ \E env \in Completed(j) :
           clients' = IF there THEN [clients EXCEPT ![c] = Taken(@, env, j.call)] ELSE clients
      /\ UNCHANGED <<server, routers, registry, udp, net, cfg, spent, served>>

-----------------------------------------------------------------------------
(* The client's end, and the network.                                      *)
ClientStep(c, client) ==
  /\ clients' = [clients EXCEPT ![c] = client]
  /\ UNCHANGED <<server, routers, registry, udp, jobs, cfg, served>>

\* Fault: who waits for an answer sends the request again.
UdpResend(c) ==
  /\ clients[c].pc = "udp"
  /\ \E n \in {clients[c].n} : net' = net \cup
       {Datagram(ServerPort, Socket(c, n), clients[c].ctx, <<c, n>>, clients[c].asked.big)}
  /\ ClientStep(c, clients[c])
  /\ UNCHANGED spent

\* The first datagram in the socket is the answer.
UdpAnswer(c) ==
  /\ clients[c].pc = "udp"
  /\ \E d \in net :
       /\ d.to = Socket(c, clients[c].n)
       /\ net' = net \ {d}
       /\ ClientStep(c, IF d.whole THEN Taken(clients[c], d.env, d.call) ELSE Failed(clients[c]))
  /\ UNCHANGED spent

\* A reset is an error to hsocket_recv; at an orderly end it reads on for ever.
ConnectionLost(c) ==
  /\ clients[c].pc = "http"
  /\ Alive => spent.faults < MaxFaults
  /\ spent' = IF Alive THEN [spent EXCEPT !.faults = @ + 1] ELSE spent
  /\ \E client \in {Failed(clients[c]), [clients[c] EXCEPT !.pc = "spin"]} : ClientStep(c, client)
  /\ UNCHANGED net

Disturb(dgrams, doubled) ==
  /\ spent.faults < MaxFaults
  /\ spent' = [faults |-> spent.faults + 1, doubled |-> doubled]
  /\ net' = dgrams
  /\ UNCHANGED <<server, routers, registry, udp, jobs, clients, cfg, served>>

Lose == \E d \in net : Disturb(net \ {d}, spent.doubled)
Oversize ==
  \E d \in net : /\ d.to # ServerPort
                 /\ Disturb((net \ {d}) \cup {[d EXCEPT !.whole = FALSE]}, spent.doubled)
Double ==
  \E d \in net : Disturb(net \cup {[d EXCEPT !.copy = @ + 1]},
    IF d.to = ServerPort THEN [spent.doubled EXCEPT ![d.call] = @ + 1] ELSE spent.doubled)

-----------------------------------------------------------------------------
Init ==
  /\ \E s \in Scenarios :
       /\ server = [pc |-> "setup", todo |-> s.program]
       /\ clients = [c \in Clients |->
            [pc |-> "idle", todo |-> s.work[c], ctx |-> NoEnv, n |-> 0, sockets |-> 0,
             asked |-> [urn |-> "", method |-> "", path |-> "", fresh |-> FALSE, big |-> FALSE],
             status |-> "none", answer |-> NoEnv, of |-> << >>]]
       /\ cfg = s.cfg
  /\ routers = << >> /\ registry = << >>
  /\ udp = [pc |-> "absent", running |-> FALSE, after |-> 0]
  /\ jobs = {} /\ net = {}
  /\ spent = [faults |-> 0, doubled |-> [call \in Calls |-> 0]]
  /\ served = [call \in Calls |-> << >>]

Setup == \/ soap_router_new \/ soap_router_register_service
         \/ soap_router_register_default_service \/ soap_server_register_router
Shutdown == Stop \/ FreeRouters \/ soap_server_destroy \/ Exit
Work == \E j \in jobs : Route(j) \/ CallService(j) \/ UdpSend(j) \/ HttpSend(j)
Receive == TestRunning \/ _soap_nudp_receive_document \/ Released
Await(c) == UdpAnswer(c) \/ ConnectionLost(c)

Next == \/ Setup \/ soap_server_run \/ Shutdown \/ Crash
        \/ Work \/ Receive
        \/ \E c \in Clients : soap_client_invoke(c) \/ Await(c)
        \/ Lose \/ Oversize \/ Double

Spec == Init /\ [][Next]_vars

\* Every thread that can go on does; nothing is assumed of calls, signals and faults.
Fairness == /\ WF_vars(Setup) /\ WF_vars(soap_server_run)
            /\ WF_vars(FreeRouters \/ soap_server_destroy \/ Exit)
            /\ WF_vars(Receive)
            /\ \A call \in Calls : WF_vars(\E j \in jobs : /\ j.call = call
                  /\ (Route(j) \/ CallService(j) \/ UdpSend(j) \/ HttpSend(j)))
            /\ WF_vars(Crash /\ \E j \in jobs : Nameless(j))
            /\ \A c \in Clients : WF_vars(UdpAnswer(c)) /\ WF_vars(~Alive /\ ConnectionLost(c))
FairSpec == Spec /\ Fairness

-----------------------------------------------------------------------------
TypeOK ==
  /\ server.pc \in {"setup", "running", "stopped", "freed", "destroyed", "exited"}
  /\ \A i \in DOMAIN registry : registry[i].router \in DOMAIN routers
  /\ udp.pc \in {"absent", "test", "receive", "busy", "release", "ended"}
  /\ (udp.pc = "busy") = (\E j \in jobs : j.from # Http)
  /\ \A c \in Clients : /\ clients[c].pc \in {"idle", "http", "udp", "spin", "dead"}
                        /\ clients[c].n \in 0 .. MaxCalls
                        /\ clients[c].sockets \in 0 .. MaxSockets
  /\ spent.faults \in 0 .. MaxFaults

Succeeded(c) == clients[c].pc = "idle" /\ clients[c].status = "ok"

(* An answer that soap_client_invoke returns was made for that call, though *)
(* answers to earlier calls may come late or twice over UDP.                *)
AnswerIsMine == \A c \in Clients : Succeeded(c) => clients[c].of = <<c, clients[c].n>>

(* A call is executed at most once, and once more for each time the        *)
(* network doubled its request: neither transport sends a request again,   *)
(* whatever is lost.                                                       *)
ExecutedOnce == \A call \in Calls : Len(served[call]) <= 1 + spent.doubled[call]

(* A service that runs is given the method the client called, in the       *)
(* clear, and is the one registered for it: of the router that first took  *)
(* the path of the client's url the first service of that urn and method,  *)
(* or the default if it has none. A context that xmlsec encrypted and that *)
(* is used for a second call is the exception.                             *)
Fits(service, asked) == service.urn = asked.urn /\ service.method = asked.method

FirstFitting(service, r, asked) ==
  \E k \in DOMAIN r.services :
    /\ service = r.services[k] /\ Fits(service, asked)
    /\ \A l \in 1 .. k - 1 : ~Fits(r.services[l], asked)

RegisteredFor(service, asked) ==
  \E i \in DOMAIN registry :
    LET r == routers[registry[i].router]
    IN  /\ registry[i].context = asked.path
        /\ \A k \in 1 .. i - 1 : registry[k].context # asked.path
        /\ \/ FirstFitting(service, r, asked)
           \/ /\ service = r.default
              /\ \A k \in DOMAIN r.services : ~Fits(r.services[k], asked)

Meant(s, asked) == s.method = asked.method /\ RegisteredFor(s.service, asked)

ServedAsAsked ==
  \A c \in Clients :
    LET call == <<c, clients[c].n>>
    IN  clients[c].n > 0 /\ (clients[c].asked.fresh \/ ~cfg.enabled)
          => \A i \in DOMAIN served[call] : Meant(served[call][i], clients[c].asked)

(* What a call returns says what was done: a response that a service gave  *)
(* it, and a fault that no service ran for it or one that ran failed.      *)
DoneFor(c) == {served[<<c, clients[c].n>>][i].outcome : i \in DOMAIN served[<<c, clients[c].n>>]}

ResultMatchesCall ==
  \A c \in Clients : Succeeded(c) =>
    IF FaultBelowBody(clients[c].answer)
      THEN DoneFor(c) = {} \/ DoneFor(c) \cap {"fault", "nothing", "error"} # {}
      ELSE "response" \in DoneFor(c)

(* A message has each addressing header at most once, however often its    *)
(* context was used and whoever filled it in.                              *)
Messages == {d.env : d \in net} \cup {j.env : j \in jobs} \cup {clients[c].ctx : c \in Clients}

HeadersUnique ==
  \A env \in Messages : \A i, k \in DOMAIN env.header :
    env.header[i].name = env.header[k].name => i = k \/ env.header[i].name = "Signature"

(* After soap_server_destroy the UDP thread takes one more datagram at     *)
(* most.                                                                   *)
OneMoreDatagram == udp.after <= 1

(* A call comes back unless something was lost, the request is too big for *)
(* a datagram, the server does not receive any more, or the client cannot  *)
(* make a MessageID.                                                       *)
Excused(c) ==
           \/ spent.faults > 0 \/ server.pc \notin {"setup", "running"}
           \/ udp.pc \in {"absent", "release"} \/ clients[c].asked.big
           \/ c \notin cfg.uuid
CallReturns ==
  \A c \in Clients : clients[c].pc # "idle" /\ ~Excused(c) ~> clients[c].pc = "idle" \/ Excused(c)

-----------------------------------------------------------------------------
(* soap-env.h calls soap_env_get_fault the node pointing to the Fault.     *)
FaultFound ==
  \A c \in Clients : Succeeded(c) /\ FaultBelowBody(clients[c].answer)
    => soap_env_get_fault(clients[c].answer) # 0
=============================================================================
