--------------------------- MODULE SoapCallProofs ---------------------------
(* What holds of SOAP calls for any number of clients, calls and faults,   *)
(* and whatever the scenarios ask for: the answer a call returns was made  *)
(* for it and says what was done, the service that ran is the one that was *)
(* asked for, no call is executed twice unless a datagram was doubled, no  *)
(* header is there twice, and the UDP thread takes one datagram at most    *)
(* after its server's end.                                                 *)
EXTENDS SoapCall, SequenceLemmas, FiniteSetTheorems

CallNames == Clients \X Nat

(* Records keep their fields, so that an update of one leaves the others.  *)
IsClient(x) ==
  /\ DOMAIN x = {"pc", "todo", "ctx", "n", "sockets", "asked", "status", "answer", "of"}
  /\ x.n \in Nat

ClientsFine ==
  /\ DOMAIN clients = Clients
  /\ \A c \in Clients : IsClient(clients[c])
  /\ AnswerIsMine

(* A call over UDP is known by its socket, on the way there and back.      *)
JobFine(j) ==
  /\ DOMAIN j = {"at", "env", "call", "from", "service"}
  /\ j.call \in CallNames
  /\ j.from # Http => j.from = j.call

DatagramFine(d) ==
  /\ DOMAIN d = {"to", "from", "env", "call", "whole", "copy"}
  /\ d.call \in CallNames
  /\ IF d.to = ServerPort THEN d.from = d.call ELSE d.to = d.call

SpentFine ==
  /\ DOMAIN spent = {"faults", "doubled"}
  /\ spent.faults \in Nat
  /\ spent.doubled \in [Calls -> Nat]

CallsFine ==
  /\ ClientsFine
  /\ \A j \in jobs : JobFine(j)
  /\ \A d \in net : DatagramFine(d)
  /\ SpentFine

(* The thread that has seen its server's end does not receive again.       *)
UdpInv ==
  /\ DOMAIN server = {"pc", "todo"}
  /\ DOMAIN udp = {"pc", "running", "after"}
  /\ udp.after \in 0 .. 1
  /\ server.pc = "setup" => udp.pc = "absent"
  /\ server.pc = "setup" \/ udp.running \/ udp.pc = "receive" => udp.after = 0

-----------------------------------------------------------------------------
LEMMA NotServer == ASSUME NEW call \in CallNames PROVE call # ServerPort
BY CallAssumption DEF CallNames, ServerPort

LEMMA InitFine == ASSUME Init PROVE CallsFine /\ UdpInv
<1>1. PICK s \in Scenarios : clients = [c \in Clients |->
            [pc |-> "idle", todo |-> s.work[c], ctx |-> NoEnv, n |-> 0, sockets |-> 0,
             asked |-> [urn |-> "", method |-> "", path |-> "", fresh |-> FALSE, big |-> FALSE],
             status |-> "none", answer |-> NoEnv, of |-> << >>]]
  BY DEF Init
<1>2. DOMAIN server = {"pc", "todo"} /\ net = {} /\ jobs = {} /\ SpentFine
  BY DEF Init, SpentFine
<1>3. udp = [pc |-> "absent", running |-> FALSE, after |-> 0]
  BY DEF Init
<1>4. \A c \in Clients : IsClient(clients[c]) /\ clients[c].status = "none"
  BY <1>1 DEF IsClient
<1>5. CallsFine
  BY <1>1, <1>2, <1>4 DEF CallsFine, ClientsFine, AnswerIsMine, Succeeded
<1>6. UdpInv
  BY <1>2, <1>3 DEF UdpInv
<1>7. QED
  BY <1>5, <1>6

-----------------------------------------------------------------------------
(* What a client's record is once its call is over.                        *)
LEMMA FailedShape ==
  ASSUME NEW x, IsClient(x)
  PROVE  IsClient(Failed(x)) /\ Failed(x).status = "error" /\ Failed(x).n = x.n
BY DEF Failed, Returned, IsClient

LEMMA TakenShape ==
  ASSUME NEW x, IsClient(x), NEW env, NEW of
  PROVE  /\ IsClient(Taken(x, env, of))
         /\ Taken(x, env, of).n = x.n
         /\ Taken(x, env, of).status = "ok" => Taken(x, env, of).of = of
<1>1. \A e : LET r == Returned(x, "ok", e, of) IN IsClient(r) /\ r.n = x.n /\ r.of = of
  BY DEF Returned, IsClient
<1>2. \/ Taken(x, env, of) = Failed(x)
      \/ \E e : Taken(x, env, of) = Returned(x, "ok", e, of)
  BY DEF Taken
<1>3. QED
  BY <1>1, <1>2, FailedShape

LEMMA ClientChange ==
  ASSUME ClientsFine, NEW c \in Clients, NEW x, IsClient(x),
         x.pc = "idle" /\ x.status = "ok" => x.of = <<c, x.n>>,
         clients' = [clients EXCEPT ![c] = x]
  PROVE  ClientsFine'
BY DEF ClientsFine, AnswerIsMine, Succeeded

LEMMA ClientsSame == ASSUME ClientsFine, UNCHANGED clients PROVE ClientsFine'
BY DEF ClientsFine, AnswerIsMine, Succeeded

LEMMA NewDatagram ==
  ASSUME NEW call \in CallNames, NEW env, NEW big
  PROVE  /\ DatagramFine(Datagram(ServerPort, call, env, call, big))
         /\ DatagramFine(Datagram(call, ServerPort, env, call, big))
BY NotServer DEF DatagramFine, Datagram

LEMMA JobChange ==
  ASSUME NEW j, JobFine(j), NEW at, NEW env, NEW service
  PROVE  /\ JobFine([j EXCEPT !.at = at, !.env = env])
         /\ JobFine([j EXCEPT !.at = at, !.env = env, !.service = service])
BY DEF JobFine

-----------------------------------------------------------------------------
(* CallsFine, one lemma for each kind of step. The main thread touches no  *)
(* call but to end them all.                                               *)
LEMMA SpentKept == ASSUME SpentFine, UNCHANGED spent PROVE SpentFine'
BY DEF SpentFine

LEMMA MainKeepsCalls ==
  ASSUME CallsFine, Setup \/ soap_server_run \/ Shutdown \/ Crash
  PROVE  CallsFine'
<1>1. UNCHANGED <<clients, net, spent>> /\ jobs' \in {jobs, {}}
  BY DEF Setup, Shutdown, Crash, Registering, MainStep, soap_router_new, soap_router_register_service,
         soap_router_register_default_service, soap_server_register_router, soap_server_run, Stop,
         FreeRouters, soap_server_destroy, Exit
<1>2. QED
  BY <1>1, ClientsSame, SpentKept DEF CallsFine

LEMMA JobStepFine ==
  ASSUME CallsFine, NEW j \in jobs, NEW k, JobFine(k), JobStep(j, k)
  PROVE  CallsFine'
BY ClientsSame, SpentKept DEF CallsFine, JobStep

LEMMA ServiceKeepsCalls ==
  ASSUME CallsFine, NEW j \in jobs, Route(j) \/ CallService(j)
  PROVE  CallsFine'
<1>1. JobFine(j)
  BY DEF CallsFine
<1>2. ASSUME NEW at, NEW env, Reply(j, at, env) PROVE CallsFine'
  <2>1. JobFine([j EXCEPT !.at = at, !.env = env])
    BY <1>1, JobChange
  <2>2. QED
    BY <1>2, <2>1, JobStepFine DEF Reply
<1>3. ASSUME NEW at, NEW env, NEW service,
             JobStep(j, [j EXCEPT !.at = at, !.env = env, !.service = service])
      PROVE  CallsFine'
  <2>1. JobFine([j EXCEPT !.at = at, !.env = env, !.service = service])
    BY <1>1, JobChange
  <2>2. QED
    BY <1>3, <2>1, JobStepFine
<1>4. CASE Route(j)
  BY <1>2, <1>3, <1>4 DEF Route
<1>5. CASE CallService(j)
  BY <1>2, <1>5 DEF CallService
<1>6. QED
  BY <1>4, <1>5

(* What a call makes of its client: it waits for the answer or has failed. *)
LEMMA InvokedClient ==
  ASSUME CallsFine, NEW c \in Clients, soap_client_invoke(c)
  PROVE  \E x : /\ clients' = [clients EXCEPT ![c] = x]
                /\ IsClient(x)
                /\ x.pc # "idle" \/ x.status = "error"
                /\ x.n = clients[c].n + 1
<1>0. IsClient(clients[c])
  BY DEF CallsFine, ClientsFine
<1> DEFINE old == clients[c]
           r == Head(old.todo)
           ready == Addressed(IF r.again THEN old.ctx ELSE soap_env_new_with_method(r.urn, r.method),
                              c, old.n + 1, r)
           begun == [old EXCEPT !.n = old.n + 1, !.todo = Tail(@), !.ctx = Secured(ready),
                       !.asked = NowAsked(@, r)]
<1>1. IsClient(begun) /\ begun.n = clients[c].n + 1
  BY <1>0 DEF IsClient
<1> HIDE DEF begun, ready
<1> DEFINE failed == Failed([begun EXCEPT !.ctx = ready])
           sent == [begun EXCEPT !.pc = "udp", !.sockets = @ + 1]
           asking == [begun EXCEPT !.pc = "http"]
           dead == [begun EXCEPT !.pc = "dead"]
           Good(x) == /\ IsClient(x) /\ x.n = clients[c].n + 1
                      /\ x.pc # "idle" \/ x.status = "error"
<1>2. \E x \in {failed, Failed(begun), sent, asking, dead} : clients' = [clients EXCEPT ![c] = x]
  BY DEF soap_client_invoke, begun, ready
<1>3. Good(failed)
  <2>1. IsClient([begun EXCEPT !.ctx = ready]) /\ [begun EXCEPT !.ctx = ready].n = begun.n
    BY <1>1 DEF IsClient
  <2>2. QED
    BY <1>1, <2>1, FailedShape
<1>4. Good(Failed(begun))
  BY <1>1, FailedShape
<1>5. Good(sent) /\ Good(asking) /\ Good(dead)
  BY <1>1 DEF IsClient
<1> HIDE DEF failed, sent, asking, dead
<1>6. QED
  BY <1>2, <1>3, <1>4, <1>5

LEMMA InvokeKeepsCalls ==
  ASSUME CallsFine, NEW c \in Clients, soap_client_invoke(c)
  PROVE  CallsFine'
<1> DEFINE call == <<c, clients[c].n + 1>>
<1>1. IsClient(clients[c]) /\ call \in CallNames
  BY DEF CallsFine, ClientsFine, IsClient, CallNames
<1>2. PICK x : /\ clients' = [clients EXCEPT ![c] = x]
               /\ IsClient(x)
               /\ x.pc # "idle" \/ x.status = "error"
  BY InvokedClient
<1>3. \/ UNCHANGED net
      \/ \E env, big : net' = net \cup {Datagram(ServerPort, call, env, call, big)}
  BY DEF soap_client_invoke, Socket
<1>4. \/ UNCHANGED jobs
      \/ \E env : jobs' = jobs \cup {NewJob(env, call, Http)}
  BY DEF soap_client_invoke
<1>5. SpentFine'
  BY SpentKept DEF soap_client_invoke, CallsFine
<1>6. \A env : JobFine(NewJob(env, call, Http))
  BY <1>1 DEF JobFine, NewJob
<1>7. ClientsFine'
  BY <1>2, ClientChange DEF CallsFine
<1>8. QED
  BY <1>1, <1>3, <1>4, <1>5, <1>6, <1>7, NewDatagram DEF CallsFine

LEMMA AnswerKeepsCalls ==
  ASSUME CallsFine, NEW j \in jobs, UdpSend(j) \/ HttpSend(j)
  PROVE  CallsFine'
<1>1. JobFine(j)
  BY DEF CallsFine
<1>2. CASE UdpSend(j)
  <2>1. j.from = j.call /\ j.call \in CallNames
    BY <1>1, <1>2 DEF UdpSend, JobFine
  <2>2. \A env : DatagramFine(Datagram(j.from, ServerPort, env, j.call, FALSE))
    BY <2>1, NewDatagram
  <2>3. ClientsFine'
    BY <1>2, ClientsSame DEF UdpSend, UdpStep, CallsFine
  <2>4. QED
    BY <1>2, <2>2, <2>3, SpentKept DEF CallsFine, UdpSend, UdpStep
<1>3. CASE HttpSend(j)
  <2> DEFINE c == j.call[1]
  <2>1. c \in Clients /\ j.call = <<c, j.call[2]>>
    BY <1>1 DEF JobFine, CallNames
  <2>2. \/ UNCHANGED clients
        \/ /\ clients[c].n = j.call[2]
           /\ \E env : clients' = [clients EXCEPT ![c] = Taken(clients[c], env, j.call)]
    BY <1>3, <2>1 DEF HttpSend, CallsFine, ClientsFine
  <2>3. ClientsFine'
    <3>1. CASE UNCHANGED clients
      BY <3>1, ClientsSame DEF CallsFine
    <3>2. ASSUME clients[c].n = j.call[2], NEW env,
                 clients' = [clients EXCEPT ![c] = Taken(clients[c], env, j.call)]
          PROVE  ClientsFine'
      <4>1. IsClient(clients[c])
        BY <2>1 DEF CallsFine, ClientsFine
      <4> DEFINE x == Taken(clients[c], env, j.call)
      <4>2. IsClient(x) /\ x.n = clients[c].n /\ (x.status = "ok" => x.of = j.call)
        BY <4>1, TakenShape
      <4>3. x.pc = "idle" /\ x.status = "ok" => x.of = <<c, x.n>>
        BY <2>1, <3>2, <4>2
      <4> HIDE DEF x
      <4>4. clients' = [clients EXCEPT ![c] = x]
        BY <3>2 DEF x
      <4>5. QED
        BY <2>1, <4>2, <4>3, <4>4, ClientChange DEF CallsFine
    <3>3. QED
      BY <2>2, <3>1, <3>2
  <2>4. QED
    BY <1>3, <2>3, SpentKept DEF CallsFine, HttpSend
<1>4. QED
  BY <1>2, <1>3

LEMMA ReceiveKeepsCalls == ASSUME CallsFine, Receive PROVE CallsFine'
<1>1. CASE TestRunning \/ Released
  BY <1>1, ClientsSame, SpentKept DEF CallsFine, TestRunning, Released, UdpStep
<1>2. CASE _soap_nudp_receive_document
  <2>1. PICK d \in net :
          /\ d.to = ServerPort
          /\ net' = net \ {d}
          /\ \/ UNCHANGED jobs
             \/ jobs' = jobs \cup {NewJob(LocalPart(d.env), d.call, d.from)}
    BY <1>2 DEF _soap_nudp_receive_document
  <2>2. DatagramFine(d)
    BY DEF CallsFine
  <2>3. \A env : JobFine(NewJob(env, d.call, d.from))
    BY <2>1, <2>2 DEF JobFine, NewJob, DatagramFine
  <2>4. ClientsFine' /\ SpentFine'
    BY <1>2, ClientsSame, SpentKept DEF _soap_nudp_receive_document, CallsFine
  <2>5. QED
    BY <2>1, <2>3, <2>4 DEF CallsFine
<1>3. QED
  BY <1>1, <1>2 DEF Receive

LEMMA AwaitKeepsCalls ==
  ASSUME CallsFine, NEW c \in Clients, Await(c)
  PROVE  CallsFine'
<1>1. IsClient(clients[c])
  BY DEF CallsFine, ClientsFine
<1>2. CASE UdpAnswer(c)
  <2>1. PICK d \in net :
          /\ d.to = Socket(c, clients[c].n)
          /\ net' = net \ {d}
          /\ ClientStep(c, IF d.whole THEN Taken(clients[c], d.env, d.call) ELSE Failed(clients[c]))
    BY <1>2 DEF UdpAnswer
  <2>2. d.call = <<c, clients[c].n>>
    <3>1. d.to \in CallNames
      BY <1>1, <2>1 DEF IsClient, CallNames, Socket
    <3>2. DatagramFine(d)
      BY DEF CallsFine
    <3>3. QED
      BY <2>1, <3>1, <3>2, NotServer DEF DatagramFine, Socket
  <2>3. ClientsFine'
    BY <1>1, <2>1, <2>2, TakenShape, FailedShape, ClientChange DEF CallsFine, ClientStep
  <2>4. QED
    BY <1>2, <2>1, <2>3, SpentKept DEF CallsFine, UdpAnswer, ClientStep
<1>3. CASE ConnectionLost(c)
  <2>1. ClientStep(c, Failed(clients[c])) \/ ClientStep(c, [clients[c] EXCEPT !.pc = "spin"])
    BY <1>3 DEF ConnectionLost
  <2>2. LET x == [clients[c] EXCEPT !.pc = "spin"] IN IsClient(x) /\ x.pc = "spin"
    BY <1>1 DEF IsClient
  <2>3. ClientsFine'
    BY <1>1, <2>1, <2>2, FailedShape, ClientChange DEF CallsFine, ClientStep
  <2>4. UNCHANGED <<jobs, net>>
    BY <1>3, <2>1 DEF ConnectionLost, ClientStep
  <2>5. SpentFine'
    BY <1>3 DEF ConnectionLost, CallsFine, SpentFine
  <2>6. QED
    BY <2>3, <2>4, <2>5 DEF CallsFine
<1>4. QED
  BY <1>2, <1>3 DEF Await

(* What the network does to a datagram leaves its name.                    *)
DoubledBy(d) == IF d.to = ServerPort THEN [spent.doubled EXCEPT ![d.call] = @ + 1] ELSE spent.doubled

LEMMA DoubledGrows ==
  ASSUME CallsFine, NEW d \in net
  PROVE  /\ DoubledBy(d) \in [Calls -> Nat]
         /\ \A call \in Calls : spent.doubled[call] <= DoubledBy(d)[call]
         /\ d.to = ServerPort /\ d.call \in Calls
              => DoubledBy(d)[d.call] = spent.doubled[d.call] + 1
<1>1. PICK f : f = spent.doubled
  OBVIOUS
<1>2. f \in [Calls -> Nat]
  BY <1>1 DEF CallsFine, SpentFine
<1>3. CASE d.to = ServerPort /\ d.call \in Calls
  <2>1. DoubledBy(d) = [f EXCEPT ![d.call] = f[d.call] + 1]
    BY <1>1, <1>3 DEF DoubledBy
  <2>2. f[d.call] \in Nat /\ f[d.call] + 1 \in Nat
    BY <1>2, <1>3
  <2>3. DoubledBy(d) \in [Calls -> Nat] /\ DoubledBy(d)[d.call] = f[d.call] + 1
    BY <1>2, <1>3, <2>1, <2>2
  <2>4. \A call \in Calls : call # d.call => DoubledBy(d)[call] = f[call]
    BY <1>2, <1>3, <2>1
  <2>5. \A call \in Calls : f[call] \in Nat
    BY <1>2
  <2>6. ASSUME NEW call \in Calls PROVE f[call] <= DoubledBy(d)[call]
    BY <2>2, <2>3, <2>4, <2>5
  <2>. QED
    BY <1>1, <2>3, <2>6
<1>4. CASE ~(d.to = ServerPort /\ d.call \in Calls)
  <2>1. DoubledBy(d) = f
    BY <1>1, <1>2, <1>4 DEF DoubledBy
  <2>2. \A call \in Calls : f[call] \in Nat
    BY <1>2
  <2>. QED
    BY <1>1, <1>2, <1>4, <2>1, <2>2
<1>. QED
  BY <1>3, <1>4

LEMMA NetworkKeepsCalls == ASSUME CallsFine, Lose \/ Oversize \/ Double PROVE CallsFine'
<1>1. \A d \in net : \A copy : /\ DatagramFine([d EXCEPT !.whole = FALSE])
                              /\ DatagramFine([d EXCEPT !.copy = copy])
  BY DEF CallsFine, DatagramFine
<1>2. ASSUME NEW dgrams, NEW doubled \in [Calls -> Nat], Disturb(dgrams, doubled),
             \A d \in dgrams : DatagramFine(d)
      PROVE  CallsFine'
  <2>1. SpentFine'
    BY <1>2 DEF Disturb, CallsFine, SpentFine
  <2>2. QED
    BY <1>2, <2>1, ClientsSame DEF Disturb, CallsFine
<1>3. CASE Lose
  BY <1>2, <1>3 DEF Lose, CallsFine, SpentFine
<1>4. CASE Oversize
  <2>1. PICK d \in net : Disturb((net \ {d}) \cup {[d EXCEPT !.whole = FALSE]}, spent.doubled)
    BY <1>4 DEF Oversize
  <2>2. \A e \in (net \ {d}) \cup {[d EXCEPT !.whole = FALSE]} : DatagramFine(e)
    BY <1>1 DEF CallsFine
  <2>3. spent.doubled \in [Calls -> Nat]
    BY DEF CallsFine, SpentFine
  <2>. QED
    BY <1>2, <2>1, <2>2, <2>3
<1>5. CASE Double
  <2>1. PICK d \in net, doubled \in [Calls -> Nat] : Disturb(net \cup {[d EXCEPT !.copy = @ + 1]}, doubled)
    <3>1. PICK d \in net : Disturb(net \cup {[d EXCEPT !.copy = @ + 1]}, DoubledBy(d))
      BY <1>5 DEF Double, DoubledBy
    <3>2. DoubledBy(d) \in [Calls -> Nat]
      BY DoubledGrows
    <3>3. QED
      BY <3>1, <3>2
  <2>2. \A e \in net \cup {[d EXCEPT !.copy = @ + 1]} : DatagramFine(e)
    BY <1>1 DEF CallsFine
  <2>3. QED
    BY <1>2, <2>1, <2>2
<1>6. QED
  BY <1>3, <1>4, <1>5

LEMMA StutterKeepsCalls == ASSUME CallsFine, UNCHANGED vars PROVE CallsFine'
BY ClientsSame, SpentKept DEF CallsFine, vars

LEMMA NextKeepsCalls == ASSUME CallsFine, [Next]_vars PROVE CallsFine'
<1>1. CASE Setup \/ soap_server_run \/ Shutdown \/ Crash
  BY <1>1, MainKeepsCalls
<1>2. CASE Work
  BY <1>2, ServiceKeepsCalls, AnswerKeepsCalls DEF Work
<1>3. CASE Receive
  BY <1>3, ReceiveKeepsCalls
<1>4. CASE \E c \in Clients : soap_client_invoke(c) \/ Await(c)
  BY <1>4, InvokeKeepsCalls, AwaitKeepsCalls
<1>5. CASE Lose \/ Oversize \/ Double
  BY <1>5, NetworkKeepsCalls
<1>6. CASE UNCHANGED vars
  BY <1>6, StutterKeepsCalls
<1>7. QED
  BY <1>1, <1>2, <1>3, <1>4, <1>5, <1>6 DEF Next

(* What soap_client_invoke returns as the answer to a call was made for    *)
(* that call, for any number of clients and calls and however many         *)
(* datagrams are lost, doubled, cut or late: each call has a socket of its *)
(* own, and answers carry the socket of their request.                     *)
THEOREM AnswersMatch == Spec => []AnswerIsMine
<1>1. Init => CallsFine
  BY InitFine
<1>2. CallsFine /\ [Next]_vars => CallsFine'
  BY NextKeepsCalls
<1>3. CallsFine => AnswerIsMine
  BY DEF CallsFine, ClientsFine
<1>4. QED
  BY <1>1, <1>2, <1>3, PTL DEF Spec

-----------------------------------------------------------------------------
LEMMA NextKeepsUdp == ASSUME UdpInv, [Next]_vars PROVE UdpInv'
<1> USE DEF UdpInv
<1>1. CASE Setup
  BY <1>1 DEF Setup, Registering, soap_router_new, soap_router_register_service,
         soap_router_register_default_service, soap_server_register_router
<1>2. CASE soap_server_run
  BY <1>2 DEF soap_server_run, MainStep
<1>3. CASE Shutdown \/ Crash
  BY <1>3 DEF Shutdown, Crash, MainStep, Stop, FreeRouters, soap_server_destroy, Exit
<1>4. CASE Work
  <2>1. ASSUME NEW j \in jobs, Route(j) \/ CallService(j) \/ HttpSend(j) PROVE UNCHANGED <<server, udp>>
    BY <2>1 DEF Route, CallService, HttpSend, Reply, JobStep
  <2>2. ASSUME NEW j \in jobs, UdpSend(j) PROVE UdpInv'
    BY <2>2 DEF UdpSend, UdpStep
  <2>3. QED
    BY <1>4, <2>1, <2>2 DEF Work
<1>5. CASE Receive
  <2>1. CASE TestRunning
    <3>1. UNCHANGED server /\ udp' = [udp EXCEPT !.pc = IF udp.running THEN "receive" ELSE "ended"]
      BY <2>1 DEF TestRunning, UdpStep
    <3>2. CASE udp.running
      <4>1. udp' = [udp EXCEPT !.pc = "receive"] /\ udp.after = 0
        BY <3>1, <3>2
      <4>2. server.pc # "setup"
        BY <2>1 DEF TestRunning, UdpStep
      <4>3. QED
        BY <3>1, <4>1, <4>2
    <3>3. CASE ~udp.running
      <4>1. udp' = [udp EXCEPT !.pc = "ended"]
        BY <3>1, <3>3
      <4>2. udp'.running = udp.running /\ udp'.pc = "ended" /\ udp'.after = udp.after /\ DOMAIN udp' = DOMAIN udp
        BY <4>1
      <4>3. server.pc # "setup"
        BY <2>1 DEF TestRunning, UdpStep
      <4>4. ~udp'.running
        BY <3>3, <4>2
      <4>5. QED
        BY <3>1, <4>2, <4>3, <4>4
    <3>4. QED
      BY <3>2, <3>3
  <2>2. CASE Released
    BY <2>2 DEF Released, UdpStep
  <2>3. CASE _soap_nudp_receive_document
    <3>1. PICK to \in {"busy", "release"} :
            /\ UNCHANGED server /\ udp.pc = "receive"
            /\ udp' = [udp EXCEPT !.pc = to, !.after = IF udp.running THEN @ ELSE @ + 1]
      BY <2>3 DEF _soap_nudp_receive_document
    <3>2. CASE udp.running
      BY <3>1, <3>2
    <3>3. CASE ~udp.running
      <4>1. udp' = [udp EXCEPT !.pc = to, !.after = @ + 1]
        BY <3>1, <3>3
      <4> udp.after = 0 /\ DOMAIN udp = {"pc", "running", "after"}
        BY <3>1
      <4>2. udp'.after = 1 /\ udp'.pc = to /\ udp'.running = udp.running /\ DOMAIN udp' = DOMAIN udp
        BY <4>1
      <4>3. ~udp'.running
        BY <3>3, <4>2
      <4>4. server'.pc # "setup"
        BY <3>1
      <4>5. QED
        BY <3>1, <4>2, <4>3, <4>4
    <3>4. QED
      BY <3>2, <3>3
  <2>4. QED
    BY <1>5, <2>1, <2>2, <2>3 DEF Receive
<1>6. CASE \E c \in Clients : soap_client_invoke(c) \/ Await(c)
  BY <1>6 DEF soap_client_invoke, Await, UdpAnswer, ConnectionLost, ClientStep
<1>7. CASE Lose \/ Oversize \/ Double
  BY <1>7 DEF Lose, Oversize, Double, Disturb
<1>8. CASE UNCHANGED vars
  BY <1>8 DEF vars
<1>9. QED
  BY <1>1, <1>2, <1>3, <1>4, <1>5, <1>6, <1>7, <1>8 DEF Next

(* The thread of soap_nudp_server_run, which tests for the end between two *)
(* datagrams only, takes one more at most once its server is destroyed.    *)
THEOREM UdpStops == Spec => []OneMoreDatagram
<1>1. Init => UdpInv
  BY InitFine
<1>2. UdpInv /\ [Next]_vars => UdpInv'
  BY NextKeepsUdp
<1>3. UdpInv => OneMoreDatagram
  BY DEF UdpInv, OneMoreDatagram
<1>4. QED
  BY <1>1, <1>2, <1>3, PTL DEF Spec

-----------------------------------------------------------------------------
(* At most once: what services have done for a call, what they may still   *)
(* do in a running job, and what requests for it are on the way.           *)
Pending(call) == {j \in jobs : j.call = call /\ j.at \in {"route", "call"}}
Coming(call) == {d \in net : d.to = ServerPort /\ d.call = call}
Executed(call) == IF call \in Calls THEN Len(served[call]) ELSE 0
Weight(call) == Executed(call) + Cardinality(Pending(call)) + Cardinality(Coming(call))

Doubled(call) == spent.doubled[call]
MoreDoubled == \A call \in Calls : Doubled(call) <= Doubled(call)'

Future(call) == clients[call[1]].n < call[2]
Untouched(call) == Executed(call) = 0 /\ Pending(call) = {} /\ Coming(call) = {}

OnceInv ==
  /\ IsFiniteSet(jobs) /\ IsFiniteSet(net)
  /\ DOMAIN served = Calls
  /\ \A call \in Calls : \E S : served[call] \in Seq(S)
  /\ \A call \in Calls : Weight(call) <= 1 + Doubled(call)
  /\ \A call \in CallNames : Future(call) => Untouched(call)

LEMMA DoubledType ==
  ASSUME CallsFine, CallsFine', NEW call \in Calls
  PROVE  call \in CallNames /\ Doubled(call) \in Nat /\ Doubled(call)' \in Nat
<1>1. call \in CallNames
  BY CallAssumption DEF Calls, CallNames
<1>2. SpentFine /\ SpentFine'
  BY DEF CallsFine
<1>3. QED
  BY <1>1, <1>2 DEF SpentFine, Doubled

LEMMA DoubledKept ==
  ASSUME CallsFine, UNCHANGED spent
  PROVE  MoreDoubled /\ \A call \in Calls : Doubled(call)' = Doubled(call)
BY DEF CallsFine, SpentFine, Doubled, MoreDoubled

LEMMA CardAdd ==
  ASSUME NEW T, IsFiniteSet(T), NEW x, NEW U, U \subseteq T \cup {x}
  PROVE  IsFiniteSet(U) /\ Cardinality(U) <= Cardinality(T) + 1
<1>1. IsFiniteSet(T \cup {x}) /\ Cardinality(T \cup {x}) <= Cardinality(T) + 1
  <2>1. Cardinality(T) \in Nat
    BY FS_CardinalityType
  <2>2. /\ IsFiniteSet(T \cup {x})
        /\ Cardinality(T \cup {x}) = IF x \in T THEN Cardinality(T) ELSE Cardinality(T) + 1
    BY FS_AddElement, Zenon
  <2>3. QED
    BY <2>1, <2>2
<1>2. IsFiniteSet(U) /\ Cardinality(U) <= Cardinality(T \cup {x})
  BY <1>1, FS_Subset
<1>3. QED
  BY <1>1, <1>2, FS_CardinalityType

LEMMA CardDrop ==
  ASSUME NEW T, IsFiniteSet(T), NEW x \in T, NEW U, U \subseteq T \ {x}
  PROVE  IsFiniteSet(U) /\ Cardinality(U) <= Cardinality(T) - 1
<1>1. IsFiniteSet(T \ {x}) /\ Cardinality(T \ {x}) = Cardinality(T) - 1
  BY FS_RemoveElement
<1>2. QED
  BY <1>1, FS_Subset

LEMMA CardSame ==
  ASSUME NEW T, IsFiniteSet(T), NEW U, U \subseteq T
  PROVE  IsFiniteSet(U) /\ Cardinality(U) <= Cardinality(T)
BY FS_Subset

LEMMA CardSwap ==
  ASSUME NEW T, IsFiniteSet(T), NEW x \in T, NEW y, NEW U, U \subseteq (T \ {x}) \cup {y}
  PROVE  IsFiniteSet(U) /\ Cardinality(U) <= Cardinality(T)
<1>1. IsFiniteSet(T \ {x}) /\ Cardinality(T \ {x}) = Cardinality(T) - 1
  BY FS_RemoveElement
<1>2. IsFiniteSet(U) /\ Cardinality(U) <= Cardinality(T \ {x}) + 1
  BY <1>1, CardAdd
<1>3. QED
  BY <1>1, <1>2, FS_CardinalityType

(* The weight is a number, and its three parts are.                        *)
LEMMA WeightType ==
  ASSUME OnceInv, NEW call \in CallNames
  PROVE  /\ IsFiniteSet(Pending(call)) /\ Cardinality(Pending(call)) \in Nat
         /\ IsFiniteSet(Coming(call)) /\ Cardinality(Coming(call)) \in Nat
         /\ Executed(call) \in Nat
<1>1. Pending(call) \subseteq jobs /\ Coming(call) \subseteq net
  BY DEF Pending, Coming
<1>2. Executed(call) \in Nat
  BY DEF OnceInv, Executed
<1>3. QED
  BY <1>1, <1>2, FS_Subset, FS_CardinalityType DEF OnceInv

(* A step that adds nothing to do and does nothing.                        *)
LEMMA LighterStep ==
  ASSUME OnceInv, CallsFine, CallsFine', MoreDoubled,
         IsFiniteSet(jobs'), IsFiniteSet(net'), UNCHANGED served,
         \A c \in Clients : clients'[c].n = clients[c].n,
         \A call \in CallNames : Pending(call)' \subseteq Pending(call),
         \A call \in CallNames : Coming(call)' \subseteq Coming(call)
  PROVE  OnceInv'
<1>2. ASSUME NEW call \in Calls PROVE Weight(call)' <= 1 + Doubled(call)'
  <2>0. /\ call \in CallNames /\ Doubled(call) \in Nat /\ Doubled(call)' \in Nat
        /\ Doubled(call) <= Doubled(call)'
    BY DoubledType DEF MoreDoubled
  <2>1. Executed(call)' = Executed(call)
    BY DEF Executed
  <2>2. /\ Cardinality(Pending(call)') \in Nat /\ Cardinality(Coming(call)') \in Nat
        /\ Cardinality(Pending(call)') <= Cardinality(Pending(call))
        /\ Cardinality(Coming(call)') <= Cardinality(Coming(call))
    BY <2>0, WeightType, CardSame, FS_CardinalityType
  <2>3. Weight(call) <= 1 + Doubled(call)
    BY DEF OnceInv
  <2>4. QED
    BY <2>0, <2>1, <2>2, <2>3, WeightType DEF Weight
<1>3. ASSUME NEW call \in CallNames, Future(call)' PROVE Untouched(call)'
  <2>1. call[1] \in Clients
    BY DEF CallNames
  <2>2. Future(call)
    BY <1>3, <2>1 DEF Future
  <2>3. Executed(call)' = Executed(call)
    BY DEF Executed
  <2>4. QED
    BY <2>2, <2>3 DEF OnceInv, Untouched
<1>4. QED
  BY <1>2, <1>3 DEF OnceInv

LEMMA InitOnce == ASSUME Init PROVE OnceInv
<1>1. /\ jobs = {} /\ net = {} /\ spent.doubled = [call \in Calls |-> 0] /\ served = [call \in Calls |-> << >>]
  BY DEF Init
<1>2. \A call \in CallNames : Executed(call) = 0 /\ Pending(call) = {} /\ Coming(call) = {}
  BY <1>1 DEF Executed, Pending, Coming
<1>3. Cardinality({}) = 0 /\ IsFiniteSet({})
  BY FS_EmptySet
<1>4. \A call \in CallNames : Weight(call) = 0
  BY <1>2, <1>3 DEF Weight
<1>5. \A call \in Calls : \E S : served[call] \in Seq(S)
  BY <1>1
<1>6. IsFiniteSet(jobs) /\ IsFiniteSet(net) /\ DOMAIN served = Calls
  BY <1>1, <1>3
<1>7. \A call \in CallNames : Untouched(call)
  BY <1>2 DEF Untouched
<1>8. \A call \in Calls : Weight(call) <= 1 + Doubled(call)
  <2>1. \A call \in Calls : call \in CallNames /\ Doubled(call) = 0
    BY <1>1, CallAssumption DEF Doubled, Calls, CallNames
  <2>2. QED
    BY <1>4, <2>1
<1>9. QED
  BY <1>1, <1>5, <1>6, <1>7, <1>8 DEF OnceInv

(* Completed names one envelope.                                           *)
LEMMA OneAnswer == ASSUME NEW j PROVE \E env : Completed(j) = {env}
BY DEF Completed

LEMMA MainOnce ==
  ASSUME OnceInv, CallsFine, CallsFine', Setup \/ soap_server_run \/ Shutdown \/ Crash
  PROVE  OnceInv'
<1>1. UNCHANGED <<clients, net, spent, served>> /\ jobs' \in {jobs, {}}
  BY DEF Setup, Shutdown, Crash, Registering, MainStep, soap_router_new, soap_router_register_service,
         soap_router_register_default_service, soap_server_register_router, soap_server_run, Stop,
         FreeRouters, soap_server_destroy, Exit
<1>2. IsFiniteSet(jobs') /\ IsFiniteSet(net')
  BY <1>1, FS_EmptySet DEF OnceInv
<1>3. \A call \in CallNames : Pending(call)' \subseteq Pending(call) /\ Coming(call)' = Coming(call)
  BY <1>1 DEF Pending, Coming
<1>4. MoreDoubled
  BY <1>1, DoubledKept
<1>5. QED
  BY <1>1, <1>2, <1>3, <1>4, LighterStep

LEMMA SendOnce ==
  ASSUME OnceInv, CallsFine, CallsFine', NEW j \in jobs, UdpSend(j) \/ HttpSend(j)
  PROVE  OnceInv'
<1>1. JobFine(j)
  BY DEF CallsFine
<1>2. jobs' = jobs \ {j} /\ UNCHANGED <<spent, served>>
  BY DEF UdpSend, HttpSend, UdpStep
<1>3. \/ UNCHANGED net
      \/ \E env : net' = net \cup {Datagram(j.call, ServerPort, env, j.call, FALSE)}
  <2>1. CASE HttpSend(j)
    BY <2>1 DEF HttpSend
  <2>2. CASE UdpSend(j)
    <3>1. PICK env : Completed(j) = {env}
      BY OneAnswer
    <3>2. net' = net \cup {Datagram(j.call, ServerPort, env, j.call, FALSE)}
      BY <1>1, <2>2, <3>1 DEF UdpSend, JobFine
    <3>3. QED
      BY <3>2
  <2>3. QED
    BY <2>1, <2>2
<1>4. IsFiniteSet(jobs') /\ IsFiniteSet(net')
  <2>1. IsFiniteSet(jobs')
    BY <1>2, FS_RemoveElement DEF OnceInv
  <2>2. IsFiniteSet(net')
    BY <1>3, FS_AddElement DEF OnceInv
  <2>3. QED
    BY <2>1, <2>2
<1>5. \A c \in Clients : clients'[c].n = clients[c].n
  <2>1. UNCHANGED clients \/ \E env : clients' = [clients EXCEPT ![j.call[1]] = Taken(@, env, j.call)]
    BY DEF UdpSend, UdpStep, HttpSend
  <2>2. \A c \in Clients : IsClient(clients[c])
    BY DEF CallsFine, ClientsFine
  <2>3. \A c \in Clients : \A env : Taken(clients[c], env, j.call).n = clients[c].n
    BY <2>2, TakenShape
  <2>4. QED
    BY <2>1, <2>3 DEF CallsFine, ClientsFine
<1>6. \A call \in CallNames : Pending(call)' \subseteq Pending(call)
  BY <1>2 DEF Pending
<1>7. \A call \in CallNames : Coming(call)' \subseteq Coming(call)
  <2>1. j.call # ServerPort
    BY <1>1, NotServer DEF JobFine
  <2>2. QED
    BY <1>3, <2>1 DEF Coming, Datagram
<1>8. MoreDoubled
  BY <1>2, DoubledKept
<1>9. QED
  BY <1>2, <1>4, <1>5, <1>6, <1>7, <1>8, LighterStep

LEMMA AwaitOnce ==
  ASSUME OnceInv, CallsFine, CallsFine', NEW c \in Clients, Await(c)
  PROVE  OnceInv'
<1>1. UNCHANGED <<jobs, served>> /\ net' \subseteq net
  BY DEF Await, UdpAnswer, ConnectionLost, ClientStep
<1>2. MoreDoubled
  <2>1. spent'.doubled = spent.doubled
    BY DEF Await, UdpAnswer, ConnectionLost, CallsFine, SpentFine
  <2>2. QED
    BY <2>1 DEF MoreDoubled, Doubled, CallsFine, SpentFine
<1>3. IsFiniteSet(jobs') /\ IsFiniteSet(net')
  BY <1>1, FS_Subset DEF OnceInv
<1>4. \A b \in Clients : clients'[b].n = clients[b].n
  <2>1. \E x : clients' = [clients EXCEPT ![c] = x] /\ x.n = clients[c].n
    <3>1. IsClient(clients[c])
      BY DEF CallsFine, ClientsFine
    <3>2. \A env, of : Taken(clients[c], env, of).n = clients[c].n /\ Failed(clients[c]).n = clients[c].n
      BY <3>1, TakenShape, FailedShape
    <3>3. [clients[c] EXCEPT !.pc = "spin"].n = clients[c].n
      BY <3>1 DEF IsClient
    <3>4. CASE UdpAnswer(c)
      BY <3>2, <3>4 DEF UdpAnswer, ClientStep
    <3>5. CASE ConnectionLost(c)
      BY <3>2, <3>3, <3>5 DEF ConnectionLost, ClientStep
    <3>6. QED
      BY <3>4, <3>5 DEF Await
  <2>2. QED
    BY <2>1 DEF CallsFine, ClientsFine
<1>5. \A call \in CallNames : Pending(call)' \subseteq Pending(call) /\ Coming(call)' \subseteq Coming(call)
  BY <1>1 DEF Pending, Coming
<1>6. QED
  BY <1>1, <1>2, <1>3, <1>4, <1>5, LighterStep

(* Steps that add to one call what they take from it elsewhere.            *)
Heavier(hot) == hot \in Calls => Weight(hot)' <= Weight(hot) + (Doubled(hot)' - Doubled(hot))

LEMMA EvenStep ==
  ASSUME OnceInv, CallsFine, CallsFine', NEW hot \in CallNames,
         IsFiniteSet(jobs'), IsFiniteSet(net'), DOMAIN served' = Calls,
         \A call \in Calls : \E S : served'[call] \in Seq(S),
         \A c \in Clients : clients'[c].n = clients[c].n,
         MoreDoubled, ~Untouched(hot), Heavier(hot),
         \A call \in CallNames : call # hot => Executed(call)' = Executed(call),
         \A call \in CallNames : call # hot => Pending(call)' \subseteq Pending(call),
         \A call \in CallNames : call # hot => Coming(call)' \subseteq Coming(call)
  PROVE  OnceInv'
<1>2. ASSUME NEW call \in Calls PROVE Weight(call)' <= 1 + Doubled(call)'
  <2>0. /\ call \in CallNames /\ Doubled(call) \in Nat /\ Doubled(call)' \in Nat
        /\ Doubled(call) <= Doubled(call)'
    BY DoubledType DEF MoreDoubled
  <2>1. Weight(call) <= 1 + Doubled(call)
    BY DEF OnceInv
  <2>2. CASE call = hot
    <3>1. Weight(call) \in Nat
      BY <2>0, WeightType DEF Weight
    <3>2. Executed(call)' \in Nat
      BY DEF Executed
    <3>3. Pending(call)' \subseteq jobs' /\ Coming(call)' \subseteq net'
      BY DEF Pending, Coming
    <3>4. Cardinality(Pending(call)') \in Nat /\ Cardinality(Coming(call)') \in Nat
      BY <3>3, FS_Subset, FS_CardinalityType
    <3>5. Weight(call)' \in Nat
      BY <3>2, <3>4 DEF Weight
    <3>6. Weight(call)' <= Weight(call) + (Doubled(call)' - Doubled(call))
      BY <2>2 DEF Heavier
    <3>7. QED
      BY <2>0, <2>1, <3>1, <3>5, <3>6
  <2>3. CASE call # hot
    <3>1. Executed(call)' = Executed(call)
      BY <2>0, <2>3
    <3>2. /\ Cardinality(Pending(call)') \in Nat /\ Cardinality(Coming(call)') \in Nat
          /\ Cardinality(Pending(call)') <= Cardinality(Pending(call))
          /\ Cardinality(Coming(call)') <= Cardinality(Coming(call))
      BY <2>0, <2>3, WeightType, CardSame, FS_CardinalityType
    <3>3. /\ Cardinality(Pending(call)) \in Nat /\ Cardinality(Coming(call)) \in Nat
          /\ Executed(call) \in Nat
      BY <2>0, WeightType
    <3>4. QED
      BY <2>0, <2>1, <3>1, <3>2, <3>3, SMTT(30) DEF Weight
  <2>4. QED
    BY <2>2, <2>3
<1>3. ASSUME NEW call \in CallNames, Future(call)' PROVE Untouched(call)'
  <2>1. call[1] \in Clients
    BY DEF CallNames
  <2>2. Future(call)
    BY <1>3, <2>1 DEF Future
  <2>3. Untouched(call) /\ call # hot
    BY <2>2 DEF OnceInv
  <2>4. QED
    BY <2>3 DEF Untouched
<1>4. QED
  BY <1>2, <1>3 DEF OnceInv

LEMMA RouteOnce ==
  ASSUME OnceInv, CallsFine, CallsFine', NEW j \in jobs, Route(j)
  PROVE  OnceInv'
<1>1. JobFine(j)
  BY DEF CallsFine
<1>2. PICK k : JobStep(j, k) /\ k.call = j.call
  <2>1. ASSUME NEW at, NEW env, Reply(j, at, env)
        PROVE  \E k : JobStep(j, k) /\ k.call = j.call
    <3> DEFINE new == [j EXCEPT !.at = at, !.env = env]
    <3>1. JobStep(j, new)
      BY <2>1 DEF Reply
    <3>2. new.call = j.call
      BY <1>1 DEF JobFine
    <3> HIDE DEF new
    <3>3. QED
      BY <3>1, <3>2
  <2>2. ASSUME NEW at, NEW env, NEW service,
               JobStep(j, [j EXCEPT !.at = at, !.env = env, !.service = service])
        PROVE  \E k : JobStep(j, k) /\ k.call = j.call
    <3> DEFINE new == [j EXCEPT !.at = at, !.env = env, !.service = service]
    <3>1. JobStep(j, new)
      BY <2>2
    <3>2. new.call = j.call
      BY <1>1 DEF JobFine
    <3> HIDE DEF new
    <3>3. QED
      BY <3>1, <3>2
  <2>3. QED
    BY <2>1, <2>2 DEF Route
<1>3. jobs' = (jobs \ {j}) \cup {k} /\ UNCHANGED <<clients, net, spent, served>>
  BY <1>2 DEF Route, JobStep
<1>4. j \in Pending(j.call) /\ j.call \in CallNames
  BY <1>1 DEF Route, Pending, JobFine
<1>5. IsFiniteSet(jobs') /\ IsFiniteSet(net')
  BY <1>3, CardSwap DEF OnceInv
<1>6. Pending(j.call)' \subseteq (Pending(j.call) \ {j}) \cup {k}
  BY <1>3 DEF Pending
<1>7. /\ Cardinality(Pending(j.call)') <= Cardinality(Pending(j.call))
      /\ Cardinality(Pending(j.call)') \in Nat
  BY <1>4, <1>6, CardSwap, WeightType, FS_CardinalityType
<1>8. /\ \A call : Executed(call)' = Executed(call) /\ Coming(call)' = Coming(call)
      /\ \A call : call # j.call => Pending(call)' \subseteq Pending(call)
  BY <1>2, <1>3 DEF Executed, Coming, Pending
<1>9. Weight(j.call)' <= Weight(j.call)
  BY <1>4, <1>7, <1>8, WeightType DEF Weight
<1>10. MoreDoubled /\ \A call \in Calls : Doubled(call)' = Doubled(call)
  BY <1>3, DoubledKept
<1>11. ~Untouched(j.call)
  BY <1>4 DEF Untouched
<1>12. Weight(j.call) \in Nat /\ Weight(j.call)' \in Nat
  BY <1>4, <1>7, <1>8, WeightType DEF Weight
<1>13. Heavier(j.call)
  BY <1>9, <1>10, <1>12, DoubledType DEF Heavier
<1>14. /\ DOMAIN served' = Calls
       /\ \A call \in Calls : \E S : served'[call] \in Seq(S)
       /\ \A c \in Clients : clients'[c].n = clients[c].n
       /\ MoreDoubled
  BY <1>3, <1>10 DEF OnceInv
<1>15. QED
  BY <1>4, <1>5, <1>8, <1>11, <1>13, <1>14, EvenStep

LEMMA CallOnce ==
  ASSUME OnceInv, CallsFine, CallsFine', NEW j \in jobs, CallService(j)
  PROVE  OnceInv'
<1>1. JobFine(j)
  BY DEF CallsFine
<1>2. PICK outcome \in Outcomes :
        /\ Reply(j, "complete", Answer(j.env, outcome))
        /\ served' = [served EXCEPT ![j.call] =
             Append(@, [service |-> j.service, outcome |-> outcome,
                        method |-> soap_env_find_methodname(j.env)])]
  BY DEF CallService
<1> DEFINE k == [j EXCEPT !.at = "complete", !.env = Answer(j.env, outcome)]
<1>3. k.call = j.call /\ k.at = "complete"
  BY <1>1 DEF JobFine
<1>4. jobs' = (jobs \ {j}) \cup {k} /\ UNCHANGED <<clients, net, spent>>
  BY <1>2 DEF Reply, JobStep
<1> HIDE DEF k
<1>5. j \in Pending(j.call) /\ j.call \in CallNames
  BY <1>1 DEF CallService, Pending, JobFine
<1>6. IsFiniteSet(jobs') /\ IsFiniteSet(net')
  BY <1>4, CardSwap DEF OnceInv
<1>7. Pending(j.call)' \subseteq Pending(j.call) \ {j}
  BY <1>3, <1>4 DEF Pending
<1>8. /\ Cardinality(Pending(j.call)') <= Cardinality(Pending(j.call)) - 1
      /\ Cardinality(Pending(j.call)') \in Nat
  BY <1>5, <1>7, CardDrop, WeightType, FS_CardinalityType
<1>9. \A call \in CallNames : call # j.call =>
         /\ Executed(call)' = Executed(call)
         /\ Pending(call)' \subseteq Pending(call)
         /\ Coming(call)' \subseteq Coming(call)
  BY <1>2, <1>3, <1>4 DEF Executed, Coming, Pending, OnceInv
<1>10. /\ DOMAIN served' = Calls
       /\ \A call \in Calls : \E S : served'[call] \in Seq(S)
       /\ Executed(j.call)' \in Nat /\ Executed(j.call)' <= Executed(j.call) + 1
  <2>1. DOMAIN served = Calls /\ \A call \in Calls : \E S : served[call] \in Seq(S)
    BY DEF OnceInv
  <2> DEFINE new == [service |-> j.service, outcome |-> outcome,
                     method |-> soap_env_find_methodname(j.env)]
  <2>2. served' = [served EXCEPT ![j.call] = Append(@, new)]
    BY <1>2
  <2> HIDE DEF new
  <2>3. \A call \in Calls : call # j.call => served'[call] = served[call]
    BY <2>1, <2>2
  <2>4. ASSUME j.call \in Calls
        PROVE  /\ \E S : served'[j.call] \in Seq(S)
               /\ Len(served'[j.call]) = Len(served[j.call]) + 1
               /\ Len(served[j.call]) \in Nat
    <3>1. PICK S : served[j.call] \in Seq(S)
      BY <2>1, <2>4
    <3>2. served'[j.call] = Append(served[j.call], new)
      BY <2>1, <2>2, <2>4
    <3>3. served[j.call] \in Seq(S \cup {new})
      BY <3>1
    <3>4. /\ Append(served[j.call], new) \in Seq(S \cup {new})
          /\ Len(Append(served[j.call], new)) = Len(served[j.call]) + 1
          /\ Len(served[j.call]) \in Nat
      BY <3>3
    <3>5. QED
      BY <3>2, <3>4
  <2>5. DOMAIN served' = Calls
    BY <2>1, <2>2
  <2>6. \A call \in Calls : \E S : served'[call] \in Seq(S)
    BY <2>1, <2>3, <2>4
  <2>7. Executed(j.call)' \in Nat /\ Executed(j.call)' <= Executed(j.call) + 1
    BY <2>4 DEF Executed
  <2>8. QED
    BY <2>5, <2>6, <2>7
<1>11. Weight(j.call)' <= Weight(j.call) /\ Weight(j.call) \in Nat /\ Weight(j.call)' \in Nat
  <2>1. Coming(j.call)' = Coming(j.call)
    BY <1>4 DEF Coming
  <2>2. /\ Cardinality(Pending(j.call)) \in Nat /\ Cardinality(Coming(j.call)) \in Nat
        /\ Executed(j.call) \in Nat
    BY <1>5, WeightType
  <2>3. QED
    BY <1>8, <1>10, <2>1, <2>2 DEF Weight
<1>12. MoreDoubled /\ \A call \in Calls : Doubled(call)' = Doubled(call)
  BY <1>4, DoubledKept
<1>13. ~Untouched(j.call)
  BY <1>5 DEF Untouched
<1>14. Heavier(j.call)
  BY <1>11, <1>12, DoubledType DEF Heavier
<1>15. (\A c \in Clients : clients'[c].n = clients[c].n) /\ MoreDoubled
  BY <1>4, <1>12
<1>16. QED
  BY <1>5, <1>6, <1>9, <1>10, <1>13, <1>14, <1>15, EvenStep

LEMMA ReceiveOnce == ASSUME OnceInv, CallsFine, CallsFine', Receive PROVE OnceInv'
<1>1. CASE TestRunning \/ Released
  <2>1. UNCHANGED <<jobs, net, clients, spent, served>>
    BY <1>1 DEF TestRunning, Released, UdpStep
  <2>2. IsFiniteSet(jobs') /\ IsFiniteSet(net') /\ MoreDoubled
    BY <2>1, DoubledKept DEF OnceInv
  <2>3. \A call \in CallNames : Pending(call)' \subseteq Pending(call) /\ Coming(call)' \subseteq Coming(call)
    BY <2>1 DEF Pending, Coming
  <2>4. QED
    BY <2>1, <2>2, <2>3, LighterStep
<1>2. CASE _soap_nudp_receive_document
  <2>1. PICK d, k :
          /\ d \in net /\ d.to = ServerPort
          /\ net' = net \ {d}
          /\ jobs' \subseteq jobs \cup {k}
          /\ k.call = d.call
    <3>1. PICK d \in net :
            /\ d.to = ServerPort
            /\ net' = net \ {d}
            /\ jobs' \subseteq jobs \cup {NewJob(LocalPart(d.env), d.call, d.from)}
      BY <1>2 DEF _soap_nudp_receive_document
    <3> DEFINE k == NewJob(LocalPart(d.env), d.call, d.from)
    <3>2. k.call = d.call
      BY DEF NewJob
    <3> HIDE DEF k
    <3>3. jobs' \subseteq jobs \cup {k}
      BY <3>1 DEF k
    <3>4. QED
      BY <3>1, <3>2, <3>3
  <2> DEFINE hot == d.call
  <2>2. hot \in CallNames /\ d \in Coming(hot)
    BY <2>1 DEF CallsFine, DatagramFine, Coming
  <2>3. UNCHANGED <<clients, spent, served>>
    BY <1>2 DEF _soap_nudp_receive_document
  <2>4. IsFiniteSet(jobs') /\ IsFiniteSet(net')
    BY <2>1, CardAdd, FS_Subset DEF OnceInv
  <2>5. Coming(hot)' \subseteq Coming(hot) \ {d} /\ Pending(hot)' \subseteq Pending(hot) \cup {k}
    BY <2>1 DEF Coming, Pending
  <2>6. /\ Cardinality(Coming(hot)') <= Cardinality(Coming(hot)) - 1
        /\ Cardinality(Pending(hot)') <= Cardinality(Pending(hot)) + 1
        /\ Cardinality(Coming(hot)') \in Nat /\ Cardinality(Pending(hot)') \in Nat
    BY <2>2, <2>5, CardAdd, CardDrop, WeightType, FS_CardinalityType
  <2>7. \A call \in CallNames : call # hot =>
          /\ Executed(call)' = Executed(call)
          /\ Pending(call)' \subseteq Pending(call)
          /\ Coming(call)' \subseteq Coming(call)
    BY <2>1, <2>3 DEF Executed, Coming, Pending
  <2>8. Executed(hot)' = Executed(hot)
    BY <2>3 DEF Executed
  <2>9. MoreDoubled /\ \A call \in Calls : Doubled(call)' = Doubled(call)
    BY <2>3, DoubledKept
  <2>10. Heavier(hot)
    <3> SUFFICES ASSUME hot \in Calls PROVE Weight(hot)' <= Weight(hot) + (Doubled(hot)' - Doubled(hot))
      BY DEF Heavier
    <3>1. Weight(hot)' <= Weight(hot) /\ Weight(hot)' \in Nat /\ Weight(hot) \in Nat
      BY <2>2, <2>6, <2>8, WeightType DEF Weight
    <3>2. Doubled(hot) \in Nat /\ Doubled(hot)' = Doubled(hot)
      BY <2>9, DoubledType
    <3>3. QED
      BY <3>1, <3>2
  <2>11. ~Untouched(hot)
    BY <2>2 DEF Untouched
  <2>12. /\ DOMAIN served' = Calls
         /\ \A call \in Calls : \E S : served'[call] \in Seq(S)
         /\ \A c \in Clients : clients'[c].n = clients[c].n
         /\ MoreDoubled
    BY <2>3, <2>9 DEF OnceInv
  <2> HIDE DEF hot
  <2>13. QED
    BY <2>2, <2>4, <2>7, <2>10, <2>11, <2>12, EvenStep
<1>3. QED
  BY <1>1, <1>2 DEF Receive

(* A new call was nowhere, and is in one place now.                        *)
LEMMA InvokeOnce ==
  ASSUME OnceInv, CallsFine, CallsFine', NEW c \in Clients, soap_client_invoke(c)
  PROVE  OnceInv'
<1>0. PICK new : new = <<c, clients[c].n + 1>>
  OBVIOUS
<1>1. IsClient(clients[c]) /\ new \in CallNames /\ Future(new)
  BY <1>0 DEF CallsFine, ClientsFine, IsClient, CallNames, Future
<1>2. Untouched(new)
  BY <1>1 DEF OnceInv
<1>3. DOMAIN clients = Clients /\ clients'[c].n = clients[c].n + 1
      /\ \A b \in Clients : b # c => clients'[b] = clients[b]
  BY InvokedClient DEF CallsFine, ClientsFine
<1>4. UNCHANGED <<spent, served>>
  BY DEF soap_client_invoke
<1>5. \/ UNCHANGED <<jobs, net>>
      \/ UNCHANGED jobs /\ \E env, big : net' = net \cup {Datagram(ServerPort, new, env, new, big)}
      \/ UNCHANGED net /\ \E env : jobs' = jobs \cup {NewJob(env, new, Http)}
  BY <1>0 DEF soap_client_invoke, Socket
<1>6. PICK k : /\ k.call = new
               /\ \/ jobs' \subseteq jobs /\ net' \subseteq net \cup {k}
                  \/ net' \subseteq net /\ jobs' \subseteq jobs \cup {k}
  <2>1. \A env, big : /\ Datagram(ServerPort, new, env, new, big).call = new
                      /\ NewJob(env, new, Http).call = new
    BY DEF Datagram, NewJob
  <2>2. CASE \E env, big : jobs' = jobs /\ net' = net \cup {Datagram(ServerPort, new, env, new, big)}
    <3>1. PICK env, big : jobs' = jobs /\ net' = net \cup {Datagram(ServerPort, new, env, new, big)}
      BY <2>2
    <3> DEFINE k == Datagram(ServerPort, new, env, new, big)
    <3>2. k.call = new
      BY <2>1
    <3>3. jobs' = jobs /\ net' = net \cup {k}
      BY <3>1
    <3> HIDE DEF k
    <3>4. QED
      BY <3>2, <3>3
  <2>3. CASE net' = net /\ (jobs' = jobs \/ \E env : jobs' = jobs \cup {NewJob(env, new, Http)})
    <3>1. PICK env : jobs' \subseteq jobs \cup {NewJob(env, new, Http)}
      BY <2>3
    <3> DEFINE k == NewJob(env, new, Http)
    <3>2. k.call = new
      BY <2>1
    <3>3. net' = net /\ jobs' \subseteq jobs \cup {k}
      BY <2>3, <3>1
    <3> HIDE DEF k
    <3>4. QED
      BY <3>2, <3>3
  <2>4. QED
    BY <1>5, <2>2, <2>3
<1>7. IsFiniteSet(jobs') /\ IsFiniteSet(net')
  BY <1>6, CardAdd, FS_Subset DEF OnceInv
<1>8. ASSUME NEW call \in CallNames, call # new
      PROVE  /\ Executed(call)' = Executed(call)
             /\ Pending(call)' \subseteq Pending(call)
             /\ Coming(call)' \subseteq Coming(call)
  BY <1>4, <1>6, <1>8 DEF Executed, Pending, Coming
<1>9. Weight(new)' \in Nat /\ Weight(new)' <= 1
  <2>1. Executed(new)' = 0
    <3>1. Executed(new) = 0
      BY <1>2 DEF Untouched
    <3>2. Executed(new)' = Executed(new)
      BY <1>4 DEF Executed
    <3>3. QED
      BY <3>1, <3>2
  <2>2. Pending(new) = {} /\ Coming(new) = {}
    BY <1>2 DEF Untouched
  <2>3. /\ jobs' \subseteq jobs => Pending(new)' \subseteq Pending(new)
        /\ net' \subseteq net => Coming(new)' \subseteq Coming(new)
        /\ jobs' \subseteq jobs \cup {k} => Pending(new)' \subseteq Pending(new) \cup {k}
        /\ net' \subseteq net \cup {k} => Coming(new)' \subseteq Coming(new) \cup {k}
    BY DEF Pending, Coming
  <2>4. \/ Pending(new)' = {} /\ Coming(new)' \subseteq {k}
        \/ Coming(new)' = {} /\ Pending(new)' \subseteq {k}
    BY <1>6, <2>2, <2>3
  <2>5. IsFiniteSet({k}) /\ Cardinality({k}) = 1 /\ Cardinality({}) = 0
    BY FS_Singleton, FS_EmptySet
  <2>6. ASSUME NEW U, U \subseteq {k} PROVE Cardinality(U) \in Nat /\ Cardinality(U) <= 1
    <3>1. IsFiniteSet(U) /\ Cardinality(U) <= Cardinality({k})
      BY <2>5, <2>6, FS_Subset
    <3>2. QED
      BY <2>5, <3>1, FS_CardinalityType
  <2>7. QED
    BY <2>1, <2>4, <2>5, <2>6 DEF Weight
<1>10. ASSUME NEW call \in Calls PROVE Weight(call)' <= 1 + Doubled(call)'
  <2>1. call \in CallNames /\ Doubled(call) \in Nat /\ Doubled(call)' = Doubled(call)
    BY <1>4, DoubledKept, DoubledType
  <2>2. CASE call = new
    BY <1>9, <2>1, <2>2
  <2>3. CASE call # new
    <3>1. Executed(call)' = Executed(call)
      BY <1>8, <2>1, <2>3
    <3>2. /\ Cardinality(Pending(call)') \in Nat /\ Cardinality(Coming(call)') \in Nat
          /\ Cardinality(Pending(call)') <= Cardinality(Pending(call))
          /\ Cardinality(Coming(call)') <= Cardinality(Coming(call))
      BY <1>8, <2>1, <2>3, WeightType, CardSame, FS_CardinalityType
    <3>3. Weight(call) <= 1 + Doubled(call)
      BY DEF OnceInv
    <3>4. /\ Cardinality(Pending(call)) \in Nat /\ Cardinality(Coming(call)) \in Nat
          /\ Executed(call) \in Nat
      BY <2>1, WeightType
    <3>5. QED
      BY <2>1, <3>1, <3>2, <3>3, <3>4 DEF Weight
  <2>4. QED
    BY <2>2, <2>3
<1>11. ASSUME NEW call \in CallNames, Future(call)' PROVE Untouched(call)'
  <2>1. call = <<call[1], call[2]>> /\ call[1] \in Clients /\ call[2] \in Nat
    BY DEF CallNames
  <2>2. Future(call) /\ call # new
    BY <1>0, <1>1, <1>3, <1>11, <2>1 DEF Future, IsClient
  <2>3. Untouched(call)
    BY <2>2 DEF OnceInv
  <2>4. QED
    BY <1>8, <2>2, <2>3 DEF Untouched
<1>12. DOMAIN served' = Calls /\ \A call \in Calls : \E S : served'[call] \in Seq(S)
  BY <1>4 DEF OnceInv
<1>13. QED
  BY <1>7, <1>10, <1>11, <1>12 DEF OnceInv

LEMMA NetworkOnce ==
  ASSUME OnceInv, CallsFine, CallsFine', Lose \/ Oversize \/ Double
  PROVE  OnceInv'
<1>1. UNCHANGED <<jobs, clients, served>>
  BY DEF Lose, Oversize, Double, Disturb
<1>2. MoreDoubled /\ IsFiniteSet(jobs')
  <2>1. CASE Lose \/ Oversize
    <3>1. UNCHANGED spent.doubled
      BY <2>1 DEF Lose, Oversize, Disturb
    <3>2. \A call \in Calls : Doubled(call) \in Nat /\ Doubled(call)' = Doubled(call)
      BY <3>1, DoubledType DEF Doubled
    <3>. QED
      BY <1>1, <3>2 DEF MoreDoubled, OnceInv
  <2>2. CASE Double
    <3>1. PICK d \in net : spent'.doubled = DoubledBy(d)
      BY <2>2 DEF Double, Disturb, DoubledBy
    <3>. QED
      BY <1>1, <3>1, DoubledGrows DEF MoreDoubled, Doubled, OnceInv
  <2>. QED
    BY <2>1, <2>2
<1>3. \A call : Pending(call)' \subseteq Pending(call)
  BY <1>1 DEF Pending
<1>4. ASSUME NEW d \in net, NEW y, net' \subseteq (net \ {d}) \cup {y}, y.to # ServerPort
      PROVE  OnceInv'
  <2>1. IsFiniteSet(net')
    BY <1>4, CardSwap DEF OnceInv
  <2>2. \A call : Coming(call)' \subseteq Coming(call)
    BY <1>4 DEF Coming
  <2>3. QED
    BY <1>1, <1>2, <1>3, <2>1, <2>2, LighterStep
<1>5. CASE Lose
  <2>1. IsFiniteSet(net') /\ net' \subseteq net
    BY <1>5, FS_Subset DEF Lose, Disturb, OnceInv
  <2>2. \A call : Coming(call)' \subseteq Coming(call)
    BY <2>1 DEF Coming
  <2>3. QED
    BY <1>1, <1>2, <1>3, <2>1, <2>2, LighterStep
<1>6. CASE Oversize
  <2>1. PICK d \in net : d.to # ServerPort /\ net' = (net \ {d}) \cup {[d EXCEPT !.whole = FALSE]}
    BY <1>6 DEF Oversize, Disturb
  <2>2. [d EXCEPT !.whole = FALSE].to # ServerPort
    BY <2>1 DEF CallsFine, DatagramFine
  <2>3. QED
    BY <1>4, <2>1, <2>2
<1>7. CASE Double
  <2>1. PICK d \in net :
          net' = net \cup {[d EXCEPT !.copy = @ + 1]} /\ spent'.doubled = DoubledBy(d)
    <3>1. PICK d \in net : Disturb(net \cup {[d EXCEPT !.copy = @ + 1]}, DoubledBy(d))
      BY <1>7, Zenon DEF Double, DoubledBy
    <3>2. PICK dgrams : dgrams = net \cup {[d EXCEPT !.copy = @ + 1]}
      OBVIOUS
    <3>3. net' = dgrams /\ spent' = [faults |-> spent.faults + 1, doubled |-> DoubledBy(d)]
      BY <3>1, <3>2, Zenon DEF Disturb
    <3>4. spent'.doubled = DoubledBy(d)
      BY <3>3
    <3>. QED
      BY <3>2, <3>3, <3>4, Zenon
  <2> DEFINE y == [d EXCEPT !.copy = @ + 1]
  <2>2. y.to = d.to /\ y.call = d.call /\ d.call \in CallNames
    BY DEF CallsFine, DatagramFine
  <2> HIDE DEF y
  <2>3. net' = net \cup {y}
    BY <2>1, Zenon DEF y
  <2>4. IsFiniteSet(net')
    BY <2>3, CardAdd DEF OnceInv
  <2>5. CASE d.to # ServerPort
    <3>1. \A call : Coming(call)' \subseteq Coming(call)
      BY <2>2, <2>3, <2>5 DEF Coming
    <3>2. QED
      BY <1>1, <1>2, <1>3, <2>4, <3>1, LighterStep
  <2>6. CASE d.to = ServerPort
    <3> DEFINE hot == d.call
    <3>1. hot \in CallNames /\ d \in Coming(hot) /\ ~Untouched(hot)
      BY <2>2, <2>6 DEF Coming, Untouched
    <3>2. Coming(hot)' \subseteq Coming(hot) \cup {y} /\ Pending(hot)' \subseteq Pending(hot)
      BY <1>1, <2>3 DEF Coming, Pending
    <3>3. /\ Cardinality(Coming(hot)') <= Cardinality(Coming(hot)) + 1
          /\ Cardinality(Pending(hot)') <= Cardinality(Pending(hot))
          /\ Cardinality(Coming(hot)') \in Nat /\ Cardinality(Pending(hot)') \in Nat
      BY <3>1, <3>2, CardAdd, CardSame, WeightType, FS_CardinalityType
    <3>4. Executed(hot)' = Executed(hot)
      BY <1>1 DEF Executed
    <3>5. Heavier(hot)
      <4> SUFFICES ASSUME hot \in Calls
                   PROVE  Weight(hot)' <= Weight(hot) + (Doubled(hot)' - Doubled(hot))
        BY DEF Heavier
      <4>1. Doubled(hot)' = Doubled(hot) + 1 /\ Doubled(hot) \in Nat
        <5>1. Doubled(hot) \in Nat
          BY DoubledType
        <5>2. spent'.doubled[hot] = spent.doubled[hot] + 1
          BY <2>1, <2>6, DoubledGrows
        <5>. QED
          BY <5>1, <5>2 DEF Doubled
      <4>2. Weight(hot)' <= Weight(hot) + 1 /\ Weight(hot)' \in Nat /\ Weight(hot) \in Nat
        BY <3>1, <3>3, <3>4, WeightType DEF Weight
      <4>3. QED
        BY <4>1, <4>2
    <3>6. \A call \in CallNames : call # hot =>
            /\ Executed(call)' = Executed(call)
            /\ Pending(call)' \subseteq Pending(call)
            /\ Coming(call)' \subseteq Coming(call)
      BY <1>1, <2>2, <2>3 DEF Executed, Coming, Pending
    <3>7. DOMAIN served' = Calls /\ \A call \in Calls : \E S : served'[call] \in Seq(S)
      BY <1>1 DEF OnceInv
    <3> HIDE DEF hot
    <3>8. QED
      BY <1>1, <1>2, <2>4, <3>1, <3>5, <3>6, <3>7, EvenStep
  <2>7. QED
    BY <2>5, <2>6
<1>8. QED
  BY <1>5, <1>6, <1>7

LEMMA StutterOnce == ASSUME OnceInv, CallsFine, CallsFine', UNCHANGED vars PROVE OnceInv'
<1>1. UNCHANGED <<jobs, net, clients, spent, served>>
  BY DEF vars
<1>2. IsFiniteSet(jobs') /\ IsFiniteSet(net') /\ MoreDoubled
  BY <1>1, DoubledKept DEF OnceInv
<1>3. \A call : Pending(call)' \subseteq Pending(call) /\ Coming(call)' \subseteq Coming(call)
  BY <1>1 DEF Pending, Coming
<1>4. QED
  BY <1>1, <1>2, <1>3, LighterStep

LEMMA NextOnce == ASSUME OnceInv, CallsFine, [Next]_vars PROVE OnceInv'
<1>0. CallsFine'
  BY NextKeepsCalls
<1>1. CASE Setup \/ soap_server_run \/ Shutdown \/ Crash
  BY <1>0, <1>1, MainOnce
<1>2. CASE Work
  BY <1>0, <1>2, RouteOnce, CallOnce, SendOnce DEF Work
<1>3. CASE Receive
  BY <1>0, <1>3, ReceiveOnce
<1>4. CASE \E c \in Clients : soap_client_invoke(c) \/ Await(c)
  BY <1>0, <1>4, InvokeOnce, AwaitOnce
<1>5. CASE Lose \/ Oversize \/ Double
  BY <1>0, <1>5, NetworkOnce
<1>6. CASE UNCHANGED vars
  BY <1>0, <1>6, StutterOnce
<1>7. QED
  BY <1>1, <1>2, <1>3, <1>4, <1>5, <1>6 DEF Next

(* No call is executed more than once, and once more for each time the     *)
(* network doubled its request: a request is in one place at a time, on its way, in a job or   *)
(* done, since neither soap_client_invoke nor a transport sends it again,  *)
(* and the server takes each datagram out of its socket.                   *)
THEOREM AtMostOnce == Spec => []ExecutedOnce
<1>1. Init => CallsFine /\ OnceInv
  BY InitFine, InitOnce
<1>2. CallsFine /\ OnceInv /\ [Next]_vars => (CallsFine /\ OnceInv)'
  BY NextKeepsCalls, NextOnce
<1>3. CallsFine /\ OnceInv => ExecutedOnce
  <2> SUFFICES ASSUME CallsFine, OnceInv, NEW call \in Calls 
               PROVE  Len(served[call]) <= 1 + spent.doubled[call]
    BY DEF ExecutedOnce
  <2>1. call \in CallNames
    BY CallAssumption DEF Calls, CallNames
  <2>2. /\ Weight(call) <= 1 + spent.doubled[call] /\ spent.doubled[call] \in Nat
        /\ Executed(call) = Len(served[call])
    BY <2>1 DEF OnceInv, CallsFine, SpentFine, Doubled, Executed
  <2>3. QED
    BY <2>1, <2>2, WeightType DEF Weight
<1>4. QED
  BY <1>1, <1>2, <1>3, PTL DEF Spec

-----------------------------------------------------------------------------

LEMMA LeastNumber ==
  ASSUME NEW T, T \subseteq Nat, T # {}
  PROVE  Min(T) \in T /\ \A y \in T : Min(T) <= y
<1>1. \E x \in T : \A y \in T : x <= y
  BY SomeLeast
<1>. QED
  BY <1>1 DEF Min

(* The first place of a sequence that passes a test, as SelectInSeq finds  *)
(* it.                                                                     *)
LEMMA FirstPlace ==
  ASSUME NEW S, NEW s \in Seq(S), NEW T, T \subseteq 1 .. Len(s), T # {}
  PROVE  Min(T) \in T /\ Min(T) \in DOMAIN s /\ \A k \in 1 .. Min(T) - 1 : k \notin T
<1>1. T \subseteq Nat /\ DOMAIN s = 1 .. Len(s)
  BY LenProperties
<1>2. Min(T) \in T /\ \A y \in T : Min(T) <= y
  BY <1>1, LeastNumber
<1>3. Min(T) \in Nat
  BY <1>1, <1>2
<1>. QED
  BY <1>1, <1>2, <1>3

LEMMA ChildFound ==
  ASSUME NEW S, NEW kids \in Seq(S), NEW name,
         NEW i, i = get_child_element(kids, name)
  PROVE  \/ i = 0 /\ \A k \in DOMAIN kids : kids[k].name # name
         \/ i \in DOMAIN kids /\ kids[i].name = name
<1> DEFINE T == {k \in 1 .. Len(kids) : kids[k].name = name}
<1>1. i = IF T # {} THEN Min(T) ELSE 0
  BY DEF get_child_element, SelectInSeq
<1>2. DOMAIN kids = 1 .. Len(kids)
  BY LenProperties
<1>3. T \subseteq 1 .. Len(kids)
  OBVIOUS
<1>4. CASE T = {}
  BY <1>1, <1>2, <1>4
<1>5. CASE T # {}
  <2>1. Min(T) \in T
    BY <1>3, <1>5, FirstPlace
  <2>. QED
    BY <1>1, <1>2, <1>5, <2>1
<1>. QED
  BY <1>4, <1>5

LEMMA Removed ==
  ASSUME NEW S, NEW s \in Seq(S), NEW i \in 1 .. Len(s), NEW t, t = RemoveAt(s, i)
  PROVE  /\ t \in Seq(S) /\ DOMAIN t = 1 .. Len(s) - 1
         /\ \A k \in DOMAIN t : t[k] = s[IF k < i THEN k ELSE k + 1]
<1> DEFINE a == SubSeq(s, 1, i - 1)
           b == SubSeq(s, i + 1, Len(s))
<1>1. Len(s) \in Nat /\ i \in Int /\ \A k \in 1 .. Len(s) : s[k] \in S
  BY LenProperties, ElementOfSeq
<1>2. a \in Seq(S) /\ Len(a) = i - 1 /\ \A k \in 1 .. i - 1 : a[k] = s[k]
  <2>1. \A k \in 1 .. i - 1 : s[k] \in S
    BY <1>1
  <2>2. 1 \in Int /\ i - 1 \in Int /\ i - 1 - 1 + 1 = i - 1 /\ \A k \in 1 .. i - 1 : 1 + k - 1 = k
    BY <1>1
  <2>3. /\ a \in Seq(S) /\ Len(a) = (IF 1 <= i - 1 THEN (i - 1) - 1 + 1 ELSE 0)
        /\ \A k \in 1 .. (i - 1) - 1 + 1 : a[k] = s[1 + k - 1]
    BY <2>1, <2>2, SubSeqProperties
  <2>. QED
    BY <1>1, <2>2, <2>3
<1>3. b \in Seq(S) /\ Len(b) = Len(s) - i /\ \A k \in 1 .. Len(s) - i : b[k] = s[i + k]
  <2>1. \A k \in i + 1 .. Len(s) : s[k] \in S
    BY <1>1
  <2>2. i + 1 \in Int /\ Len(s) \in Int
    BY <1>1
  <2>3. /\ b \in Seq(S) /\ Len(b) = (IF i + 1 <= Len(s) THEN Len(s) - (i + 1) + 1 ELSE 0)
        /\ \A k \in 1 .. Len(s) - (i + 1) + 1 : b[k] = s[(i + 1) + k - 1]
    BY <2>1, <2>2, SubSeqProperties
  <2>. QED
    BY <1>1, <2>3
<1>4. t = a \o b
  BY DEF RemoveAt
<1> HIDE DEF a, b
<1>5. /\ t \in Seq(S) /\ Len(t) = Len(a) + Len(b)
      /\ \A k \in 1 .. Len(a) + Len(b) : t[k] = IF k <= Len(a) THEN a[k] ELSE b[k - Len(a)]
  <2>1. a \in Seq(S) /\ b \in Seq(S)
    BY <1>2, <1>3
  <2>2. /\ a \o b \in Seq(S) /\ Len(a \o b) = Len(a) + Len(b)
        /\ \A k \in 1 .. Len(a) + Len(b) : (a \o b)[k] = IF k <= Len(a) THEN a[k] ELSE b[k - Len(a)]
    BY <2>1, ConcatProperties, Zenon
  <2>. QED
    BY <1>4, <2>2
<1>6. Len(t) = Len(s) - 1 /\ DOMAIN t = 1 .. Len(s) - 1
  BY SMTT(30), <1>1, <1>2, <1>3, <1>5, LenProperties
<1>7. ASSUME NEW k \in DOMAIN t PROVE t[k] = s[IF k < i THEN k ELSE k + 1]
  <2>1. k \in 1 .. Len(a) + Len(b)
    BY <1>1, <1>2, <1>3, <1>6
  <2>2. CASE k < i
    BY <1>1, <1>2, <1>5, <2>1, <2>2
  <2>3. CASE k >= i
    <3>1. k - (i - 1) \in 1 .. Len(s) - i /\ i + (k - (i - 1)) = k + 1 /\ ~ (k <= i - 1) /\ ~ (k < i)
      BY <1>1, <1>6, <2>3
    <3>. QED
      BY ZenonT(60), <1>2, <1>3, <1>5, <2>1, <3>1
  <2>. QED
    BY <1>1, <1>6, <2>2, <2>3
<1>. QED
  BY <1>5, <1>6, <1>7

-----------------------------------------------------------------------------
(* Messages, and what the library does to them.                            *)
IsHeader(h) ==
  /\ \E S : h \in Seq(S)
  /\ \A i \in DOMAIN h : DOMAIN h[i] = {"name", "val"}

Once(h) == \A i, k \in DOMAIN h : h[i].name = h[k].name => i = k \/ h[i].name = "Signature"

IsMessage(env) ==
  /\ DOMAIN env = {"header", "body", "urn", "layers", "cur"}
  /\ env.layers \in Nat
  /\ IsHeader(env.header) /\ Once(env.header)

SameBody(e, f) == e.body = f.body /\ e.urn = f.urn

LEMMA EntryAdded ==
  ASSUME NEW h, IsHeader(h), Once(h), NEW name, NEW val,
         name = "Signature" \/ \A k \in DOMAIN h : h[k].name # name
  PROVE  IsHeader(Append(h, Entry(name, val))) /\ Once(Append(h, Entry(name, val)))
<1>1. PICK S : h \in Seq(S)
  BY DEF IsHeader
<1>0. PICK e : e = Entry(name, val)
  OBVIOUS
<1>2. e = Entry(name, val) /\ DOMAIN e = {"name", "val"} /\ e.name = name
  BY <1>0 DEF Entry
<1>3. PICK t : t = Append(h, e)
  OBVIOUS
<1>4. h \in Seq(S \cup {e}) /\ Len(h) \in Nat /\ DOMAIN h = 1 .. Len(h)
  BY <1>1, LenProperties
<1>5. /\ t \in Seq(S \cup {e}) /\ DOMAIN t = 1 .. Len(h) + 1
      /\ \A k \in DOMAIN t : t[k] = IF k = Len(h) + 1 THEN e ELSE h[k]
      /\ \A k \in DOMAIN t : k = Len(h) + 1 \/ k \in DOMAIN h
  BY <1>3, <1>4
<1>6. IsHeader(t)
  BY <1>2, <1>5 DEF IsHeader
<1>7. Once(t)
  BY <1>2, <1>5 DEF Once
<1>. QED
  BY <1>2, <1>3, <1>6, <1>7

LEMMA ContentSet ==
  ASSUME NEW h, IsHeader(h), Once(h), NEW name, NEW val
  PROVE  IsHeader(SetContent(h, name, val)) /\ Once(SetContent(h, name, val))
<1>1. PICK S : h \in Seq(S)
  BY DEF IsHeader
<1>2. PICK i : i = get_child_element(h, name)
  OBVIOUS
<1>3. \/ i = 0 /\ \A k \in DOMAIN h : h[k].name # name
      \/ i \in DOMAIN h /\ h[i].name = name
  BY <1>1, <1>2, ChildFound
<1>4. Len(h) \in Nat /\ DOMAIN h = 1 .. Len(h)
  BY <1>1, LenProperties
<1>5. CASE i = 0
  <2>1. \A k \in DOMAIN h : h[k].name # name
    BY <1>3, <1>4, <1>5
  <2>2. \E v : SetContent(h, name, val) = Append(h, Entry(name, v))
    BY <1>2, <1>5 DEF SetContent, add_node
  <2>. QED
    BY <2>1, <2>2, EntryAdded
<1>6. CASE i # 0 /\ val = Null
  BY <1>2, <1>6 DEF SetContent, set_content_uri
<1>7. CASE i # 0 /\ val # Null
  <2>1. PICK t : t = [h EXCEPT ![i].val = val]
    OBVIOUS
  <2>2. SetContent(h, name, val) = t
    BY <1>2, <1>7, <2>1 DEF SetContent, set_content_uri
  <2>3. i \in DOMAIN h
    BY <1>3, <1>7
  <2>4. PICK e : e = [h[i] EXCEPT !.val = val]
    OBVIOUS
  <2>5. DOMAIN e = {"name", "val"} /\ e.name = h[i].name
    BY <2>3, <2>4 DEF IsHeader
  <2>6. t = [h EXCEPT ![i] = e]
    BY <2>1, <2>4
  <2>7. h \in Seq(S \cup {e})
    BY <1>1
  <2>8. t \in Seq(S \cup {e}) /\ DOMAIN t = DOMAIN h
    BY <1>4, <2>3, <2>6, <2>7, ExceptSeq
  <2>9. \A k \in DOMAIN h : t[k] = IF k = i THEN e ELSE h[k]
    BY <2>6
  <2>10. IsHeader(t)
    BY <2>5, <2>8, <2>9 DEF IsHeader
  <2>11. \A k \in DOMAIN h : t[k].name = h[k].name
    BY <2>5, <2>9
  <2>12. Once(t)
    BY <2>8, <2>11 DEF Once
  <2>. QED
    BY <2>2, <2>10, <2>12
<1>. QED
  BY <1>5, <1>6, <1>7

(* The first entry of a name is the only one, and it goes.                 *)
LEMMA EntryUnlinked ==
  ASSUME NEW h, IsHeader(h), Once(h), NEW name, name # "Signature"
  PROVE  /\ IsHeader(Unlinked(h, name)) /\ Once(Unlinked(h, name))
         /\ \A k \in DOMAIN Unlinked(h, name) : Unlinked(h, name)[k].name # name
<1>1. PICK S : h \in Seq(S)
  BY DEF IsHeader
<1>2. PICK i : i = get_child_element(h, name)
  OBVIOUS
<1>3. \/ i = 0 /\ \A k \in DOMAIN h : h[k].name # name
      \/ i \in DOMAIN h /\ h[i].name = name
  BY <1>1, <1>2, ChildFound
<1>4. Len(h) \in Nat /\ DOMAIN h = 1 .. Len(h)
  BY <1>1, LenProperties
<1>5. CASE i = 0
  <2>1. Unlinked(h, name) = h
    BY <1>2, <1>5 DEF Unlinked
  <2>. QED
    BY <1>3, <1>4, <1>5, <2>1
<1>6. CASE i # 0
  <2>1. PICK t : t = RemoveAt(h, i)
    OBVIOUS
  <2>2. Unlinked(h, name) = t
    BY <1>2, <1>6, <2>1 DEF Unlinked
  <2>3. i \in 1 .. Len(h) /\ h[i].name = name
    BY <1>3, <1>4, <1>6
  <2>4. /\ t \in Seq(S) /\ DOMAIN t = 1 .. Len(h) - 1
        /\ \A k \in DOMAIN t : t[k] = h[IF k < i THEN k ELSE k + 1]
    BY <1>1, <2>1, <2>3, Removed
  <2>5. ASSUME NEW k \in DOMAIN t
        PROVE  \E m \in DOMAIN h : t[k] = h[m] /\ m # i /\ m = IF k < i THEN k ELSE k + 1
    BY <1>4, <2>3, <2>4
  <2>6. IsHeader(t)
    BY <2>4, <2>5 DEF IsHeader
  <2>7. \A k \in DOMAIN t : t[k].name # name
    BY <1>4, <2>3, <2>5 DEF Once
  <2>8. ASSUME NEW k \in DOMAIN t, NEW l \in DOMAIN t, t[k].name = t[l].name, t[k].name # "Signature"
        PROVE  k = l
    <3>1. PICK m \in DOMAIN h : t[k] = h[m] /\ m # i /\ m = IF k < i THEN k ELSE k + 1
      BY <2>5
    <3>2. PICK n \in DOMAIN h : t[l] = h[n] /\ n # i /\ n = IF l < i THEN l ELSE l + 1
      BY <2>5
    <3>3. m = n
      BY <2>8, <3>1, <3>2 DEF Once
    <3>. QED
      BY <1>4, <2>3, <2>4, <3>1, <3>2, <3>3
  <2>9. Once(t)
    BY <2>8 DEF Once
  <2>. QED
    BY <2>2, <2>6, <2>7, <2>9
<1>. QED
  BY <1>5, <1>6

LEMMA EntryReplaced ==
  ASSUME NEW h, IsHeader(h), Once(h), NEW name, name # "Signature", NEW val
  PROVE  IsHeader(Replaced(h, name, val)) /\ Once(Replaced(h, name, val))
<1>1. PICK t : t = Unlinked(h, name)
  OBVIOUS
<1>2. IsHeader(t) /\ Once(t) /\ \A k \in DOMAIN t : t[k].name # name
  BY <1>1, EntryUnlinked
<1>3. \E v : Replaced(h, name, val) = Append(t, Entry(name, v))
  BY <1>1 DEF Replaced, add_node
<1>. QED
  BY <1>2, <1>3, EntryAdded

LEMMA HeaderChanged ==
  ASSUME NEW env, IsMessage(env), NEW h, IsHeader(h), Once(h)
  PROVE  /\ IsMessage(OnHeader(env, h)) /\ SameBody(OnHeader(env, h), env)
         /\ OnHeader(env, h).layers = env.layers
BY DEF IsMessage, OnHeader, SameBody

(* soap-addressing.c changes the header only, and no name comes twice.     *)
Kept(e, env) == IsMessage(e) /\ SameBody(e, env) /\ e.layers = env.layers

LEMMA AddressingKeeps ==
  ASSUME NEW env, IsMessage(env), NEW val
  PROVE  /\ Kept(soap_addressing_set_message_id_string(env, val), env)
         /\ Kept(soap_addressing_set_action_string(env, val), env)
         /\ Kept(soap_addressing_set_to_address_string(env, val), env)
         /\ Kept(soap_addressing_set_from_address_string(env, val), env)
<1>1. IsHeader(env.header) /\ Once(env.header)
  BY DEF IsMessage
<1>2. Kept(env, env)
  BY DEF Kept, SameBody
<1>3. \A name : /\ IsHeader(SetContent(env.header, name, val))
                /\ Once(SetContent(env.header, name, val))
  BY <1>1, ContentSet
<1>4. \A name : name # "Signature" => /\ IsHeader(Replaced(env.header, name, val))
                                      /\ Once(Replaced(env.header, name, val))
  BY <1>1, EntryReplaced
<1>5. \A h : IsHeader(h) /\ Once(h) => Kept(OnHeader(env, h), env)
  BY HeaderChanged DEF Kept
<1>6. \A name : Kept(OnHeader(env, SetContent(env.header, name, val)), env)
  BY <1>3, <1>5
<1>7. \A name : name # "Signature" => Kept(OnHeader(env, Replaced(env.header, name, val)), env)
  BY <1>4, <1>5
<1>8. Kept(soap_addressing_set_message_id_string(env, val), env)
  BY <1>6 DEF soap_addressing_set_message_id_string
<1>9. Kept(soap_addressing_set_action_string(env, val), env)
  BY <1>2, <1>6 DEF soap_addressing_set_action_string, soap_addressing_set_action
<1>10. Kept(soap_addressing_set_to_address_string(env, val), env)
  BY <1>2, <1>7 DEF soap_addressing_set_to_address_string, soap_addressing_set_to_address
<1>11. Kept(soap_addressing_set_from_address_string(env, val), env)
  BY <1>7 DEF soap_addressing_set_from_address_string, soap_addressing_set_from_address
<1>. QED
  BY <1>8, <1>9, <1>10, <1>11

LEMMA KeptTwice ==
  ASSUME NEW d, NEW e, NEW f, Kept(d, e), Kept(e, f)
  PROVE  Kept(d, f)
BY DEF Kept, SameBody

LEMMA AddressedKeeps ==
  ASSUME NEW env, IsMessage(env), NEW c, NEW n, NEW r
  PROVE  Kept(Addressed(env, c, n, r), env)
<1>1. PICK acted : acted = soap_addressing_set_action_string(env, r.action)
  OBVIOUS
<1>2. PICK sent : sent = soap_addressing_set_to_address_string(acted, r.url)
  OBVIOUS
<1>3. PICK from : from = soap_addressing_set_from_address_string(sent, Uri("name", c))
  OBVIOUS
<1>4. PICK done : done = soap_addressing_set_message_id_string(from, Id(c, n))
  OBVIOUS
<1>5. Kept(acted, env) /\ IsMessage(acted)
  BY <1>1, AddressingKeeps DEF Kept
<1>6. Kept(sent, acted) /\ IsMessage(sent)
  BY <1>2, <1>5, AddressingKeeps DEF Kept
<1>7. Kept(from, sent) /\ IsMessage(from)
  BY <1>3, <1>6, AddressingKeeps DEF Kept
<1>8. Kept(done, from)
  BY <1>4, <1>7, AddressingKeeps
<1>9. Kept(done, env)
  BY <1>5, <1>6, <1>7, <1>8, KeptTwice
<1>10. Addressed(env, c, n, r) = done
  BY <1>1, <1>2, <1>3, <1>4 DEF Addressed
<1>. QED
  BY <1>9, <1>10

LEMMA FilledKeeps ==
  ASSUME NEW env, IsMessage(env), NEW call
  PROVE  Kept(_soap_server_fillup_header(env, call), env)
<1>1. PICK e : e = IF soap_addressing_get_message_id(env) = Null
             THEN soap_addressing_set_message_id_string(env, Id("server", call[2])) ELSE env
  OBVIOUS
<1>2. PICK f : f = IF soap_addressing_get_from_address(e) = Null
        THEN soap_addressing_set_from_address_string(e, Uri("name", "server")) ELSE e
  OBVIOUS
<1>3. Kept(e, env) /\ IsMessage(e)
  BY <1>1, AddressingKeeps DEF Kept, SameBody
<1>4. Kept(f, e)
  BY <1>2, <1>3, AddressingKeeps DEF Kept, SameBody
<1>5. f = _soap_server_fillup_header(env, call)
  BY <1>1, <1>2 DEF _soap_server_fillup_header
<1>. QED
  BY <1>3, <1>4, <1>5, KeptTwice

LEMMA LocalKeeps ==
  ASSUME NEW env, IsMessage(env)
  PROVE  Kept(LocalPart(env), env)
BY AddressingKeeps DEF LocalPart

(* Encryption hides the method below one more element, decryption takes    *)
(* one away; a signature is one more entry.                                *)
LEMMA SecuredKeeps ==
  ASSUME NEW env, IsMessage(env)
  PROVE  /\ IsMessage(Secured(env)) /\ SameBody(Secured(env), env)
         /\ Secured(env).layers = IF Encrypts(env) THEN env.layers + 1 ELSE env.layers
<1>1. PICK e : e = IF Encrypts(env) THEN soap_xmlsec_encrypt(env) ELSE env
  OBVIOUS
<1>2. IsMessage(e) /\ SameBody(e, env) /\ e.layers = IF Encrypts(env) THEN env.layers + 1 ELSE env.layers
  BY <1>1 DEF soap_xmlsec_encrypt, IsMessage, SameBody
<1>3. Secured(env) = IF cfg.enabled THEN soap_xmlsec_sign(e, cfg.signs) ELSE e
  BY <1>1 DEF Secured
<1>4. Kept(soap_xmlsec_sign(e, cfg.signs), e)
  <2>1. IsHeader(e.header) /\ Once(e.header)
    BY <1>2 DEF IsMessage
  <2>2. \E v : Signature(cfg.signs, e.layers) = Entry("Signature", v)
    BY DEF Signature
  <2>3. PICK h : h = Append(e.header, Signature(cfg.signs, e.layers))
    OBVIOUS
  <2>4. IsHeader(h) /\ Once(h)
    BY <2>1, <2>2, <2>3, EntryAdded
  <2>. QED
    BY <1>2, <2>3, <2>4, HeaderChanged DEF Kept, soap_xmlsec_sign
<1>. QED
  BY <1>2, <1>3, <1>4 DEF Kept, SameBody

LEMMA PlainKeeps ==
  ASSUME NEW env, IsMessage(env)
  PROVE  /\ IsMessage(Plain(env)) /\ SameBody(Plain(env), env)
         /\ Plain(env).layers = IF cfg.enabled /\ env.layers # 0 THEN env.layers - 1 ELSE env.layers
<1>1. PICK e : e = [env EXCEPT !.layers = @ - 1, !.cur = Dangling]
  OBVIOUS
<1>2. env.layers # 0 => IsMessage(e) /\ SameBody(e, env) /\ e.layers = env.layers - 1
  BY <1>1 DEF IsMessage, SameBody
<1>3. Plain(env) = IF cfg.enabled /\ env.layers # 0 THEN e ELSE env
  BY <1>1 DEF Plain, soap_xmlsec_decrypt
<1>. QED
  BY <1>2, <1>3 DEF SameBody

(* The way a message is to go: what the library does to other entries and  *)
(* to the body leaves it.                                                  *)
ToPath(h, path) == \A k \in DOMAIN h : h[k].name = "To" => h[k].val.path = path
Toward(env, path) == ToPath(env.header, path)

LEMMA PathAdded ==
  ASSUME NEW h, IsHeader(h), NEW path, ToPath(h, path), NEW name, NEW val,
         name # "To" \/ val.path = path
  PROVE  ToPath(Append(h, Entry(name, val)), path)
<1>1. PICK S : h \in Seq(S)
  BY DEF IsHeader
<1>2. PICK e : e = Entry(name, val)
  OBVIOUS
<1>3. e.name = name /\ e.val = val
  BY <1>2 DEF Entry
<1>4. PICK t : t = Append(h, e)
  OBVIOUS
<1>5. h \in Seq(S \cup {e}) /\ Len(h) \in Nat /\ DOMAIN h = 1 .. Len(h)
  BY <1>1, LenProperties
<1>6. \A k \in DOMAIN t : t[k] = e \/ (k \in DOMAIN h /\ t[k] = h[k])
  BY <1>4, <1>5
<1>7. ToPath(t, path)
  BY <1>3, <1>6 DEF ToPath
<1>. QED
  BY <1>2, <1>4, <1>7

LEMMA PathContent ==
  ASSUME NEW h, IsHeader(h), NEW path, ToPath(h, path), NEW name, name # "To", NEW val
  PROVE  ToPath(SetContent(h, name, val), path)
<1>1. PICK S : h \in Seq(S)
  BY DEF IsHeader
<1>2. PICK i : i = get_child_element(h, name)
  OBVIOUS
<1>3. i = 0 \/ (i \in DOMAIN h /\ h[i].name = name)
  BY <1>1, <1>2, ChildFound
<1>4. CASE i = 0
  <2>1. \E v : SetContent(h, name, val) = Append(h, Entry(name, v))
    BY <1>2, <1>4 DEF SetContent, add_node
  <2>. QED
    BY <2>1, PathAdded
<1>5. CASE i # 0 /\ val = Null
  BY <1>2, <1>5 DEF SetContent, set_content_uri
<1>6. CASE i # 0 /\ val # Null
  <2>1. PICK e : e = [h[i] EXCEPT !.val = val]
    OBVIOUS
  <2>2. e.name = name
    BY <1>3, <1>6, <2>1 DEF IsHeader
  <2>3. PICK t : t = [h EXCEPT ![i] = e]
    OBVIOUS
  <2>4. SetContent(h, name, val) = t
    BY <1>2, <1>6, <2>1, <2>3 DEF SetContent, set_content_uri
  <2>5. DOMAIN t = DOMAIN h /\ \A k \in DOMAIN h : t[k] = IF k = i THEN e ELSE h[k]
    BY <2>3
  <2>. QED
    BY <2>2, <2>4, <2>5 DEF ToPath
<1>. QED
  BY <1>4, <1>5, <1>6

LEMMA PathUnlinked ==
  ASSUME NEW h, IsHeader(h), NEW path, ToPath(h, path), NEW name
  PROVE  ToPath(Unlinked(h, name), path)
<1>1. PICK S : h \in Seq(S)
  BY DEF IsHeader
<1>2. PICK i : i = get_child_element(h, name)
  OBVIOUS
<1>3. i = 0 \/ i \in DOMAIN h
  BY <1>1, <1>2, ChildFound
<1>4. CASE i = 0
  BY <1>2, <1>4 DEF Unlinked
<1>5. CASE i # 0
  <2>1. Len(h) \in Nat /\ DOMAIN h = 1 .. Len(h) /\ i \in 1 .. Len(h)
    BY <1>1, <1>3, <1>5, LenProperties
  <2>2. PICK t : t = RemoveAt(h, i)
    OBVIOUS
  <2>3. Unlinked(h, name) = t
    BY <1>2, <1>5, <2>2 DEF Unlinked
  <2>4. DOMAIN t = 1 .. Len(h) - 1 /\ \A k \in DOMAIN t : t[k] = h[IF k < i THEN k ELSE k + 1]
    BY <1>1, <2>1, <2>2, Removed
  <2>5. \A k \in DOMAIN t : \E m \in DOMAIN h : t[k] = h[m]
    BY <2>1, <2>4
  <2>. QED
    BY <2>3, <2>5 DEF ToPath
<1>. QED
  BY <1>4, <1>5

LEMMA PathReplaced ==
  ASSUME NEW h, IsHeader(h), Once(h), NEW path, NEW name, name # "Signature", NEW val
  PROVE  /\ name # "To" /\ ToPath(h, path) => ToPath(Replaced(h, name, val), path)
         /\ name = "To" /\ val # Null /\ val.path = path => ToPath(Replaced(h, name, val), path)
<1>1. PICK t : t = Unlinked(h, name)
  OBVIOUS
<1>2. IsHeader(t) /\ \A k \in DOMAIN t : t[k].name # name
  BY <1>1, EntryUnlinked
<1>3. PICK v : v = IF val = Null THEN Empty ELSE val
  OBVIOUS
<1>4. Replaced(h, name, val) = Append(t, Entry(name, v))
  BY <1>1, <1>3 DEF Replaced, add_node
<1>5. ASSUME name # "To", ToPath(h, path) PROVE ToPath(Replaced(h, name, val), path)
  <2>1. ToPath(t, path)
    BY <1>1, <1>5, PathUnlinked
  <2>. QED
    BY <1>2, <1>4, <1>5, <2>1, PathAdded
<1>6. ASSUME name = "To", val # Null, val.path = path PROVE ToPath(Replaced(h, name, val), path)
  <2>1. ToPath(t, path)
    BY <1>2, <1>6 DEF ToPath
  <2>2. v.path = path
    BY <1>3, <1>6
  <2>. QED
    BY <1>2, <1>4, <2>1, <2>2, PathAdded
<1>. QED
  BY <1>5, <1>6

TowardTo(env, val, path) == IF val = Null THEN Toward(env, path) ELSE val.path = path

LEMMA TowardSet ==
  ASSUME NEW env, IsMessage(env), NEW path, NEW val
  PROVE  /\ Toward(env, path) => Toward(soap_addressing_set_message_id_string(env, val), path)
         /\ Toward(env, path) => Toward(soap_addressing_set_action_string(env, val), path)
         /\ Toward(env, path) => Toward(soap_addressing_set_from_address_string(env, val), path)
         /\ TowardTo(env, val, path) => Toward(soap_addressing_set_to_address_string(env, val), path)
<1>1. IsHeader(env.header) /\ Once(env.header)
  BY DEF IsMessage
<1>2. \A h : OnHeader(env, h).header = h
  BY DEF OnHeader, IsMessage
<1>3. Toward(env, path) => Toward(soap_addressing_set_message_id_string(env, val), path)
  <2>1. soap_addressing_set_message_id_string(env, val) = OnHeader(env, SetContent(env.header, "MessageID", val))
    BY DEF soap_addressing_set_message_id_string
  <2>. QED
    BY <1>1, <1>2, <2>1, PathContent DEF Toward
<1>4. Toward(env, path) => Toward(soap_addressing_set_action_string(env, val), path)
  <2>1. soap_addressing_set_action_string(env, val) \in
          {env, OnHeader(env, SetContent(env.header, "Action", val))}
    BY DEF soap_addressing_set_action_string, soap_addressing_set_action
  <2>. QED
    BY <1>1, <1>2, <2>1, PathContent DEF Toward
<1>5. Toward(env, path) => Toward(soap_addressing_set_from_address_string(env, val), path)
  <2>1. soap_addressing_set_from_address_string(env, val) = OnHeader(env, Replaced(env.header, "From", val))
    BY DEF soap_addressing_set_from_address_string, soap_addressing_set_from_address
  <2>. QED
    BY <1>1, <1>2, <2>1, PathReplaced DEF Toward
<1>6. ASSUME TowardTo(env, val, path)
      PROVE  Toward(soap_addressing_set_to_address_string(env, val), path)
  <2>1. soap_addressing_set_to_address_string(env, val) =
          IF val = Null THEN env ELSE OnHeader(env, Replaced(env.header, "To", val))
    BY DEF soap_addressing_set_to_address_string, soap_addressing_set_to_address
  <2>2. CASE val = Null
    BY <1>6, <2>1, <2>2 DEF TowardTo
  <2>3. CASE val # Null
    BY <1>1, <1>2, <1>6, <2>1, <2>3, PathReplaced DEF Toward, TowardTo
  <2>. QED
    BY <2>2, <2>3
<1>. QED
  BY <1>3, <1>4, <1>5, <1>6

LEMMA TowardAddressed ==
  ASSUME NEW env, IsMessage(env), NEW c, NEW n, NEW r, NEW path,
         IF r.url = Null THEN Toward(env, path) ELSE r.url.path = path
  PROVE  Toward(Addressed(env, c, n, r), path)
<1>1. PICK acted : acted = soap_addressing_set_action_string(env, r.action)
  OBVIOUS
<1>2. PICK sent : sent = soap_addressing_set_to_address_string(acted, r.url)
  OBVIOUS
<1>3. PICK from : from = soap_addressing_set_from_address_string(sent, Uri("name", c))
  OBVIOUS
<1>4. IsMessage(acted) /\ (Toward(env, path) => Toward(acted, path))
  BY <1>1, AddressingKeeps, TowardSet DEF Kept
<1>5. IsMessage(sent) /\ Toward(sent, path)
  <2>1. TowardTo(acted, r.url, path)
    BY <1>4 DEF TowardTo
  <2>. QED
    BY <1>2, <1>4, <2>1, AddressingKeeps, TowardSet DEF Kept
<1>6. IsMessage(from) /\ Toward(from, path)
  BY <1>3, <1>5, AddressingKeeps, TowardSet DEF Kept
<1>7. Addressed(env, c, n, r) = soap_addressing_set_message_id_string(from, Id(c, n))
  BY <1>1, <1>2, <1>3 DEF Addressed
<1>. QED
  BY <1>6, <1>7, TowardSet

LEMMA TowardSecured ==
  ASSUME NEW env, IsMessage(env), NEW path, Toward(env, path)
  PROVE  Toward(Secured(env), path) /\ Toward(Plain(env), path)
<1>1. PICK e : e = IF Encrypts(env) THEN soap_xmlsec_encrypt(env) ELSE env
  OBVIOUS
<1>2. IsHeader(e.header) /\ ToPath(e.header, path) /\ DOMAIN e = DOMAIN env
  BY <1>1 DEF soap_xmlsec_encrypt, IsMessage, Toward
<1>3. PICK v : Signature(cfg.signs, e.layers) = Entry("Signature", v)
  BY DEF Signature
<1>4. soap_xmlsec_sign(e, cfg.signs).header = Append(e.header, Entry("Signature", v))
  BY <1>2, <1>3 DEF soap_xmlsec_sign, OnHeader, IsMessage
<1>5. Secured(env) = IF cfg.enabled THEN soap_xmlsec_sign(e, cfg.signs) ELSE e
  BY <1>1 DEF Secured
<1>6. ToPath(Append(e.header, Entry("Signature", v)), path)
  BY <1>2, PathAdded
<1>7. Plain(env).header = env.header
  BY DEF Plain, soap_xmlsec_decrypt, IsMessage
<1>. QED
  BY <1>2, <1>4, <1>5, <1>6, <1>7 DEF Toward

(* Where the library reads it, it is the way the message is to go.         *)
LEMMA ToFound ==
  ASSUME NEW env, IsMessage(env), NEW path, Toward(env, path), Destination(env) # Null
  PROVE  Destination(env).path = path
<1>1. PICK S : env.header \in Seq(S)
  BY DEF IsMessage, IsHeader
<1>2. PICK i : i = get_child_element(env.header, "To")
  OBVIOUS
<1>3. Destination(env) = IF i = 0 THEN Null ELSE env.header[i].val
  BY <1>2 DEF Destination, soap_addressing_get_to_address, extract_uri
<1>4. i \in DOMAIN env.header /\ env.header[i].name = "To"
  BY <1>1, <1>2, <1>3, ChildFound
<1>5. i # 0
  BY <1>3
<1>. QED
  BY <1>3, <1>4, <1>5 DEF Toward, ToPath

LEMMA TowardLocal ==
  ASSUME NEW env, IsMessage(env), NEW path, Toward(env, path)
  PROVE  Toward(LocalPart(env), path)
<1>1. PICK val : val = Uri("null", Destination(env).path)
  OBVIOUS
<1>2. LocalPart(env) = soap_addressing_set_to_address_string(env, val)
  BY <1>1 DEF LocalPart, Destination
<1>3. Destination(env) = Null => val = Null
  BY <1>1 DEF Null, Uri
<1>4. val.path = Destination(env).path
  BY <1>1 DEF Uri
<1>5. TowardTo(env, val, path)
  BY <1>3, <1>4, ToFound DEF TowardTo
<1>. QED
  BY <1>2, <1>5, TowardSet

LEMMA NewMessage ==
  ASSUME NEW method, NEW urn
  PROVE  /\ IsMessage(Document(<< >>, method, urn))
         /\ IsMessage(soap_env_new_from_doc(Document(<< >>, method, urn)))
<1>1. PICK h : h = << >>
  OBVIOUS
<1>2. IsHeader(h) /\ Once(h)
  BY <1>1 DEF IsHeader, Once
<1>3. PICK e : e = Document(h, method, urn)
  OBVIOUS
<1>4. IsMessage(e)
  BY <1>2, <1>3 DEF Document, IsMessage
<1>5. IsMessage(soap_env_new_from_doc(e))
  BY <1>4 DEF soap_env_new_from_doc, IsMessage
<1>. QED
  BY <1>1, <1>3, <1>4, <1>5

LEMMA AnswersAreMessages ==
  /\ \A reason : IsMessage(soap_env_new_with_fault(reason))
  /\ \A urn, method : IsMessage(soap_env_new_with_method(urn, method))
  /\ \A env : IsMessage(soap_env_new_with_response(env))
  /\ \A env : \A outcome \in Outcomes : IsMessage(Answer(env, outcome))
<1>1. \A reason : IsMessage(soap_env_new_with_fault(reason))
  BY NewMessage DEF soap_env_new_with_fault, soap_fault_build
<1>2. \A urn, method : IsMessage(soap_env_new_with_method(urn, method))
  BY NewMessage DEF soap_env_new_with_method
<1>3. \A env : IsMessage(soap_env_new_with_response(env))
  BY <1>2 DEF soap_env_new_with_response
<1>4. \A env : \A outcome \in Outcomes : IsMessage(Answer(env, outcome))
  BY <1>1, <1>3 DEF Answer, Outcomes
<1>. QED
  BY <1>1, <1>2, <1>3, <1>4

-----------------------------------------------------------------------------
(* What a step does to the messages, and to whom.                          *)
Ready(c) ==
  LET r == Head(clients[c].todo)
  IN  Addressed(IF r.again THEN clients[c].ctx ELSE soap_env_new_with_method(r.urn, r.method),
                c, clients[c].n + 1, r)

AskedNow(c) == NowAsked(clients[c].asked, Head(clients[c].todo))

(* The ends of soap_client_invoke: failed or dead, sent, asking over HTTP. *)
Ends(x, c) ==
  LET env == Secured(Ready(c))
      call == <<c, clients[c].n + 1>>
  IN  \/ /\ x.pc = "dead" \/ (x.pc = "idle" /\ x.status = "error")
         /\ x.sockets = clients[c].sockets
         /\ x.ctx \in {Ready(c), env}
         /\ UNCHANGED <<jobs, net>>
      \/ /\ x.pc = "udp" /\ x.sockets = clients[c].sockets + 1 /\ clients[c].sockets # MaxSockets
         /\ x.ctx = env /\ soap_addressing_get_to_address(env).scheme = "soap.udp"
         /\ \E big : net' = net \cup {Datagram(ServerPort, call, env, call, big)}
         /\ UNCHANGED jobs
      \/ /\ x.pc = "http" /\ x.sockets = clients[c].sockets
         /\ x.ctx = env /\ soap_addressing_get_to_address(env).scheme # "soap.udp"
         /\ jobs' = jobs \cup {NewJob(env, call, Http)}
         /\ UNCHANGED net

LEMMA Invocation ==
  ASSUME CallsFine, NEW c \in Clients, soap_client_invoke(c)
  PROVE  \E x : /\ clients' = [clients EXCEPT ![c] = x]
                /\ IsClient(x) /\ x.n = clients[c].n + 1
                /\ x.todo = Tail(clients[c].todo) /\ x.asked = AskedNow(c)
                /\ Ends(x, c)
<1>0. IsClient(clients[c])
  BY DEF CallsFine, ClientsFine
<1>1. PICK old : old = clients[c]
  OBVIOUS
<1>2. PICK ready : ready = Ready(c)
  OBVIOUS
<1>3. PICK env : env = Secured(ready)
  OBVIOUS
<1>4. PICK asked : asked = AskedNow(c)
  OBVIOUS
<1>5. PICK begun : begun = [old EXCEPT !.n = old.n + 1, !.todo = Tail(@), !.ctx = env, !.asked = asked]
  OBVIOUS
<1>6. /\ IsClient(begun) /\ begun.n = old.n + 1 /\ begun.todo = Tail(old.todo) /\ begun.ctx = env
      /\ begun.asked = asked /\ begun.sockets = old.sockets
  BY <1>0, <1>1, <1>5 DEF IsClient
<1>7. PICK unsent : unsent = [begun EXCEPT !.ctx = ready]
  OBVIOUS
<1>8. /\ IsClient(unsent) /\ unsent.n = old.n + 1 /\ unsent.todo = Tail(old.todo) /\ unsent.ctx = ready
      /\ unsent.asked = asked /\ unsent.sockets = old.sockets
  BY <1>6, <1>7 DEF IsClient
<1> DEFINE to == soap_addressing_get_to_address(env)
           call == <<c, old.n + 1>>
           Fails(client) == clients' = [clients EXCEPT ![c] = Failed(client)] /\ UNCHANGED <<jobs, net>>
<1>9. \/ clients' = [clients EXCEPT ![c] = [begun EXCEPT !.pc = "dead"]] /\ UNCHANGED <<jobs, net>>
      \/ Fails(unsent)
      \/ Fails(begun)
      \/ /\ to.scheme = "soap.udp" /\ old.sockets # MaxSockets
         /\ clients' = [clients EXCEPT ![c] = [begun EXCEPT !.pc = "udp", !.sockets = @ + 1]]
         /\ \E big : net' = net \cup {Datagram(ServerPort, call, env, call, big)}
         /\ UNCHANGED jobs
      \/ /\ to.scheme # "soap.udp"
         /\ clients' = [clients EXCEPT ![c] = [begun EXCEPT !.pc = "http"]]
         /\ jobs' = jobs \cup {NewJob(env, call, Http)}
         /\ UNCHANGED net
  <2>1. begun = [old EXCEPT !.n = old.n + 1, !.todo = Tail(@), !.ctx = env,
                            !.asked = NowAsked(old.asked, Head(old.todo))]
    BY <1>1, <1>4, <1>5 DEF AskedNow
  <2>2. ready = Addressed(IF Head(old.todo).again THEN old.ctx
                          ELSE soap_env_new_with_method(Head(old.todo).urn, Head(old.todo).method),
                          c, old.n + 1, Head(old.todo))
    BY <1>1, <1>2 DEF Ready
  <2>. QED
    BY <1>1, <1>3, <1>7, <2>1, <2>2, ZenonT(60) DEF soap_client_invoke, Socket
<1>10. \A q : IsClient(q) => /\ IsClient(Failed(q)) /\ Failed(q).pc = "idle" /\ Failed(q).status = "error"
                             /\ Failed(q).n = q.n /\ Failed(q).todo = q.todo /\ Failed(q).ctx = q.ctx
                             /\ Failed(q).asked = q.asked /\ Failed(q).sockets = q.sockets
  BY DEF Failed, Returned, IsClient
<1>11. CASE Fails(unsent)
  <2>1. PICK x : x = Failed(unsent)
    OBVIOUS
  <2>2. /\ IsClient(x) /\ x.pc = "idle" /\ x.status = "error" /\ x.n = old.n + 1
        /\ x.todo = Tail(old.todo) /\ x.ctx = ready /\ x.asked = asked /\ x.sockets = old.sockets
    BY <1>8, <1>10, <2>1
  <2>3. clients' = [clients EXCEPT ![c] = x] /\ UNCHANGED <<jobs, net>>
    BY <1>11, <2>1
  <2>4. Ends(x, c)
    BY <1>1, <1>2, <1>3, <2>2, <2>3 DEF Ends
  <2>. QED
    BY <1>1, <1>4, <2>2, <2>3, <2>4
<1>12. CASE Fails(begun)
  <2>1. PICK x : x = Failed(begun)
    OBVIOUS
  <2>2. /\ IsClient(x) /\ x.pc = "idle" /\ x.status = "error" /\ x.n = old.n + 1
        /\ x.todo = Tail(old.todo) /\ x.ctx = env /\ x.asked = asked /\ x.sockets = old.sockets
    BY <1>6, <1>10, <2>1
  <2>3. clients' = [clients EXCEPT ![c] = x] /\ UNCHANGED <<jobs, net>>
    BY <1>12, <2>1
  <2>4. Ends(x, c)
    BY <1>1, <1>2, <1>3, <2>2, <2>3 DEF Ends
  <2>. QED
    BY <1>1, <1>4, <2>2, <2>3, <2>4
<1>13. CASE /\ to.scheme = "soap.udp" /\ old.sockets # MaxSockets
            /\ clients' = [clients EXCEPT ![c] = [begun EXCEPT !.pc = "udp", !.sockets = @ + 1]]
            /\ \E big : net' = net \cup {Datagram(ServerPort, call, env, call, big)}
            /\ UNCHANGED jobs
  <2>1. PICK x : x = [begun EXCEPT !.pc = "udp", !.sockets = @ + 1]
    OBVIOUS
  <2>2. /\ IsClient(x) /\ x.n = old.n + 1 /\ x.todo = Tail(old.todo) /\ x.ctx = env /\ x.pc = "udp"
        /\ x.asked = asked /\ x.sockets = old.sockets + 1
    BY <1>6, <2>1 DEF IsClient
  <2>. QED
    BY <1>1, <1>2, <1>3, <1>4, <1>13, <2>1, <2>2 DEF Ends
<1>15. CASE clients' = [clients EXCEPT ![c] = [begun EXCEPT !.pc = "dead"]] /\ UNCHANGED <<jobs, net>>
  <2>1. PICK x : x = [begun EXCEPT !.pc = "dead"]
    OBVIOUS
  <2>2. /\ IsClient(x) /\ x.n = old.n + 1 /\ x.todo = Tail(old.todo) /\ x.ctx = env /\ x.pc = "dead"
        /\ x.asked = asked /\ x.sockets = old.sockets
    BY <1>6, <2>1 DEF IsClient
  <2>. QED
    BY <1>1, <1>2, <1>3, <1>4, <1>15, <2>1, <2>2 DEF Ends
<1>14. CASE /\ to.scheme # "soap.udp"
            /\ clients' = [clients EXCEPT ![c] = [begun EXCEPT !.pc = "http"]]
            /\ jobs' = jobs \cup {NewJob(env, call, Http)}
            /\ UNCHANGED net
  <2>1. PICK x : x = [begun EXCEPT !.pc = "http"]
    OBVIOUS
  <2>2. /\ IsClient(x) /\ x.n = old.n + 1 /\ x.todo = Tail(old.todo) /\ x.ctx = env /\ x.pc = "http"
        /\ x.asked = asked /\ x.sockets = old.sockets
    BY <1>6, <2>1 DEF IsClient
  <2>. QED
    BY <1>1, <1>2, <1>3, <1>4, <1>14, <2>1, <2>2 DEF Ends
<1>. QED
  BY <1>9, <1>11, <1>12, <1>13, <1>14, <1>15

(* The end of a call leaves what the next one starts from.                 *)
LEMMA Settled ==
  ASSUME NEW x, IsClient(x), NEW env, NEW of
  PROVE  LET y == Taken(x, env, of)
         IN  /\ IsClient(y) /\ y.pc = "idle" /\ y.n = x.n /\ y.todo = x.todo /\ y.ctx = x.ctx
             /\ y.asked = x.asked /\ y.sockets = x.sockets
             /\ \/ y.status = "error"
                \/ y.status = "ok" /\ y.of = of /\ y.answer \in {env, Plain(env)}
<1>1. \A e : LET y == Returned(x, "ok", e, of)
             IN  /\ IsClient(y) /\ y.pc = "idle" /\ y.n = x.n /\ y.todo = x.todo /\ y.ctx = x.ctx
                 /\ y.asked = x.asked /\ y.sockets = x.sockets
                 /\ y.status = "ok" /\ y.of = of /\ y.answer = e
  BY DEF Returned, IsClient
<1>2. LET y == Failed(x)
      IN  /\ IsClient(y) /\ y.pc = "idle" /\ y.n = x.n /\ y.todo = x.todo /\ y.ctx = x.ctx
          /\ y.asked = x.asked /\ y.sockets = x.sockets /\ y.status = "error"
  BY DEF Failed, Returned, IsClient
<1>3. \/ Taken(x, env, of) = Failed(x)
      \/ \E e \in {env, Plain(env)} : Taken(x, env, of) = Returned(x, "ok", e, of)
  BY DEF Taken
<1>. QED
  BY <1>1, <1>2, <1>3

(* A client waits for its answer, or the connection breaks.                *)
SameCall(y, x) ==
  y.n = x.n /\ y.todo = x.todo /\ y.ctx = x.ctx /\ y.asked = x.asked /\ y.sockets = x.sockets

LEMMA Awaited ==
  ASSUME CallsFine, NEW c \in Clients, Await(c)
  PROVE  \E y : /\ clients' = [clients EXCEPT ![c] = y] /\ IsClient(y) /\ SameCall(y, clients[c])
                /\ \/ y.pc = "spin"
                   \/ y.pc = "idle" /\ y.status = "error"
                   \/ \E d \in net : /\ d.to = <<c, y.n>> /\ y.of = d.call /\ y.pc = "idle" /\ y.status = "ok"
                                     /\ y.answer \in {d.env, Plain(d.env)}
<1>1. PICK x : x = clients[c]
  OBVIOUS
<1>2. IsClient(x)
  BY <1>1 DEF CallsFine, ClientsFine
<1>3. PICK f : f = Failed(x)
  OBVIOUS
<1>4. IsClient(f) /\ SameCall(f, x) /\ f.pc = "idle" /\ f.status = "error"
  BY <1>2, <1>3 DEF Failed, Returned, IsClient, SameCall
<1>5. CASE UdpAnswer(c)
  <2>1. PICK d \in net :
          /\ d.to = <<c, x.n>>
          /\ clients' = [clients EXCEPT ![c] = IF d.whole THEN Taken(x, d.env, d.call) ELSE f]
    BY <1>1, <1>3, <1>5 DEF UdpAnswer, ClientStep, Socket
  <2>2. PICK y : y = Taken(x, d.env, d.call)
    OBVIOUS
  <2>3. /\ IsClient(y) /\ SameCall(y, x) /\ y.pc = "idle"
        /\ \/ y.status = "error"
           \/ y.status = "ok" /\ y.of = d.call /\ y.answer \in {d.env, Plain(d.env)}
    BY <1>2, <2>2, Settled DEF SameCall
  <2>4. CASE d.whole
    <3>1. clients' = [clients EXCEPT ![c] = y]
      BY <2>1, <2>2, <2>4
    <3>. QED
      BY <1>1, <2>1, <2>3, <3>1 DEF SameCall
  <2>5. CASE ~ d.whole
    BY <1>1, <1>4, <2>1, <2>5
  <2>. QED
    BY <2>4, <2>5
<1>6. CASE ConnectionLost(c)
  <2>1. PICK s : s = [x EXCEPT !.pc = "spin"]
    OBVIOUS
  <2>2. IsClient(s) /\ SameCall(s, x) /\ s.pc = "spin"
    BY <1>2, <2>1 DEF IsClient, SameCall
  <2>3. clients' = [clients EXCEPT ![c] = f] \/ clients' = [clients EXCEPT ![c] = s]
    BY <1>1, <1>3, <1>6, <2>1 DEF ConnectionLost, ClientStep
  <2>. QED
    BY <1>1, <1>4, <2>2, <2>3
<1>. QED
  BY <1>5, <1>6 DEF Await

-----------------------------------------------------------------------------
(* Every message there is, in a datagram, a job or a context.              *)
MessagesFine ==
  /\ \A d \in net : IsMessage(d.env)
  /\ \A j \in jobs : IsMessage(j.env)
  /\ \A c \in Clients : IsMessage(clients[c].ctx)

LEMMA InitMessages == ASSUME Init PROVE MessagesFine
<1>1. IsMessage(NoEnv)
  BY NewMessage DEF NoEnv
<1>2. net = {} /\ jobs = {}
  BY DEF Init
<1>3. \A c \in Clients : clients[c].ctx = NoEnv
  <2>1. PICK s \in Scenarios : clients = [c \in Clients |->
            [pc |-> "idle", todo |-> s.work[c], ctx |-> NoEnv, n |-> 0, sockets |-> 0,
             asked |-> [urn |-> "", method |-> "", path |-> "", fresh |-> FALSE, big |-> FALSE],
             status |-> "none", answer |-> NoEnv, of |-> << >>]]
    BY DEF Init
  <2>. QED
    BY <2>1
<1>. QED
  BY <1>1, <1>2, <1>3 DEF MessagesFine

(* A client whose record changes, or none.                                 *)
LEMMA ContextsKept ==
  ASSUME CallsFine, NEW c \in Clients, NEW x, clients' = [clients EXCEPT ![c] = x],
         IsMessage(x.ctx), MessagesFine,
         \A d \in net' : IsMessage(d.env), \A j \in jobs' : IsMessage(j.env)
  PROVE  MessagesFine'
BY DEF MessagesFine, CallsFine, ClientsFine

LEMMA ContextsSame ==
  ASSUME UNCHANGED clients, MessagesFine,
         \A d \in net' : IsMessage(d.env), \A j \in jobs' : IsMessage(j.env)
  PROVE  MessagesFine'
BY DEF MessagesFine

LEMMA MainMessages ==
  ASSUME MessagesFine, Setup \/ soap_server_run \/ Shutdown \/ Crash
  PROVE  MessagesFine'
<1>1. UNCHANGED <<clients, net, spent>> /\ jobs' \in {jobs, {}}
  BY DEF Setup, Shutdown, Crash, Registering, MainStep, soap_router_new, soap_router_register_service,
         soap_router_register_default_service, soap_server_register_router, soap_server_run, Stop,
         FreeRouters, soap_server_destroy, Exit
<1>. QED
  BY <1>1 DEF MessagesFine

(* What soap_server_process makes of a job.                                *)
Refusal(env) ==
  IF ~Verified(env) \/ ~Decryptable(env) THEN "Unreadable"
  ELSE Reason(Plain(env), Router(Plain(env)), Service(Plain(env), Router(Plain(env))))

LEMMA Routed ==
  ASSUME CallsFine, NEW j \in jobs, Route(j)
  PROVE  /\ j.at = "route" /\ UNCHANGED <<server, routers, registry, udp, net, clients, cfg, spent, served>>
         /\ \E k : /\ jobs' = (jobs \ {j}) \cup {k}
                   /\ k.call = j.call /\ k.from = j.from
                   /\ \/ /\ k.at \in {"send", "complete"}
                         /\ \E reason : k.env = soap_env_new_with_fault(reason)
                         /\ Refusal(j.env) # ""
                      \/ /\ k.at = "call" /\ k.env = Plain(j.env)
                         /\ k.service = Service(Plain(j.env), Router(Plain(j.env)))
                         /\ Refusal(j.env) = ""
<1>1. JobFine(j)
  BY DEF CallsFine
<1>2. PICK env : env = Plain(j.env)
  OBVIOUS
<1>3. PICK service : service = Service(env, Router(env))
  OBVIOUS
<1>4. PICK reason : reason = Reason(env, Router(env), service)
  OBVIOUS
<1>5. PICK unread : unread = [j EXCEPT !.at = "send", !.env = soap_env_new_with_fault("Unreadable")]
  OBVIOUS
<1>6. PICK refused : refused = [j EXCEPT !.at = "complete", !.env = soap_env_new_with_fault(reason)]
  OBVIOUS
<1>7. PICK called : called = [j EXCEPT !.at = "call", !.env = env, !.service = service]
  OBVIOUS
<1>8. Refusal(j.env) = IF ~Verified(j.env) \/ ~Decryptable(j.env) THEN "Unreadable" ELSE reason
  BY <1>2, <1>3, <1>4 DEF Refusal
<1>9. IF ~Verified(j.env) \/ ~Decryptable(j.env) THEN JobStep(j, unread)
      ELSE IF reason # "" THEN JobStep(j, refused) ELSE JobStep(j, called)
  BY <1>2, <1>3, <1>4, <1>5, <1>6, <1>7 DEF Route, Reply
<1>10. unread.call = j.call /\ unread.from = j.from /\ unread.at = "send"
       /\ unread.env = soap_env_new_with_fault("Unreadable")
  BY <1>1, <1>5 DEF JobFine
<1>11. refused.call = j.call /\ refused.from = j.from /\ refused.at = "complete"
       /\ refused.env = soap_env_new_with_fault(reason)
  BY <1>1, <1>6 DEF JobFine
<1>12. called.call = j.call /\ called.from = j.from /\ called.at = "call" /\ called.env = env
       /\ called.service = service
  BY <1>1, <1>7 DEF JobFine
<1>13. j.at = "route" /\ UNCHANGED served
  BY DEF Route
<1>14. \A k : JobStep(j, k) => /\ jobs' = (jobs \ {j}) \cup {k}
                              /\ UNCHANGED <<server, routers, registry, udp, net, clients, cfg, spent>>
  BY DEF JobStep
<1>15. CASE ~Verified(j.env) \/ ~Decryptable(j.env)
  <2>1. JobStep(j, unread) /\ Refusal(j.env) # ""
    BY <1>8, <1>9, <1>15
  <2>2. \E r : unread.env = soap_env_new_with_fault(r)
    BY <1>10
  <2>. QED
    BY <1>10, <1>13, <1>14, <2>1, <2>2
<1>16. CASE ~ (~Verified(j.env) \/ ~Decryptable(j.env)) /\ reason # ""
  <2>1. JobStep(j, refused) /\ Refusal(j.env) # ""
    BY <1>8, <1>9, <1>16
  <2>. QED
    BY <1>11, <1>13, <1>14, <2>1
<1>17. CASE ~ (~Verified(j.env) \/ ~Decryptable(j.env)) /\ reason = ""
  <2>1. JobStep(j, called) /\ Refusal(j.env) = ""
    BY <1>8, <1>9, <1>17
  <2>. QED
    BY <1>2, <1>3, <1>12, <1>13, <1>14, <2>1
<1>. QED
  BY <1>15, <1>16, <1>17

LEMMA Served ==
  ASSUME CallsFine, NEW j \in jobs, CallService(j)
  PROVE  \E outcome \in Outcomes : \E k :
           /\ jobs' = (jobs \ {j}) \cup {k}
           /\ k.call = j.call /\ k.from = j.from /\ k.at = "complete" /\ k.env = Answer(j.env, outcome)
           /\ served' = [served EXCEPT ![j.call] =
                Append(@, [service |-> j.service, outcome |-> outcome,
                           method |-> soap_env_find_methodname(j.env)])]
           /\ j.at = "call" /\ UNCHANGED <<server, routers, registry, udp, net, clients, cfg, spent>>
<1>1. JobFine(j)
  BY DEF CallsFine
<1>2. PICK outcome \in Outcomes :
        /\ Reply(j, "complete", Answer(j.env, outcome))
        /\ served' = [served EXCEPT ![j.call] =
             Append(@, [service |-> j.service, outcome |-> outcome,
                        method |-> soap_env_find_methodname(j.env)])]
  BY DEF CallService
<1>3. PICK k : k = [j EXCEPT !.at = "complete", !.env = Answer(j.env, outcome)]
  OBVIOUS
<1>4. k.call = j.call /\ k.from = j.from /\ k.at = "complete" /\ k.env = Answer(j.env, outcome)
  BY <1>1, <1>3 DEF JobFine
<1>5. jobs' = (jobs \ {j}) \cup {k} /\ UNCHANGED <<server, routers, registry, udp, net, clients, cfg, spent>>
  BY <1>2, <1>3 DEF Reply, JobStep
<1>6. j.at = "call"
  BY DEF CallService
<1>. QED
  BY <1>2, <1>4, <1>5, <1>6

(* What is sent says what the job says: only its header is filled in, and  *)
(* it is encrypted and signed.                                             *)
LEMMA CompletedMessage ==
  ASSUME NEW j, IsMessage(j.env)
  PROVE  \E env : Completed(j) = {env} /\ IsMessage(env) /\ SameBody(env, j.env)
<1>1. CASE j.at = "send"
  BY <1>1 DEF Completed, SameBody
<1>2. CASE j.at # "send"
  <2>1. PICK e : e = _soap_server_fillup_header(j.env, j.call)
    OBVIOUS
  <2>2. PICK env : env = Secured(e)
    OBVIOUS
  <2>3. Completed(j) = {env}
    BY <1>2, <2>1, <2>2 DEF Completed
  <2>4. IsMessage(e) /\ SameBody(e, j.env)
    BY <2>1, FilledKeeps DEF Kept
  <2>5. IsMessage(env) /\ SameBody(env, e)
    BY <2>2, <2>4, SecuredKeeps
  <2>. QED
    BY <2>3, <2>4, <2>5 DEF SameBody
<1>. QED
  BY <1>1, <1>2

LEMMA Sent ==
  ASSUME CallsFine, MessagesFine, NEW j \in jobs, UdpSend(j) \/ HttpSend(j)
  PROVE  \E env :
           /\ IsMessage(env) /\ SameBody(env, j.env) /\ j.at \in {"send", "complete"}
           /\ jobs' = jobs \ {j} /\ UNCHANGED <<server, routers, registry, cfg, spent, served>>
           /\ \/ /\ j.from # Http /\ j.from = j.call
                 /\ net' = net \cup {Datagram(j.call, ServerPort, env, j.call, FALSE)}
                 /\ UNCHANGED clients
              \/ UNCHANGED net /\ UNCHANGED clients
              \/ /\ UNCHANGED net
                 /\ \E c \in Clients : \E y :
                      /\ clients' = [clients EXCEPT ![c] = y]
                      /\ IsClient(y) /\ SameCall(y, clients[c]) /\ y.pc = "idle" /\ j.call = <<c, y.n>>
                      /\ \/ y.status = "error"
                         \/ y.status = "ok" /\ y.of = j.call /\ y.answer \in {env, Plain(env)}
<1>1. JobFine(j) /\ IsMessage(j.env)
  BY DEF CallsFine, MessagesFine
<1>2. PICK env : Completed(j) = {env} /\ IsMessage(env) /\ SameBody(env, j.env)
  BY <1>1, CompletedMessage
<1>3. CASE UdpSend(j)
  <2>1. j.from # Http /\ j.from = j.call /\ j.at \in {"send", "complete"} /\ jobs' = jobs \ {j}
    BY <1>1, <1>3 DEF UdpSend, Sendable, JobFine
  <2>2. net' = net \cup {Datagram(j.call, ServerPort, env, j.call, FALSE)}
    BY <1>2, <1>3, <2>1 DEF UdpSend
  <2>3. UNCHANGED <<server, routers, registry, clients, cfg, spent, served>>
    BY <1>3 DEF UdpSend, UdpStep
  <2>. QED
    BY <1>2, <2>1, <2>2, <2>3
<1>4. CASE HttpSend(j)
  <2>1. PICK c : c = j.call[1]
    OBVIOUS
  <2>2. c \in Clients /\ j.call = <<c, j.call[2]>>
    BY <1>1, <2>1 DEF JobFine, CallNames
  <2>3. IsClient(clients[c])
    BY <2>2 DEF CallsFine, ClientsFine
  <2>4. PICK y : y = Taken(clients[c], env, j.call)
    OBVIOUS
  <2>5. /\ IsClient(y) /\ SameCall(y, clients[c]) /\ y.pc = "idle"
        /\ \/ y.status = "error"
           \/ y.status = "ok" /\ y.of = j.call /\ y.answer \in {env, Plain(env)}
    BY <2>3, <2>4, Settled DEF SameCall
  <2>6. /\ j.at \in {"send", "complete"} /\ jobs' = jobs \ {j}
        /\ UNCHANGED <<server, routers, registry, net, cfg, spent, served>>
    BY <1>4 DEF HttpSend, Sendable
  <2>7. \/ UNCHANGED clients
        \/ clients[c].n = j.call[2] /\ clients' = [clients EXCEPT ![c] = y]
    BY <1>2, <1>4, <2>1, <2>4 DEF HttpSend
  <2>8. CASE clients[c].n = j.call[2] /\ clients' = [clients EXCEPT ![c] = y]
    <3>1. j.call = <<c, y.n>>
      BY <2>2, <2>5, <2>8 DEF SameCall
    <3>. QED
      BY <1>2, <2>2, <2>5, <2>6, <2>8, <3>1
  <2>. QED
    BY <1>2, <2>6, <2>7, <2>8
<1>. QED
  BY <1>3, <1>4

LEMMA ServiceMessages ==
  ASSUME CallsFine, MessagesFine, NEW j \in jobs, Route(j) \/ CallService(j)
  PROVE  MessagesFine'
<1>1. IsMessage(j.env)
  BY DEF MessagesFine
<1>2. \E k : jobs' = (jobs \ {j}) \cup {k} /\ IsMessage(k.env) /\ UNCHANGED <<net, clients>>
  <2>0. IsMessage(Plain(j.env)) /\ \A reason : IsMessage(soap_env_new_with_fault(reason))
    BY <1>1, PlainKeeps, AnswersAreMessages
  <2>1. CASE Route(j)
    <3>1. PICK k : /\ jobs' = (jobs \ {j}) \cup {k}
                   /\ k.env = Plain(j.env) \/ \E reason : k.env = soap_env_new_with_fault(reason)
      BY <2>1, Routed
    <3>2. UNCHANGED <<net, clients>>
      BY <2>1, Routed
    <3>. QED
      BY <2>0, <3>1, <3>2
  <2>2. CASE CallService(j)
    <3>1. PICK outcome \in Outcomes : \E k : jobs' = (jobs \ {j}) \cup {k} /\ k.env = Answer(j.env, outcome)
                                           /\ UNCHANGED <<net, clients>>
      BY <2>2, Served
    <3>2. IsMessage(Answer(j.env, outcome))
      BY AnswersAreMessages
    <3>. QED
      BY <3>1, <3>2
  <2>. QED
    BY <2>1, <2>2
<1>. QED
  BY <1>2, ContextsSame DEF MessagesFine

LEMMA SendMessages ==
  ASSUME CallsFine, MessagesFine, NEW j \in jobs, UdpSend(j) \/ HttpSend(j)
  PROVE  MessagesFine'
<1>1. PICK env :
           /\ IsMessage(env) /\ jobs' = jobs \ {j}
           /\ net' \in {net, net \cup {Datagram(j.call, ServerPort, env, j.call, FALSE)}}
           /\ \/ UNCHANGED clients
              \/ \E c \in Clients : \E y : clients' = [clients EXCEPT ![c] = y] /\ SameCall(y, clients[c])
  BY Sent
<1>2. Datagram(j.call, ServerPort, env, j.call, FALSE).env = env
  BY DEF Datagram
<1>3. (\A d \in net' : IsMessage(d.env)) /\ \A i \in jobs' : IsMessage(i.env)
  BY <1>1, <1>2 DEF MessagesFine
<1>4. CASE UNCHANGED clients
  BY <1>3, <1>4, ContextsSame
<1>5. ASSUME NEW c \in Clients, NEW y, clients' = [clients EXCEPT ![c] = y], SameCall(y, clients[c])
      PROVE  MessagesFine'
  <2>1. IsMessage(y.ctx)
    BY <1>5 DEF SameCall, MessagesFine
  <2>. QED
    BY <1>3, <1>5, <2>1, ContextsKept
<1>. QED
  BY <1>1, <1>4, <1>5

LEMMA ReceiveMessages == ASSUME CallsFine, MessagesFine, Receive PROVE MessagesFine'
<1>1. CASE TestRunning \/ Released
  BY <1>1 DEF MessagesFine, TestRunning, Released, UdpStep
<1>2. CASE _soap_nudp_receive_document
  <2>1. PICK d \in net :
          /\ net' = net \ {d} /\ UNCHANGED clients
          /\ jobs' \subseteq jobs \cup {NewJob(LocalPart(d.env), d.call, d.from)}
    BY <1>2 DEF _soap_nudp_receive_document
  <2>2. IsMessage(LocalPart(d.env))
    BY LocalKeeps DEF MessagesFine, Kept
  <2>3. IsMessage(NewJob(LocalPart(d.env), d.call, d.from).env)
    BY <2>2 DEF NewJob
  <2>4. (\A e \in net' : IsMessage(e.env)) /\ \A i \in jobs' : IsMessage(i.env)
    BY <2>1, <2>3 DEF MessagesFine
  <2>. QED
    BY <2>1, <2>4, ContextsSame
<1>. QED
  BY <1>1, <1>2 DEF Receive

LEMMA ReadyMessage ==
  ASSUME MessagesFine, NEW c \in Clients
  PROVE  IsMessage(Ready(c)) /\ IsMessage(Secured(Ready(c)))
<1>1. PICK r : r = Head(clients[c].todo)
  OBVIOUS
<1>2. PICK e : e = IF r.again THEN clients[c].ctx ELSE soap_env_new_with_method(r.urn, r.method)
  OBVIOUS
<1>3. IsMessage(e)
  BY <1>2, AnswersAreMessages DEF MessagesFine
<1>4. Ready(c) = Addressed(e, c, clients[c].n + 1, r)
  BY <1>1, <1>2 DEF Ready
<1>. QED
  BY <1>3, <1>4, AddressedKeeps, SecuredKeeps DEF Kept

LEMMA InvokeMessages ==
  ASSUME CallsFine, MessagesFine, NEW c \in Clients, soap_client_invoke(c)
  PROVE  MessagesFine'
<1>1. PICK x : clients' = [clients EXCEPT ![c] = x] /\ Ends(x, c)
  BY Invocation
<1>2. IsMessage(Ready(c)) /\ IsMessage(Secured(Ready(c)))
  BY ReadyMessage
<1>3. IsMessage(x.ctx)
  BY <1>1, <1>2 DEF Ends
<1>4. \A call, big : /\ Datagram(ServerPort, call, Secured(Ready(c)), call, big).env = Secured(Ready(c))
                     /\ NewJob(Secured(Ready(c)), call, Http).env = Secured(Ready(c))
  BY DEF Datagram, NewJob
<1>5. /\ \A d \in net' : d \in net \/ d.env = Secured(Ready(c))
      /\ \A i \in jobs' : i \in jobs \/ i.env = Secured(Ready(c))
  BY <1>1, <1>4 DEF Ends
<1>6. (\A d \in net' : IsMessage(d.env)) /\ \A i \in jobs' : IsMessage(i.env)
  BY <1>2, <1>5 DEF MessagesFine
<1>. QED
  BY <1>1, <1>3, <1>6, ContextsKept

LEMMA AwaitMessages ==
  ASSUME CallsFine, MessagesFine, NEW c \in Clients, Await(c)
  PROVE  MessagesFine'
<1>1. PICK y : clients' = [clients EXCEPT ![c] = y] /\ SameCall(y, clients[c])
  BY Awaited
<1>2. net' \subseteq net /\ UNCHANGED jobs
  BY DEF Await, UdpAnswer, ConnectionLost, ClientStep
<1>3. IsMessage(y.ctx)
  BY <1>1 DEF SameCall, MessagesFine
<1>. QED
  BY <1>1, <1>2, <1>3, ContextsKept DEF MessagesFine

(* The network changes no message.                                         *)
LEMMA Disturbed ==
  ASSUME CallsFine, Lose \/ Oversize \/ Double
  PROVE  /\ UNCHANGED <<server, routers, registry, udp, jobs, clients, cfg, served>>
         /\ spent.faults < MaxFaults /\ spent'.faults = spent.faults + 1
         /\ \A e \in net' : \E d \in net : e.env = d.env /\ e.call = d.call /\ e.to = d.to
<1>2. /\ UNCHANGED <<server, routers, registry, udp, jobs, clients, cfg, served>>
      /\ spent.faults < MaxFaults /\ spent'.faults = spent.faults + 1
  BY DEF Lose, Oversize, Double, Disturb
<1>3. \A e \in net' : e \in net \/ \E d \in net : \E copy : e \in {[d EXCEPT !.whole = FALSE], [d EXCEPT !.copy = copy]}
  <2>1. CASE Lose
    BY <2>1 DEF Lose, Disturb
  <2>2. CASE Oversize
    BY <2>2 DEF Oversize, Disturb
  <2>3. CASE Double
    <3>1. PICK d \in net : net' = net \cup {[d EXCEPT !.copy = @ + 1]}
      BY <2>3 DEF Double, Disturb
    <3>2. PICK copy : copy = d.copy + 1
      OBVIOUS
    <3>3. net' = net \cup {[d EXCEPT !.copy = copy]}
      BY <3>1, <3>2
    <3>. QED
      BY <3>3
  <2>. QED
    BY <2>1, <2>2, <2>3
<1>4. ASSUME NEW e \in net' PROVE \E d \in net : e.env = d.env /\ e.call = d.call /\ e.to = d.to
  <2>1. CASE e \in net
    BY <2>1
  <2>2. ASSUME NEW d \in net, NEW copy, e \in {[d EXCEPT !.whole = FALSE], [d EXCEPT !.copy = copy]}
        PROVE  e.env = d.env /\ e.call = d.call /\ e.to = d.to
    <3>1. DOMAIN d = {"to", "from", "env", "call", "whole", "copy"}
      BY DEF CallsFine, DatagramFine
    <3>2. CASE e = [d EXCEPT !.whole = FALSE]
      BY <3>1, <3>2
    <3>3. CASE e = [d EXCEPT !.copy = copy]
      BY <3>1, <3>3
    <3>. QED
      BY <2>2, <3>2, <3>3
  <2>. QED
    BY <1>3, <2>1, <2>2
<1>. QED
  BY <1>2, <1>4

LEMMA NetworkMessages == ASSUME CallsFine, MessagesFine, Lose \/ Oversize \/ Double PROVE MessagesFine'
BY Disturbed, ContextsSame DEF MessagesFine

LEMMA NextKeepsMessages == ASSUME CallsFine, MessagesFine, [Next]_vars PROVE MessagesFine'
<1>1. CASE Setup \/ soap_server_run \/ Shutdown \/ Crash
  BY <1>1, MainMessages
<1>2. CASE Work
  BY <1>2, ServiceMessages, SendMessages DEF Work
<1>3. CASE Receive
  BY <1>3, ReceiveMessages
<1>4. CASE \E c \in Clients : soap_client_invoke(c) \/ Await(c)
  BY <1>4, InvokeMessages, AwaitMessages
<1>5. CASE Lose \/ Oversize \/ Double
  BY <1>5, NetworkMessages
<1>6. CASE UNCHANGED vars
  BY <1>6 DEF MessagesFine, vars
<1>7. QED
  BY <1>1, <1>2, <1>3, <1>4, <1>5, <1>6 DEF Next

(* No message has an addressing header twice, however many calls a context *)
(* was used for: soap-addressing.c unlinks the entry it replaces, or sets  *)
(* its content, and the server fills in only what is missing.              *)
THEOREM HeadersOnce == Spec => []HeadersUnique
<1>1. Init => CallsFine /\ MessagesFine
  BY InitFine, InitMessages
<1>2. CallsFine /\ MessagesFine /\ [Next]_vars => (CallsFine /\ MessagesFine)'
  BY NextKeepsCalls, NextKeepsMessages
<1>3. MessagesFine => HeadersUnique
  BY DEF MessagesFine, IsMessage, Once, HeadersUnique, Messages
<1>4. QED
  BY <1>1, <1>2, <1>3, PTL DEF Spec

-----------------------------------------------------------------------------
(* Types. The program registers routers it has made, the counts of a       *)
(* client and its calls to come stay within the bounds, and the UDP thread *)
(* is busy with one job or with none.                                      *)
IsSequence(s) == \E S : s \in Seq(S)
Ahead(todo, i) == {k \in 1 .. i - 1 : todo[k].op = "new"}

RegisterInv ==
  /\ IsSequence(server.todo) /\ IsSequence(routers) /\ IsSequence(registry)
  /\ \A i \in DOMAIN server.todo : server.todo[i].op # "new" =>
       server.todo[i].router \in 1 .. Len(routers) + Cardinality(Ahead(server.todo, i))
  /\ \A r \in DOMAIN routers : /\ DOMAIN routers[r] = {"services", "default"}
                               /\ IsSequence(routers[r].services)
  /\ \A i \in DOMAIN registry : registry[i].router \in DOMAIN routers

ClientTyped(x) ==
  /\ x.pc \in {"idle", "http", "udp", "spin", "dead"}
  /\ IsSequence(x.todo) /\ x.n + Len(x.todo) <= MaxCalls
  /\ x.sockets \in 0 .. MaxSockets

TypeInv ==
  /\ server.pc \in {"setup", "running", "stopped", "freed", "destroyed", "exited"}
  /\ udp.pc \in {"absent", "test", "receive", "busy", "release", "ended"}
  /\ (udp.pc = "busy") = (\E j \in jobs : j.from # Http)
  /\ \A i, j \in jobs : i.from # Http /\ j.from # Http => i = j
  /\ \A c \in Clients : ClientTyped(clients[c])
  /\ spent.faults \in 0 .. MaxFaults

LEMMA LenType == ASSUME NEW s, IsSequence(s) PROVE Len(s) \in Nat /\ DOMAIN s = 1 .. Len(s)
BY LenProperties DEF IsSequence

LEMMA Lengthened ==
  ASSUME NEW s, IsSequence(s), NEW e
  PROVE  /\ IsSequence(Append(s, e)) /\ DOMAIN Append(s, e) = 1 .. Len(s) + 1
         /\ Len(Append(s, e)) = Len(s) + 1
         /\ \A i \in 1 .. Len(s) + 1 : Append(s, e)[i] = IF i = Len(s) + 1 THEN e ELSE s[i]
<1>1. PICK S : s \in Seq(S)
  BY DEF IsSequence
<1>2. s \in Seq(S \cup {e}) /\ e \in S \cup {e}
  BY <1>1
<1>3. PICK t : t = Append(s, e)
  OBVIOUS
<1>4. /\ t \in Seq(S \cup {e}) /\ Len(t) = Len(s) + 1 /\ DOMAIN t = 1 .. Len(s) + 1
      /\ \A i \in 1 .. Len(s) + 1 : t[i] = IF i = Len(s) + 1 THEN e ELSE s[i]
  BY <1>2, <1>3
<1>. QED
  BY <1>3, <1>4 DEF IsSequence

LEMMA Shortened ==
  ASSUME NEW s, IsSequence(s), s # << >>
  PROVE  /\ Len(s) \in Nat \ {0} /\ Head(s) = s[1]
         /\ IsSequence(Tail(s)) /\ Len(Tail(s)) = Len(s) - 1 /\ DOMAIN Tail(s) = 1 .. Len(s) - 1
         /\ \A i \in 1 .. Len(s) - 1 : Tail(s)[i] = s[i + 1]
<1>1. PICK S : s \in Seq(S)
  BY DEF IsSequence
<1>2. Len(s) \in Nat \ {0} /\ Head(s) = s[1]
  BY <1>1, EmptySeq
<1>3. PICK t : t = Tail(s)
  OBVIOUS
<1>4. t \in Seq(S) /\ Len(t) = Len(s) - 1 /\ \A i \in 1 .. Len(t) : t[i] = s[i + 1]
  BY <1>1, <1>3, HeadTailProperties
<1>5. DOMAIN t = 1 .. Len(s) - 1
  BY <1>4, LenProperties
<1>. QED
  BY <1>2, <1>3, <1>4, <1>5 DEF IsSequence

(* What was the place i + 1 of the program is the place i of its tail.     *)
LEMMA AheadOfTail ==
  ASSUME NEW todo, IsSequence(todo), todo # << >>, NEW i \in 1 .. Len(todo) - 1
  PROVE  /\ Cardinality(Ahead(Tail(todo), i)) \in Nat
         /\ Cardinality(Ahead(todo, i + 1)) =
              Cardinality(Ahead(Tail(todo), i)) + IF Head(todo).op = "new" THEN 1 ELSE 0
<1>1. PICK t : t = Tail(todo)
  OBVIOUS
<1>2. /\ Len(todo) \in Nat \ {0} /\ Head(todo) = todo[1]
      /\ \A k \in 1 .. Len(todo) - 1 : t[k] = todo[k + 1]
  BY <1>1, Shortened
<1>3. PICK B : B = Ahead(t, i)
  OBVIOUS
<1>4. PICK C : C = {k \in 2 .. i : todo[k].op = "new"}
  OBVIOUS
<1>5. IsFiniteSet(B) /\ Cardinality(B) \in Nat
  <2>1. B \subseteq 1 .. i - 1
    BY <1>3 DEF Ahead
  <2>2. 1 \in Int /\ i - 1 \in Int
    BY <1>2
  <2>3. IsFiniteSet(1 .. i - 1)
    BY <2>2, FS_Interval
  <2>. QED
    BY <2>1, <2>3, FS_Subset, FS_CardinalityType
<1>6. PICK f : f = [k \in B |-> k + 1]
  OBVIOUS
<1>7. ASSUME NEW k \in B PROVE k \in 1 .. i - 1 /\ todo[k + 1].op = "new"
  <2>1. k \in 1 .. i - 1 /\ t[k].op = "new"
    BY <1>3 DEF Ahead
  <2>2. k \in 1 .. Len(todo) - 1
    BY <1>2, <2>1
  <2>. QED
    BY <1>2, <2>1, <2>2
<1>8. f \in Bijection(B, C)
  <2>1. f \in [B -> C]
    BY <1>2, <1>4, <1>6, <1>7
  <2>2. \A k, l \in B : f[k] = f[l] => k = l
    BY <1>6, <1>7
  <2>3. ASSUME NEW m \in C PROVE \E k \in B : f[k] = m
    <3>1. m \in 2 .. i /\ todo[m].op = "new"
      BY <1>4
    <3>2. m - 1 \in 1 .. i - 1 /\ m - 1 \in 1 .. Len(todo) - 1 /\ (m - 1) + 1 = m
      BY <1>2, <3>1
    <3>3. t[m - 1].op = "new"
      BY <1>2, <3>1, <3>2
    <3>4. m - 1 \in B
      BY <1>3, <3>2, <3>3 DEF Ahead
    <3>. QED
      BY <1>6, <3>2, <3>4
  <2>. QED
    BY <2>1, <2>2, <2>3 DEF Bijection, Injection, Surjection, IsInjective
<1>9. IsFiniteSet(C) /\ Cardinality(C) = Cardinality(B)
  BY <1>5, <1>8, FS_Bijection DEF ExistsBijection
<1>10. Ahead(todo, i + 1) = IF Head(todo).op = "new" THEN C \cup {1} ELSE C
  <2>1. \A k : k \in 1 .. (i + 1) - 1 <=> k = 1 \/ k \in 2 .. i
    BY <1>2
  <2>. QED
    BY <1>2, <1>4, <2>1 DEF Ahead
<1>11. Cardinality(C \cup {1}) = Cardinality(C) + 1
  <2>1. 1 \notin C
    BY <1>4
  <2>. QED
    BY <1>9, <2>1, FS_AddElement
<1>. QED
  BY <1>1, <1>3, <1>5, <1>9, <1>10, <1>11

LEMMA NothingAhead == \A todo : Cardinality(Ahead(todo, 1)) = 0
<1>1. \A todo : Ahead(todo, 1) = {}
  BY DEF Ahead
<1>. QED
  BY <1>1, FS_EmptySet

LEMMA ToRegister ==
  ASSUME RegisterInv, server.todo # << >>, server' = [server EXCEPT !.todo = Tail(@)],
         DOMAIN server = {"pc", "todo"},
         Len(routers') = Len(routers) + IF Head(server.todo).op = "new" THEN 1 ELSE 0
  PROVE  /\ IsSequence(server'.todo)
         /\ \A i \in DOMAIN server'.todo : server'.todo[i].op # "new" =>
              server'.todo[i].router \in 1 .. Len(routers') + Cardinality(Ahead(server'.todo, i))
         /\ Head(server.todo).op # "new" => Head(server.todo).router \in DOMAIN routers
<1>1. PICK todo : todo = server.todo
  OBVIOUS
<1>2. server'.todo = Tail(todo) /\ IsSequence(todo) /\ todo # << >>
  BY <1>1 DEF RegisterInv
<1>3. /\ Len(todo) \in Nat \ {0} /\ Head(todo) = todo[1]
      /\ IsSequence(Tail(todo)) /\ Len(Tail(todo)) = Len(todo) - 1 /\ DOMAIN Tail(todo) = 1 .. Len(todo) - 1
      /\ \A i \in 1 .. Len(todo) - 1 : Tail(todo)[i] = todo[i + 1]
  BY <1>2, Shortened
<1>4. /\ DOMAIN todo = 1 .. Len(todo) /\ Len(routers) \in Nat /\ DOMAIN routers = 1 .. Len(routers)
      /\ \A i \in DOMAIN todo : todo[i].op # "new" =>
           todo[i].router \in 1 .. Len(routers) + Cardinality(Ahead(todo, i))
  BY <1>1, <1>2, LenType DEF RegisterInv
<1>5. ASSUME NEW i \in 1 .. Len(todo) - 1, Tail(todo)[i].op # "new"
      PROVE  Tail(todo)[i].router \in 1 .. Len(routers') + Cardinality(Ahead(Tail(todo), i))
  <2>1. i + 1 \in DOMAIN todo /\ Tail(todo)[i] = todo[i + 1]
    BY <1>3, <1>4
  <2>2. todo[i + 1].router \in 1 .. Len(routers) + Cardinality(Ahead(todo, i + 1))
    BY <1>4, <1>5, <2>1
  <2>3. /\ Cardinality(Ahead(Tail(todo), i)) \in Nat
        /\ Cardinality(Ahead(todo, i + 1)) =
              Cardinality(Ahead(Tail(todo), i)) + IF Head(todo).op = "new" THEN 1 ELSE 0
    BY <1>2, AheadOfTail
  <2>4. Len(routers') + Cardinality(Ahead(Tail(todo), i)) = Len(routers) + Cardinality(Ahead(todo, i + 1))
    BY <1>1, <1>4, <2>3
  <2>. QED
    BY <2>1, <2>2, <2>4
<1>6. Head(todo).op # "new" => Head(todo).router \in DOMAIN routers
  BY <1>3, <1>4, NothingAhead
<1>. QED
  BY <1>1, <1>2, <1>3, <1>5, <1>6

LEMMA InitTypes == ASSUME Init PROVE RegisterInv /\ TypeInv
<1>1. PICK s \in Scenarios :
       /\ server = [pc |-> "setup", todo |-> s.program]
       /\ clients = [c \in Clients |->
            [pc |-> "idle", todo |-> s.work[c], ctx |-> NoEnv, n |-> 0, sockets |-> 0,
             asked |-> [urn |-> "", method |-> "", path |-> "", fresh |-> FALSE, big |-> FALSE],
             status |-> "none", answer |-> NoEnv, of |-> << >>]]
  BY DEF Init
<1>2. routers = << >> /\ registry = << >> /\ jobs = {} /\ spent.faults = 0
  BY DEF Init
<1>3. udp = [pc |-> "absent", running |-> FALSE, after |-> 0]
  BY DEF Init
<1>4. IsSequence(s.program) /\ \A c \in Clients : IsSequence(s.work[c]) /\ Len(s.work[c]) <= MaxCalls
  BY CallAssumption DEF IsSequence
<1>5. RegisterInv
  <2>1. server.todo = s.program
    BY <1>1
  <2>2. IsSequence(routers) /\ Len(routers) = 0 /\ DOMAIN routers = {}
    BY <1>2 DEF IsSequence
  <2>3. IsSequence(registry) /\ DOMAIN registry = {}
    BY <1>2 DEF IsSequence
  <2>4. ASSUME NEW i \in DOMAIN s.program, s.program[i].op # "new"
        PROVE  s.program[i].router \in 1 .. Len(routers) + Cardinality(Ahead(s.program, i))
    <3>1. s.program[i].router \in 1 .. Cardinality(Ahead(s.program, i))
      BY <2>4, CallAssumption DEF Ahead
    <3>2. 0 + Cardinality(Ahead(s.program, i)) = Cardinality(Ahead(s.program, i))
      <4>1. IsFiniteSet(Ahead(s.program, i))
        <5>1. DOMAIN s.program = 1 .. Len(s.program) /\ Len(s.program) \in Nat
          BY <1>4, LenType
        <5>2. 1 \in Int /\ i - 1 \in Int
          BY <5>1
        <5>3. IsFiniteSet(1 .. i - 1)
          BY <5>2, FS_Interval
        <5>4. Ahead(s.program, i) \subseteq 1 .. i - 1
          BY DEF Ahead
        <5>. QED
          BY <5>3, <5>4, FS_Subset
      <4>. QED
        BY <4>1, FS_CardinalityType
    <3>. QED
      BY <2>2, <3>1, <3>2
  <2>. QED
    BY <1>4, <2>1, <2>2, <2>3, <2>4 DEF RegisterInv
<1>6. TypeInv
  <2>1. \A c \in Clients : ClientTyped(clients[c])
    <3>1. ASSUME NEW c \in Clients PROVE ClientTyped(clients[c])
      <4>1. /\ clients[c].pc = "idle" /\ clients[c].todo = s.work[c] /\ clients[c].n = 0
            /\ clients[c].sockets = 0
        BY <1>1
      <4>2. Len(s.work[c]) \in Nat
        BY <1>4, LenType
      <4>. QED
        BY <1>4, <4>1, <4>2, CallAssumption DEF ClientTyped
    <3>. QED
      BY <3>1
  <2>2. server.pc = "setup" /\ udp.pc = "absent"
    BY <1>1, <1>3
  <2>3. (udp.pc = "busy") = (\E j \in jobs : j.from # Http)
    BY <1>2, <2>2
  <2>4. spent.faults \in 0 .. MaxFaults
    BY <1>2, CallAssumption
  <2>. QED
    BY <1>2, <2>1, <2>2, <2>3, <2>4 DEF TypeInv
<1>. QED
  BY <1>5, <1>6

-----------------------------------------------------------------------------
(* The registrations.                                                      *)
LEMMA SetupRegisters ==
  ASSUME RegisterInv, UdpInv, Setup
  PROVE  RegisterInv'
<1>1. /\ server.todo # << >> /\ server' = [server EXCEPT !.todo = Tail(@)]
      /\ DOMAIN server = {"pc", "todo"}
  BY DEF Setup, Registering, soap_router_new, soap_router_register_service, UdpInv,
         soap_router_register_default_service, soap_server_register_router
<1>2. PICK op : op = Head(server.todo)
  OBVIOUS
<1>3. /\ IsSequence(routers) /\ IsSequence(registry)
      /\ Len(routers) \in Nat /\ DOMAIN routers = 1 .. Len(routers)
      /\ Len(registry) \in Nat /\ DOMAIN registry = 1 .. Len(registry)
  BY LenType DEF RegisterInv
<1>4. /\ \A r \in DOMAIN routers : DOMAIN routers[r] = {"services", "default"} /\ IsSequence(routers[r].services)
      /\ \A i \in DOMAIN registry : registry[i].router \in DOMAIN routers
  BY DEF RegisterInv
<1>5. CASE soap_router_new
  <2>1. PICK new : new = [services |-> << >>, default |-> NoService]
    OBVIOUS
  <2>2. DOMAIN new = {"services", "default"} /\ IsSequence(new.services)
    BY <2>1 DEF IsSequence
  <2>3. routers' = Append(routers, new) /\ UNCHANGED registry /\ op.op = "new"
    BY <1>2, <1>5, <2>1 DEF soap_router_new, Registering
  <2>4. /\ IsSequence(routers') /\ DOMAIN routers' = 1 .. Len(routers) + 1 /\ Len(routers') = Len(routers) + 1
        /\ \A r \in 1 .. Len(routers) + 1 : routers'[r] = IF r = Len(routers) + 1 THEN new ELSE routers[r]
    BY <1>3, <2>3, Lengthened
  <2>5. \A r \in DOMAIN routers' : DOMAIN routers'[r] = {"services", "default"} /\ IsSequence(routers'[r].services)
    <3>1. \A r \in DOMAIN routers' : r = Len(routers) + 1 \/ r \in DOMAIN routers
      BY <1>3, <2>4
    <3>. QED
      BY <1>4, <2>2, <2>4, <3>1
  <2>6. \A i \in DOMAIN registry' : registry'[i].router \in DOMAIN routers'
    BY <1>3, <1>4, <2>3, <2>4
  <2>7. /\ IsSequence(server'.todo)
        /\ \A i \in DOMAIN server'.todo : server'.todo[i].op # "new" =>
              server'.todo[i].router \in 1 .. Len(routers') + Cardinality(Ahead(server'.todo, i))
    BY <1>1, <1>2, <2>3, <2>4, ToRegister
  <2>. QED
    BY <1>3, <2>3, <2>4, <2>5, <2>6, <2>7 DEF RegisterInv
<1>6. ASSUME UNCHANGED registry, op.op # "new", NEW router,
             DOMAIN router = {"services", "default"}, IsSequence(router.services),
             routers' = [routers EXCEPT ![op.router] = router]
      PROVE  RegisterInv'
  <2>1. PICK S : routers \in Seq(S)
    BY <1>3 DEF IsSequence
  <2>2. PICK r : r = op.router
    OBVIOUS
  <2>3. routers \in Seq(S \cup {router}) /\ routers' = [routers EXCEPT ![r] = router]
    BY <1>6, <2>1, <2>2
  <2>4. IsSequence(routers') /\ DOMAIN routers' = DOMAIN routers /\ Len(routers') = Len(routers)
    <3>1. CASE r \in DOMAIN routers
      <4>1. routers' \in Seq(S \cup {router}) /\ Len(routers') = Len(routers)
        BY <1>3, <2>3, <3>1, ExceptSeq
      <4>. QED
        BY <2>3, <4>1 DEF IsSequence
    <3>2. CASE r \notin DOMAIN routers
      <4>1. routers' = routers
        BY <2>1, <2>3, <3>2
      <4>. QED
        BY <1>3, <4>1
    <3>. QED
      BY <3>1, <3>2
  <2>5. \A k \in DOMAIN routers' : DOMAIN routers'[k] = {"services", "default"} /\ IsSequence(routers'[k].services)
    BY <1>4, <1>6, <2>3, <2>4
  <2>6. \A i \in DOMAIN registry' : registry'[i].router \in DOMAIN routers'
    BY <1>4, <1>6, <2>4
  <2>7. Len(routers') = Len(routers) + 0
    BY <1>3, <2>4
  <2>8. /\ IsSequence(server'.todo)
        /\ \A i \in DOMAIN server'.todo : server'.todo[i].op # "new" =>
              server'.todo[i].router \in 1 .. Len(routers') + Cardinality(Ahead(server'.todo, i))
    BY <1>1, <1>2, <1>6, <2>7, ToRegister
  <2>. QED
    BY <1>3, <1>6, <2>4, <2>5, <2>6, <2>8 DEF RegisterInv
<1>7. op.op # "new" => op.router \in DOMAIN routers
  <2>1. server.todo[1].op # "new" =>
          server.todo[1].router \in 1 .. Len(routers) + Cardinality(Ahead(server.todo, 1))
    BY <1>1, Shortened, LenType DEF RegisterInv
  <2>. QED
    BY <1>1, <1>2, <1>3, <2>1, NothingAhead, Shortened DEF RegisterInv
<1>8. CASE soap_router_register_service
  <2>1. PICK r : r = op.router
    OBVIOUS
  <2>2. op.op = "service" /\ UNCHANGED registry /\
        routers' = [routers EXCEPT ![r].services = Append(@, service_new(op))]
    BY <1>2, <1>8, <2>1 DEF soap_router_register_service, Registering
  <2>3. DOMAIN routers[r] = {"services", "default"} /\ IsSequence(routers[r].services)
    BY <1>4, <1>7, <2>1, <2>2
  <2>4. PICK list : list = Append(routers[r].services, service_new(op))
    OBVIOUS
  <2>5. IsSequence(list)
    BY <2>3, <2>4, Lengthened
  <2>6. PICK router : router = [routers[r] EXCEPT !.services = list]
    OBVIOUS
  <2>7. DOMAIN router = {"services", "default"} /\ IsSequence(router.services)
    BY <2>3, <2>5, <2>6
  <2>8. routers' = [routers EXCEPT ![r] = router]
    BY <2>2, <2>4, <2>6
  <2>. QED
    BY <1>6, <2>1, <2>2, <2>7, <2>8
<1>9. CASE soap_router_register_default_service
  <2>1. PICK r : r = op.router
    OBVIOUS
  <2>2. op.op = "default" /\ UNCHANGED registry /\
        routers' = [routers EXCEPT ![r] = [services |-> Append(@.services, service_new(op)),
                                            default |-> service_new(op)]]
    BY <1>2, <1>9, <2>1 DEF soap_router_register_default_service, Registering
  <2>3. DOMAIN routers[r] = {"services", "default"} /\ IsSequence(routers[r].services)
    BY <1>4, <1>7, <2>1, <2>2
  <2>4. PICK list : list = Append(routers[r].services, service_new(op))
    OBVIOUS
  <2>5. IsSequence(list)
    BY <2>3, <2>4, Lengthened
  <2>6. PICK router : router = [services |-> list, default |-> service_new(op)]
    OBVIOUS
  <2>7. DOMAIN router = {"services", "default"} /\ IsSequence(router.services)
    BY <2>5, <2>6
  <2>8. routers' = [routers EXCEPT ![r] = router]
    BY <2>2, <2>4, <2>6
  <2>. QED
    BY <1>6, <2>1, <2>2, <2>7, <2>8
<1>10. CASE soap_server_register_router
  <2>1. PICK new : new = [context |-> op.context, router |-> op.router]
    OBVIOUS
  <2>2. op.op = "register" /\ UNCHANGED routers /\ registry' = Append(registry, new)
    BY <1>2, <1>10, <2>1 DEF soap_server_register_router, Registering
  <2>3. new.router \in DOMAIN routers
    BY <1>7, <2>1, <2>2
  <2>4. /\ IsSequence(registry') /\ DOMAIN registry' = 1 .. Len(registry) + 1
        /\ \A i \in 1 .. Len(registry) + 1 : registry'[i] = IF i = Len(registry) + 1 THEN new ELSE registry[i]
    BY <1>3, <2>2, Lengthened
  <2>5. ASSUME NEW i \in DOMAIN registry' PROVE registry'[i].router \in DOMAIN routers'
    <3>1. i = Len(registry) + 1 \/ i \in DOMAIN registry
      BY <1>3, <2>4
    <3>. QED
      BY <1>4, <2>2, <2>3, <2>4, <3>1
  <2>6. Len(routers') = Len(routers) + 0
    BY <1>3, <2>2
  <2>7. /\ IsSequence(server'.todo)
        /\ \A i \in DOMAIN server'.todo : server'.todo[i].op # "new" =>
              server'.todo[i].router \in 1 .. Len(routers') + Cardinality(Ahead(server'.todo, i))
    BY <1>1, <1>2, <2>2, <2>6, ToRegister
  <2>. QED
    BY <1>3, <1>4, <2>2, <2>4, <2>5, <2>7 DEF RegisterInv
<1>. QED
  BY <1>5, <1>8, <1>9, <1>10 DEF Setup

LEMMA RegisterKept ==
  ASSUME RegisterInv, UNCHANGED <<routers, registry>>, server'.todo = server.todo
  PROVE  RegisterInv'
BY DEF RegisterInv

LEMMA NextKeepsRegister == ASSUME RegisterInv, UdpInv, [Next]_vars PROVE RegisterInv'
<1>1. CASE Setup
  BY <1>1, SetupRegisters
<1>2. DOMAIN server = {"pc", "todo"}
  BY DEF UdpInv
<1>3. CASE soap_server_run \/ Shutdown \/ Crash
  <2>1. PICK pc : server' = [server EXCEPT !.pc = pc] /\ UNCHANGED <<routers, registry>>
    BY <1>3 DEF soap_server_run, Shutdown, Crash, MainStep, Stop, FreeRouters, soap_server_destroy, Exit
  <2>2. server'.todo = server.todo
    BY <1>2, <2>1
  <2>. QED
    BY <2>1, <2>2, RegisterKept
<1>4. CASE Work
  <2>1. ASSUME NEW j \in jobs, Route(j) \/ CallService(j) PROVE UNCHANGED <<server, routers, registry>>
    BY <2>1 DEF Route, CallService, Reply, JobStep
  <2>2. ASSUME NEW j \in jobs, UdpSend(j) \/ HttpSend(j) PROVE UNCHANGED <<server, routers, registry>>
    BY <2>2 DEF UdpSend, HttpSend, UdpStep
  <2>3. UNCHANGED <<server, routers, registry>>
    BY <1>4, <2>1, <2>2 DEF Work
  <2>. QED
    BY <2>3, RegisterKept
<1>5. CASE Receive
  BY <1>5, RegisterKept DEF Receive, TestRunning, Released, _soap_nudp_receive_document, UdpStep
<1>6. CASE \E c \in Clients : soap_client_invoke(c) \/ Await(c)
  BY <1>6, RegisterKept DEF soap_client_invoke, Await, UdpAnswer, ConnectionLost, ClientStep
<1>7. CASE Lose \/ Oversize \/ Double
  BY <1>7, RegisterKept DEF Lose, Oversize, Double, Disturb
<1>8. CASE UNCHANGED vars
  BY <1>8, RegisterKept DEF vars
<1>. QED
  BY <1>1, <1>3, <1>4, <1>5, <1>6, <1>7, <1>8 DEF Next

-----------------------------------------------------------------------------
(* The thread of soap_nudp_server_run has one job while it is busy.        *)
UdpJobs ==
  /\ (udp.pc = "busy") = (\E j \in jobs : j.from # Http)
  /\ \A i, j \in jobs : i.from # Http /\ j.from # Http => i = j

LEMMA CallIsNotHttp == ASSUME NEW call \in CallNames PROVE call # Http
<1>1. PICK c \in Clients, n \in Nat : call = <<c, n>>
  BY DEF CallNames
<1>2. Len(<<c, n>>) = 2 /\ Len(<< >>) = 0
  OBVIOUS
<1>. QED
  BY <1>1, <1>2 DEF Http

LEMMA SwappedJob ==
  ASSUME UdpJobs, NEW j \in jobs, NEW k, k.from = j.from, jobs' = (jobs \ {j}) \cup {k}, UNCHANGED udp
  PROVE  UdpJobs'
<1>1. ASSUME j.from # Http PROVE UdpJobs'
  <2>1. \A i \in jobs : i.from # Http => i = j
    BY <1>1 DEF UdpJobs
  <2>2. \A i \in jobs' : i.from # Http => i = k
    BY <2>1
  <2>3. k \in jobs' /\ k.from # Http /\ udp.pc = "busy"
    BY <1>1 DEF UdpJobs
  <2>. QED
    BY <2>2, <2>3 DEF UdpJobs
<1>2. ASSUME j.from = Http PROVE UdpJobs'
  <2>1. \A i : i.from # Http => (i \in jobs' <=> i \in jobs)
    BY <1>2
  <2>. QED
    BY <2>1 DEF UdpJobs
<1>. QED
  BY <1>1, <1>2

LEMMA NextKeepsUdpJobs ==
  ASSUME UdpJobs, UdpInv, CallsFine, MessagesFine, [Next]_vars
  PROVE  UdpJobs'
<1>1. CASE Setup \/ UNCHANGED vars \/ Lose \/ Oversize \/ Double
  <2>1. UNCHANGED <<udp, jobs>>
    BY <1>1 DEF Setup, Registering, soap_router_new, soap_router_register_service, Lose, Oversize, Double, Disturb,
         soap_router_register_default_service, soap_server_register_router, vars
  <2>. QED
    BY <2>1 DEF UdpJobs
<1>2. CASE soap_server_run
  <2>1. PICK pc \in {"test", "absent"} : udp' = [udp EXCEPT !.pc = pc, !.running = TRUE]
    BY <1>2 DEF soap_server_run
  <2>2. udp.pc = "absent" /\ UNCHANGED jobs
    BY <1>2 DEF soap_server_run, MainStep, UdpInv
  <2>3. udp'.pc \in {"test", "absent"}
    BY <2>1 DEF UdpInv
  <2>. QED
    BY <2>2, <2>3 DEF UdpJobs
<1>3. CASE Stop \/ FreeRouters
  BY <1>3 DEF Stop, FreeRouters, MainStep, UdpJobs
<1>4. CASE soap_server_destroy
  <2>1. udp'.pc = udp.pc /\ UNCHANGED jobs
    BY <1>4 DEF soap_server_destroy, UdpInv
  <2>. QED
    BY <2>1 DEF UdpJobs
<1>5. CASE Exit \/ Crash
  <2>1. udp'.pc = "ended" /\ jobs' = {}
    BY <1>5 DEF Exit, Crash, UdpInv
  <2>. QED
    BY <2>1 DEF UdpJobs
<1>6. CASE Work
  <2>1. ASSUME NEW j \in jobs, Route(j) \/ CallService(j) PROVE UdpJobs'
    <3>1. PICK k : jobs' = (jobs \ {j}) \cup {k} /\ k.from = j.from
      BY <2>1, Routed, Served
    <3>2. UNCHANGED udp
      BY <2>1, Routed, Served
    <3>. QED
      BY <3>1, <3>2, SwappedJob
  <2>2. ASSUME NEW j \in jobs, UdpSend(j) PROVE UdpJobs'
    <3>1. j.from # Http /\ jobs' = jobs \ {j} /\ udp'.pc = "test"
      BY <2>2 DEF UdpSend, UdpStep, UdpInv
    <3>. QED
      BY <3>1 DEF UdpJobs
  <2>3. ASSUME NEW j \in jobs, HttpSend(j) PROVE UdpJobs'
    <3>1. j.from = Http /\ jobs' = jobs \ {j} /\ UNCHANGED udp
      BY <2>3 DEF HttpSend
    <3>. QED
      BY <3>1 DEF UdpJobs
  <2>. QED
    BY <1>6, <2>1, <2>2, <2>3 DEF Work
<1>7. CASE TestRunning \/ Released
  <2>1. udp.pc \in {"test", "release"} /\ udp'.pc \in {"receive", "ended", "test"} /\ UNCHANGED jobs
    BY <1>7 DEF TestRunning, Released, UdpStep, UdpInv
  <2>. QED
    BY <2>1 DEF UdpJobs
<1>8. CASE _soap_nudp_receive_document
  <2>1. PICK d \in net :
          /\ d.to = ServerPort /\ udp.pc = "receive"
          /\ udp'.pc = IF d.whole THEN "busy" ELSE "release"
          /\ jobs' = IF d.whole THEN jobs \cup {NewJob(LocalPart(d.env), d.call, d.from)} ELSE jobs
    BY <1>8 DEF _soap_nudp_receive_document, UdpInv
  <2>2. PICK k : k = NewJob(LocalPart(d.env), d.call, d.from)
    OBVIOUS
  <2>3. k.from = d.from /\ d.from \in CallNames
    BY <2>1, <2>2 DEF NewJob, CallsFine, DatagramFine
  <2>4. k.from # Http
    BY <2>3, CallIsNotHttp
  <2>5. \A j \in jobs : j.from = Http
    BY <2>1 DEF UdpJobs
  <2>. QED
    BY <2>1, <2>2, <2>4, <2>5 DEF UdpJobs
<1>9. ASSUME NEW c \in Clients, soap_client_invoke(c) PROVE UdpJobs'
  <2>1. PICK x : Ends(x, c)
    BY <1>9, Invocation
  <2>2. NewJob(Secured(Ready(c)), <<c, clients[c].n + 1>>, Http).from = Http
    BY DEF NewJob
  <2>3. \A i : i.from # Http => (i \in jobs' <=> i \in jobs)
    BY <2>1, <2>2 DEF Ends
  <2>4. UNCHANGED udp
    BY <1>9 DEF soap_client_invoke
  <2>. QED
    BY <2>3, <2>4 DEF UdpJobs
<1>10. ASSUME NEW c \in Clients, Await(c) PROVE UdpJobs'
  BY <1>10 DEF Await, UdpAnswer, ConnectionLost, ClientStep, UdpJobs
<1>. QED
  BY <1>1, <1>2, <1>3, <1>4, <1>5, <1>6, <1>7, <1>8, <1>9, <1>10 DEF Next, Shutdown, Receive

-----------------------------------------------------------------------------
(* A client counts its calls and sockets, and never more than it may.      *)
LEMMA NextKeepsClients ==
  ASSUME CallsFine, MessagesFine, \A c \in Clients : ClientTyped(clients[c]), [Next]_vars
  PROVE  \A c \in Clients : ClientTyped(clients[c])'
<1>1. ASSUME UNCHANGED clients PROVE \A c \in Clients : ClientTyped(clients[c])'
  BY <1>1 DEF ClientTyped
<1>2. ASSUME NEW c \in Clients, NEW y, clients' = [clients EXCEPT ![c] = y], ClientTyped(y)
      PROVE  \A b \in Clients : ClientTyped(clients[b])'
  <2>1. ASSUME NEW b \in Clients PROVE ClientTyped(clients'[b])
    BY <1>2 DEF CallsFine, ClientsFine
  <2>. QED
    BY <2>1 DEF ClientTyped
<1>3. ASSUME NEW c \in Clients, NEW y, SameCall(y, clients[c]), y.pc \in {"idle", "spin"}
      PROVE  ClientTyped(y)
  BY <1>3 DEF SameCall, ClientTyped
<1>4. ASSUME NEW c \in Clients, soap_client_invoke(c) PROVE \A b \in Clients : ClientTyped(clients[b])'
  <2>1. PICK x : /\ clients' = [clients EXCEPT ![c] = x]
                /\ x.n = clients[c].n + 1 /\ x.todo = Tail(clients[c].todo) /\ Ends(x, c)
    BY <1>4, Invocation
  <2>2. clients[c].todo # << >> /\ ClientTyped(clients[c]) /\ clients[c].n \in Nat
    BY <1>4 DEF soap_client_invoke, CallsFine, ClientsFine, IsClient
  <2>3. IsSequence(x.todo) /\ Len(x.todo) = Len(clients[c].todo) - 1 /\ Len(clients[c].todo) \in Nat
    BY <2>1, <2>2, Shortened DEF ClientTyped
  <2>4. x.n + Len(x.todo) <= MaxCalls
    BY <2>1, <2>2, <2>3, CallAssumption DEF ClientTyped
  <2>5. x.pc \in {"idle", "http", "udp", "spin", "dead"} /\ x.sockets \in 0 .. MaxSockets
    BY <2>1, <2>2, CallAssumption DEF Ends, ClientTyped
  <2>. QED
    BY <1>2, <2>1, <2>3, <2>4, <2>5 DEF ClientTyped
<1>5. ASSUME NEW c \in Clients, Await(c) PROVE \A b \in Clients : ClientTyped(clients[b])'
  <2>1. PICK y : /\ clients' = [clients EXCEPT ![c] = y] /\ SameCall(y, clients[c])
                /\ y.pc \in {"idle", "spin"}
    BY <1>5, Awaited
  <2>. QED
    BY <1>2, <1>3, <2>1
<1>6. CASE Work
  <2>1. ASSUME NEW j \in jobs, UdpSend(j) \/ HttpSend(j) PROVE \A b \in Clients : ClientTyped(clients[b])'
    <3>1. \/ UNCHANGED clients
          \/ \E c \in Clients : \E y : /\ clients' = [clients EXCEPT ![c] = y]
                                     /\ SameCall(y, clients[c]) /\ y.pc = "idle"
      BY ZenonT(60), <2>1, Sent
    <3>2. ASSUME NEW c \in Clients, NEW y, clients' = [clients EXCEPT ![c] = y],
                 SameCall(y, clients[c]), y.pc = "idle"
          PROVE  \A b \in Clients : ClientTyped(clients[b])'
      BY <1>2, <1>3, <3>2
    <3>. QED
      BY <1>1, <3>1, <3>2
  <2>2. ASSUME NEW j \in jobs, Route(j) \/ CallService(j) PROVE UNCHANGED clients
    BY <2>2 DEF Route, CallService, Reply, JobStep
  <2>. QED
    BY <1>1, <1>6, <2>1, <2>2 DEF Work
<1>7. CASE Setup \/ soap_server_run \/ Shutdown \/ Crash \/ Receive \/ Lose \/ Oversize \/ Double \/ UNCHANGED vars
  <2>1. UNCHANGED clients
    BY <1>7 DEF Setup, Shutdown, Crash, Registering, MainStep, soap_router_new, soap_router_register_service,
         soap_router_register_default_service, soap_server_register_router, soap_server_run, Stop,
         FreeRouters, soap_server_destroy, Exit, Receive, TestRunning, Released, _soap_nudp_receive_document,
         UdpStep, Lose, Oversize, Double, Disturb, vars
  <2>. QED
    BY <1>1, <2>1
<1>. QED
  BY <1>4, <1>5, <1>6, <1>7 DEF Next

LEMMA NextKeepsTypes ==
  ASSUME CallsFine, MessagesFine, UdpInv, TypeInv, [Next]_vars
  PROVE  TypeInv'
<1>1. UdpJobs'
  BY NextKeepsUdpJobs DEF TypeInv, UdpJobs
<1>2. \A c \in Clients : ClientTyped(clients[c])'
  BY NextKeepsClients DEF TypeInv
<1>3. /\ server'.pc \in {"setup", "running", "stopped", "freed", "destroyed", "exited"}
      /\ udp'.pc \in {"absent", "test", "receive", "busy", "release", "ended"}
      /\ spent'.faults \in 0 .. MaxFaults
  <2> USE DEF TypeInv, UdpInv
  <2>1. CASE Setup
    BY <2>1 DEF Setup, Registering, soap_router_new, soap_router_register_service,
         soap_router_register_default_service, soap_server_register_router
  <2>2. CASE soap_server_run
    BY <2>2 DEF soap_server_run, MainStep
  <2>3. CASE Shutdown \/ Crash
    BY <2>3 DEF Shutdown, Crash, MainStep, Stop, FreeRouters, soap_server_destroy, Exit
  <2>4. CASE Work
    <3>1. ASSUME NEW j \in jobs, Route(j) \/ CallService(j) PROVE UNCHANGED <<server, udp, spent>>
      BY <3>1 DEF Route, CallService, Reply, JobStep
    <3>2. ASSUME NEW j \in jobs, UdpSend(j) \/ HttpSend(j)
          PROVE  /\ UNCHANGED <<server, spent>>
                 /\ UNCHANGED udp \/ udp' = [udp EXCEPT !.pc = "test"]
      BY <3>2 DEF UdpSend, HttpSend, UdpStep
    <3>. QED
      BY <2>4, <3>1, <3>2 DEF Work
  <2>5. CASE Receive
    BY <2>5 DEF Receive, TestRunning, Released, _soap_nudp_receive_document, UdpStep
  <2>6. CASE \E c \in Clients : soap_client_invoke(c) \/ Await(c)
    <3>1. UNCHANGED <<server, udp>>
      BY <2>6 DEF soap_client_invoke, Await, UdpAnswer, ConnectionLost, ClientStep
    <3>2. UNCHANGED spent \/ (spent.faults < MaxFaults /\ spent'.faults = spent.faults + 1)
      <4>1. CASE \E c \in Clients : soap_client_invoke(c) \/ UdpAnswer(c)
        BY <4>1 DEF soap_client_invoke, UdpAnswer
      <4>2. CASE \E c \in Clients : ConnectionLost(c)
        <5>1. UNCHANGED spent \/ (spent.faults < MaxFaults /\ spent' = [spent EXCEPT !.faults = @ + 1])
          BY <4>2 DEF ConnectionLost
        <5>2. DOMAIN spent = {"faults", "doubled"}
          BY DEF CallsFine, SpentFine
        <5>. QED
          BY <5>1, <5>2
      <4>. QED
        BY <2>6, <4>1, <4>2 DEF Await
    <3>. QED
      BY <3>1, <3>2, CallAssumption
  <2>7. CASE Lose \/ Oversize \/ Double
    BY <2>7, CallAssumption DEF Lose, Oversize, Double, Disturb
  <2>8. CASE UNCHANGED vars
    BY <2>8 DEF vars
  <2>. QED
    BY <2>1, <2>2, <2>3, <2>4, <2>5, <2>6, <2>7, <2>8 DEF Next
<1>. QED
  BY <1>1, <1>2, <1>3 DEF TypeInv, UdpJobs

(* The state of the server, its UDP thread and the clients stays within    *)
(* its types: registered contexts name routers there are, the UDP thread   *)
(* is busy exactly while it has a job of its own, and no client makes more *)
(* calls or sockets than it may.                                           *)
THEOREM TypeCorrect == Spec => []TypeOK
<1>1. Init => CallsFine /\ MessagesFine /\ UdpInv /\ RegisterInv /\ TypeInv
  BY InitFine, InitMessages, InitTypes
<1>2. CallsFine /\ MessagesFine /\ UdpInv /\ RegisterInv /\ TypeInv /\ [Next]_vars
        => (CallsFine /\ MessagesFine /\ UdpInv /\ RegisterInv /\ TypeInv)'
  BY NextKeepsCalls, NextKeepsMessages, NextKeepsUdp, NextKeepsRegister, NextKeepsTypes
<1>3. CallsFine /\ RegisterInv /\ TypeInv => TypeOK
  <2> SUFFICES ASSUME CallsFine, RegisterInv, TypeInv PROVE TypeOK
    OBVIOUS
  <2>1. \A c \in Clients : /\ clients[c].pc \in {"idle", "http", "udp", "spin", "dead"}
                            /\ clients[c].n \in 0 .. MaxCalls
                            /\ clients[c].sockets \in 0 .. MaxSockets
    <3>1. ASSUME NEW c \in Clients
          PROVE  /\ clients[c].pc \in {"idle", "http", "udp", "spin", "dead"}
                 /\ clients[c].n \in 0 .. MaxCalls
                 /\ clients[c].sockets \in 0 .. MaxSockets
      <4>1. ClientTyped(clients[c]) /\ clients[c].n \in Nat
        BY DEF TypeInv, CallsFine, ClientsFine, IsClient
      <4>2. Len(clients[c].todo) \in Nat
        BY <4>1, LenType DEF ClientTyped
      <4>. QED
        BY <4>1, <4>2, CallAssumption DEF ClientTyped
    <3>. QED
      BY <3>1
  <2>. QED
    BY <2>1 DEF TypeOK, TypeInv, RegisterInv
<1>4. QED
  BY <1>1, <1>2, <1>3, PTL DEF Spec

-----------------------------------------------------------------------------
(* From a request to its answer.                                           *)
LEMMA Joined ==
  ASSUME NEW a, NEW b, NEW c
  PROVE  /\ <<a>> \o << >> = <<a>>
         /\ <<a>> \o <<b>> = <<a, b>>
         /\ <<a>> \o <<b, c>> = <<a, b, c>>
<1>1. PICK S : S = {a, b, c}
  OBVIOUS
<1>2. <<a>> \in Seq(S) /\ <<b>> \in Seq(S) /\ <<b, c>> \in Seq(S) /\ <<a, b>> \in Seq(S) /\ <<a, b, c>> \in Seq(S)
  BY <1>1
<1>3. <<a>> \o << >> = <<a>>
  BY <1>2, ConcatEmptySeq
<1>4. <<a>> \o <<b>> = <<a, b>>
  <2>1. PICK s : s = <<a>> \o <<b>>
    OBVIOUS
  <2>2. s \in Seq(S) /\ Len(s) = 2 /\ s[1] = a /\ s[2] = b
    BY <1>2, <2>1, ConcatProperties
  <2>3. PICK t : t = <<a, b>>
    OBVIOUS
  <2>4. t \in Seq(S) /\ Len(t) = 2 /\ t[1] = a /\ t[2] = b
    BY <1>2, <2>3
  <2>5. \A i \in 1 .. Len(s) : s[i] = t[i]
    BY <2>2, <2>4
  <2>. QED
    BY <2>1, <2>2, <2>3, <2>4, <2>5, SeqEqual
<1>5. <<a>> \o <<b, c>> = <<a, b, c>>
  <2>1. PICK s : s = <<a>> \o <<b, c>>
    OBVIOUS
  <2>2. s \in Seq(S) /\ Len(s) = 3 /\ s[1] = a /\ s[2] = b /\ s[3] = c
    BY <1>2, <2>1, ConcatProperties
  <2>3. PICK t : t = <<a, b, c>>
    OBVIOUS
  <2>4. t \in Seq(S) /\ Len(t) = 3 /\ t[1] = a /\ t[2] = b /\ t[3] = c
    BY <1>2, <2>3
  <2>5. \A i \in 1 .. Len(s) : s[i] = t[i]
    BY <2>2, <2>4
  <2>. QED
    BY <2>1, <2>2, <2>3, <2>4, <2>5, SeqEqual
<1>. QED
  BY <1>3, <1>4, <1>5

LEMMA BodyFirst ==
  ASSUME NEW env, IsSequence(env.body), Len(env.body) >= 1, env.body[1] = Element("Body", 1)
  PROVE  soap_env_get_body(env) = 1
<1>1. PICK T : T = {i \in 1 .. Len(env.body) : env.body[i].depth = 1 /\ env.body[i].name = "Body"}
  OBVIOUS
<1>2. 1 \in T /\ T \subseteq Nat
  BY <1>1, LenType DEF Element
<1>3. Min(T) \in T /\ Min(T) <= 1
  BY <1>2, LeastNumber
<1>4. Min(T) = 1
  BY <1>1, <1>2, <1>3, LenType
<1>5. soap_env_get_body(env) = IF T # {} THEN Min(T) ELSE 0
  BY <1>1 DEF soap_env_get_body, SelectInSeq
<1>. QED
  BY <1>2, <1>4, <1>5

LEMMA NoMethod ==
  ASSUME NEW env, env.body = <<Element("Body", 1)>>
  PROVE  soap_env_find_methodname(env) = "none"
<1>1. IsSequence(env.body) /\ Len(env.body) = 1 /\ env.body[1] = Element("Body", 1)
  <2>1. PICK a : a = Element("Body", 1)
    OBVIOUS
  <2>2. PICK t : t = <<a>>
    OBVIOUS
  <2>3. t \in Seq({a}) /\ Len(t) = 1 /\ t[1] = a
    BY <2>2
  <2>. QED
    BY <2>1, <2>2, <2>3 DEF IsSequence
<1>2. soap_env_get_body(env) = 1
  BY <1>1, BodyFirst
<1>. QED
  BY <1>1, <1>2 DEF soap_env_find_methodname, soap_env_get_method

LEMMA OneMethod ==
  ASSUME NEW env, NEW method, env.body = <<Element("Body", 1), Element(method, 2)>>, env.layers \in Nat
  PROVE  soap_env_find_methodname(env) = IF env.layers > 0 THEN EncryptedData ELSE method
<1>1. /\ IsSequence(env.body) /\ Len(env.body) = 2
      /\ env.body[1] = Element("Body", 1) /\ env.body[2] = Element(method, 2)
  <2>1. PICK a, b : a = Element("Body", 1) /\ b = Element(method, 2)
    OBVIOUS
  <2>2. PICK t : t = <<a, b>>
    OBVIOUS
  <2>3. t \in Seq({a, b}) /\ Len(t) = 2 /\ t[1] = a /\ t[2] = b
    BY <2>2
  <2>. QED
    BY <2>1, <2>2, <2>3 DEF IsSequence
<1>2. soap_env_get_body(env) = 1
  <2>1. Len(env.body) >= 1
    BY <1>1
  <2>. QED
    BY <1>1, <2>1, BodyFirst
<1>3. env.body[1 + 1].depth = 2 /\ env.body[2].name = method
  BY <1>1 DEF Element
<1>4. soap_env_get_method(env) = 2
  BY <1>1, <1>2, <1>3 DEF soap_env_get_method
<1>. QED
  BY <1>3, <1>4 DEF soap_env_find_methodname

LEMMA FaultsAreFaults == ASSUME NEW reason PROVE FaultBelowBody(soap_env_new_with_fault(reason))
<1>1. PICK body : body = <<Element("Body", 1), Element(Fault, 2), Element(reason, 3)>>
  OBVIOUS
<1>2. 2 \in DOMAIN body /\ body[2] = Element(Fault, 2)
  BY <1>1
<1>3. PICK d : d = Document(<< >>, <<Element(Fault, 2), Element(reason, 3)>>, "")
  OBVIOUS
<1>4. d.body = body /\ DOMAIN d = {"header", "body", "urn", "layers", "cur"}
  BY <1>1, <1>3, Joined DEF Document
<1>5. PICK env : env = soap_env_new_with_fault(reason)
  OBVIOUS
<1>6. env.body = body
  BY <1>3, <1>4, <1>5 DEF soap_env_new_with_fault, soap_fault_build, soap_env_new_from_doc
<1>. QED
  BY <1>2, <1>5, <1>6 DEF FaultBelowBody

LEMMA MethodBody ==
  ASSUME NEW urn, NEW method
  PROVE  LET env == soap_env_new_with_method(urn, method)
         IN  /\ env.body = <<Element("Body", 1), Element(method, 2)>> /\ env.urn = urn /\ env.layers = 0
<1>1. PICK d : d = Document(<< >>, <<Element(method, 2)>>, urn)
  OBVIOUS
<1>2. /\ d.body = <<Element("Body", 1), Element(method, 2)>> /\ d.urn = urn /\ d.layers = 0
      /\ DOMAIN d = {"header", "body", "urn", "layers", "cur"}
  BY <1>1, Joined DEF Document
<1>3. PICK env : env = soap_env_new_with_method(urn, method)
  OBVIOUS
<1>4. env = [d EXCEPT !.cur = 2]
  BY <1>1, <1>3 DEF soap_env_new_with_method, soap_env_new_from_doc
<1>5. env.body = d.body /\ env.urn = d.urn /\ env.layers = d.layers
  BY <1>2, <1>4
<1>. QED
  BY <1>2, <1>3, <1>5

LEMMA ResponsesAreNone ==
  ASSUME NEW env, Response(soap_env_find_methodname(env)) # Fault
  PROVE  ~FaultBelowBody(soap_env_new_with_response(env))
<1>1. PICK name : name = Response(soap_env_find_methodname(env)) /\ name # Fault
  OBVIOUS
<1>2. PICK body : body = <<Element("Body", 1), Element(name, 2)>>
  OBVIOUS
<1>3. DOMAIN body = {1, 2} /\ body[1] = Element("Body", 1) /\ body[2] = Element(name, 2)
  BY <1>2
<1>4. Element("Body", 1) # Element(Fault, 2) /\ Element(name, 2) # Element(Fault, 2)
  BY <1>1 DEF Element
<1>5. soap_env_new_with_response(env).body = body
  BY <1>1, <1>2, MethodBody DEF soap_env_new_with_response
<1>. QED
  BY <1>3, <1>4, <1>5 DEF FaultBelowBody

-----------------------------------------------------------------------------
(* A context holds the method that was asked for, below one layer of       *)
(* encryption at most unless it was used again.                            *)
BodyOf(env, asked) ==
  \/ env.body = <<Element("Body", 1)>>
  \/ /\ env.body = <<Element("Body", 1), Element(asked.method, 2)>>
     /\ env.urn = asked.urn /\ Response(asked.method) # Fault

ContextFine(x) ==
  /\ DOMAIN x.asked = {"urn", "method", "path", "fresh", "big"}
  /\ BodyOf(x.ctx, x.asked)
  /\ Toward(x.ctx, x.asked.path)
  /\ ~cfg.enabled => x.ctx.layers = 0
  /\ x.asked.fresh => x.ctx.layers \in {0, 1}
  /\ IsSequence(x.todo)
  /\ \A i \in DOMAIN x.todo : Response(x.todo[i].method) # Fault

ContextInv == \A c \in Clients : ContextFine(clients[c])

LEMMA InitContexts == ASSUME Init PROVE ContextInv
<1>1. PICK s \in Scenarios : clients = [c \in Clients |->
            [pc |-> "idle", todo |-> s.work[c], ctx |-> NoEnv, n |-> 0, sockets |-> 0,
             asked |-> [urn |-> "", method |-> "", path |-> "", fresh |-> FALSE, big |-> FALSE],
             status |-> "none", answer |-> NoEnv, of |-> << >>]]
  BY DEF Init
<1>2. NoEnv.body = <<Element("Body", 1)>> /\ NoEnv.layers = 0 /\ DOMAIN NoEnv.header = {}
  <2>1. PICK d : d = NoEnv
    OBVIOUS
  <2>2. d.body = <<Element("Body", 1)>> \o << >> /\ d.layers = 0 /\ DOMAIN d.header = {}
    BY <2>1 DEF NoEnv, Document
  <2>. QED
    BY <2>1, <2>2, Joined
<1>3. ASSUME NEW c \in Clients PROVE ContextFine(clients[c])
  <2>1. PICK a : a = [urn |-> "", method |-> "", path |-> "", fresh |-> FALSE, big |-> FALSE]
    OBVIOUS
  <2>2. clients[c].ctx = NoEnv /\ clients[c].todo = s.work[c] /\ clients[c].asked = a
    BY <1>1, <2>1
  <2>3. DOMAIN a = {"urn", "method", "path", "fresh", "big"} /\ a.fresh = FALSE
    BY <2>1
  <2>4. IsSequence(s.work[c]) /\ \A i \in DOMAIN s.work[c] : Response(s.work[c][i].method) # Fault
    BY CallAssumption DEF IsSequence, ToSet
  <2>. QED
    BY <1>2, <2>2, <2>3, <2>4 DEF ContextFine, BodyOf, Toward, ToPath
<1>. QED
  BY <1>3 DEF ContextInv

LEMMA ContextChange ==
  ASSUME CallsFine, ContextInv, UNCHANGED cfg, NEW c \in Clients, NEW y,
         clients' = [clients EXCEPT ![c] = y], ContextFine(y)
  PROVE  ContextInv'
<1>1. ASSUME NEW b \in Clients PROVE ContextFine(clients'[b])
  BY DEF ContextInv, CallsFine, ClientsFine
<1>. QED
  BY <1>1 DEF ContextInv, ContextFine

LEMMA ContextSame == ASSUME ContextInv, UNCHANGED <<clients, cfg>> PROVE ContextInv'
BY DEF ContextInv, ContextFine

LEMMA SameContext ==
  ASSUME NEW x, NEW y, ContextFine(x), SameCall(y, x)
  PROVE  ContextFine(y)
BY DEF ContextFine, SameCall

(* What soap_client_invoke makes ready is the context of the call.         *)
LEMMA InvokedContext ==
  ASSUME CallsFine, MessagesFine, ContextInv, NEW c \in Clients, clients[c].todo # << >>,
         NEW x, x.todo = Tail(clients[c].todo), x.asked = AskedNow(c),
         x.ctx \in {Ready(c), Secured(Ready(c))}
  PROVE  ContextFine(x)
<1>1. PICK old : old = clients[c]
  OBVIOUS
<1>2. PICK r : r = Head(old.todo)
  OBVIOUS
<1>3. ContextFine(old) /\ IsMessage(old.ctx)
  BY <1>1 DEF ContextInv, MessagesFine
<1>4. /\ IsSequence(x.todo) /\ \A i \in DOMAIN x.todo : Response(x.todo[i].method) # Fault
      /\ Response(r.method) # Fault
  <2>1. IsSequence(old.todo) /\ old.todo # << >>
    BY <1>1, <1>3 DEF ContextFine
  <2>2. /\ Len(old.todo) \in Nat \ {0} /\ r = old.todo[1] /\ DOMAIN old.todo = 1 .. Len(old.todo)
        /\ IsSequence(x.todo) /\ DOMAIN x.todo = 1 .. Len(old.todo) - 1
        /\ \A i \in 1 .. Len(old.todo) - 1 : x.todo[i] = old.todo[i + 1]
    BY <1>1, <1>2, <2>1, Shortened, LenType
  <2>. QED
    BY <1>3, <2>2, SMTT(30) DEF ContextFine
<1>5. PICK e : e = IF r.again THEN old.ctx ELSE soap_env_new_with_method(r.urn, r.method)
  OBVIOUS
<1>6. IsMessage(e)
  BY <1>3, <1>5, AnswersAreMessages
<1>7. PICK ready : ready = Ready(c)
  OBVIOUS
<1>8. ready = Addressed(e, c, old.n + 1, r)
  BY <1>1, <1>2, <1>5, <1>7 DEF Ready
<1>9. IsMessage(ready) /\ SameBody(ready, e) /\ ready.layers = e.layers
  BY <1>6, <1>8, AddressedKeeps DEF Kept
<1>10. /\ SameBody(x.ctx, e) /\ e.layers \in Nat
       /\ x.ctx.layers \in {e.layers, e.layers + 1}
       /\ ~cfg.enabled => x.ctx.layers = e.layers
  <2>1. /\ SameBody(Secured(ready), ready)
        /\ Secured(ready).layers = IF Encrypts(ready) THEN ready.layers + 1 ELSE ready.layers
    BY <1>9, SecuredKeeps
  <2>2. Encrypts(ready) => cfg.enabled
    BY DEF Encrypts
  <2>3. x.ctx \in {ready, Secured(ready)}
    BY <1>7
  <2>. QED
    BY <1>6, <1>9, <2>1, <2>2, <2>3 DEF SameBody, IsMessage
<1>11. PICK a : a = AskedNow(c)
  OBVIOUS
<1>12. CASE r.again
  <2>1. PICK path : path = IF r.url = Null THEN old.asked.path ELSE r.url.path
    OBVIOUS
  <2>6. a = [old.asked EXCEPT !.path = path, !.fresh = FALSE, !.big = r.big]
    BY <1>1, <1>2, <1>11, <1>12, <2>1 DEF AskedNow, NowAsked
  <2>2. /\ DOMAIN a = {"urn", "method", "path", "fresh", "big"} /\ a.fresh = FALSE
        /\ a.urn = old.asked.urn /\ a.method = old.asked.method /\ a.path = path
    BY <1>3, <2>6 DEF ContextFine
  <2>3. e = old.ctx
    BY <1>5, <1>12
  <2>4. BodyOf(x.ctx, a)
    BY <1>3, <1>10, <2>2, <2>3 DEF ContextFine, BodyOf, SameBody
  <2>5. ~cfg.enabled => x.ctx.layers = 0
    BY <1>3, <1>10, <2>3 DEF ContextFine
  <2>7. Toward(x.ctx, path)
    <3>1. IF r.url = Null THEN Toward(e, path) ELSE r.url.path = path
      BY <1>3, <2>1, <2>3 DEF ContextFine
    <3>2. Toward(ready, path)
      BY <1>6, <1>8, <3>1, TowardAddressed
    <3>. QED
      BY <1>7, <1>9, <3>2, TowardSecured
  <2>. QED
    BY <1>4, <1>11, <2>2, <2>4, <2>5, <2>7 DEF ContextFine
<1>13. CASE ~r.again
  <2>1. a = [urn |-> r.urn, method |-> r.method, path |-> r.url.path, fresh |-> TRUE, big |-> r.big]
    BY <1>1, <1>2, <1>11, <1>13 DEF AskedNow, NowAsked
  <2>2. DOMAIN a = {"urn", "method", "path", "fresh", "big"} /\ a.urn = r.urn /\ a.method = r.method /\ a.path = r.url.path
    BY <2>1
  <2>3. e.body = <<Element("Body", 1), Element(r.method, 2)>> /\ e.urn = r.urn /\ e.layers = 0
    BY <1>5, <1>13, MethodBody
  <2>4. BodyOf(x.ctx, a)
    BY <1>4, <1>10, <2>2, <2>3 DEF BodyOf, SameBody
  <2>5. (~cfg.enabled => x.ctx.layers = 0) /\ x.ctx.layers \in {0, 1}
    BY <1>10, <2>3
  <2>6. Toward(x.ctx, r.url.path)
    <3>1. DOMAIN e.header = {}
      BY <1>5, <1>13 DEF soap_env_new_with_method, soap_env_new_from_doc, Document
    <3>2. Toward(e, r.url.path)
      BY <3>1 DEF Toward, ToPath
    <3>3. Toward(ready, r.url.path)
      BY <1>6, <1>8, <3>2, TowardAddressed
    <3>. QED
      BY <1>7, <1>9, <3>3, TowardSecured
  <2>. QED
    BY <1>4, <1>11, <2>2, <2>4, <2>5, <2>6 DEF ContextFine
<1>. QED
  BY <1>12, <1>13

LEMMA NextKeepsContexts == ASSUME CallsFine, MessagesFine, ContextInv, [Next]_vars PROVE ContextInv'
<1>1. ASSUME NEW c \in Clients, soap_client_invoke(c) PROVE ContextInv'
  <2>1. PICK x : /\ clients' = [clients EXCEPT ![c] = x]
                /\ x.todo = Tail(clients[c].todo) /\ x.asked = AskedNow(c) /\ Ends(x, c)
    BY <1>1, Invocation
  <2>2. clients[c].todo # << >> /\ UNCHANGED cfg
    BY <1>1 DEF soap_client_invoke
  <2>3. x.ctx \in {Ready(c), Secured(Ready(c))}
    BY <2>1 DEF Ends
  <2>4. ContextFine(x)
    BY <2>1, <2>2, <2>3, InvokedContext
  <2>. QED
    BY <2>1, <2>2, <2>4, ContextChange
<1>2. ASSUME UNCHANGED cfg, NEW c \in Clients, NEW y, clients' = [clients EXCEPT ![c] = y], SameCall(y, clients[c])
      PROVE  ContextInv'
  <2>1. ContextFine(y)
    BY <1>2, SameContext DEF ContextInv
  <2>. QED
    BY <1>2, <2>1, ContextChange
<1>3. ASSUME NEW c \in Clients, Await(c) PROVE ContextInv'
  <2>1. PICK y : clients' = [clients EXCEPT ![c] = y] /\ SameCall(y, clients[c])
    BY <1>3, Awaited
  <2>2. UNCHANGED cfg
    BY <1>3 DEF Await, UdpAnswer, ConnectionLost, ClientStep
  <2>. QED
    BY <1>2, <2>1, <2>2
<1>4. CASE Work
  <2>1. ASSUME NEW j \in jobs, UdpSend(j) \/ HttpSend(j) PROVE ContextInv'
    <3>1. /\ UNCHANGED cfg
          /\ \/ UNCHANGED clients
             \/ \E c \in Clients : \E y : clients' = [clients EXCEPT ![c] = y] /\ SameCall(y, clients[c])
      BY <2>1, Sent
    <3>. QED
      BY <1>2, <3>1, ContextSame
  <2>2. ASSUME NEW j \in jobs, Route(j) \/ CallService(j) PROVE UNCHANGED <<clients, cfg>>
    BY <2>2 DEF Route, CallService, Reply, JobStep
  <2>. QED
    BY <1>4, <2>1, <2>2, ContextSame DEF Work
<1>5. CASE Setup \/ soap_server_run \/ Shutdown \/ Crash \/ Receive \/ Lose \/ Oversize \/ Double \/ UNCHANGED vars
  <2>1. UNCHANGED <<clients, cfg>>
    BY <1>5 DEF Setup, Shutdown, Crash, Registering, MainStep, soap_router_new, soap_router_register_service,
         soap_router_register_default_service, soap_server_register_router, soap_server_run, Stop,
         FreeRouters, soap_server_destroy, Exit, Receive, TestRunning, Released, _soap_nudp_receive_document,
         UdpStep, Lose, Oversize, Double, Disturb, vars
  <2>. QED
    BY <2>1, ContextSame
<1>. QED
  BY <1>1, <1>3, <1>4, <1>5 DEF Next

-----------------------------------------------------------------------------
(* Nothing has been made of a call before it begins, nor of any before the *)
(* server runs.                                                            *)
Absent(call) ==
  /\ \A d \in net : d.call # call
  /\ \A j \in jobs : j.call # call
  /\ call \in Calls => served[call] = << >>

FutureInv ==
  /\ \A call \in CallNames : Future(call) => Absent(call)
  /\ \A d \in net : d.call \in Calls
  /\ \A j \in jobs : j.call \in Calls
  /\ DOMAIN served = Calls

SetupInv ==
  server.pc = "setup" =>
    /\ jobs = {} /\ \A d \in net : d.to = ServerPort
    /\ \A call \in Calls : served[call] = << >>
    /\ \A c \in Clients : ~Succeeded(c)

LEMMA InitFuture == ASSUME Init PROVE FutureInv /\ SetupInv
<1>1. jobs = {} /\ net = {} /\ served = [call \in Calls |-> << >>]
  BY DEF Init
<1>2. \A c \in Clients : clients[c].status = "none"
  <2>1. PICK s \in Scenarios : clients = [c \in Clients |->
            [pc |-> "idle", todo |-> s.work[c], ctx |-> NoEnv, n |-> 0, sockets |-> 0,
             asked |-> [urn |-> "", method |-> "", path |-> "", fresh |-> FALSE, big |-> FALSE],
             status |-> "none", answer |-> NoEnv, of |-> << >>]]
    BY DEF Init
  <2>. QED
    BY <2>1
<1>3. FutureInv
  BY <1>1 DEF FutureInv, Absent
<1>4. SetupInv
  BY <1>1, <1>2 DEF SetupInv, Succeeded
<1>. QED
  BY <1>3, <1>4

LEMMA CallsAreNamed == Calls \subseteq CallNames
BY CallAssumption DEF Calls, CallNames

(* A step that makes something of one call only, which has begun, or of    *)
(* none.                                                                   *)
LEMMA BegunStep ==
  ASSUME FutureInv, CallsFine, CallsFine', NEW hot \in Calls, ~Future(hot)',
         \A d \in net' : d.call = hot \/ \E e \in net : d.call = e.call,
         \A j \in jobs' : j.call = hot \/ \E i \in jobs : j.call = i.call,
         DOMAIN served' = Calls, \A call \in Calls \ {hot} : served'[call] = served[call],
         \A c \in Clients : clients'[c].n >= clients[c].n
  PROVE  FutureInv'
<1>1. ASSUME NEW call \in CallNames, Future(call)' PROVE Absent(call)'
  <2>1. call[1] \in Clients /\ call[2] \in Nat
    BY DEF CallNames
  <2>2. clients[call[1]].n \in Nat /\ clients'[call[1]].n \in Nat
    BY <2>1 DEF CallsFine, ClientsFine, IsClient
  <2>3. Future(call) /\ call # hot
    BY <1>1, <2>1, <2>2 DEF Future
  <2>4. Absent(call)
    BY <2>3 DEF FutureInv
  <2>. QED
    BY <2>3, <2>4 DEF Absent
<1>2. (\A d \in net' : d.call \in Calls) /\ \A j \in jobs' : j.call \in Calls
  BY DEF FutureInv
<1>. QED
  BY <1>1, <1>2 DEF FutureInv

LEMMA QuietStep ==
  ASSUME FutureInv, CallsFine, CallsFine',
         \A d \in net' : \E e \in net : d.call = e.call,
         \A j \in jobs' : \E i \in jobs : j.call = i.call,
         UNCHANGED served, \A c \in Clients : clients'[c].n >= clients[c].n
  PROVE  FutureInv'
<1>1. ASSUME NEW call \in CallNames, Future(call)' PROVE Absent(call)'
  <2>1. call[1] \in Clients /\ call[2] \in Nat
    BY DEF CallNames
  <2>2. clients[call[1]].n \in Nat /\ clients'[call[1]].n \in Nat
    BY <2>1 DEF CallsFine, ClientsFine, IsClient
  <2>3. Future(call)
    BY <1>1, <2>1, <2>2 DEF Future
  <2>4. Absent(call)
    BY <2>3 DEF FutureInv
  <2>. QED
    BY <2>4 DEF Absent
<1>2. (\A d \in net' : d.call \in Calls) /\ \A j \in jobs' : j.call \in Calls
  BY DEF FutureInv
<1>. QED
  BY <1>1, <1>2 DEF FutureInv

LEMMA JobsHaveBegun ==
  ASSUME FutureInv
  PROVE  /\ \A j \in jobs : j.call \in Calls /\ ~Future(j.call)
         /\ \A d \in net : d.call \in Calls /\ ~Future(d.call)
BY CallsAreNamed DEF FutureInv, Absent

LEMMA NextKeepsFuture ==
  ASSUME CallsFine, MessagesFine, TypeInv, FutureInv, [Next]_vars
  PROVE  FutureInv'
<1>0. CallsFine'
  BY NextKeepsCalls
<1>1. DOMAIN served = Calls
  BY DEF FutureInv
<1>2. \A c \in Clients : clients[c].n \in Nat
  BY DEF CallsFine, ClientsFine, IsClient
<1>3. ASSUME NEW c \in Clients, NEW y, clients' = [clients EXCEPT ![c] = y], SameCall(y, clients[c])
      PROVE  \A b \in Clients : clients'[b].n = clients[b].n
  BY <1>3 DEF CallsFine, ClientsFine, SameCall
<1>4. CASE Setup \/ soap_server_run \/ Shutdown \/ Crash \/ TestRunning \/ Released \/ UNCHANGED vars
  <2>1. UNCHANGED <<clients, net, served>> /\ jobs' \subseteq jobs
    BY <1>4 DEF Setup, Shutdown, Crash, Registering, MainStep, soap_router_new, soap_router_register_service,
         soap_router_register_default_service, soap_server_register_router, soap_server_run, Stop,
         FreeRouters, soap_server_destroy, Exit, TestRunning, Released, UdpStep, vars
  <2>2. /\ \A d \in net' : \E e \in net : d.call = e.call
        /\ \A j \in jobs' : \E i \in jobs : j.call = i.call
        /\ \A c \in Clients : clients'[c].n >= clients[c].n
    BY <1>2, <2>1
  <2>. QED
    BY <1>0, <1>1, <2>1, <2>2, QuietStep
<1>5. CASE Lose \/ Oversize \/ Double
  <2>1. /\ UNCHANGED <<jobs, clients, served>>
        /\ \A e \in net' : \E d \in net : e.call = d.call
    BY <1>5, Disturbed
  <2>2. /\ \A d \in net' : \E e \in net : d.call = e.call
        /\ \A j \in jobs' : \E i \in jobs : j.call = i.call
        /\ \A c \in Clients : clients'[c].n >= clients[c].n
    BY <1>2, <2>1
  <2>. QED
    BY <1>0, <1>1, <2>1, <2>2, QuietStep
<1>6. CASE _soap_nudp_receive_document
  <2>1. PICK d \in net :
          /\ net' = net \ {d} /\ UNCHANGED <<clients, served>>
          /\ jobs' \subseteq jobs \cup {NewJob(LocalPart(d.env), d.call, d.from)}
    BY <1>6 DEF _soap_nudp_receive_document
  <2>2. PICK k : k = NewJob(LocalPart(d.env), d.call, d.from)
    OBVIOUS
  <2>3. k.call = d.call
    BY <2>2 DEF NewJob
  <2>4. PICK hot : hot = d.call
    OBVIOUS
  <2>5. hot \in Calls /\ ~Future(hot)
    BY <2>4, JobsHaveBegun
  <2>6. ~Future(hot)'
    BY <2>1, <2>5 DEF Future
  <2>7. \A j \in jobs' : j.call \in {hot} \/ \E i \in jobs : j.call = i.call
    BY <2>1, <2>2, <2>3, <2>4
  <2>. QED
    <3>1. /\ \A g \in net' : g.call = hot \/ \E e \in net : g.call = e.call
          /\ \A j \in jobs' : j.call = hot \/ \E i \in jobs : j.call = i.call
          /\ \A c \in Clients : clients'[c].n >= clients[c].n
      BY <1>2, <2>1, <2>7
    <3>. QED
      BY <1>0, <1>1, <2>1, <2>5, <2>6, <3>1, BegunStep
<1>7. ASSUME NEW j \in jobs, Route(j) \/ CallService(j) PROVE FutureInv'
  <2>1. PICK k : jobs' = (jobs \ {j}) \cup {k} /\ k.call = j.call
    BY <1>7, Routed, Served
  <2>2. /\ UNCHANGED <<clients, net>>
        /\ UNCHANGED served \/ \E e : served' = [served EXCEPT ![j.call] = Append(@, e)]
    BY <1>7 DEF Route, CallService, Reply, JobStep
  <2>3. PICK hot : hot = j.call
    OBVIOUS
  <2>4. hot \in Calls /\ ~Future(hot)
    BY <2>3, JobsHaveBegun
  <2>5. ~Future(hot)'
    BY <2>2, <2>4 DEF Future
  <2>6. DOMAIN served' = Calls /\ \A call \in Calls \ {hot} : served'[call] = served[call]
    BY <1>1, <2>2, <2>3
  <2>7. \A i \in jobs' : i.call \in {hot} \/ \E l \in jobs : i.call = l.call
    BY <2>1
  <2>. QED
    <3>1. /\ \A d \in net' : d.call = hot \/ \E e \in net : d.call = e.call
          /\ \A i \in jobs' : i.call = hot \/ \E l \in jobs : i.call = l.call
          /\ \A c \in Clients : clients'[c].n >= clients[c].n
      BY <1>2, <2>2, <2>7
    <3>. QED
      BY <1>0, <2>4, <2>5, <2>6, <3>1, BegunStep
<1>8. ASSUME NEW j \in jobs, UdpSend(j) \/ HttpSend(j) PROVE FutureInv'
  <2>1. PICK env :
           /\ jobs' = jobs \ {j} /\ UNCHANGED served
           /\ net' \in {net, net \cup {Datagram(j.call, ServerPort, env, j.call, FALSE)}}
           /\ \/ UNCHANGED clients
              \/ \E c \in Clients : \E y : clients' = [clients EXCEPT ![c] = y] /\ SameCall(y, clients[c])
    BY <1>8, Sent
  <2>2. PICK hot : hot = j.call
    OBVIOUS
  <2>3. hot \in Calls /\ ~Future(hot) /\ hot[1] \in Clients
    BY <2>2, JobsHaveBegun DEF Calls
  <2>4. \A c \in Clients : clients'[c].n = clients[c].n
    BY <1>3, <2>1
  <2>5. ~Future(hot)'
    BY <2>3, <2>4 DEF Future
  <2>6. PICK k : k = Datagram(hot, ServerPort, env, hot, FALSE)
    OBVIOUS
  <2>7. k.call = hot
    BY <2>6 DEF Datagram
  <2>8. \A d \in net' : d.call \in {hot} \/ \E e \in net : d.call = e.call
    BY <2>1, <2>2, <2>6, <2>7
  <2>. QED
    <3>1. /\ \A d \in net' : d.call = hot \/ \E e \in net : d.call = e.call
          /\ \A i \in jobs' : i.call = hot \/ \E l \in jobs : i.call = l.call
          /\ \A c \in Clients : clients'[c].n >= clients[c].n
      BY <1>2, <2>1, <2>4, <2>8
    <3>. QED
      BY <1>0, <1>1, <2>1, <2>3, <2>5, <3>1, BegunStep
<1>9. ASSUME NEW c \in Clients, soap_client_invoke(c) PROVE FutureInv'
  <2>1. PICK hot : hot = <<c, clients[c].n + 1>>
    OBVIOUS
  <2>2. PICK x : clients' = [clients EXCEPT ![c] = x] /\ x.n = clients[c].n + 1 /\ Ends(x, c)
    BY <1>9, Invocation
  <2>3. UNCHANGED served /\ clients[c].todo # << >>
    BY <1>9 DEF soap_client_invoke
  <2>4. hot \in Calls
    <3>1. ClientTyped(clients[c])
      BY DEF TypeInv
    <3>2. Len(clients[c].todo) \in Nat \ {0}
      BY <2>3, <3>1, Shortened DEF ClientTyped
    <3>3. clients[c].n + 1 \in 1 .. MaxCalls
      BY <1>2, <3>1, <3>2, CallAssumption DEF ClientTyped
    <3>. QED
      BY <2>1, <3>3 DEF Calls
  <2>5. \A b \in Clients : clients'[b].n >= clients[b].n
    BY <1>2, <2>2 DEF CallsFine, ClientsFine
  <2>6. ~Future(hot)'
    <3>1. clients'[c].n = clients[c].n + 1
      BY <2>2 DEF CallsFine, ClientsFine
    <3>. QED
      BY <1>2, <2>1, <3>1 DEF Future
  <2>7. \A env, big : /\ Datagram(ServerPort, hot, env, hot, big).call = hot
                      /\ NewJob(env, hot, Http).call = hot
    BY DEF Datagram, NewJob
  <2>8. /\ \A d \in net' : d.call \in {hot} \/ \E e \in net : d.call = e.call
        /\ \A j \in jobs' : j.call \in {hot} \/ \E i \in jobs : j.call = i.call
    BY <2>1, <2>2, <2>7 DEF Ends
  <2>. QED
    <3>1. /\ \A d \in net' : d.call = hot \/ \E e \in net : d.call = e.call
          /\ \A i \in jobs' : i.call = hot \/ \E l \in jobs : i.call = l.call
      BY <2>8
    <3>. QED
      BY <1>0, <1>1, <2>3, <2>4, <2>5, <2>6, <3>1, BegunStep
<1>10. ASSUME NEW c \in Clients, Await(c) PROVE FutureInv'
  <2>1. PICK y : clients' = [clients EXCEPT ![c] = y] /\ SameCall(y, clients[c])
    BY <1>10, Awaited
  <2>2. net' \subseteq net /\ UNCHANGED <<jobs, served>>
    BY <1>10 DEF Await, UdpAnswer, ConnectionLost, ClientStep
  <2>3. \A b \in Clients : clients'[b].n = clients[b].n
    BY <1>3, <2>1
  <2>4. /\ \A d \in net' : \E e \in net : d.call = e.call
        /\ \A j \in jobs' : \E i \in jobs : j.call = i.call
        /\ \A b \in Clients : clients'[b].n >= clients[b].n
    BY <1>2, <2>2, <2>3
  <2>. QED
    BY <1>0, <1>1, <2>2, <2>4, QuietStep
<1>. QED
  BY <1>4, <1>5, <1>6, <1>7, <1>8, <1>9, <1>10 DEF Next, Work, Receive

LEMMA NextKeepsSetup ==
  ASSUME CallsFine, MessagesFine, UdpInv, SetupInv, [Next]_vars
  PROVE  SetupInv'
<1> SUFFICES ASSUME server'.pc = "setup"
             PROVE  /\ jobs' = {} /\ \A d \in net' : d.to = ServerPort
                    /\ \A call \in Calls : served'[call] = << >>
                    /\ \A c \in Clients : ~Succeeded(c)'
  BY DEF SetupInv
<1>1. DOMAIN server = {"pc", "todo"}
  BY DEF UdpInv
<1>2. server.pc = "setup" /\ ~ (soap_server_run \/ Shutdown \/ Crash)
  <2>1. ~ (soap_server_run \/ Shutdown \/ Crash)
    BY <1>1 DEF soap_server_run, Shutdown, Crash, MainStep, Stop, FreeRouters, soap_server_destroy, Exit
  <2>2. ASSUME Setup PROVE server.pc = "setup"
    BY <2>2 DEF Setup, Registering, soap_router_new, soap_router_register_service,
         soap_router_register_default_service, soap_server_register_router
  <2>3. ASSUME Receive \/ Lose \/ Oversize \/ Double \/ UNCHANGED vars PROVE UNCHANGED server
    BY <2>3 DEF Receive, TestRunning, Released, _soap_nudp_receive_document, UdpStep, Lose, Oversize, Double, Disturb, vars
  <2>4. ASSUME NEW c \in Clients, soap_client_invoke(c) \/ Await(c) PROVE UNCHANGED server
    BY <2>4 DEF soap_client_invoke, Await, UdpAnswer, ConnectionLost, ClientStep
  <2>5. ASSUME NEW j \in jobs, Route(j) \/ CallService(j) \/ UdpSend(j) \/ HttpSend(j) PROVE UNCHANGED server
    BY <2>5 DEF Route, CallService, Reply, JobStep, UdpSend, HttpSend, UdpStep
  <2>. QED
    BY <2>1, <2>2, <2>3, <2>4, <2>5 DEF Next, Work
<1>3. /\ jobs = {} /\ \A d \in net : d.to = ServerPort
      /\ \A call \in Calls : served[call] = << >>
      /\ \A c \in Clients : ~Succeeded(c)
      /\ udp.pc = "absent"
  BY <1>2 DEF SetupInv, UdpInv
<1>4. ASSUME UNCHANGED <<jobs, served>>, \A d \in net' : d.to = ServerPort,
             NEW c \in Clients, NEW x, clients' = [clients EXCEPT ![c] = x], x.pc # "idle" \/ x.status = "error"
      PROVE  /\ jobs' = {} /\ \A d \in net' : d.to = ServerPort
             /\ \A call \in Calls : served'[call] = << >>
             /\ \A b \in Clients : ~Succeeded(b)'
  BY <1>3, <1>4 DEF Succeeded, CallsFine, ClientsFine
<1>5. CASE Setup \/ UNCHANGED vars
  <2>1. UNCHANGED <<jobs, net, served, clients>>
    BY <1>5 DEF Setup, Registering, soap_router_new, soap_router_register_service, vars,
         soap_router_register_default_service, soap_server_register_router
  <2>. QED
    BY <1>3, <2>1 DEF Succeeded
<1>6. CASE Lose \/ Oversize \/ Double
  <2>1. UNCHANGED <<jobs, served, clients>> /\ \A e \in net' : \E d \in net : e.to = d.to
    BY <1>6, Disturbed
  <2>. QED
    BY <1>3, <2>1 DEF Succeeded
<1>7. ~Receive
  BY <1>3 DEF Receive, TestRunning, Released, _soap_nudp_receive_document, UdpStep
<1>8. ASSUME NEW c \in Clients, soap_client_invoke(c)
      PROVE  /\ jobs' = {} /\ \A d \in net' : d.to = ServerPort
             /\ \A call \in Calls : served'[call] = << >>
             /\ \A b \in Clients : ~Succeeded(b)'
  <2>1. PICK x : clients' = [clients EXCEPT ![c] = x] /\ Ends(x, c)
    BY <1>8, Invocation
  <2>2. UNCHANGED <<jobs, served>>
    BY <1>2, <1>8 DEF soap_client_invoke
  <2>3. \A call, env, big : Datagram(ServerPort, call, env, call, big).to = ServerPort
    BY DEF Datagram
  <2>4. \A d \in net' : d.to = ServerPort
    BY <1>3, <2>1, <2>3 DEF Ends
  <2>5. x.pc # "idle" \/ x.status = "error"
    BY <2>1 DEF Ends
  <2>. QED
    BY <1>4, <2>1, <2>2, <2>4, <2>5
<1>9. ASSUME NEW c \in Clients, Await(c)
      PROVE  /\ jobs' = {} /\ \A d \in net' : d.to = ServerPort
             /\ \A call \in Calls : served'[call] = << >>
             /\ \A b \in Clients : ~Succeeded(b)'
  <2>1. PICK y : /\ clients' = [clients EXCEPT ![c] = y] /\ SameCall(y, clients[c])
                /\ \/ y.pc = "spin"
                   \/ y.pc = "idle" /\ y.status = "error"
                   \/ \E d \in net : d.to = <<c, y.n>>
    BY <1>9, Awaited
  <2>2. <<c, y.n>> \in CallNames
    BY <2>1 DEF SameCall, CallsFine, ClientsFine, IsClient, CallNames
  <2>3. y.pc # "idle" \/ y.status = "error"
    BY <1>3, <2>1, <2>2, NotServer
  <2>4. net' \subseteq net /\ UNCHANGED <<jobs, served>>
    BY <1>9 DEF Await, UdpAnswer, ConnectionLost, ClientStep
  <2>. QED
    BY <1>3, <1>4, <2>1, <2>3, <2>4
<1>. QED
  BY <1>2, <1>3, <1>5, <1>6, <1>7, <1>8, <1>9 DEF Next, Work

-----------------------------------------------------------------------------
(* What is made of a call: the request as the server gets it, which the    *)
(* routers refuse or a service meets, and the answers to it.               *)
Here(c) == <<c, clients[c].n>>

Request(c) ==
  LET env == clients[c].ctx
  IN  IF soap_addressing_get_to_address(env).scheme = "soap.udp" THEN LocalPart(env) ELSE env

Done(call) == IF call \in Calls THEN {served[call][i].outcome : i \in DOMAIN served[call]} ELSE {}
Bad == {"fault", "nothing", "error"}

Refused(q) == Refusal(q) # ""

(* An answer says what became of the call.                                 *)
Says(env, call, q) ==
  /\ call \in Calls
  /\ IF FaultBelowBody(env) THEN Refused(q) \/ Done(call) \cap Bad # {} ELSE "response" \in Done(call)

Meets(q) == Service(Plain(q), Router(Plain(q)))

DatagramSays(d, call, q) ==
  IF d.to = ServerPort THEN LocalPart(d.env) = q ELSE Says(d.env, call, q)

JobSays(j, call, q) ==
  /\ j.at \in {"route", "call", "send", "complete"}
  /\ j.at = "route" => j.env = q
  /\ j.at = "call" => ~Refused(q) /\ j.env = Plain(q) /\ j.service = Meets(q)
  /\ j.at \in {"send", "complete"} => Says(j.env, call, q)

ServedWell(call, q) ==
  call \in Calls => \A i \in DOMAIN served[call] :
    /\ ~Refused(q)
    /\ served[call][i].service = Meets(q)
    /\ served[call][i].method = soap_env_find_methodname(Plain(q))

CarriedOut(call, q) ==
  /\ \A d \in net : d.call = call => DatagramSays(d, call, q)
  /\ \A j \in jobs : j.call = call => JobSays(j, call, q)
  /\ ServedWell(call, q)

CallOf(c) ==
  /\ CarriedOut(Here(c), Request(c))
  /\ Succeeded(c) => Says(clients[c].answer, Here(c), Request(c))

CallInv == \A c \in Clients : CallOf(c)

LEMMA FixedRouting ==
  ASSUME UNCHANGED <<cfg, registry, routers>>, NEW q
  PROVE  Refused(q)' = Refused(q) /\ Meets(q)' = Meets(q) /\ Plain(q)' = Plain(q)
<1>1. \A e : Plain(e)' = Plain(e) /\ Verified(e)' = Verified(e) /\ Decryptable(e)' = Decryptable(e)
  BY DEF Plain, Verified, Decryptable
<1>2. \A path : soap_server_find_router(path)' = soap_server_find_router(path)
  BY DEF soap_server_find_router, SelectInSeq
<1>3. \A e : Router(e)' = Router(e)
  BY <1>2 DEF Router
<1>4. \A r, urn, method : soap_router_find_service(r, urn, method)' = soap_router_find_service(r, urn, method)
  BY DEF soap_router_find_service, SelectInSeq
<1>5. \A e, r : Service(e, r)' = Service(e, r)
  BY <1>4 DEF Service
<1>6. PICK e : e = Plain(q)
  OBVIOUS
<1>7. PICK r : r = Router(e)
  OBVIOUS
<1>8. PICK s : s = Service(e, r)
  OBVIOUS
<1>9. Plain(q)' = e /\ Router(e)' = r /\ Service(e, r)' = s
  BY <1>1, <1>3, <1>5, <1>6, <1>7, <1>8
<1>10. Meets(q) = s /\ Meets(q)' = s
  BY <1>6, <1>7, <1>8, <1>9 DEF Meets
<1>11. Reason(e, r, s)' = Reason(e, r, s)
  BY DEF Reason
<1>12. Refusal(q) = (IF ~Verified(q) \/ ~Decryptable(q) THEN "Unreadable" ELSE Reason(e, r, s))
  BY <1>6, <1>7, <1>8 DEF Refusal
<1>13. Refusal(q)' = (IF ~Verified(q) \/ ~Decryptable(q) THEN "Unreadable" ELSE Reason(e, r, s))
  BY <1>1, <1>9, <1>11 DEF Refusal
<1>. QED
  BY <1>1, <1>10, <1>12, <1>13 DEF Refused

LEMMA SaysAlike ==
  ASSUME NEW e, NEW f, NEW call, NEW q, SameBody(e, f), Says(f, call, q)
  PROVE  Says(e, call, q)
BY DEF Says, SameBody, FaultBelowBody

(* What an answer says stays true: a call does not become undone.          *)
LEMMA SaysLater ==
  ASSUME UNCHANGED <<cfg, registry, routers>>, NEW call, NEW q, Done(call) \subseteq Done(call)'
  PROVE  /\ \A env : Says(env, call, q) => Says(env, call, q)'
         /\ \A d : DatagramSays(d, call, q) => DatagramSays(d, call, q)'
         /\ \A j : JobSays(j, call, q) => JobSays(j, call, q)'
<1>1. Refused(q)' = Refused(q) /\ Meets(q)' = Meets(q) /\ Plain(q)' = Plain(q)
  BY FixedRouting
<1>2. \A env : Says(env, call, q) => Says(env, call, q)'
  BY <1>1 DEF Says
<1>3. \A d : DatagramSays(d, call, q) => DatagramSays(d, call, q)'
  BY <1>2 DEF DatagramSays
<1>4. \A j : JobSays(j, call, q) => JobSays(j, call, q)'
  BY <1>1, <1>2 DEF JobSays
<1>. QED
  BY <1>2, <1>3, <1>4

LEMMA CarriedOn ==
  ASSUME UNCHANGED <<cfg, registry, routers>>, NEW call, NEW q, CarriedOut(call, q),
         Done(call) \subseteq Done(call)', ServedWell(call, q)',
         \A e \in net' : e.call = call =>
           \/ \E d \in net : d.call = call /\ e.to = d.to /\ e.env = d.env
           \/ DatagramSays(e, call, q),
         \A k \in jobs' : k.call = call => k \in jobs \/ JobSays(k, call, q) \/ JobSays(k, call, q)'
  PROVE  CarriedOut(call, q)'
<1>1. /\ \A d : DatagramSays(d, call, q) => DatagramSays(d, call, q)'
      /\ \A j : JobSays(j, call, q) => JobSays(j, call, q)'
  BY SaysLater
<1>2. ASSUME NEW e \in net', e.call = call PROVE DatagramSays(e, call, q)'
  <2>1. ASSUME NEW d \in net, d.call = call, e.to = d.to, e.env = d.env PROVE DatagramSays(e, call, q)
    BY <2>1 DEF CarriedOut, DatagramSays
  <2>. QED
    BY <1>1, <1>2, <2>1
<1>3. ASSUME NEW k \in jobs', k.call = call PROVE JobSays(k, call, q)'
  BY <1>1, <1>3 DEF CarriedOut
<1>. QED
  BY <1>2, <1>3 DEF CarriedOut

(* A step that does nothing for the call.                                  *)
LEMMA CarriedAlong ==
  ASSUME UNCHANGED <<cfg, registry, routers>>, NEW call, NEW q, CarriedOut(call, q),
         call \in Calls => served'[call] = served[call],
         \A e \in net' : e.call = call =>
           \/ \E d \in net : d.call = call /\ e.to = d.to /\ e.env = d.env
           \/ DatagramSays(e, call, q),
         \A k \in jobs' : k.call = call => k \in jobs \/ JobSays(k, call, q)
  PROVE  CarriedOut(call, q)' /\ Done(call) \subseteq Done(call)'
<1>1. Done(call)' = Done(call)
  BY DEF Done
<1>2. Refused(q)' = Refused(q) /\ Meets(q)' = Meets(q) /\ Plain(q)' = Plain(q)
  BY FixedRouting
<1>3. ServedWell(call, q)'
  BY <1>2 DEF CarriedOut, ServedWell
<1>. QED
  BY <1>1, <1>3, CarriedOn

-----------------------------------------------------------------------------
(* The request of a call has the body of its context, and a service that   *)
(* meets it answers with something else than a fault.                      *)
LEMMA RequestIsContext ==
  ASSUME MessagesFine, NEW c \in Clients
  PROVE  LET q == Request(c)
         IN  /\ IsMessage(q) /\ SameBody(q, clients[c].ctx) /\ q.layers = clients[c].ctx.layers
             /\ \A path : Toward(clients[c].ctx, path) => Toward(q, path)
<1>1. IsMessage(clients[c].ctx)
  BY DEF MessagesFine
<1>2. Kept(LocalPart(clients[c].ctx), clients[c].ctx)
  BY <1>1, LocalKeeps
<1>. QED
  BY <1>1, <1>2, TowardLocal DEF Request, Kept, SameBody

LEMMA NotRefused ==
  ASSUME MessagesFine, ContextInv, NEW c \in Clients, NEW q, q = Request(c), ~Refused(q)
  PROVE  LET method == soap_env_find_methodname(Plain(q))
             asked == clients[c].asked
         IN  /\ Response(method) # Fault
             /\ asked.fresh \/ ~cfg.enabled
                  => method = asked.method /\ soap_env_find_urn(Plain(q)) = asked.urn
             /\ method # "none" /\ Router(Plain(q)) # 0 /\ Meets(q) # NoService
             /\ Destination(Plain(q)).path = asked.path
<1>1. PICK p : p = Plain(q)
  OBVIOUS
<1>2. PICK x : x = clients[c]
  OBVIOUS
<1>3. IsMessage(q) /\ SameBody(q, x.ctx) /\ q.layers = x.ctx.layers
  BY <1>2, RequestIsContext
<1>14. Toward(x.ctx, x.asked.path) => Toward(q, x.asked.path)
  BY <1>2, RequestIsContext
<1>4. /\ IsMessage(p) /\ SameBody(p, x.ctx)
      /\ p.layers = IF cfg.enabled /\ q.layers # 0 THEN q.layers - 1 ELSE q.layers
  BY <1>1, <1>3, PlainKeeps DEF SameBody
<1>5. ContextFine(x)
  BY <1>2 DEF ContextInv
<1>6. soap_env_find_methodname(p) # "none" /\ Router(p) # 0 /\ Meets(q) # NoService
  BY <1>1 DEF Refused, Refusal, Reason, Meets
<1>7. /\ p.body = <<Element("Body", 1), Element(x.asked.method, 2)>>
      /\ p.urn = x.asked.urn /\ Response(x.asked.method) # Fault
  BY <1>4, <1>5, <1>6, NoMethod DEF ContextFine, BodyOf, SameBody
<1>8. p.layers \in Nat
  BY <1>4 DEF IsMessage
<1>9. soap_env_find_methodname(p) = IF p.layers > 0 THEN EncryptedData ELSE x.asked.method
  BY <1>7, <1>8, OneMethod
<1>10. ASSUME x.asked.fresh \/ ~cfg.enabled PROVE p.layers = 0
  <2>1. q.layers = 0 \/ (q.layers = 1 /\ cfg.enabled)
    BY <1>3, <1>5, <1>10 DEF ContextFine
  <2>2. CASE q.layers = 0
    BY <1>4, <2>2
  <2>3. CASE q.layers = 1 /\ cfg.enabled
    <3>1. q.layers # 0
      BY <2>3
    <3>2. p.layers = q.layers - 1
      BY <1>4, <2>3, <3>1
    <3>. QED
      BY <2>3, <3>2
  <2>. QED
    BY <2>1, <2>2, <2>3
<1>11. soap_env_find_urn(p) = IF p.layers > 0 THEN "xmlenc" ELSE x.asked.urn
  BY <1>7 DEF soap_env_find_urn
<1>12. Response(soap_env_find_methodname(p)) # Fault
  BY <1>7, <1>9, CallAssumption
<1>13. p.layers = 0 => soap_env_find_methodname(p) = x.asked.method /\ soap_env_find_urn(p) = x.asked.urn
  BY <1>9, <1>11
<1>15. Destination(p).path = x.asked.path
  <2>1. Destination(p) # Null
    BY <1>6 DEF Router
  <2>2. Toward(p, x.asked.path)
    BY <1>1, <1>3, <1>5, <1>14, TowardSecured DEF ContextFine
  <2>. QED
    BY <1>4, <2>1, <2>2, ToFound
<1>. QED
  BY <1>1, <1>2, <1>6, <1>10, <1>12, <1>13, <1>15

LEMMA RouteCarries ==
  ASSUME CallsFine, FutureInv, NEW call, NEW q, CarriedOut(call, q), NEW j \in jobs, Route(j)
  PROVE  CarriedOut(call, q)' /\ Done(call) \subseteq Done(call)'
<1>1. /\ j.at = "route" /\ UNCHANGED <<server, routers, registry, udp, net, clients, cfg, spent, served>>
      /\ \E k : /\ jobs' = (jobs \ {j}) \cup {k}
                /\ k.call = j.call
                /\ \/ /\ k.at \in {"send", "complete"}
                      /\ \E reason : k.env = soap_env_new_with_fault(reason)
                      /\ Refused(j.env)
                   \/ /\ k.at = "call" /\ k.env = Plain(j.env)
                      /\ k.service = Service(Plain(j.env), Router(Plain(j.env)))
                      /\ ~Refused(j.env)
  BY Routed DEF Refused
<1>2. PICK k : /\ jobs' = (jobs \ {j}) \cup {k}
                /\ k.call = j.call
                /\ \/ /\ k.at \in {"send", "complete"}
                      /\ \E reason : k.env = soap_env_new_with_fault(reason)
                      /\ Refused(j.env)
                   \/ /\ k.at = "call" /\ k.env = Plain(j.env)
                      /\ k.service = Service(Plain(j.env), Router(Plain(j.env)))
                      /\ ~Refused(j.env)
  BY <1>1
<1>3. ASSUME k.call = call PROVE JobSays(k, call, q)
  <2>1. j.env = q
    BY <1>1, <1>2, <1>3 DEF CarriedOut, JobSays
  <2>2. CASE k.at = "call"
    BY <1>2, <2>1, <2>2 DEF JobSays, Meets
  <2>3. CASE k.at \in {"send", "complete"}
    <3>1. Refused(q) /\ FaultBelowBody(k.env) /\ call \in Calls
      BY <1>2, <1>3, <2>1, <2>3, FaultsAreFaults DEF FutureInv
    <3>. QED
      BY <2>3, <3>1 DEF JobSays, Says
  <2>. QED
    BY <1>2, <2>2, <2>3
<1>4. /\ \A e \in net' : e.call = call => \E d \in net : d.call = call /\ e.to = d.to /\ e.env = d.env
      /\ \A i \in jobs' : i.call = call => i \in jobs \/ JobSays(i, call, q)
  BY <1>1, <1>2, <1>3
<1>. QED
  BY <1>1, <1>4, CarriedAlong

LEMMA ServiceCarries ==
  ASSUME CallsFine, OnceInv, FutureInv, NEW call, NEW q, CarriedOut(call, q),
         ~Refused(q) => Response(soap_env_find_methodname(Plain(q))) # Fault,
         NEW j \in jobs, CallService(j)
  PROVE  CarriedOut(call, q)' /\ Done(call) \subseteq Done(call)'
<1>1. PICK outcome \in Outcomes : \E k :
           /\ jobs' = (jobs \ {j}) \cup {k}
           /\ k.call = j.call /\ k.at = "complete" /\ k.env = Answer(j.env, outcome)
           /\ served' = [served EXCEPT ![j.call] =
                Append(@, [service |-> j.service, outcome |-> outcome,
                           method |-> soap_env_find_methodname(j.env)])]
           /\ j.at = "call" /\ UNCHANGED <<server, routers, registry, udp, net, clients, cfg, spent>>
  BY Served
<1>2. PICK k :
           /\ jobs' = (jobs \ {j}) \cup {k}
           /\ k.call = j.call /\ k.at = "complete" /\ k.env = Answer(j.env, outcome)
  BY <1>1
<1>3. PICK entry : entry = [service |-> j.service, outcome |-> outcome, method |-> soap_env_find_methodname(j.env)]
  OBVIOUS
<1>4. /\ served' = [served EXCEPT ![j.call] = Append(@, entry)] /\ j.call \in Calls /\ DOMAIN served = Calls
      /\ j.at = "call" /\ UNCHANGED <<server, routers, registry, udp, net, clients, cfg, spent>>
  BY <1>1, <1>3 DEF FutureInv
<1>5. CASE j.call # call
  <2>1. call \in Calls => served'[call] = served[call]
    BY <1>4, <1>5
  <2>2. /\ \A e \in net' : e.call = call => \E d \in net : d.call = call /\ e.to = d.to /\ e.env = d.env
        /\ \A i \in jobs' : i.call = call => i \in jobs
    BY <1>2, <1>4, <1>5
  <2>. QED
    BY <1>4, <2>1, <2>2, CarriedAlong
<1>6. CASE j.call = call
  <2>1. ~Refused(q) /\ j.env = Plain(q) /\ j.service = Meets(q)
    BY <1>4, <1>6 DEF CarriedOut, JobSays
  <2>2. PICK s : s = served[call]
    OBVIOUS
  <2>3. IsSequence(s)
    BY <1>4, <1>6, <2>2 DEF OnceInv, IsSequence
  <2>4. PICK t : t = Append(s, entry)
    OBVIOUS
  <2>5. PICK n \in Nat : n = Len(s)
    BY <2>3, LenType
  <2>6. served'[call] = t
    BY <1>4, <1>6, <2>2, <2>4
  <2>7. /\ DOMAIN s = 1 .. n /\ DOMAIN t = 1 .. n + 1
        /\ t[n + 1] = entry /\ \A i \in 1 .. n : t[i] = s[i]
    BY <2>3, <2>4, <2>5, LenType, Lengthened
  <2>8. /\ \A i \in DOMAIN s : i \in DOMAIN t /\ t[i] = s[i]
        /\ n + 1 \in DOMAIN t /\ t[n + 1] = entry
        /\ \A i \in DOMAIN t : t[i] = entry \/ (i \in DOMAIN s /\ t[i] = s[i])
    BY <2>7
  <2>9. Done(call) \subseteq Done(call)' /\ outcome \in Done(call)'
    <3>1. Done(call) = {s[i].outcome : i \in DOMAIN s} /\ Done(call)' = {t[i].outcome : i \in DOMAIN t}
      BY <1>4, <1>6, <2>2, <2>6 DEF Done
    <3>2. entry.outcome = outcome
      BY <1>3
    <3>. QED
      BY <2>8, <3>1, <3>2
  <2>10. Refused(q)' = Refused(q) /\ Meets(q)' = Meets(q) /\ Plain(q)' = Plain(q)
    BY <1>4, FixedRouting
  <2>11. ServedWell(call, q)'
    <3>1. entry.service = Meets(q) /\ entry.method = soap_env_find_methodname(Plain(q))
      BY <1>3, <2>1
    <3>2. \A i \in DOMAIN t : t[i].service = Meets(q) /\ t[i].method = soap_env_find_methodname(Plain(q))
      BY <1>4, <1>6, <2>2, <2>8, <3>1 DEF CarriedOut, ServedWell
    <3>. QED
      BY <2>1, <2>6, <2>10, <3>2 DEF ServedWell
  <2>12. Says(k.env, call, q)'
    <3>1. CASE outcome = "response"
      <4>1. k.env = soap_env_new_with_response(Plain(q))
        BY <1>2, <2>1, <3>1 DEF Answer
      <4>2. ~FaultBelowBody(k.env)
        BY <2>1, <4>1, ResponsesAreNone
      <4>. QED
        BY <1>4, <1>6, <2>9, <3>1, <4>2 DEF Says
    <3>2. CASE outcome # "response"
      <4>1. outcome \in Bad
        BY <3>2 DEF Outcomes, Bad
      <4>2. \E reason : k.env = soap_env_new_with_fault(reason)
        BY <1>2, <4>1 DEF Answer, Bad
      <4>3. FaultBelowBody(k.env)
        BY <4>2, FaultsAreFaults
      <4>. QED
        BY <1>4, <1>6, <2>9, <4>1, <4>3 DEF Says, Bad
    <3>. QED
      BY <3>1, <3>2
  <2>13. JobSays(k, call, q)'
    BY <1>2, <2>12 DEF JobSays
  <2>14. /\ \A e \in net' : e.call = call => \E d \in net : d.call = call /\ e.to = d.to /\ e.env = d.env
         /\ \A i \in jobs' : i.call = call => i \in jobs \/ JobSays(i, call, q)'
    BY <1>2, <1>4, <2>13
  <2>. QED
    BY <1>4, <2>9, <2>11, <2>14, CarriedOn
<1>. QED
  BY <1>5, <1>6

(* An answer goes out as it is, below another header.                      *)
LEMMA SendCarries ==
  ASSUME CallsFine, MessagesFine, NEW j \in jobs, UdpSend(j) \/ HttpSend(j)
  PROVE  /\ UNCHANGED <<cfg, registry, routers>>
         /\ \/ /\ UNCHANGED clients
               /\ \A call \in CallNames : \A q : CarriedOut(call, q) =>
                    CarriedOut(call, q)' /\ Done(call) \subseteq Done(call)'
            \/ \E c \in Clients : \E y :
                 /\ clients' = [clients EXCEPT ![c] = y] /\ SameCall(y, clients[c])
                 /\ \A call \in CallNames : \A q : CarriedOut(call, q) =>
                      /\ CarriedOut(call, q)' /\ Done(call) \subseteq Done(call)'
                      /\ y.status = "error" \/ (call = <<c, y.n>> => Says(y.answer, call, q))
<1>1. PICK env :
           /\ IsMessage(env) /\ SameBody(env, j.env) /\ j.at \in {"send", "complete"}
           /\ jobs' = jobs \ {j} /\ UNCHANGED <<server, routers, registry, cfg, spent, served>>
           /\ \/ /\ net' = net \cup {Datagram(j.call, ServerPort, env, j.call, FALSE)}
                 /\ UNCHANGED clients
              \/ UNCHANGED net /\ UNCHANGED clients
              \/ /\ UNCHANGED net
                 /\ \E c \in Clients : \E y :
                      /\ clients' = [clients EXCEPT ![c] = y]
                      /\ SameCall(y, clients[c]) /\ j.call = <<c, y.n>>
                      /\ y.status = "error" \/ y.answer \in {env, Plain(env)}
  BY Sent
<1>2. SameBody(Plain(env), env)
  BY <1>1, PlainKeeps
<1>3. ASSUME NEW call, NEW q, CarriedOut(call, q), j.call = call
      PROVE  Says(env, call, q) /\ Says(Plain(env), call, q)
  <2>1. Says(j.env, call, q)
    BY <1>1, <1>3 DEF CarriedOut, JobSays
  <2>. QED
    BY <1>1, <1>2, <2>1, SaysAlike
<1>4. PICK d : d = Datagram(j.call, ServerPort, env, j.call, FALSE)
  OBVIOUS
<1>5. d.to = j.call /\ d.env = env /\ d.call = j.call
  BY <1>4 DEF Datagram
<1>6. ASSUME NEW call \in CallNames, NEW q, CarriedOut(call, q)
      PROVE  CarriedOut(call, q)' /\ Done(call) \subseteq Done(call)'
  <2>1. d.call = call => DatagramSays(d, call, q)
    BY <1>3, <1>5, <1>6, NotServer DEF DatagramSays
  <2>2. /\ \A e \in net' : e.call = call =>
           \/ \E f \in net : f.call = call /\ e.to = f.to /\ e.env = f.env
           \/ DatagramSays(e, call, q)
        /\ \A k \in jobs' : k.call = call => k \in jobs
    BY <1>1, <1>4, <2>1
  <2>. QED
    BY <1>1, <1>6, <2>2, CarriedAlong
<1>7. ASSUME NEW c \in Clients, NEW y,
             clients' = [clients EXCEPT ![c] = y], SameCall(y, clients[c]), j.call = <<c, y.n>>,
             y.status = "error" \/ y.answer \in {env, Plain(env)}
      PROVE  \A call \in CallNames : \A q : CarriedOut(call, q) =>
               /\ CarriedOut(call, q)' /\ Done(call) \subseteq Done(call)'
               /\ y.status = "error" \/ (call = <<c, y.n>> => Says(y.answer, call, q))
  BY <1>3, <1>6, <1>7
<1>8. \A call \in CallNames : \A q : CarriedOut(call, q) =>
        CarriedOut(call, q)' /\ Done(call) \subseteq Done(call)'
  BY <1>6
<1>9. CASE UNCHANGED clients
  BY <1>1, <1>8, <1>9
<1>10. CASE \E c \in Clients : \E y :
              /\ clients' = [clients EXCEPT ![c] = y]
              /\ SameCall(y, clients[c]) /\ j.call = <<c, y.n>>
              /\ y.status = "error" \/ y.answer \in {env, Plain(env)}
  BY <1>1, <1>7, <1>10
<1>. QED
  BY <1>1, <1>9, <1>10

LEMMA ReceiveCarries ==
  ASSUME CallsFine, NEW call, NEW q, CarriedOut(call, q), Receive
  PROVE  CarriedOut(call, q)' /\ Done(call) \subseteq Done(call)'
<1>1. UNCHANGED <<cfg, registry, routers, clients, served>>
  BY DEF Receive, TestRunning, Released, _soap_nudp_receive_document, UdpStep
<1>2. CASE TestRunning \/ Released
  <2>1. UNCHANGED <<jobs, net>>
    BY <1>2 DEF TestRunning, Released
  <2>. QED
    BY <1>1, <2>1, CarriedAlong
<1>3. CASE _soap_nudp_receive_document
  <2>1. PICK d \in net :
          /\ d.to = ServerPort /\ net' = net \ {d}
          /\ jobs' \subseteq jobs \cup {NewJob(LocalPart(d.env), d.call, d.from)}
    BY <1>3 DEF _soap_nudp_receive_document
  <2>2. PICK k : k = NewJob(LocalPart(d.env), d.call, d.from)
    OBVIOUS
  <2>3. k.call = d.call /\ k.env = LocalPart(d.env) /\ k.at = "route"
    BY <2>2 DEF NewJob
  <2>4. k.call = call => JobSays(k, call, q)
    BY <2>1, <2>3 DEF CarriedOut, DatagramSays, JobSays
  <2>5. /\ \A e \in net' : e.call = call => \E f \in net : f.call = call /\ e.to = f.to /\ e.env = f.env
        /\ \A i \in jobs' : i.call = call => i \in jobs \/ JobSays(i, call, q)
    BY <2>1, <2>2, <2>4
  <2>. QED
    BY <1>1, <2>5, CarriedAlong
<1>. QED
  BY <1>2, <1>3 DEF Receive

LEMMA AwaitCarries ==
  ASSUME CallsFine, MessagesFine, NEW c \in Clients, Await(c)
  PROVE  /\ UNCHANGED <<cfg, registry, routers>>
         /\ \E y :
              /\ clients' = [clients EXCEPT ![c] = y] /\ SameCall(y, clients[c])
              /\ \A call \in CallNames : \A q : CarriedOut(call, q) =>
                   /\ CarriedOut(call, q)' /\ Done(call) \subseteq Done(call)'
                   /\ y.pc = "spin" \/ y.status = "error" \/ (call = <<c, y.n>> => Says(y.answer, call, q))
<1>1. /\ UNCHANGED <<cfg, registry, routers, served, jobs>> /\ net' \subseteq net
  BY DEF Await, UdpAnswer, ConnectionLost, ClientStep
<1>2. PICK y : /\ clients' = [clients EXCEPT ![c] = y] /\ SameCall(y, clients[c])
                /\ \/ y.pc = "spin"
                   \/ y.pc = "idle" /\ y.status = "error"
                   \/ \E d \in net : d.to = <<c, y.n>> /\ y.answer \in {d.env, Plain(d.env)}
  BY Awaited
<1>3. ASSUME NEW call, NEW q, CarriedOut(call, q)
      PROVE  CarriedOut(call, q)' /\ Done(call) \subseteq Done(call)'
  BY <1>1, <1>3, CarriedAlong
<1>4. ASSUME NEW call \in CallNames, NEW q, CarriedOut(call, q),
             NEW d \in net, d.to = <<c, y.n>>, y.answer \in {d.env, Plain(d.env)}, call = <<c, y.n>>
      PROVE  Says(y.answer, call, q)
  <2>1. d.to # ServerPort /\ d.call = call
    BY <1>4, NotServer DEF CallsFine, DatagramFine
  <2>2. Says(d.env, call, q)
    BY <1>4, <2>1 DEF CarriedOut, DatagramSays
  <2>3. SameBody(Plain(d.env), d.env)
    BY PlainKeeps DEF MessagesFine
  <2>. QED
    BY <1>4, <2>2, <2>3, SaysAlike
<1>5. ASSUME NEW call \in CallNames, NEW q, CarriedOut(call, q)
      PROVE  y.pc = "spin" \/ y.status = "error" \/ (call = <<c, y.n>> => Says(y.answer, call, q))
  BY <1>2, <1>4, <1>5
<1>. QED
  BY <1>1, <1>2, <1>3, <1>5

LEMMA NetworkCarries ==
  ASSUME CallsFine, NEW call, NEW q, CarriedOut(call, q), Lose \/ Oversize \/ Double
  PROVE  CarriedOut(call, q)' /\ Done(call) \subseteq Done(call)'
<1>1. /\ UNCHANGED <<routers, registry, jobs, clients, cfg, served>>
      /\ \A e \in net' : \E d \in net : e.env = d.env /\ e.call = d.call /\ e.to = d.to
  BY Disturbed
<1>2. \A e \in net' : e.call = call => \E d \in net : d.call = call /\ e.to = d.to /\ e.env = d.env
  BY <1>1
<1>. QED
  BY <1>1, <1>2, CarriedAlong

(* The next call of a client is carried out from its first step on.        *)
LEMMA InvokeCarries ==
  ASSUME CallsFine, FutureInv, NEW c \in Clients, soap_client_invoke(c)
  PROVE  \E x : \E r :
                /\ clients' = [clients EXCEPT ![c] = x] /\ x.n = clients[c].n + 1
                /\ x.pc # "idle" \/ x.status = "error"
                /\ \A call : call # <<c, x.n>> => \A q : CarriedOut(call, q) =>
                     CarriedOut(call, q)' /\ Done(call) \subseteq Done(call)'
                /\ r = Request(c)' /\ CarriedOut(<<c, x.n>>, r)'
                /\ UNCHANGED <<cfg, registry, routers>>
<1>1. PICK x : clients' = [clients EXCEPT ![c] = x] /\ x.n = clients[c].n + 1 /\ Ends(x, c)
  BY Invocation
<1>2. PICK hot : hot = <<c, x.n>>
  OBVIOUS
<1>3. UNCHANGED <<cfg, registry, routers, served>>
  BY DEF soap_client_invoke
<1>4. PICK env : env = Secured(Ready(c))
  OBVIOUS
<1>5. PICK q : q = Request(c)'
  OBVIOUS
<1>6. clients'[c] = x
  BY <1>1 DEF CallsFine, ClientsFine
<1>7. q = IF soap_addressing_get_to_address(x.ctx).scheme = "soap.udp" THEN LocalPart(x.ctx) ELSE x.ctx
  BY <1>5, <1>6 DEF Request
<1>8. \A big : LET d == Datagram(ServerPort, hot, env, hot, big)
               IN  d.call = hot /\ d.to = ServerPort /\ d.env = env
  BY DEF Datagram
<1>9. LET k == NewJob(env, hot, Http) IN k.call = hot /\ k.env = env /\ k.at = "route"
  BY DEF NewJob
<1>10. /\ \A d \in net' : d \in net \/ (d.call = hot /\ d.to = ServerPort /\ LocalPart(d.env) = q)
       /\ \A k \in jobs' : k \in jobs \/ (k.call = hot /\ k.at = "route" /\ k.env = q)
  <2>1. CASE UNCHANGED <<jobs, net>>
    BY <2>1
  <2>2. CASE /\ x.ctx = env /\ soap_addressing_get_to_address(env).scheme = "soap.udp"
             /\ \E big : net' = net \cup {Datagram(ServerPort, hot, env, hot, big)}
             /\ UNCHANGED jobs
    <3>1. q = LocalPart(env)
      BY <1>7, <2>2
    <3>. QED
      BY <1>8, <2>2, <3>1
  <2>3. CASE /\ x.ctx = env /\ soap_addressing_get_to_address(env).scheme # "soap.udp"
             /\ jobs' = jobs \cup {NewJob(env, hot, Http)}
             /\ UNCHANGED net
    <3>1. q = env
      BY <1>7, <2>3
    <3>. QED
      BY <1>9, <2>3, <3>1
  <2>. QED
    BY <1>1, <1>2, <1>4, <2>1, <2>2, <2>3 DEF Ends
<1>11. ASSUME NEW call, call # hot, NEW p, CarriedOut(call, p)
       PROVE  CarriedOut(call, p)' /\ Done(call) \subseteq Done(call)'
  <2>1. /\ \A e \in net' : e.call = call => \E d \in net : d.call = call /\ e.to = d.to /\ e.env = d.env
        /\ \A k \in jobs' : k.call = call => k \in jobs
    BY <1>10, <1>11
  <2>. QED
    BY <1>3, <1>11, <2>1, CarriedAlong
<1>12. CarriedOut(hot, q)'
  <2>1. Absent(hot)
    <3>1. clients[c].n \in Nat /\ hot[1] = c /\ hot[2] = clients[c].n + 1 /\ hot \in CallNames
      BY <1>1, <1>2 DEF CallsFine, ClientsFine, IsClient, CallNames
    <3>2. Future(hot)
      BY <3>1 DEF Future
    <3>. QED
      BY <3>1, <3>2 DEF FutureInv
  <2>2. /\ \A d \in net' : d.call = hot => d.to = ServerPort /\ LocalPart(d.env) = q
        /\ \A k \in jobs' : k.call = hot => k.at = "route" /\ k.env = q
        /\ hot \in Calls => served'[hot] = << >>
    BY <1>3, <1>10, <2>1 DEF Absent
  <2>3. ServedWell(hot, q)'
    BY <2>2 DEF ServedWell
  <2>4. \A d \in net' : d.call = hot => DatagramSays(d, hot, q)'
    BY <2>2 DEF DatagramSays
  <2>5. \A k \in jobs' : k.call = hot => JobSays(k, hot, q)'
    BY <2>2 DEF JobSays
  <2>. QED
    BY <2>3, <2>4, <2>5 DEF CarriedOut
<1>13. x.pc # "idle" \/ x.status = "error"
  BY <1>1 DEF Ends
<1>. QED
  BY <1>1, <1>2, <1>3, <1>5, <1>11, <1>12, <1>13

LEMMA CallStays ==
  ASSUME UNCHANGED <<cfg, registry, routers>>, NEW b \in Clients, CallOf(b),
         NEW call, call = Here(b), NEW q, q = Request(b),
         CarriedOut(call, q)', Done(call) \subseteq Done(call)',
         SameCall(clients'[b], clients[b]),
         \/ clients'[b] = clients[b]
         \/ clients'[b].pc # "idle" \/ clients'[b].status = "error"
         \/ Says(clients'[b].answer, call, q)
  PROVE  CallOf(b)'
<1>1. Here(b)' = call /\ Request(b)' = q
  BY DEF Here, Request, SameCall
<1>2. \A env : Says(env, call, q) => Says(env, call, q)'
  BY SaysLater
<1>3. PICK answer : answer = clients'[b].answer
  OBVIOUS
<1>4. ASSUME Succeeded(b)' PROVE Says(answer, call, q)'
  <2>1. CASE clients'[b] = clients[b]
    BY <1>2, <1>3, <1>4, <2>1 DEF CallOf, Succeeded
  <2>2. CASE clients'[b] # clients[b]
    BY <1>2, <1>3, <1>4, <2>2 DEF Succeeded
  <2>. QED
    BY <2>1, <2>2
<1>. QED
  BY <1>1, <1>3, <1>4 DEF CallOf

LEMMA QuietCalls ==
  ASSUME CallInv, UNCHANGED <<cfg, registry, routers, clients>>,
         \A call \in CallNames : \A q : CarriedOut(call, q) =>
           CarriedOut(call, q)' /\ Done(call) \subseteq Done(call)',
         CallsFine
  PROVE  CallInv'
<1>1. ASSUME NEW b \in Clients PROVE CallOf(b)'
  <2>1. PICK call, q : call = Here(b) /\ q = Request(b)
    OBVIOUS
  <2>2. CallOf(b) /\ CarriedOut(call, q) /\ call \in CallNames
    BY <2>1 DEF CallInv, CallOf, Here, CallNames, CallsFine, ClientsFine, IsClient
  <2>3. CarriedOut(call, q)' /\ Done(call) \subseteq Done(call)'
    BY <2>2
  <2>4. SameCall(clients'[b], clients[b]) /\ clients'[b] = clients[b]
    BY DEF SameCall
  <2>. QED
    BY <2>1, <2>2, <2>3, <2>4, CallStays
<1>. QED
  BY <1>1 DEF CallInv

LEMMA SetupCalls ==
  ASSUME SetupInv, CallInv, MessagesFine, UdpInv, Setup
  PROVE  CallInv'
<1>1. server.pc = "setup" /\ UNCHANGED <<jobs, net, clients, served>>
  BY DEF Setup, Registering, soap_router_new, soap_router_register_service,
         soap_router_register_default_service, soap_server_register_router
<1>2. /\ jobs = {} /\ \A d \in net : d.to = ServerPort
      /\ \A call \in Calls : served[call] = << >>
      /\ \A c \in Clients : ~Succeeded(c)
  BY <1>1 DEF SetupInv
<1>3. ASSUME NEW b \in Clients PROVE CallOf(b)'
  <2>1. PICK call, q : call = Here(b) /\ q = Request(b)
    OBVIOUS
  <2>2. Here(b)' = call /\ Request(b)' = q /\ ~Succeeded(b)'
    BY <1>1, <1>2, <2>1 DEF Here, Request, Succeeded
  <2>3. CarriedOut(call, q)
    BY <2>1 DEF CallInv, CallOf
  <2>4. \A d \in net' : d.call = call => DatagramSays(d, call, q)'
    BY <1>1, <1>2, <2>3 DEF CarriedOut, DatagramSays
  <2>5. ServedWell(call, q)'
    BY <1>1, <1>2 DEF ServedWell
  <2>6. CarriedOut(call, q)'
    BY <1>1, <1>2, <2>4, <2>5 DEF CarriedOut
  <2>. QED
    BY <2>2, <2>6 DEF CallOf
<1>. QED
  BY <1>3 DEF CallInv

LEMMA InvokeCalls ==
  ASSUME CallsFine, FutureInv, CallInv, NEW c \in Clients, soap_client_invoke(c)
  PROVE  CallInv'
<1>1. PICK x, r : /\ clients' = [clients EXCEPT ![c] = x] /\ x.n = clients[c].n + 1
                  /\ x.pc # "idle" \/ x.status = "error"
                  /\ \A call : call # <<c, x.n>> => \A q : CarriedOut(call, q) =>
                     CarriedOut(call, q)' /\ Done(call) \subseteq Done(call)'
                  /\ r = Request(c)' /\ CarriedOut(<<c, x.n>>, r)'
                  /\ UNCHANGED <<cfg, registry, routers>>
  BY InvokeCarries
<1>2. clients'[c] = x /\ \A b \in Clients \ {c} : clients'[b] = clients[b]
  BY <1>1 DEF CallsFine, ClientsFine
<1>3. CallOf(c)'
  <2>1. Here(c)' = <<c, x.n>> /\ ~Succeeded(c)'
    BY <1>1, <1>2 DEF Here, Succeeded
  <2>. QED
    BY <1>1, <2>1 DEF CallOf
<1>4. ASSUME NEW b \in Clients \ {c} PROVE CallOf(b)'
  <2>1. PICK call, q : call = Here(b) /\ q = Request(b)
    OBVIOUS
  <2>2. CallOf(b) /\ CarriedOut(call, q) /\ call # <<c, x.n>>
    BY <2>1 DEF CallInv, CallOf, Here
  <2>3. CarriedOut(call, q)' /\ Done(call) \subseteq Done(call)'
    BY <1>1, <2>2
  <2>4. SameCall(clients'[b], clients[b]) /\ clients'[b] = clients[b]
    BY <1>2 DEF SameCall
  <2>. QED
    BY <1>1, <2>1, <2>2, <2>3, <2>4, CallStays
<1>. QED
  BY <1>3, <1>4 DEF CallInv

(* An answer that comes, over HTTP or from a socket, says what was done.   *)
LEMMA AnsweredCalls ==
  ASSUME CallsFine, CallInv, UNCHANGED <<cfg, registry, routers>>,
         NEW c \in Clients, NEW y, clients' = [clients EXCEPT ![c] = y], SameCall(y, clients[c]),
         \A call \in CallNames : \A q : CarriedOut(call, q) =>
           /\ CarriedOut(call, q)' /\ Done(call) \subseteq Done(call)'
           /\ y.pc # "idle" \/ y.status = "error" \/ (call = <<c, y.n>> => Says(y.answer, call, q))
  PROVE  CallInv'
<1>1. clients'[c] = y /\ \A b \in Clients \ {c} : clients'[b] = clients[b]
  BY DEF CallsFine, ClientsFine
<1>2. ASSUME NEW b \in Clients PROVE CallOf(b)'
  <2>1. PICK call, q : call = Here(b) /\ q = Request(b)
    OBVIOUS
  <2>2. CallOf(b) /\ CarriedOut(call, q) /\ call \in CallNames
    BY <2>1 DEF CallInv, CallOf, Here, CallNames, CallsFine, ClientsFine, IsClient
  <2>3. /\ CarriedOut(call, q)' /\ Done(call) \subseteq Done(call)'
        /\ y.pc # "idle" \/ y.status = "error" \/ (call = <<c, y.n>> => Says(y.answer, call, q))
    BY <2>2
  <2>4. CASE b = c
    <3>1. call = <<c, y.n>>
      BY <2>1, <2>4 DEF Here, SameCall
    <3>2. SameCall(clients'[b], clients[b])
      BY <1>1, <2>4
    <3>3. \/ clients'[b].pc # "idle" \/ clients'[b].status = "error"
          \/ Says(clients'[b].answer, call, q)
      BY <1>1, <2>3, <2>4, <3>1
    <3>. QED
      BY <2>1, <2>2, <2>3, <3>2, <3>3, CallStays
  <2>5. CASE b # c
    <3>1. SameCall(clients'[b], clients[b]) /\ clients'[b] = clients[b]
      BY <1>1, <2>5 DEF SameCall
    <3>. QED
      BY <2>1, <2>2, <2>3, <3>1, CallStays
  <2>. QED
    BY <2>4, <2>5
<1>. QED
  BY <1>2 DEF CallInv

LEMMA NextKeepsCallInv ==
  ASSUME CallsFine, MessagesFine, UdpInv, OnceInv, ContextInv, FutureInv, SetupInv, CallInv, [Next]_vars
  PROVE  CallInv'
<1>1. CASE Setup
  BY <1>1, SetupCalls
<1>2. CASE soap_server_run \/ Shutdown \/ Crash \/ UNCHANGED vars
  <2>1. UNCHANGED <<cfg, registry, routers, clients, net, served>> /\ jobs' \subseteq jobs
    BY <1>2 DEF Shutdown, Crash, MainStep, soap_server_run, Stop, FreeRouters, soap_server_destroy, Exit, vars
  <2>2. ASSUME NEW call \in CallNames, NEW q, CarriedOut(call, q)
        PROVE  CarriedOut(call, q)' /\ Done(call) \subseteq Done(call)'
    BY <2>1, <2>2, CarriedAlong
  <2>. QED
    BY <2>1, <2>2, QuietCalls
<1>3. ASSUME NEW j \in jobs, Route(j) PROVE CallInv'
  <2>1. UNCHANGED <<cfg, registry, routers, clients>>
    BY <1>3, Routed
  <2>2. \A call \in CallNames : \A q : CarriedOut(call, q) =>
          CarriedOut(call, q)' /\ Done(call) \subseteq Done(call)'
    BY <1>3, RouteCarries
  <2>. QED
    BY <2>1, <2>2, QuietCalls
<1>4. ASSUME NEW j \in jobs, CallService(j) PROVE CallInv'
  <2>1. UNCHANGED <<cfg, registry, routers, clients>>
    BY <1>4 DEF CallService, Reply, JobStep
  <2>2. ASSUME NEW b \in Clients PROVE CallOf(b)'
    <3>1. PICK call, q : call = Here(b) /\ q = Request(b)
      OBVIOUS
    <3>2. CallOf(b) /\ CarriedOut(call, q)
      BY <3>1 DEF CallInv, CallOf
    <3>3. ~Refused(q) => Response(soap_env_find_methodname(Plain(q))) # Fault
      BY <3>1, NotRefused
    <3>4. CarriedOut(call, q)' /\ Done(call) \subseteq Done(call)'
      BY <1>4, <3>2, <3>3, ServiceCarries
    <3>5. SameCall(clients'[b], clients[b]) /\ clients'[b] = clients[b]
      BY <2>1 DEF SameCall
    <3>. QED
      BY <2>1, <3>1, <3>2, <3>4, <3>5, CallStays
  <2>. QED
    BY <2>2 DEF CallInv
<1>5. ASSUME NEW j \in jobs, UdpSend(j) \/ HttpSend(j) PROVE CallInv'
  <2>1. UNCHANGED <<cfg, registry, routers>>
    BY <1>5, SendCarries
  <2>2. CASE /\ UNCHANGED clients
             /\ \A call \in CallNames : \A q : CarriedOut(call, q) =>
                    CarriedOut(call, q)' /\ Done(call) \subseteq Done(call)'
    BY <2>1, <2>2, QuietCalls
  <2>3. ASSUME NEW c \in Clients, NEW y,
               clients' = [clients EXCEPT ![c] = y], SameCall(y, clients[c]),
               \A call \in CallNames : \A q : CarriedOut(call, q) =>
                      /\ CarriedOut(call, q)' /\ Done(call) \subseteq Done(call)'
                      /\ y.status = "error" \/ (call = <<c, y.n>> => Says(y.answer, call, q))
        PROVE  CallInv'
    BY <2>1, <2>3, AnsweredCalls
  <2>. QED
    BY <1>5, <2>2, <2>3, SendCarries
<1>6. CASE Receive
  <2>1. UNCHANGED <<cfg, registry, routers, clients>>
    BY <1>6 DEF Receive, TestRunning, Released, _soap_nudp_receive_document, UdpStep
  <2>2. \A call \in CallNames : \A q : CarriedOut(call, q) =>
          CarriedOut(call, q)' /\ Done(call) \subseteq Done(call)'
    BY <1>6, ReceiveCarries
  <2>. QED
    BY <2>1, <2>2, QuietCalls
<1>7. CASE Lose \/ Oversize \/ Double
  <2>1. UNCHANGED <<cfg, registry, routers, clients>>
    BY <1>7, Disturbed
  <2>2. \A call \in CallNames : \A q : CarriedOut(call, q) =>
          CarriedOut(call, q)' /\ Done(call) \subseteq Done(call)'
    BY <1>7, NetworkCarries
  <2>. QED
    BY <2>1, <2>2, QuietCalls
<1>8. ASSUME NEW c \in Clients, soap_client_invoke(c) PROVE CallInv'
  BY <1>8, InvokeCalls
<1>9. ASSUME NEW c \in Clients, Await(c) PROVE CallInv'
  <2>1. PICK y :
          /\ clients' = [clients EXCEPT ![c] = y] /\ SameCall(y, clients[c])
          /\ \A call \in CallNames : \A q : CarriedOut(call, q) =>
               /\ CarriedOut(call, q)' /\ Done(call) \subseteq Done(call)'
               /\ y.pc = "spin" \/ y.status = "error" \/ (call = <<c, y.n>> => Says(y.answer, call, q))
    BY <1>9, AwaitCarries
  <2>2. UNCHANGED <<cfg, registry, routers>>
    BY <1>9, AwaitCarries
  <2>3. \A call \in CallNames : \A q : CarriedOut(call, q) =>
           /\ CarriedOut(call, q)' /\ Done(call) \subseteq Done(call)'
           /\ y.pc # "idle" \/ y.status = "error" \/ (call = <<c, y.n>> => Says(y.answer, call, q))
    BY <2>1
  <2>. QED
    BY <2>1, <2>2, <2>3, AnsweredCalls
<1>. QED
  BY <1>1, <1>2, <1>3, <1>4, <1>5, <1>6, <1>7, <1>8, <1>9 DEF Next, Work

LEMMA InitCalls == ASSUME Init PROVE CallInv
<1>1. jobs = {} /\ net = {} /\ served = [call \in Calls |-> << >>]
  BY DEF Init
<1>2. \A c \in Clients : ~Succeeded(c)
  <2>1. server.pc = "setup"
    <3>1. PICK todo : server = [pc |-> "setup", todo |-> todo]
      BY DEF Init
    <3>. QED
      BY <3>1
  <2>. QED
    BY <2>1, InitFuture DEF SetupInv
<1>3. \A call, q : CarriedOut(call, q)
  BY <1>1 DEF CarriedOut, ServedWell
<1>. QED
  BY <1>2, <1>3 DEF CallInv, CallOf

-----------------------------------------------------------------------------
(* The invariants of the calls together.                                   *)
AllInv ==
  /\ CallsFine /\ MessagesFine /\ UdpInv /\ OnceInv /\ RegisterInv /\ TypeInv
  /\ ContextInv /\ FutureInv /\ SetupInv /\ CallInv

LEMMA InitAll == ASSUME Init PROVE AllInv
BY InitFine, InitMessages, InitOnce, InitTypes, InitContexts, InitFuture, InitCalls DEF AllInv

LEMMA NextKeepsAll == ASSUME AllInv, [Next]_vars PROVE AllInv'
<1> USE DEF AllInv
<1>1. CallsFine' /\ MessagesFine' /\ UdpInv' /\ OnceInv'
  BY NextKeepsCalls, NextKeepsMessages, NextKeepsUdp, NextOnce
<1>2. RegisterInv' /\ TypeInv'
  BY NextKeepsRegister, NextKeepsTypes
<1>3. ContextInv' /\ FutureInv' /\ SetupInv'
  BY NextKeepsContexts, NextKeepsFuture, NextKeepsSetup
<1>4. CallInv'
  BY NextKeepsCallInv
<1>. QED
  BY <1>1, <1>2, <1>3, <1>4

LEMMA MatchingResult == ASSUME AllInv PROVE ResultMatchesCall
<1>1. ASSUME NEW c \in Clients, Succeeded(c)
      PROVE  IF FaultBelowBody(clients[c].answer)
               THEN DoneFor(c) = {} \/ DoneFor(c) \cap {"fault", "nothing", "error"} # {}
               ELSE "response" \in DoneFor(c)
  <2>1. PICK call, q : call = Here(c) /\ q = Request(c)
    OBVIOUS
  <2>2. Says(clients[c].answer, call, q) /\ ServedWell(call, q)
    BY <1>1, <2>1 DEF AllInv, CallInv, CallOf, CarriedOut
  <2>3. call \in Calls /\ Done(call) = DoneFor(c)
    BY <2>1, <2>2 DEF Says, Done, DoneFor, Here
  <2>4. Refused(q) => DoneFor(c) = {}
    <3>1. Refused(q) => \A i \in DOMAIN served[call] : FALSE
      BY <2>2, <2>3 DEF ServedWell
    <3>. QED
      BY <2>3, <3>1 DEF Done
  <2>. QED
    BY <2>2, <2>3, <2>4 DEF Says, Bad
<1>. QED
  BY <1>1 DEF ResultMatchesCall

(* What a call that succeeds returns agrees with what was done for it: a   *)
(* response was given by a service that ran for this very call, and with a *)
(* fault either no service ran or one that ran failed. An earlier call of  *)
(* the same context, a doubled datagram or a late answer cannot mix up.    *)
THEOREM ResultsMatch == Spec => []ResultMatchesCall
<1>1. Init => AllInv
  BY InitAll
<1>2. AllInv /\ [Next]_vars => AllInv'
  BY NextKeepsAll
<1>3. AllInv => ResultMatchesCall
  BY MatchingResult
<1>4. QED
  BY <1>1, <1>2, <1>3, PTL DEF Spec

LEMMA RouterFound ==
  ASSUME IsSequence(registry), NEW path, NEW r, r = soap_server_find_router(path), r # 0
  PROVE  \E i \in DOMAIN registry :
           /\ registry[i].context = path /\ r = registry[i].router
           /\ \A k \in 1 .. i - 1 : registry[k].context # path
<1>1. PICK S : registry \in Seq(S)
  BY DEF IsSequence
<1>2. PICK T : T = {k \in 1 .. Len(registry) : registry[k].context = path}
  OBVIOUS
<1>3. PICK i : i = IF T # {} THEN Min(T) ELSE 0
  OBVIOUS
<1>4. r = IF i = 0 THEN 0 ELSE registry[i].router
  BY <1>2, <1>3 DEF soap_server_find_router, SelectInSeq
<1>5. T # {} /\ i = Min(T) /\ r = registry[i].router
  BY <1>3, <1>4
<1>6. T \subseteq 1 .. Len(registry)
  BY <1>2
<1>7. i \in T /\ i \in DOMAIN registry /\ \A k \in 1 .. i - 1 : k \notin T
  BY <1>1, <1>5, <1>6, FirstPlace
<1>8. ASSUME NEW k \in 1 .. i - 1 PROVE registry[k].context # path
  <2>1. Len(registry) \in Nat /\ i \in 1 .. Len(registry)
    BY <1>1, <1>6, <1>7, LenProperties
  <2>2. k \in 1 .. Len(registry)
    BY <2>1
  <2>. QED
    BY <1>2, <1>7, <2>2
<1>. QED
  BY <1>2, <1>5, <1>7, <1>8

LEMMA RightService ==
  ASSUME AllInv, NEW c \in Clients, NEW q, q = Request(c), ~Refused(q),
         clients[c].asked.fresh \/ ~cfg.enabled,
         NEW d, d.service = Meets(q), d.method = soap_env_find_methodname(Plain(q))
  PROVE  Meant(d, clients[c].asked)
<1>1. PICK p : p = Plain(q)
  OBVIOUS
<1>2. PICK asked : asked = clients[c].asked
  OBVIOUS
<1>3. PICK r : r = Router(p)
  OBVIOUS
<1>4. /\ soap_env_find_methodname(p) = asked.method /\ soap_env_find_urn(p) = asked.urn
      /\ r # 0 /\ Destination(p).path = asked.path
  BY <1>1, <1>2, <1>3, NotRefused DEF AllInv
<1>5. r = soap_server_find_router(Destination(p).path)
  BY <1>3, <1>4 DEF Router
<1>6. IsSequence(registry) /\ \A i \in DOMAIN registry : registry[i].router \in DOMAIN routers
  BY DEF AllInv, RegisterInv
<1>7. PICK i \in DOMAIN registry :
         /\ registry[i].context = Destination(p).path /\ r = registry[i].router
         /\ \A k \in 1 .. i - 1 : registry[k].context # Destination(p).path
  BY <1>4, <1>5, <1>6, RouterFound
<1>8. PICK list : list = routers[r].services
  OBVIOUS
<1>9. PICK S : list \in Seq(S)
  BY <1>6, <1>7, <1>8 DEF AllInv, RegisterInv, IsSequence
<1>10. PICK T, n : /\ T = {k \in 1 .. Len(list) : list[k].urn = asked.urn /\ list[k].method = asked.method}
                   /\ n = IF T # {} THEN Min(T) ELSE 0
  OBVIOUS
<1>11. d.service = IF n = 0 THEN routers[r].default ELSE list[n]
  <2>1. PICK u, m : u = asked.urn /\ m = asked.method
    OBVIOUS
  <2>2. d.service = soap_router_find_service(r, u, m)
    BY <1>1, <1>3, <1>4, <2>1 DEF Meets, Service
  <2>3. T = {k \in 1 .. Len(routers[r].services) :
               routers[r].services[k].urn = u /\ routers[r].services[k].method = m}
    BY <1>8, <1>10, <2>1
  <2>4. soap_router_find_service(r, u, m) = IF n = 0 THEN routers[r].default ELSE routers[r].services[n]
    BY <1>10, <2>3 DEF soap_router_find_service, SelectInSeq
  <2>. QED
    BY <1>8, <2>2, <2>4
<1>12. \/ n = 0 /\ \A k \in DOMAIN list : ~ (list[k].urn = asked.urn /\ list[k].method = asked.method)
       \/ /\ n \in DOMAIN list /\ n # 0 /\ list[n].urn = asked.urn /\ list[n].method = asked.method
          /\ \A l \in 1 .. n - 1 : ~ (list[l].urn = asked.urn /\ list[l].method = asked.method)
  <2>1. Len(list) \in Nat /\ DOMAIN list = 1 .. Len(list) /\ T \subseteq 1 .. Len(list)
    BY <1>9, <1>10, LenProperties
  <2>2. CASE T = {}
    BY <1>10, <2>1, <2>2
  <2>3. CASE T # {}
    <3>1. n = Min(T)
      BY <1>10, <2>3
    <3>2. n \in T /\ \A l \in 1 .. n - 1 : l \notin T
      BY <1>9, <2>1, <2>3, <3>1, FirstPlace
    <3>3. n \in 1 .. Len(list) /\ \A l \in 1 .. n - 1 : l \in 1 .. Len(list)
      BY <2>1, <3>2
    <3>. QED
      BY <1>10, <2>1, <3>2, <3>3
  <2>. QED
    BY <2>2, <2>3
<1>13. PICK router : router = routers[registry[i].router]
  OBVIOUS
<1>14. router.services = list /\ router.default = routers[r].default
  BY <1>7, <1>8, <1>13
<1>15. \/ FirstFitting(d.service, router, asked)
       \/ /\ d.service = router.default
          /\ \A k \in DOMAIN router.services : ~Fits(router.services[k], asked)
  <2>1. CASE n = 0 /\ \A k \in DOMAIN list : ~ (list[k].urn = asked.urn /\ list[k].method = asked.method)
    BY <1>11, <1>14, <2>1 DEF Fits
  <2>2. CASE /\ n \in DOMAIN list /\ n # 0 /\ list[n].urn = asked.urn /\ list[n].method = asked.method
             /\ \A l \in 1 .. n - 1 : ~ (list[l].urn = asked.urn /\ list[l].method = asked.method)
    <3>1. d.service = list[n]
      BY <1>11, <2>2
    <3>2. Fits(list[n], asked) /\ \A l \in 1 .. n - 1 : ~Fits(list[l], asked)
      BY <2>2 DEF Fits
    <3>. QED
      BY <1>14, <2>2, <3>1, <3>2, Zenon DEF FirstFitting
  <2>. QED
    BY <1>12, <2>1, <2>2
<1>16. RegisteredFor(d.service, asked)
  BY <1>4, <1>7, <1>13, <1>15, Zenon DEF RegisteredFor
<1>17. d.method = asked.method
  BY <1>1, <1>4
<1>. QED
  BY <1>2, <1>16, <1>17 DEF Meant

LEMMA RightServices == ASSUME AllInv PROVE ServedAsAsked
<1>1. ASSUME NEW c \in Clients, clients[c].n > 0, clients[c].asked.fresh \/ ~cfg.enabled,
             NEW i \in DOMAIN served[<<c, clients[c].n>>]
      PROVE  Meant(served[<<c, clients[c].n>>][i], clients[c].asked)
  <2>1. PICK call, q : call = Here(c) /\ q = Request(c)
    OBVIOUS
  <2>2. call \in Calls
    <3>1. clients[c].n \in Nat /\ IsSequence(clients[c].todo) /\ clients[c].n + Len(clients[c].todo) <= MaxCalls
      BY DEF AllInv, CallsFine, ClientsFine, IsClient, TypeInv, ClientTyped
    <3>2. Len(clients[c].todo) \in Nat
      BY <3>1, LenType
    <3>3. clients[c].n \in 1 .. MaxCalls
      BY <1>1, <3>1, <3>2, CallAssumption
    <3>. QED
      BY <2>1, <3>3 DEF Here, Calls
  <2>3. PICK s : s = served[call][i]
    OBVIOUS
  <2>4. ~Refused(q) /\ s.service = Meets(q) /\ s.method = soap_env_find_methodname(Plain(q))
    BY <1>1, <2>1, <2>2, <2>3 DEF AllInv, CallInv, CallOf, CarriedOut, ServedWell, Here
  <2>5. Meant(s, clients[c].asked)
    BY <1>1, <2>1, <2>4, RightService
  <2>. QED
    BY <2>1, <2>3, <2>5 DEF Here
<1>. QED
  BY <1>1 DEF ServedAsAsked

(* A service runs only for the method its client asked for, and is the one *)
(* that was registered for it: by the router soap_server_find_router finds *)
(* first under the path of the client's url, first for that urn and        *)
(* method, or as the default if there is none. The way a message is to go  *)
(* is an invariant of its context: the other headers, encryption, the      *)
(* signature and the server's cut to the local part leave it.              *)
THEOREM AskedIsServed == Spec => []ServedAsAsked
<1>1. Init => AllInv
  BY InitAll
<1>2. AllInv /\ [Next]_vars => AllInv'
  BY NextKeepsAll
<1>3. AllInv => ServedAsAsked
  BY RightServices
<1>4. QED
  BY <1>1, <1>2, <1>3, PTL DEF Spec

=============================================================================
