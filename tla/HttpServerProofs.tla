-------------------------- MODULE HttpServerProofs --------------------------
(***************************************************************************)
(* Proofs about HttpServer for any number of clients, slots and requests:  *)
(* type correctness, slot exclusivity, the bound on open descriptors, the  *)
(* order of closing and releasing, and the refinement of ConnectionPool.   *)
(***************************************************************************)
EXTENDS HttpServer, TLAPS, FiniteSetTheorems

-----------------------------------------------------------------------------
(*                          The inductive invariant                        *)

HoldsSlot == {"got", "select", "ready", "accept", "start"}

(* The main thread's reservation is marked and no session works in it; the *)
(* slot holds an open connection exactly while its thread is to be started.*)
MainInv ==
  /\ mpc \in HoldsSlot =>
       /\ flag[conn] = "IN_USE"
       /\ \A c \in Clients : Live(c) => slot[c] # conn
       /\ mpc # "start" => \A c \in Clients : net[c] = "open" => sock[conn] # c
  /\ mpc = "start" => sock[conn] \in Clients /\ net[sock[conn]] = "open"
  /\ mpc \in {"returned", "destroyed"} => ~run

\* A live session's slot is in use and holds its own connection.
SessionInv ==
  \A c \in Clients : Live(c) =>
    /\ sock[slot[c]] = c
    /\ flag[slot[c]] = "IN_USE"
    /\ net[c] = IF spc[c] = "release" THEN "closed" ELSE "open"

(* A slot refers to a connection that was accepted; an open connection is  *)
(* in one slot, which is in use.                                           *)
SocketInv ==
  /\ \A s \in Slots : sock[s] \in Clients => net[sock[s]] \in {"open", "closed"}
  /\ \A c \in Clients : net[c] = "open" =>
       /\ \E s \in Slots : sock[s] = c /\ flag[s] = "IN_USE"
       /\ \A s, t \in Slots : sock[s] = c /\ sock[t] = c => s = t

IInv == TypeOK /\ MainInv /\ SessionInv /\ SocketInv

-----------------------------------------------------------------------------
(*                                Lemmas                                   *)

LEMMA SlotsFacts ==
  /\ 0 \in Slots
  /\ IsFiniteSet(Slots)
  /\ Cardinality(Slots) = MaxConnections
<1>1. MaxConnections \in Nat /\ MaxConnections > 0
  BY ServerAssumption
<1>2. IsFiniteSet(0 .. MaxConnections - 1)
  BY <1>1, FS_Interval
<1>3. Cardinality(0 .. MaxConnections - 1) = MaxConnections
  BY <1>1, FS_Interval
<1>. QED
  BY <1>1, <1>2, <1>3 DEF Slots

\* The initial states satisfy the invariant.
LEMMA InitIInv == Init => IInv
<1>. SUFFICES ASSUME Init PROVE IInv
  OBVIOUS
<1>1. TypeOK
  BY SlotsFacts, ServerAssumption DEF Init, TypeOK, MainPC, SessionPC
<1>2. MainInv
  BY DEF Init, MainInv, HoldsSlot
<1>3. SessionInv
  BY DEF Init, SessionInv, Live
<1>4. SocketInv
  BY ServerAssumption DEF Init, SocketInv
<1>. QED
  BY <1>1, <1>2, <1>3, <1>4 DEF IInv

(* The steps of httpd_run preserve it: its tests and its scan, which touch *)
(* neither a descriptor nor a session.                                     *)
LEMMA WalkStep ==
  ASSUME IInv,
         \/ LoopTest \/ ScanStopped \/ ScanWrap \/ ScanPass
         \/ GotSlot \/ SelectReady \/ SelectStopped \/ BeforeAccept
  PROVE  IInv'
<1>. USE DEF IInv, globals, mainVars, sessionVars, netVars
<1>0. /\ UNCHANGED <<run, ssl, flag, sock, conn, spc, slot, net, peer, todo, failures>>
      /\ mpc' \in MainPC /\ scan' \in 0 .. MaxConnections
      /\ mpc' \in HoldsSlot => mpc \in HoldsSlot \ {"start", "accept"}
      /\ mpc' # "start"
      /\ mpc' \in {"returned", "destroyed"} => ~run
  BY ServerAssumption DEF LoopTest, ScanStopped, ScanWrap, ScanPass, GotSlot,
     TestRun, SelectReady, SelectStopped, BeforeAccept, TypeOK, MainPC,
     HoldsSlot, Slots
<1>1. TypeOK'
  BY <1>0 DEF TypeOK
<1>2. MainInv'
  BY <1>0 DEF MainInv, HoldsSlot, Live
<1>3. SessionInv'
  BY <1>0 DEF SessionInv, Live
<1>4. SocketInv'
  BY <1>0 DEF SocketInv
<1>. QED
  BY <1>1, <1>2, <1>3, <1>4

\* Taking a slot: a free one has no session and no open connection in it.
LEMMA TakeStep ==
  ASSUME IInv, ScanTake
  PROVE  IInv'
<1>. USE DEF IInv, sessionVars, netVars
<1>0. /\ scan \in Slots /\ flag[scan] = "FREE"
      /\ flag' = [flag EXCEPT ![scan] = "IN_USE"]
      /\ conn' = scan /\ mpc' = "got"
      /\ UNCHANGED <<run, ssl, sock, scan, spc, slot, net, peer, todo, failures>>
  BY ServerAssumption DEF ScanTake, TypeOK, Slots
<1>1. TypeOK'
  BY <1>0 DEF TypeOK, MainPC
<1>2. \A c \in Clients : Live(c) => slot[c] # scan
  BY <1>0 DEF SessionInv
<1>3. \A c \in Clients : net[c] = "open" => sock[scan] # c
  BY <1>0 DEF SocketInv
<1>4. MainInv'
  BY <1>0, <1>2, <1>3 DEF MainInv, HoldsSlot, Live, TypeOK
<1>5. SessionInv'
  BY <1>0, <1>2 DEF SessionInv, Live, TypeOK
<1>6. SocketInv'
  BY <1>0 DEF SocketInv, TypeOK
<1>. QED
  BY <1>1, <1>4, <1>5, <1>6

(* A successful accept: the descriptor it overwrites was not open, and the *)
(* connection was in no slot before.                                       *)
LEMMA AcceptStep ==
  ASSUME IInv, NEW c \in Clients, AcceptOk(c)
  PROVE  IInv'
<1>. USE DEF IInv, sessionVars
<1>0. /\ mpc = "accept" /\ net[c] = "pending" /\ conn \in Slots
      /\ sock' = [sock EXCEPT ![conn] = c]
      /\ net' = [net EXCEPT ![c] = "open"]
      /\ mpc' = "start"
      /\ UNCHANGED <<run, ssl, flag, scan, conn, spc, slot, peer, todo, failures>>
  BY DEF AcceptOk, TypeOK
<1>1. /\ flag[conn] = "IN_USE"
      /\ \A d \in Clients : Live(d) => slot[d] # conn
      /\ \A d \in Clients : net[d] = "open" => sock[conn] # d
      /\ \A s \in Slots : sock[s] # c
  BY <1>0 DEF MainInv, HoldsSlot, SocketInv
<1>2. TypeOK'
  BY <1>0 DEF TypeOK, MainPC
<1>3. MainInv'
  BY <1>0, <1>1 DEF MainInv, HoldsSlot, Live, TypeOK
<1>4. SessionInv'
  BY <1>0, <1>1 DEF SessionInv, Live, TypeOK
<1>5. SocketInv'
  <2>1. ASSUME NEW s \in Slots, sock'[s] \in Clients
        PROVE  net'[sock'[s]] \in {"open", "closed"}
    BY <1>0, <1>1, <2>1 DEF SocketInv, TypeOK
  <2>2. ASSUME NEW d \in Clients, net'[d] = "open"
        PROVE  \E s \in Slots : sock'[s] = d /\ flag'[s] = "IN_USE"
    <3>1. CASE d = c
      BY <1>0, <1>1, <3>1 DEF TypeOK
    <3>2. CASE d # c
      <4>1. PICK s \in Slots : sock[s] = d /\ flag[s] = "IN_USE"
        BY <1>0, <2>2, <3>2 DEF SocketInv, TypeOK
      <4>2. s # conn
        BY <1>0, <1>1, <2>2, <3>2, <4>1 DEF TypeOK
      <4>. QED
        BY <1>0, <4>1, <4>2 DEF TypeOK
    <3>. QED
      BY <3>1, <3>2
  <2>3. ASSUME NEW d \in Clients, net'[d] = "open",
               NEW s \in Slots, NEW t \in Slots, sock'[s] = d, sock'[t] = d
        PROVE  s = t
    <3>1. CASE d = c
      BY <1>0, <1>1, <2>3, <3>1 DEF TypeOK
    <3>2. CASE d # c
      BY <1>0, <1>1, <2>3, <3>2 DEF SocketInv, TypeOK
    <3>. QED
      BY <3>1, <3>2
  <2>. QED
    BY <2>1, <2>2, <2>3 DEF SocketInv
<1>. QED
  BY <1>2, <1>3, <1>4, <1>5

\* A failed accept keeps the slot marked; nothing is open in it.
LEMMA AcceptFailStep ==
  ASSUME IInv, AcceptFail
  PROVE  IInv'
<1>. USE DEF IInv, sessionVars, netVars
<1>0. /\ mpc = "accept" /\ conn \in Slots /\ mpc' = "loop"
      /\ failures' = failures + 1
      /\ UNCHANGED <<run, ssl, flag, scan, conn, spc, slot>>
  BY DEF AcceptFail, TypeOK
<1>1. /\ \A d \in Clients : Live(d) => slot[d] # conn
      /\ \A d \in Clients : net[d] = "open" => sock[conn] # d
  BY <1>0 DEF MainInv, HoldsSlot
<1>2. CASE /\ sock' = [sock EXCEPT ![conn] = NoConn]
           /\ UNCHANGED <<net, peer, todo>>
  <2>1. TypeOK'
    BY <1>0, <1>2 DEF TypeOK, MainPC
  <2>2. MainInv'
    BY <1>0, <1>2 DEF MainInv, HoldsSlot
  <2>3. SessionInv'
    BY <1>0, <1>1, <1>2 DEF SessionInv, Live, TypeOK
  <2>4. SocketInv'
    BY <1>0, <1>1, <1>2, ServerAssumption DEF SocketInv, TypeOK
  <2>. QED
    BY <2>1, <2>2, <2>3, <2>4
<1>3. ASSUME NEW c \in Clients, net[c] = "pending",
             sock' = [sock EXCEPT ![conn] = c],
             net' = [net EXCEPT ![c] = "closed"],
             peer' = [peer EXCEPT ![c] = "reset"],
             todo' = [todo EXCEPT ![c] = 0]
      PROVE  IInv'
  <2>0. \A s \in Slots : sock[s] # c
    BY <1>3 DEF SocketInv
  <2>1. TypeOK'
    BY <1>0, <1>3, ServerAssumption DEF TypeOK, MainPC
  <2>2. MainInv'
    BY <1>0, <1>3 DEF MainInv, HoldsSlot
  <2>3. SessionInv'
    BY <1>0, <1>1, <1>3 DEF SessionInv, Live, TypeOK
  <2>4. SocketInv'
    BY <1>0, <1>1, <1>3, <2>0 DEF SocketInv, TypeOK
  <2>. QED
    BY <2>1, <2>2, <2>3, <2>4
<1>. QED
  BY <1>2, <1>3 DEF AcceptFail

\* Handing the slot to a new thread, or failing to start one.
LEMMA StartStep ==
  ASSUME IInv, StartThread \/ StartThreadFails
  PROVE  IInv'
<1>. USE DEF IInv, globals, netVars, sessionVars
<1>0. /\ mpc = "start" /\ conn \in Slots /\ mpc' = "loop"
      /\ failures' \in Nat
      /\ UNCHANGED <<run, ssl, flag, sock, scan, conn, net, peer, todo>>
  BY DEF StartThread, StartThreadFails, TypeOK
<1>1. /\ flag[conn] = "IN_USE"
      /\ \A d \in Clients : Live(d) => slot[d] # conn
      /\ sock[conn] \in Clients /\ net[sock[conn]] = "open"
  BY <1>0 DEF MainInv, HoldsSlot
<1>2. /\ \/ UNCHANGED <<spc, slot>>
         \/ /\ spc' = [spc EXCEPT ![sock[conn]] = "read"]
            /\ slot' = [slot EXCEPT ![sock[conn]] = conn]
  BY DEF StartThread, StartThreadFails
<1>3. TypeOK'
  BY <1>0, <1>1, <1>2 DEF TypeOK, MainPC, SessionPC
<1>4. MainInv'
  BY <1>0 DEF MainInv, HoldsSlot
<1>5. SessionInv'
  BY <1>0, <1>1, <1>2 DEF SessionInv, Live, TypeOK
<1>6. SocketInv'
  BY <1>0 DEF SocketInv
<1>. QED
  BY <1>3, <1>4, <1>5, <1>6

\* Destroying the slots, and leaving the process one way or the other.
LEMMA EndStep ==
  ASSUME IInv, httpd_destroy \/ Exit \/ BrokenPipe
  PROVE  IInv'
<1>. USE DEF IInv, globals, netVars, sessionVars
<1>1. CASE httpd_destroy
  <2>0. /\ mpc' = "destroyed" /\ ~run
        /\ UNCHANGED <<run, ssl, flag, sock, scan, conn, spc, slot, net, peer, todo, failures>>
    BY <1>1 DEF httpd_destroy, MainInv
  <2>. QED
    BY <2>0 DEF TypeOK, MainPC, MainInv, HoldsSlot, SessionInv, SocketInv, Live
<1>2. CASE Die
  <2>0. /\ mpc' = "exited"
        /\ spc' = [c \in Clients |-> IF Live(c) THEN "killed" ELSE spc[c]]
        /\ net' = [c \in Clients |-> IF net[c] = "idle" THEN "idle" ELSE "closed"]
        /\ UNCHANGED <<run, ssl, flag, sock, scan, conn, slot, peer, todo, failures>>
    BY <1>2 DEF Die
  <2>1. \A c \in Clients : ~Live(c)' /\ net'[c] # "open"
    BY <2>0 DEF Live
  <2>2. TypeOK'
    BY <2>0 DEF TypeOK, MainPC, SessionPC
  <2>3. MainInv' /\ SessionInv'
    BY <2>0, <2>1 DEF MainInv, HoldsSlot, SessionInv
  <2>4. SocketInv'
    BY <2>0, <2>1 DEF SocketInv, TypeOK
  <2>. QED
    BY <2>2, <2>3, <2>4
<1>. QED
  BY <1>1, <1>2 DEF Exit, BrokenPipe

(* The steps of a session that move its program counter and nothing else   *)
(* the invariant speaks of.                                                *)
LEMMA ServeStep ==
  ASSUME IInv, NEW c \in Clients,
         \/ ReadRequest(c) \/ ReadFails(c) \/ ReadBody(c)
         \/ SendBlocks(c) \/ Serve(c) \/ UseAfterFree(c)
  PROVE  IInv'
<1>. USE DEF IInv, globals, mainVars, netVars
<1>0. /\ spc[c] # "release" \/ mpc = "destroyed"
      /\ Live(c)
      /\ todo' \in [Clients -> 0 .. MaxRequests]
      /\ UNCHANGED <<run, ssl, flag, sock, mpc, scan, conn, slot, net, peer, failures>>
  <2>1. Live(c)
    BY DEF ReadRequest, ReadFails, ReadBody, SendBlocks, Serve, UseAfterFree, At, Live
  <2>2. Own(c) = c
    BY <2>1 DEF SessionInv, Own
  <2>3. CASE ReadRequest(c)
    <3>1. todo[c] \in 0 .. MaxRequests /\ todo[c] > 0
      BY <2>2, <2>3 DEF ReadRequest, TypeOK
    <3>2. todo' = [todo EXCEPT ![c] = todo[c] - 1]
      BY <2>2, <2>3 DEF ReadRequest
    <3>3. todo[c] - 1 \in 0 .. MaxRequests
      BY <3>1, ServerAssumption
    <3>. QED
      BY <2>1, <2>3, <3>2, <3>3 DEF ReadRequest, At, TypeOK
  <2>4. CASE \/ ReadFails(c) \/ ReadBody(c) \/ SendBlocks(c) \/ Serve(c)
             \/ UseAfterFree(c)
    BY <2>1, <2>4 DEF ReadFails, ReadBody, SendBlocks, Serve, UseAfterFree, At, TypeOK
  <2>. QED
    BY <2>3, <2>4
<1>1. PICK next \in {"read", "body", "serve", "sending", "close", "wild"} :
        spc' = [spc EXCEPT ![c] = next] /\ (next = "wild" \/ spc[c] # "release")
  BY DEF ReadRequest, ReadFails, ReadBody, SendBlocks, Serve, UseAfterFree, At, Go
<1>2. TypeOK'
  BY <1>0, <1>1 DEF TypeOK, SessionPC
<1>3. \A d \in Clients : Live(d)' => Live(d)
  BY <1>0, <1>1 DEF Live, TypeOK
<1>4. MainInv'
  BY <1>0, <1>3 DEF MainInv, HoldsSlot
<1>5. SessionInv'
  BY <1>0, <1>1, <1>3 DEF SessionInv, Live, TypeOK
<1>6. SocketInv'
  BY <1>0 DEF SocketInv
<1>. QED
  BY <1>2, <1>4, <1>5, <1>6

\* Closing: the descriptor closed is the session's own connection.
LEMMA CloseStep ==
  ASSUME IInv, NEW c \in Clients, CloseConn(c)
  PROVE  IInv'
<1>. USE DEF IInv, globals, mainVars
<1>1. spc[c] = "close" /\ Live(c) /\ Own(c) = c /\ net[c] = "open"
  BY DEF CloseConn, At, Live, SessionInv, Own
<1>2. /\ spc' = [spc EXCEPT ![c] = "release"]
      /\ net' = [net EXCEPT ![c] = "closed"]
      /\ peer' = [peer EXCEPT ![c] = "reset"]
      /\ todo' = [todo EXCEPT ![c] = 0]
      /\ UNCHANGED <<run, ssl, flag, sock, mpc, scan, conn, slot, failures>>
  BY <1>1 DEF CloseConn, Go
<1>3. TypeOK'
  BY <1>2, ServerAssumption DEF TypeOK, SessionPC
<1>4. mpc = "start" => sock[conn] # c
  BY <1>1 DEF MainInv, HoldsSlot, SocketInv, Own, TypeOK
<1>5. MainInv'
  BY <1>1, <1>2, <1>4 DEF MainInv, HoldsSlot, Live, TypeOK
<1>6. SessionInv'
  BY <1>1, <1>2 DEF SessionInv, Live, TypeOK
<1>7. SocketInv'
  BY <1>2 DEF SocketInv, TypeOK
<1>. QED
  BY <1>3, <1>5, <1>6, <1>7

\* Releasing: no other session, and not the main thread, is in the slot.
LEMMA ReleaseStep ==
  ASSUME IInv, NEW c \in Clients, Release(c)
  PROVE  IInv'
<1>. USE DEF IInv, mainVars, netVars
<1>1. /\ spc[c] = "release" /\ Live(c) /\ slot[c] \in Slots
      /\ sock[slot[c]] = c /\ net[c] = "closed"
  BY DEF Release, At, Live, SessionInv, TypeOK
<1>2. /\ spc' = [spc EXCEPT ![c] = "ended"]
      /\ slot' = [slot EXCEPT ![c] = 0]
      /\ flag' = [flag EXCEPT ![slot[c]] = "FREE"]
      /\ UNCHANGED <<run, ssl, sock, mpc, scan, conn, net, peer, todo, failures>>
  BY DEF Release, Go
<1>3. TypeOK'
  BY <1>1, <1>2, SlotsFacts DEF TypeOK, SessionPC
<1>4. MainInv'
  BY <1>1, <1>2 DEF MainInv, HoldsSlot, Live, TypeOK
<1>5. SessionInv'
  BY <1>1, <1>2 DEF SessionInv, Live, TypeOK
<1>6. SocketInv'
  BY <1>1, <1>2 DEF SocketInv, TypeOK
<1>. QED
  BY <1>3, <1>4, <1>5, <1>6

\* The signal, an arriving connection and a client that hangs up.
LEMMA EnvironmentStep ==
  ASSUME IInv, Environment
  PROVE  IInv'
<1>. USE DEF IInv, globals, mainVars, sessionVars, netVars
<1>1. CASE httpd_term
  <2>0. /\ run' = FALSE
        /\ UNCHANGED <<ssl, flag, sock, mpc, scan, conn, spc, slot, net, peer, todo, failures>>
    BY <1>1 DEF httpd_term
  <2>1. TypeOK'
    BY <2>0 DEF TypeOK
  <2>2. MainInv'
    <3>1. ~run'
      BY <2>0
    <3>. QED
      BY <2>0, <3>1 DEF MainInv, HoldsSlot, Live
  <2>3. SessionInv' /\ SocketInv'
    BY <2>0 DEF SessionInv, SocketInv, Live
  <2>. QED
    BY <2>1, <2>2, <2>3
<1>2. ASSUME NEW c \in Clients, Connect(c)
      PROVE  IInv'
  <2>0. /\ net[c] = "idle" /\ net' = [net EXCEPT ![c] = "pending"]
        /\ UNCHANGED <<run, ssl, flag, sock, mpc, scan, conn, spc, slot, peer, todo, failures>>
    BY <1>2 DEF Connect
  <2>1. ~Live(c) /\ \A s \in Slots : sock[s] # c
    BY <2>0 DEF SessionInv, SocketInv
  <2>2. TypeOK'
    BY <2>0 DEF TypeOK
  <2>3. MainInv'
    BY <2>0, <2>1 DEF MainInv, HoldsSlot, Live, TypeOK
  <2>4. SessionInv'
    BY <2>0, <2>1 DEF SessionInv, Live, TypeOK
  <2>5. SocketInv'
    BY <2>0, <2>1 DEF SocketInv, TypeOK
  <2>. QED
    BY <2>2, <2>3, <2>4, <2>5
<1>3. ASSUME NEW c \in Clients, Hangup(c) \/ Stall(c)
      PROVE  IInv'
  <2>0. /\ peer' \in [Clients -> {"up", "stalled", "eof", "reset"}]
        /\ UNCHANGED <<run, ssl, flag, sock, mpc, scan, conn, spc, slot, net, todo, failures>>
    BY <1>3 DEF Hangup, Stall, TypeOK
  <2>. QED
    BY <2>0 DEF TypeOK, MainInv, HoldsSlot, SessionInv, SocketInv, Live
<1>. QED
  BY <1>1, <1>2, <1>3 DEF Environment

\* Every step of the server preserves the invariant.
LEMMA NextIInv == IInv /\ [Next]_vars => IInv'
<1>. SUFFICES ASSUME IInv, [Next]_vars PROVE IInv'
  OBVIOUS
<1>1. CASE httpd_run
  BY <1>1, WalkStep, TakeStep, AcceptStep, AcceptFailStep, StartStep DEF httpd_run
<1>2. CASE httpd_destroy \/ Exit \/ BrokenPipe
  BY <1>2, EndStep
<1>3. ASSUME NEW c \in Clients, httpd_session_main(c)
      PROVE  IInv'
  BY <1>3, ServeStep, CloseStep, ReleaseStep DEF httpd_session_main
<1>4. CASE Environment
  BY <1>4, EnvironmentStep
<1>5. CASE UNCHANGED vars
  BY <1>5 DEF vars, globals, mainVars, sessionVars, netVars, IInv, TypeOK,
     MainInv, HoldsSlot, SessionInv, SocketInv, Live
<1>. QED
  BY <1>1, <1>2, <1>3, <1>4, <1>5 DEF Next, Exited

\* The inductive invariant holds in every reachable state.
THEOREM Invariance == Spec => []IInv
<1>. QED
  BY InitIInv, NextIInv, PTL DEF Spec

-----------------------------------------------------------------------------
(*                           The safety properties                         *)

\* Every variable keeps its type, whatever the constants.
THEOREM TypeCorrect == Spec => []TypeOK
<1>1. IInv => TypeOK
  BY DEF IInv
<1>. QED
  BY <1>1, Invariance, PTL

(* No two threads ever share a conndata_t, and a session never works on a  *)
(* descriptor that is not its own.                                         *)
THEOREM SlotExclusivity == Spec => []SlotExclusive
<1>1. IInv => SlotExclusive
  BY DEF IInv, SlotExclusive, SessionInv, MainInv, HoldsSlot, Reserved, Own
<1>. QED
  BY <1>1, Invariance, PTL

(* The open connections inject into the slots: each is in a slot, and a    *)
(* slot refers to one connection.                                          *)
LEMMA OpenBound == IInv => WithinCapacity
<1>. SUFFICES ASSUME IInv PROVE WithinCapacity
  OBVIOUS
<1>. DEFINE Open == {c \in Clients : net[c] = "open"}
            f == [c \in Open |-> CHOOSE s \in Slots : sock[s] = c]
<1>1. \A c \in Open : f[c] \in Slots /\ sock[f[c]] = c
  BY DEF IInv, SocketInv
<1>2. f \in Injection(Open, Slots)
  <2>1. f \in [Open -> Slots]
    BY <1>1
  <2>2. \A a, b \in DOMAIN f : f[a] = f[b] => a = b
    BY <1>1
  <2>. HIDE DEF f
  <2>. QED
    BY <2>1, <2>2 DEF Injection, IsInjective
<1>3. Cardinality(Open) <= Cardinality(Slots)
  <2>. HIDE DEF Open, f
  <2>. QED
    BY <1>2, SlotsFacts, FS_Injection
<1>. QED
  BY <1>3, SlotsFacts DEF WithinCapacity

\* -NHTTPmaxconn bounds the open descriptors in every reachable state.
THEOREM Capacity == Spec => []WithinCapacity
<1>. QED
  BY OpenBound, Invariance, PTL

(* Only Release frees a slot, and the connection in the slot is the        *)
(* releasing session's own, which it has closed.                           *)
LEMMA ReleaseOrderStep ==
  ASSUME IInv, [Next]_vars, NEW s \in Slots,
         flag[s] = "IN_USE", flag'[s] = "FREE"
  PROVE  net[sock[s]] = "closed"
<1>1. PICK c \in Clients : Release(c)
  <2>1. flag' # flag
    OBVIOUS
  <2>2. ASSUME UNCHANGED flag PROVE FALSE
    BY <2>1, <2>2
  <2>3. CASE httpd_run
    <3>1. CASE ScanTake
      BY <3>1 DEF ScanTake, IInv, TypeOK
    <3>2. CASE httpd_run /\ ~ScanTake
      BY <3>2, <2>2 DEF httpd_run, LoopTest, ScanStopped, ScanWrap, ScanPass,
         GotSlot, SelectReady, SelectStopped, BeforeAccept, TestRun, AcceptOk,
         AcceptFail, StartThread, StartThreadFails, globals
    <3>. QED
      BY <2>3, <3>1, <3>2
  <2>4. CASE httpd_destroy \/ Exit \/ BrokenPipe \/ Environment \/ Exited \/ UNCHANGED vars
    BY <2>4, <2>2 DEF httpd_destroy, Exit, BrokenPipe, Die, Environment, httpd_term,
       Connect, Hangup, Stall, Exited, vars, globals
  <2>5. ASSUME NEW c \in Clients, httpd_session_main(c)
        PROVE  Release(c)
    BY <2>5, <2>2 DEF httpd_session_main, ReadRequest, ReadFails, ReadBody,
       SendBlocks, Serve, CloseConn, UseAfterFree, globals
  <2>. QED
    BY <2>3, <2>4, <2>5 DEF Next
<1>2. s = slot[c] /\ spc[c] = "release"
  BY <1>1 DEF Release, At, IInv, TypeOK
<1>. QED
  BY <1>2 DEF IInv, SessionInv, Live

\* A slot is given back only after its descriptor has been closed.
THEOREM ReleaseOrder == Spec => ReleasedAfterClose
<1>1. IInv /\ [Next]_vars =>
        [\A s \in Slots :
           flag[s] = "IN_USE" /\ flag'[s] = "FREE" => net[sock[s]] = "closed"]_vars
  BY ReleaseOrderStep
<1>. QED
  BY <1>1, Invariance, PTL DEF Spec, ReleasedAfterClose

-----------------------------------------------------------------------------
(*                     The server implements the pool                      *)

LEMMA PoolInitial == Init => Pool!PoolInit
<1>. SUFFICES ASSUME Init PROVE Pool!PoolInit
  OBVIOUS
<1>1. PoolState = [c \in Clients |-> "idle"]
  BY DEF Init, PoolState
<1>2. PoolGate = "open"
  BY DEF Init, PoolGate
<1>. QED
  BY <1>1, <1>2 DEF Pool!PoolInit

(* The abstract state of a connection depends on net only, and the gate on *)
(* run and on whether the main thread is about to accept or is gone.       *)
LEMMA PoolStutter ==
  ASSUME UNCHANGED <<net, run>>,
         mpc' = "exited" <=> mpc = "exited",
         UNCHANGED mpc \/ run \/ (mpc # "accept" /\ mpc' # "accept")
  PROVE  UNCHANGED <<PoolState, PoolGate>>
<1>1. PoolState' = PoolState
  BY DEF PoolState
<1>2. PoolGate' = PoolGate
  BY DEF PoolGate
<1>. QED
  BY <1>1, <1>2

\* A step that changes net at one connection changes PoolState there.
LEMMA PoolUpdate ==
  ASSUME TypeOK, NEW c \in Clients, NEW to \in {"idle", "pending", "open", "closed"},
         net' = [net EXCEPT ![c] = to]
  PROVE  PoolState' = [PoolState EXCEPT ![c] =
                         CASE to = "idle"    -> "idle"
                           [] to = "pending" -> "waiting"
                           [] to = "open"    -> "served"
                           [] OTHER          -> "closed"]
BY DEF PoolState, TypeOK

\* An accept admits the connection, and the bound holds because it holds after.
LEMMA PoolAccept ==
  ASSUME IInv, IInv', NEW c \in Clients, AcceptOk(c)
  PROVE  Pool!PoolNext
<1>1. /\ mpc = "accept" /\ net[c] = "pending" /\ mpc' = "start"
      /\ net' = [net EXCEPT ![c] = "open"] /\ run' = run
  BY DEF AcceptOk
<1>2. PoolState[c] = "waiting" /\ PoolState' = [PoolState EXCEPT ![c] = "served"]
  BY <1>1, PoolUpdate DEF PoolState, IInv
<1>3. PoolGate # "shut" /\ PoolGate' = IF PoolGate = "last" THEN "shut" ELSE PoolGate
  BY <1>1 DEF PoolGate
<1>4. Cardinality(Pool!Served) < MaxConnections
  <2>. DEFINE Open == {d \in Clients : net[d] = "open"}
  <2>1. Pool!Served = Open
    BY DEF Pool!Served, PoolState, IInv, TypeOK
  <2>2. {d \in Clients : net'[d] = "open"} = Open \cup {c}
    BY <1>1 DEF IInv, TypeOK
  <2>3. c \notin Open
    BY <1>1
  <2>4. WithinCapacity'
    BY OpenBound, PTL
  <2>5. IsFiniteSet(Open)
    BY ServerAssumption, FS_Subset
  <2>6. Cardinality(Open) \in Nat
    <3>. HIDE DEF Open
    <3>. QED
      BY <2>5, FS_CardinalityType
  <2>7. Cardinality(Open \cup {c}) = Cardinality(Open) + 1
    <3>. HIDE DEF Open
    <3>. QED
      BY <2>3, <2>5, FS_AddElement
  <2>. QED
    BY <2>1, <2>2, <2>4, <2>6, <2>7, ServerAssumption DEF WithinCapacity
<1>5. Pool!Cardinality(Pool!Served) < MaxConnections
  BY <1>4 DEF Cardinality, Pool!Cardinality, IsFiniteSet, Pool!IsFiniteSet
<1>6. Pool!Admit(c)
  BY <1>2, <1>3, <1>5 DEF Pool!Admit, Pool!Move
<1>. QED
  BY <1>6 DEF Pool!PoolNext

\* Every step of the server is a step of the pool or leaves it unchanged.
LEMMA PoolStep == IInv /\ IInv' /\ [Next]_vars => [Pool!PoolNext]_(Pool!poolVars)
<1>. SUFFICES ASSUME IInv, IInv', [Next]_vars
              PROVE  Pool!PoolNext \/ UNCHANGED <<PoolState, PoolGate>>
  BY DEF Pool!poolVars
<1>. USE DEF globals, mainVars, sessionVars, netVars
<1>1. CASE \/ LoopTest \/ ScanStopped \/ ScanWrap \/ ScanPass \/ ScanTake
           \/ GotSlot \/ SelectReady \/ SelectStopped
           \/ StartThread \/ StartThreadFails \/ httpd_destroy
  BY <1>1, PoolStutter DEF LoopTest, ScanStopped, ScanWrap, ScanPass, ScanTake,
     GotSlot, TestRun, SelectReady, SelectStopped, StartThread,
     StartThreadFails, httpd_destroy
<1>2. CASE BeforeAccept
  BY <1>2, PoolStutter DEF BeforeAccept, TestRun
<1>3. ASSUME NEW c \in Clients, AcceptOk(c)
      PROVE  Pool!PoolNext
  BY <1>3, PoolAccept
<1>4. CASE AcceptFail
  <2>1. mpc = "accept" /\ mpc' = "loop" /\ run' = run
    BY <1>4 DEF AcceptFail
  <2>2. CASE UNCHANGED net
    <3>1. PoolState' = PoolState
      BY <2>2 DEF PoolState
    <3>2. PoolGate' = PoolGate \/ (PoolGate = "last" /\ PoolGate' = "shut")
      BY <2>1 DEF PoolGate
    <3>. QED
      BY <3>1, <3>2 DEF Pool!PoolNext, Pool!Shut
  <2>3. ASSUME NEW c \in Clients, net[c] = "pending",
               net' = [net EXCEPT ![c] = "closed"]
        PROVE  Pool!PoolNext
    <3>1. PoolState[c] = "waiting" /\ PoolState' = [PoolState EXCEPT ![c] = "closed"]
      BY <2>3, PoolUpdate DEF PoolState, IInv
    <3>2. PoolGate # "shut" /\ PoolGate' = IF PoolGate = "last" THEN "shut" ELSE PoolGate
      BY <2>1 DEF PoolGate
    <3>. QED
      BY <3>1, <3>2 DEF Pool!PoolNext, Pool!Refuse, Pool!Move
  <2>. QED
    BY <1>4, <2>2, <2>3 DEF AcceptFail
<1>5. CASE Exit \/ BrokenPipe
  <2>1. mpc' = "exited" /\ run' = run
    BY <1>5 DEF Exit, BrokenPipe, Die
  <2>2. net' = [c \in Clients |-> IF net[c] = "idle" THEN "idle" ELSE "closed"]
    BY <1>5 DEF Exit, BrokenPipe, Die
  <2>3. PoolState' = [c \in Clients |-> IF PoolState[c] = "idle" THEN "idle" ELSE "closed"]
    BY <2>2 DEF PoolState, IInv, TypeOK
  <2>4. PoolGate' = "shut"
    BY <2>1 DEF PoolGate
  <2>. QED
    BY <2>3, <2>4 DEF Pool!PoolNext, Pool!Vanish
<1>6. ASSUME NEW c \in Clients, httpd_session_main(c)
      PROVE  Pool!PoolNext \/ UNCHANGED <<PoolState, PoolGate>>
  <2>1. CASE CloseConn(c)
    <3>1. Own(c) = c /\ net[c] = "open"
      BY <2>1 DEF CloseConn, At, IInv, SessionInv, Live, Own
    <3>2. net' = [net EXCEPT ![c] = "closed"] /\ UNCHANGED <<run, mpc>>
      BY <2>1, <3>1 DEF CloseConn
    <3>3. PoolState[c] = "served" /\ PoolState' = [PoolState EXCEPT ![c] = "closed"]
      BY <3>1, <3>2, PoolUpdate DEF PoolState, IInv
    <3>4. PoolGate' = PoolGate
      BY <3>2 DEF PoolGate
    <3>. QED
      BY <3>3, <3>4 DEF Pool!PoolNext, Pool!Finish, Pool!Move
  <2>2. CASE \/ ReadRequest(c) \/ ReadFails(c) \/ ReadBody(c)
             \/ SendBlocks(c) \/ Serve(c) \/ Release(c) \/ UseAfterFree(c)
    BY <2>2, PoolStutter DEF ReadRequest, ReadFails, ReadBody, SendBlocks, Serve,
       Release, UseAfterFree
  <2>. QED
    BY <1>6, <2>1, <2>2 DEF httpd_session_main
<1>7. CASE Environment
  <2>1. CASE httpd_term
    <3>1. run /\ mpc # "exited" /\ run' = FALSE /\ UNCHANGED <<net, mpc>>
      BY <2>1 DEF httpd_term
    <3>2. PoolState' = PoolState
      BY <3>1 DEF PoolState
    <3>3. PoolGate = "open" /\ PoolGate' \in {"last", "shut"}
      BY <3>1 DEF PoolGate
    <3>. QED
      BY <3>2, <3>3 DEF Pool!PoolNext, Pool!Shut
  <2>2. ASSUME NEW c \in Clients, Connect(c)
        PROVE  Pool!PoolNext
    <3>1. /\ net[c] = "idle" /\ net' = [net EXCEPT ![c] = "pending"]
          /\ UNCHANGED <<run, mpc>>
      BY <2>2 DEF Connect
    <3>2. PoolState[c] = "idle" /\ PoolState' = [PoolState EXCEPT ![c] = "waiting"]
      BY <3>1, PoolUpdate DEF PoolState, IInv
    <3>3. PoolGate' = PoolGate
      BY <3>1 DEF PoolGate
    <3>. QED
      BY <3>2, <3>3 DEF Pool!PoolNext, Pool!Arrive, Pool!Move
  <2>3. ASSUME NEW c \in Clients, Hangup(c) \/ Stall(c)
        PROVE  UNCHANGED <<PoolState, PoolGate>>
    BY <2>3, PoolStutter DEF Hangup, Stall
  <2>. QED
    BY <1>7, <2>1, <2>2, <2>3 DEF Environment
<1>8. CASE Exited \/ UNCHANGED vars
  BY <1>8, PoolStutter DEF Exited, vars
<1>. QED
  BY <1>1, <1>2, <1>3, <1>4, <1>5, <1>6, <1>7, <1>8 DEF Next, httpd_run

(* Every behaviour of the server is one of the connection pool: it never   *)
(* serves more than MaxConnections, closes a connection once, and accepts  *)
(* at most one connection after the signal.                                *)
THEOREM Refinement == Spec => ImplementsPool
<1>. QED
  BY PoolInitial, PoolStep, Invariance, PTL
     DEF Spec, ImplementsPool, Pool!PoolSpec

-----------------------------------------------------------------------------
(* The books of the slots, for any number of clients, slots and requests:  *)
(* a slot in use is a session's, the main thread's or lost to one of the   *)
(* failures counted.                                                       *)
Serving == mpc \notin {"returned", "destroyed", "exited"}
StrandedSlots == {s \in Slots : Stranded(s)}

StrandInv == Serving => IsFiniteSet(StrandedSlots) /\ Cardinality(StrandedSlots) = failures

-----------------------------------------------------------------------------
(* A step that makes no slot stranded and none less.                       *)
LEMMA SameStranded ==
  ASSUME StrandInv, Serving' => Serving, UNCHANGED failures,
         Serving' => \A s \in Slots : Stranded(s)' <=> Stranded(s)
  PROVE  StrandInv'
<1>. SUFFICES ASSUME Serving'
             PROVE  IsFiniteSet(StrandedSlots') /\ Cardinality(StrandedSlots') = failures'
  BY DEF StrandInv
<1>1. StrandedSlots' = StrandedSlots
  BY DEF StrandedSlots
<1>. QED
  BY <1>1 DEF StrandInv

\* The slot of a failed accept or thread start is stranded.
LEMMA OneMoreStranded ==
  ASSUME IInv, StrandInv, Serving, mpc \in {"accept", "start"}, mpc' = "loop",
         UNCHANGED <<flag, conn, spc, slot>>, failures' = failures + 1
  PROVE  StrandInv'
<1>1. conn \in Slots /\ flag[conn] = "IN_USE" /\ ~Occupied(conn) /\ Reserved(conn)
  BY DEF IInv, TypeOK, MainInv, HoldsSlot, Occupied, Reserved
<1>2. \A s \in Slots : Stranded(s)' <=> Stranded(s) \/ s = conn
  BY <1>1 DEF Stranded, Reserved, Occupied, Live
<1>3. StrandedSlots' = StrandedSlots \cup {conn} /\ conn \notin StrandedSlots
  BY <1>1, <1>2 DEF StrandedSlots, Stranded
<1>4. IsFiniteSet(StrandedSlots \cup {conn})
      /\ Cardinality(StrandedSlots \cup {conn}) =
           IF conn \in StrandedSlots THEN Cardinality(StrandedSlots) ELSE Cardinality(StrandedSlots) + 1
  BY FS_AddElement, Zenon DEF StrandInv
<1>. QED
  BY <1>3, <1>4 DEF StrandInv

LEMMA MainStrand ==
  ASSUME IInv, StrandInv, httpd_run
  PROVE  StrandInv'
<1>1. CASE \/ LoopTest \/ ScanStopped \/ ScanWrap \/ ScanPass
           \/ GotSlot \/ SelectReady \/ SelectStopped \/ BeforeAccept
  <2>1. /\ UNCHANGED <<flag, conn, spc, slot, failures>> /\ Serving
        /\ Serving' => (mpc' \in HoldsSlot <=> mpc \in HoldsSlot)
    BY <1>1 DEF LoopTest, ScanStopped, ScanWrap, ScanPass, GotSlot, TestRun, SelectReady,
                SelectStopped, BeforeAccept, Serving, HoldsSlot, globals, sessionVars
  <2>2. Serving' => \A s \in Slots : Stranded(s)' <=> Stranded(s)
    BY <2>1 DEF Stranded, Reserved, Occupied, Live, HoldsSlot
  <2>. QED
    BY <2>1, <2>2, SameStranded
<1>2. CASE ScanTake
  <2>1. /\ scan \in Slots /\ flag[scan] = "FREE" /\ flag' = [flag EXCEPT ![scan] = "IN_USE"]
        /\ mpc = "scan" /\ mpc' = "got" /\ conn' = scan
        /\ UNCHANGED <<spc, slot, failures>> /\ flag \in [Slots -> {"FREE", "IN_USE"}]
    BY <1>2, ServerAssumption DEF ScanTake, IInv, TypeOK, Slots, sessionVars
  <2>2. \A s \in Slots : Stranded(s)' <=> Stranded(s)
    BY <2>1 DEF Stranded, Reserved, Occupied, Live
  <2>. QED
    BY <2>1, <2>2, SameStranded DEF Serving
<1>3. ASSUME NEW c \in Clients, AcceptOk(c) PROVE StrandInv'
  <2>1. /\ UNCHANGED <<flag, conn, spc, slot, failures>>
        /\ mpc = "accept" /\ mpc' = "start"
    BY <1>3 DEF AcceptOk, sessionVars
  <2>2. \A s \in Slots : Stranded(s)' <=> Stranded(s)
    BY <2>1 DEF Stranded, Reserved, Occupied, Live
  <2>. QED
    BY <2>1, <2>2, SameStranded DEF Serving
<1>4. CASE AcceptFail \/ StartThreadFails
  <2>1. /\ mpc \in {"accept", "start"} /\ mpc' = "loop" /\ failures' = failures + 1
        /\ UNCHANGED <<flag, conn, spc, slot>>
    BY <1>4 DEF AcceptFail, StartThreadFails, globals, sessionVars
  <2>. QED
    BY <2>1, OneMoreStranded DEF Serving
<1>5. CASE StartThread
  <2>1. /\ mpc = "start" /\ mpc' = "loop" /\ UNCHANGED <<flag, conn, failures>>
        /\ spc' = [spc EXCEPT ![sock[conn]] = "read"]
        /\ slot' = [slot EXCEPT ![sock[conn]] = conn]
    BY <1>5 DEF StartThread, globals
  <2>2. /\ conn \in Slots /\ sock[conn] \in Clients
        /\ spc \in [Clients -> SessionPC] /\ slot \in [Clients -> Slots]
        /\ \A c \in Clients : Live(c) => slot[c] # conn /\ c # sock[conn]
    BY <2>1 DEF IInv, TypeOK, MainInv, SessionInv, SocketInv, HoldsSlot, Live
  <2>3. \A s \in Slots : Occupied(s)' <=> Occupied(s) \/ s = conn
    BY <2>1, <2>2 DEF Occupied, Live
  <2>4. \A s \in Slots : Stranded(s)' <=> Stranded(s)
    BY <2>1, <2>3 DEF Stranded, Reserved
  <2>. QED
    BY <2>1, <2>4, SameStranded DEF Serving
<1>. QED
  BY <1>1, <1>2, <1>3, <1>4, <1>5 DEF httpd_run

(* A session gives back the slot that was its own.                         *)
LEMMA SessionStrand ==
  ASSUME IInv, StrandInv, NEW c \in Clients, httpd_session_main(c)
  PROVE  StrandInv'
<1>0. /\ spc \in [Clients -> SessionPC] /\ slot \in [Clients -> Slots]
      /\ flag \in [Slots -> {"FREE", "IN_USE"}]
  BY DEF IInv, TypeOK
<1>1. CASE ReadRequest(c) \/ ReadFails(c) \/ ReadBody(c) \/ SendBlocks(c) \/ Serve(c) \/ CloseConn(c)
  <2>1. /\ UNCHANGED <<flag, conn, mpc, slot, failures>>
        /\ Live(c) /\ \E next \in {"read", "body", "serve", "sending", "close", "release"} :
                        spc' = [spc EXCEPT ![c] = next]
    BY <1>1 DEF ReadRequest, ReadFails, ReadBody, SendBlocks, Serve, CloseConn, At, Go, Live,
                globals, mainVars
  <2>2. \A d \in Clients : Live(d)' <=> Live(d)
    BY <1>0, <2>1 DEF Live
  <2>3. \A s \in Slots : Stranded(s)' <=> Stranded(s)
    BY <2>1, <2>2 DEF Stranded, Reserved, Occupied
  <2>. QED
    BY <2>1, <2>3, SameStranded DEF Serving
<1>2. CASE Release(c)
  <2>1. /\ flag' = [flag EXCEPT ![slot[c]] = "FREE"] /\ spc[c] = "release"
        /\ spc' = [spc EXCEPT ![c] = "ended"] /\ slot' = [slot EXCEPT ![c] = 0]
        /\ UNCHANGED <<mpc, conn, failures>>
    BY <1>2 DEF Release, At, Go, mainVars
  <2>2. Live(c) /\ Occupied(slot[c])
    BY <2>1 DEF Live, Occupied
  <2>3. \A d \in Clients : d # c => (Live(d)' <=> Live(d)) /\ slot'[d] = slot[d]
    BY <1>0, <2>1 DEF Live
  <2>4. ~Live(c)'
    BY <1>0, <2>1 DEF Live
  <2>5. \A s \in Slots : s # slot[c] => (Occupied(s)' <=> Occupied(s))
    BY <2>3, <2>4 DEF Occupied
  <2>6. \A s \in Slots : Stranded(s)' <=> Stranded(s)
    BY <1>0, <2>1, <2>2, <2>5 DEF Stranded, Reserved
  <2>. QED
    BY <2>1, <2>6, SameStranded DEF Serving
<1>3. CASE UseAfterFree(c)
  BY <1>3 DEF UseAfterFree, StrandInv, Serving, mainVars
<1>. QED
  BY <1>1, <1>2, <1>3 DEF httpd_session_main

LEMMA NextStrand == IInv /\ StrandInv /\ [Next]_vars => StrandInv'
<1>. SUFFICES ASSUME IInv, StrandInv, [Next]_vars PROVE StrandInv'
  OBVIOUS
<1>1. CASE httpd_run
  BY <1>1, MainStrand
<1>2. CASE httpd_destroy \/ Exit \/ BrokenPipe
  BY <1>2 DEF httpd_destroy, Exit, BrokenPipe, Die, StrandInv, Serving
<1>3. ASSUME NEW c \in Clients, httpd_session_main(c) PROVE StrandInv'
  BY <1>3, SessionStrand
<1>4. CASE Environment \/ Exited \/ UNCHANGED vars
  <2>1. UNCHANGED <<flag, mpc, conn, spc, slot, failures>>
    BY <1>4 DEF Environment, httpd_term, Connect, Hangup, Stall, Exited, vars, globals, mainVars,
                sessionVars, netVars
  <2>2. \A s \in Slots : Stranded(s)' <=> Stranded(s)
    BY <2>1 DEF Stranded, Reserved, Occupied, Live
  <2>. QED
    BY <2>1, <2>2, SameStranded DEF Serving
<1>. QED
  BY <1>1, <1>2, <1>3, <1>4 DEF Next

-----------------------------------------------------------------------------
(* Finite sets without a common element: the sizes add up.                 *)
LEMMA DisjointUnion ==
  ASSUME NEW A, NEW B, IsFiniteSet(A), IsFiniteSet(B), A \cap B = {}
  PROVE  /\ IsFiniteSet(A \cup B)
         /\ Cardinality(A \cup B) = Cardinality(A) + Cardinality(B)
<1>1. /\ IsFiniteSet(A \cup B)
      /\ Cardinality(A \cup B) = Cardinality(A) + Cardinality(B) - Cardinality(A \cap B)
  BY FS_Union
<1>2. Cardinality(A \cap B) = 0
  BY FS_EmptySet
<1>3. Cardinality(A) \in Nat /\ Cardinality(B) \in Nat
  BY FS_CardinalityType
<1>. QED
  BY <1>1, <1>2, <1>3

(* Three disjoint sets make up the slots in use; the sessions are as many  *)
(* as the slots they are in.                                               *)
LEMMA InUse ==
  ASSUME IInv, StrandInv, Serving
  PROVE  conncount = Cardinality({c \in Clients : Live(c)})
                     + Cardinality({s \in Slots : Reserved(s)}) + failures
<1> DEFINE L == {c \in Clients : Live(c)}
           R == {s \in Slots : Reserved(s)}
           O == {s \in Slots : Occupied(s)}
           f == [c \in L |-> slot[c]]
<1>1. /\ {s \in Slots : flag[s] = "IN_USE"} = (StrandedSlots \cup R) \cup O
      /\ StrandedSlots \cap R = {} /\ (StrandedSlots \cup R) \cap O = {}
  BY DEF IInv, TypeOK, MainInv, SessionInv, HoldsSlot, StrandedSlots, Stranded, Reserved, Occupied
<1>2. f \in Injection(L, O) /\ f \in Surjection(L, O)
  <2>1. f \in [L -> O]
    BY DEF IInv, TypeOK, Occupied
  <2>2. \A a, b \in L : f[a] = f[b] => a = b
    BY DEF IInv, SessionInv
  <2>3. \A s \in O : \E c \in L : f[c] = s
    BY DEF Occupied
  <2>. HIDE DEF f, L, O
  <2>. QED
    BY <2>1, <2>2, <2>3 DEF Injection, IsInjective, Surjection
<1>3. IsFiniteSet(R) /\ IsFiniteSet(O) /\ IsFiniteSet(StrandedSlots)
  BY SlotsFacts, FS_Subset DEF StrandedSlots
<1>. HIDE DEF L, R, O, f
<1>4. Cardinality(L) = Cardinality(O)
  BY <1>2, <1>3, FS_Injection
<1>5. /\ IsFiniteSet(StrandedSlots \cup R)
      /\ Cardinality(StrandedSlots \cup R) = Cardinality(StrandedSlots) + Cardinality(R)
  BY <1>1, <1>3, DisjointUnion
<1>6. Cardinality((StrandedSlots \cup R) \cup O) = Cardinality(StrandedSlots \cup R) + Cardinality(O)
  BY <1>1, <1>3, <1>5, DisjointUnion, Zenon
<1>7. Cardinality(StrandedSlots) = failures
  BY DEF StrandInv
<1>8. Cardinality(R) \in Nat /\ Cardinality(O) \in Nat /\ Cardinality(StrandedSlots) \in Nat
  BY <1>3, FS_CardinalityType
<1>9. conncount = Cardinality(StrandedSlots) + Cardinality(R) + Cardinality(O)
  BY <1>1, <1>5, <1>6 DEF conncount
<1>. QED
  BY <1>4, <1>7, <1>8, <1>9 DEF L, R

(* A slot is lost for ever exactly where an accept or a thread start has   *)
(* failed, and httpd_get_conncount() counts sessions, the reservation and  *)
(* those, whatever the order in which sessions, signal and failures come.  *)
THEOREM Accounting == Spec => []SlotAccounting
<1>1. Init => StrandInv
  <2>. SUFFICES ASSUME Init PROVE StrandInv
    OBVIOUS
  <2>1. StrandedSlots = {}
    BY DEF Init, StrandedSlots, Stranded
  <2>. QED
    BY <2>1, FS_EmptySet DEF Init, StrandInv
<1>2. IInv /\ StrandInv => SlotAccounting
  BY InUse DEF SlotAccounting, StrandInv, StrandedSlots, Serving
<1>. QED
  BY <1>1, <1>2, NextStrand, Invariance, PTL DEF Spec

=============================================================================
