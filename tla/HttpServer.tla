----------------------------- MODULE HttpServer -----------------------------
(***************************************************************************)
(* The nanoHTTP server's threads (nanohttp/nanohttp-server.c): the main    *)
(* thread in httpd_run, which reserves a connection slot, waits in         *)
(* select, accepts into the slot and starts a detached session thread on   *)
(* it; the session threads, which read and serve requests until the        *)
(* connection is done, close it and give the slot back; the termination    *)
(* signal; SIGPIPE, which nothing in the library ignores; and              *)
(* httpd_destroy followed by exit, as the manual page in nanohttp-server.h *)
(* shows them.                                                             *)
(*                                                                         *)
(* A session thread knows its slot only (`data`, a conndata_t pointer) and *)
(* works on whatever descriptor the slot holds: sock[slot[c]], never c.    *)
(* The mutex _httpd_connection_lock is left out because one thread only,   *)
(* the main thread, ever takes it: a session releases its slot without it. *)
(***************************************************************************)
EXTENDS Naturals, FiniteSets

CONSTANTS Clients,         \* TCP connections, each attempted at most once
          MaxConnections,  \* _httpd_max_connections (-NHTTPmaxconn)
          MaxRequests,     \* requests a client sends on its connection
          NoConn           \* HSOCKET_FREE, and "no connection"

ASSUME ServerAssumption ==
  /\ MaxConnections \in Nat \ {0}
  /\ MaxRequests \in Nat
  /\ IsFiniteSet(Clients)
  /\ NoConn \notin Clients

Slots == 0 .. MaxConnections - 1

VARIABLES
  \* ------------------------------------------------ the process's globals
  run,       \* _httpd_run
  ssl,       \* hssl_enabled(), fixed by the command line
  flag,      \* [Slots]: conndata_t.flag
  sock,      \* [Slots]: the connection conndata_t.sock refers to
  \* ------------------------------------------------ the main thread
  mpc,       \* where httpd_run, or main() after it, is
  scan,      \* i of _httpd_wait_for_empty_conn
  conn,      \* conn of httpd_run
  \* ------------------------------------------------ the session threads
  spc,       \* [Clients]: where the thread started for the connection is
  slot,      \* [Clients]: the thread's argument
  \* ------------------------------------------------ the kernel and peers
  net,       \* [Clients]: the server's end of the TCP connection
  peer,      \* [Clients]: the client's end
  todo,      \* [Clients]: requests the client has yet to send
  \* ------------------------------------------------ history
  failures   \* accepts and thread starts that failed so far

globals == <<run, ssl, flag, sock>>
mainVars == <<mpc, scan, conn>>
sessionVars == <<spc, slot>>
netVars == <<net, peer, todo>>
vars == <<globals, mainVars, sessionVars, netVars, failures>>

MainPC == {"loop", "scan", "got", "select", "ready", "accept", "start",
           "returned", "destroyed", "exited"}
SessionPC == {"none", "read", "body", "serve", "sending", "close", "release",
              "ended", "wild", "killed"}

\* A thread that has not yet given its slot back.
Live(c) == spc[c] \in {"read", "body", "serve", "sending", "close", "release"}

\* The slot the main thread holds between reserving it and handing it on.
Reserved(s) == mpc \in {"got", "select", "ready", "accept", "start"} /\ conn = s

Occupied(s) == \E c \in Clients : Live(c) /\ slot[c] = s

\* httpd_get_conncount(): the slots whose flag is CONNECTION_IN_USE.
conncount == Cardinality({s \in Slots : flag[s] = "IN_USE"})

\* In use, yet nobody will ever release it.
Stranded(s) == flag[s] = "IN_USE" /\ ~Reserved(s) /\ ~Occupied(s)

-----------------------------------------------------------------------------
(* httpd_init: every slot is free and no descriptor is open; httpd_run has *)
(* just put the listening socket into the listen state.                    *)
Init ==
  /\ run = TRUE
  /\ ssl \in BOOLEAN
  /\ flag = [s \in Slots |-> "FREE"]
  /\ sock = [s \in Slots |-> NoConn]
  /\ mpc = "loop" /\ scan = 0 /\ conn = 0
  /\ spc = [c \in Clients |-> "none"]
  /\ slot = [c \in Clients |-> 0]
  /\ net = [c \in Clients |-> "idle"]
  /\ peer = [c \in Clients |-> "up"]
  /\ todo = [c \in Clients |-> MaxRequests]
  /\ failures = 0

-----------------------------------------------------------------------------
(*                              The main thread                            *)

\* while (_httpd_run): into _httpd_wait_for_empty_conn, or out of httpd_run.
LoopTest ==
  /\ mpc = "loop"
  /\ IF run THEN mpc' = "scan" /\ scan' = 0
            ELSE mpc' = "returned" /\ UNCHANGED scan
  /\ UNCHANGED <<conn, globals, sessionVars, netVars, failures>>

(* One iteration of the scan: a cleared _httpd_run ends it, the end of the *)
(* array sleeps and starts over at slot 0 (i = -1, then i++), a slot in    *)
(* use is passed over and a free one is taken.                             *)
ScanStopped ==
  /\ mpc = "scan" /\ ~run
  /\ mpc' = "returned"
  /\ UNCHANGED <<scan, conn, globals, sessionVars, netVars, failures>>

\* Fault: i = 0 instead of i = -1, so slot 0 is looked at once only.
ScanWrapSkipsFirst ==
  /\ mpc = "scan" /\ run
  /\ scan >= MaxConnections
  /\ scan' = 1
  /\ UNCHANGED <<mpc, conn, globals, sessionVars, netVars, failures>>

ScanWrap ==
  /\ mpc = "scan" /\ run
  /\ scan >= MaxConnections
  /\ scan' = 0
  /\ UNCHANGED <<mpc, conn, globals, sessionVars, netVars, failures>>

ScanPass ==
  /\ mpc = "scan" /\ run
  /\ scan < MaxConnections /\ flag[scan] = "IN_USE"
  /\ scan' = scan + 1
  /\ UNCHANGED <<mpc, conn, globals, sessionVars, netVars, failures>>

\* Fault: the slot taken is not marked CONNECTION_IN_USE.
ScanTakeUnmarked ==
  /\ mpc = "scan" /\ run
  /\ scan < MaxConnections /\ flag[scan] = "FREE"
  /\ conn' = scan
  /\ mpc' = "got"
  /\ UNCHANGED <<globals, scan, sessionVars, netVars, failures>>

\* Fault: the address of the slot after the one marked is returned.
ScanTakeNext ==
  /\ mpc = "scan" /\ run
  /\ scan < MaxConnections /\ flag[scan] = "FREE"
  /\ flag' = [flag EXCEPT ![scan] = "IN_USE"]
  /\ conn' = scan + 1
  /\ mpc' = "got"
  /\ UNCHANGED <<run, ssl, sock, scan, sessionVars, netVars, failures>>

ScanTake ==
  /\ mpc = "scan" /\ run
  /\ scan < MaxConnections /\ flag[scan] = "FREE"
  /\ flag' = [flag EXCEPT ![scan] = "IN_USE"]
  /\ conn' = scan
  /\ mpc' = "got"
  /\ UNCHANGED <<run, ssl, sock, scan, sessionVars, netVars, failures>>

\* Each later test of _httpd_run: on to `next`, or out of httpd_run with the
\* slot still reserved.
TestRun(here, next) ==
  /\ mpc = here
  /\ mpc' = IF run THEN next ELSE "returned"
  /\ UNCHANGED <<scan, conn, globals, sessionVars, netVars, failures>>

GotSlot == TestRun("got", "select")

(* The select loop. A timeout or a signal goes round again, which changes  *)
(* nothing; the loop is left when a connection waits or _httpd_run is 0.   *)
SelectReady ==
  /\ mpc = "select" /\ run
  /\ \E c \in Clients : net[c] = "pending"
  /\ mpc' = "ready"
  /\ UNCHANGED <<scan, conn, globals, sessionVars, netVars, failures>>

\* Fault: the inner loop does not look at _httpd_run.
SelectIgnoresStop == FALSE

SelectStopped ==
  /\ mpc = "select" /\ ~run
  /\ mpc' = "returned"
  /\ UNCHANGED <<scan, conn, globals, sessionVars, netVars, failures>>

\* Fault: _httpd_run is not tested again before the accept.
AcceptUntested ==
  /\ mpc = "ready"
  /\ mpc' = "accept"
  /\ UNCHANGED <<scan, conn, globals, sessionVars, netVars, failures>>

BeforeAccept == TestRun("ready", "accept")

\* hsocket_accept succeeds: the slot's descriptor is the new connection.
AcceptOk(c) ==
  /\ mpc = "accept" /\ net[c] = "pending"
  /\ sock' = [sock EXCEPT ![conn] = c]
  /\ net' = [net EXCEPT ![c] = "open"]
  /\ mpc' = "start"
  /\ UNCHANGED <<run, ssl, flag, scan, conn, sessionVars, peer, todo, failures>>

(* hsocket_accept fails: accept() returned -1 and left the connection in   *)
(* the backlog, or hssl_server_ssl failed on an accepted descriptor, which *)
(* hsocket_close then closes. Either way the loop continues with a new     *)
(* slot and this one stays in use.                                         *)
AcceptFail ==
  /\ mpc = "accept"
  /\ \/ /\ sock' = [sock EXCEPT ![conn] = NoConn]
        /\ UNCHANGED netVars
     \/ \E c \in Clients :
          /\ ssl /\ net[c] = "pending"
          /\ sock' = [sock EXCEPT ![conn] = c]
          /\ net' = [net EXCEPT ![c] = "closed"]
          /\ peer' = [peer EXCEPT ![c] = "reset"]
          /\ todo' = [todo EXCEPT ![c] = 0]
  /\ mpc' = "loop"
  /\ failures' = failures + 1
  /\ UNCHANGED <<run, ssl, flag, scan, conn, sessionVars>>

\* _httpd_start_thread: a detached thread on the slot ...
StartThread ==
  /\ mpc = "start"
  /\ spc' = [spc EXCEPT ![sock[conn]] = "read"]
  /\ slot' = [slot EXCEPT ![sock[conn]] = conn]
  /\ mpc' = "loop"
  /\ UNCHANGED <<scan, conn, globals, netVars, failures>>

\* ... or pthread_create fails, which is logged and nothing else.
StartThreadFails ==
  /\ mpc = "start"
  /\ mpc' = "loop"
  /\ failures' = failures + 1
  /\ UNCHANGED <<scan, conn, globals, sessionVars, netVars>>

(* httpd_destroy frees the service list and the slot array; it neither     *)
(* waits for nor stops the detached session threads. The process exits     *)
(* some time later and takes the threads and descriptors with it.          *)
httpd_destroy ==
  /\ mpc = "returned"
  /\ mpc' = "destroyed"
  /\ UNCHANGED <<scan, conn, globals, sessionVars, netVars, failures>>

Die ==
  /\ mpc' = "exited"
  /\ spc' = [c \in Clients |-> IF Live(c) THEN "killed" ELSE spc[c]]
  /\ net' = [c \in Clients |-> IF net[c] = "idle" THEN "idle" ELSE "closed"]
  /\ UNCHANGED <<scan, conn, globals, slot, peer, todo, failures>>

Exit == mpc = "destroyed" /\ Die

httpd_run ==
  \/ LoopTest
  \/ ScanStopped \/ ScanWrap \/ ScanPass \/ ScanTake
  \/ GotSlot \/ SelectReady \/ SelectStopped \/ BeforeAccept
  \/ \E c \in Clients : AcceptOk(c)
  \/ AcceptFail
  \/ StartThread \/ StartThreadFails

-----------------------------------------------------------------------------
(*                            The session threads                          *)

\* The session of c is at `here` and the slot array still exists.
At(c, here) == spc[c] = here /\ mpc \notin {"destroyed", "exited"}

Go(c, next) == spc' = [spc EXCEPT ![c] = next]

\* The connection the session's slot refers to.
Own(c) == sock[slot[c]]

(* The peer's orderly end of stream. recv() then returns 0 for ever, and   *)
(* the force loop of hsocket_recv, which waits for the missing bytes, goes *)
(* round without a timeout: nothing below is enabled. SSL_read reports an  *)
(* error instead.                                                          *)
Spins(c) == peer[Own(c)] = "eof" /\ ~ssl

(* hrequest_new_from_socket returns a request; a request with a body is    *)
(* read further by the service function.                                   *)
ReadRequest(c) ==
  /\ At(c, "read")
  /\ net[Own(c)] = "open" /\ peer[Own(c)] = "up" /\ todo[Own(c)] > 0
  /\ todo' = [todo EXCEPT ![Own(c)] = @ - 1]
  /\ \E next \in {"body", "serve"} : Go(c, next)
  /\ UNCHANGED <<slot, net, peer, globals, mainVars, failures>>

\* Fault: select is called without a timeout.
ReadFailsUntimed(c) ==
  /\ At(c, "read") /\ ~Spins(c) /\ peer[Own(c)] # "up"
  /\ Go(c, "close")
  /\ UNCHANGED <<slot, globals, mainVars, netVars, failures>>

(* It fails: the read timed out, the peer reset the connection, SSL was    *)
(* shut down, or the request was not understood (answered with a 400).     *)
ReadFails(c) ==
  /\ At(c, "read") /\ ~Spins(c)
  /\ Go(c, "close")
  /\ UNCHANGED <<slot, globals, mainVars, netVars, failures>>

\* The service function reads its body to the end, or fails to.
ReadBody(c) ==
  /\ At(c, "body") /\ ~Spins(c)
  /\ Go(c, "serve")
  /\ UNCHANGED <<slot, globals, mainVars, netVars, failures>>

(* The answer does not fit what the kernel buffers and the client does not *)
(* read: send() blocks, and no timeout applies to it.                      *)
SendBlocks(c) ==
  /\ At(c, "serve") /\ peer[Own(c)] = "stalled"
  /\ Go(c, "sending")
  /\ UNCHANGED <<slot, globals, mainVars, netVars, failures>>

(* The answer is sent. The loop goes on for a keep-alive connection and    *)
(* ends after "Connection: close", HTTP/1.0, a body that ends with the     *)
(* connection, a failed authentication or an unknown service.              *)
Serve(c) ==
  /\ At(c, "serve") \/ (At(c, "sending") /\ peer[Own(c)] # "stalled")
  /\ \E next \in {"read", "close"} : Go(c, next)
  /\ UNCHANGED <<slot, globals, mainVars, netVars, failures>>

\* Fault: the slot is given back before its descriptor is closed.
CloseConnLate(c) ==
  /\ At(c, "close")
  /\ flag' = [flag EXCEPT ![slot[c]] = "FREE"]
  /\ Go(c, "release")
  /\ UNCHANGED <<slot, run, ssl, sock, mainVars, netVars, failures>>

(* httpd_free and hsocket_close(&(conn->sock)): what the slot refers to    *)
(* now. Whatever the client sends from here on is answered with a reset.   *)
CloseConn(c) ==
  /\ At(c, "close")
  /\ net' = [net EXCEPT ![Own(c)] = "closed"]
  /\ peer' = [peer EXCEPT ![Own(c)] = "reset"]
  /\ todo' = [todo EXCEPT ![Own(c)] = 0]
  /\ Go(c, "release")
  /\ UNCHANGED <<slot, globals, mainVars, failures>>

\* Fault: the thread ends without resetting the flag.
ReleaseForgotten(c) ==
  /\ At(c, "release")
  /\ Go(c, "ended")
  /\ slot' = [slot EXCEPT ![c] = 0]
  /\ UNCHANGED <<globals, mainVars, netVars, failures>>

\* conn->flag = CONNECTION_FREE, the thread's last access to the slot.
Release(c) ==
  /\ At(c, "release")
  /\ flag' = [flag EXCEPT ![slot[c]] = "FREE"]
  /\ Go(c, "ended")
  /\ slot' = [slot EXCEPT ![c] = 0]
  /\ UNCHANGED <<run, ssl, sock, mainVars, netVars, failures>>

(* Any further step of a session once httpd_destroy has freed its slot and *)
(* its service: undefined behaviour, of which the model says no more.      *)
UseAfterFree(c) ==
  /\ mpc = "destroyed" /\ Live(c)
  /\ Go(c, "wild")
  /\ UNCHANGED <<slot, globals, mainVars, netVars, failures>>

httpd_session_main(c) ==
  \/ ReadRequest(c) \/ ReadFails(c) \/ ReadBody(c)
  \/ SendBlocks(c) \/ Serve(c)
  \/ CloseConn(c) \/ Release(c)
  \/ UseAfterFree(c)

(* A thread that writes to a connection its peer has reset: an answer, a   *)
(* 400, or what SSL sends when it shuts down or shakes hands.              *)
Writes(c) ==
  \/ At(c, "read") \/ At(c, "serve") \/ At(c, "sending")
  \/ ssl /\ At(c, "close")

(* SIGPIPE, raised by send() and by OpenSSL's write() alike: its default   *)
(* action ends the process with every other session in it.                 *)
BrokenPipe ==
  /\ mpc # "exited"
  /\ \/ \E c \in Clients : Writes(c) /\ peer[Own(c)] = "reset"
     \/ mpc = "accept" /\ ssl /\ \E c \in Clients : net[c] = "pending"
  /\ Die

-----------------------------------------------------------------------------
(*                              The environment                            *)

\* The handler _httpd_term of the termination signal.
httpd_term ==
  /\ run /\ mpc # "exited"
  /\ run' = FALSE
  /\ UNCHANGED <<ssl, flag, sock, mainVars, sessionVars, netVars, failures>>

Connect(c) ==
  /\ net[c] = "idle" /\ mpc # "exited"
  /\ net' = [net EXCEPT ![c] = "pending"]
  /\ UNCHANGED <<peer, todo, globals, mainVars, sessionVars, failures>>

(* The client closes its side in order ("eof") or resets it. What it does  *)
(* while still in the backlog shows when the accepted connection is read.  *)
Hangup(c) ==
  /\ net[c] = "open"
  /\ \/ peer[c] = "up" /\ peer' = [peer EXCEPT ![c] = "eof"]
     \/ peer[c] # "reset" /\ peer' = [peer EXCEPT ![c] = "reset"]
  /\ UNCHANGED <<net, todo, globals, mainVars, sessionVars, failures>>

\* The client stops reading and sending, or goes on.
Stall(c) ==
  /\ net[c] = "open"
  /\ \/ peer[c] = "up" /\ peer' = [peer EXCEPT ![c] = "stalled"]
     \/ peer[c] = "stalled" /\ peer' = [peer EXCEPT ![c] = "up"]
  /\ UNCHANGED <<net, todo, globals, mainVars, sessionVars, failures>>

Environment ==
  \/ httpd_term
  \/ \E c \in Clients : Connect(c) \/ Hangup(c) \/ Stall(c)

\* Nothing happens in a process that has exited.
Exited == mpc = "exited" /\ UNCHANGED vars

Next ==
  \/ httpd_run
  \/ httpd_destroy \/ Exit
  \/ \E c \in Clients : httpd_session_main(c)
  \/ BrokenPipe
  \/ Environment
  \/ Exited

Spec == Init /\ [][Next]_vars

(* The scheduler runs the main thread and every session thread, select and *)
(* the read timeout return, and the accept of a waiting connection does    *)
(* not block. Nothing makes a client act, a full send buffer drain, or the *)
(* application call httpd_destroy.                                         *)
Fairness ==
  /\ WF_vars(httpd_run)
  /\ \A c \in Clients : WF_vars(httpd_session_main(c))

FairSpec == Spec /\ Fairness

-----------------------------------------------------------------------------
(*                                Properties                               *)

TypeOK ==
  /\ run \in BOOLEAN /\ ssl \in BOOLEAN
  /\ flag \in [Slots -> {"FREE", "IN_USE"}]
  /\ sock \in [Slots -> Clients \cup {NoConn}]
  /\ mpc \in MainPC /\ scan \in 0 .. MaxConnections /\ conn \in Slots
  /\ spc \in [Clients -> SessionPC]
  /\ slot \in [Clients -> Slots]
  /\ net \in [Clients -> {"idle", "pending", "open", "closed"}]
  /\ peer \in [Clients -> {"up", "stalled", "eof", "reset"}]
  /\ todo \in [Clients -> 0 .. MaxRequests]
  /\ failures \in Nat

(* A session works on the connection it was started for and on no other,   *)
(* in a slot that is neither free nor the one the main thread is about to  *)
(* hand to a new session: two threads never share a conndata_t, although   *)
(* a session frees its slot without the lock the main thread takes slots   *)
(* under.                                                                  *)
SlotExclusive ==
  \A c \in Clients : Live(c) =>
     /\ Own(c) = c
     /\ flag[slot[c]] = "IN_USE"
     /\ ~Reserved(slot[c])
     /\ net[c] = IF spc[c] = "release" THEN "closed" ELSE "open"

(* As many slots are lost to nobody as accepts and thread starts have      *)
(* failed: every other path of httpd_run and httpd_session_main gives its  *)
(* slot back, and httpd_get_conncount() is the live sessions, the main     *)
(* thread's reservation and those losses.                                  *)
SlotAccounting ==
  mpc \notin {"returned", "destroyed", "exited"} =>
    /\ Cardinality({s \in Slots : Stranded(s)}) = failures
    /\ conncount = Cardinality({c \in Clients : Live(c)})
                   + Cardinality({s \in Slots : Reserved(s)}) + failures

(* -NHTTPmaxconn bounds the descriptors open at the same time, sessions    *)
(* or not.                                                                 *)
WithinCapacity ==
  Cardinality({c \in Clients : net[c] = "open"}) <= MaxConnections

(* A slot becomes free only after the descriptor in it has been closed, so *)
(* that the accept that reuses it cannot overwrite an open one.            *)
ReleasedAfterClose ==
  [][\A s \in Slots :
       flag[s] = "IN_USE" /\ flag'[s] = "FREE" => net[sock[s]] = "closed"]_vars

\* The termination signal ends httpd_run, wherever it finds the main thread.
SignalStops == ~run ~> mpc \in {"returned", "destroyed", "exited"}

(* The client can hold the session: it closed its side of a plain          *)
(* connection in order, or does not read a large answer.                   *)
Held(c) ==
  \/ peer[c] = "eof" /\ ~ssl
  \/ peer[c] = "stalled" /\ spc[c] = "sending"

(* Every other session ends, its client silent, slow, gone or done.        *)
SessionEnds == \A c \in Clients : Live(c) ~> (~Live(c) \/ Held(c))

(* A waiting connection is taken up, unless the server is told to stop or  *)
(* every slot is lost: to a failed accept or thread start, or to a session *)
(* its client holds.                                                       *)
Lost(s) ==
  Stranded(s) \/ \E c \in Clients : Live(c) /\ slot[c] = s /\ Held(c)

PendingServed ==
  \A c \in Clients :
    net[c] = "pending" ~>
      (net[c] # "pending" \/ ~run \/ \A s \in Slots : Lost(s))

-----------------------------------------------------------------------------
(* The server implements the connection pool: the slots, threads and        *)
(* program counters are hidden behind the state of the server's end of     *)
(* each connection.                                                        *)
PoolState == [c \in Clients |->
  CASE net[c] = "idle"    -> "idle"
    [] net[c] = "pending" -> "waiting"
    [] net[c] = "open"    -> "served"
    [] OTHER              -> "closed"]

PoolGate == CASE run /\ mpc # "exited"  -> "open"
              [] ~run /\ mpc = "accept" -> "last"
              [] OTHER                  -> "shut"

Pool == INSTANCE ConnectionPool WITH state <- PoolState, gate <- PoolGate

ImplementsPool == Pool!PoolSpec

=============================================================================
