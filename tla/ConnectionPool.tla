--------------------------- MODULE ConnectionPool ---------------------------
(***************************************************************************)
(* What the nanoHTTP server promises the TCP connections made to it, with  *)
(* no slot, thread or socket in sight: a connection waits, is served, and  *)
(* is closed once; at most MaxConnections are served at the same time      *)
(* (NHTTPD_ARG_MAXCONN, nanohttp-server.h); and after the termination      *)
(* signal at most the one accept already under way still succeeds.         *)
(***************************************************************************)
EXTENDS Naturals, FiniteSets

CONSTANTS Clients,         \* the TCP connections that may be attempted
          MaxConnections   \* _httpd_max_connections

VARIABLES state,    \* how far each connection has come
          gate      \* "open": accepting; "last": one accept may still be
                    \* under way; "shut": nothing is accepted any more

poolVars == <<state, gate>>

Stages == {"idle", "waiting", "served", "closed"}

Served == {c \in Clients : state[c] = "served"}

PoolInit ==
  /\ state = [c \in Clients |-> "idle"]
  /\ gate = "open"

Move(c, from, to) ==
  /\ state[c] = from
  /\ state' = [state EXCEPT ![c] = to]

Arrive(c) == Move(c, "idle", "waiting") /\ UNCHANGED gate

\* An accept that began before the signal spends the grace the gate left it.
Admit(c) ==
  /\ gate # "shut"
  /\ Move(c, "waiting", "served")
  /\ Cardinality(Served) < MaxConnections
  /\ gate' = IF gate = "last" THEN "shut" ELSE gate

\* The connection is closed before any session saw it.
Refuse(c) ==
  /\ gate # "shut"
  /\ Move(c, "waiting", "closed")
  /\ gate' = IF gate = "last" THEN "shut" ELSE gate

Finish(c) == Move(c, "served", "closed") /\ UNCHANGED gate

\* The signal, or the end of the last accept without a connection.
Shut ==
  /\ \/ gate = "open" /\ gate' \in {"last", "shut"}
     \/ gate = "last" /\ gate' = "shut"
  /\ UNCHANGED state

\* The process ends and the kernel closes whatever is left.
Vanish ==
  /\ state' = [c \in Clients |->
                 IF state[c] = "idle" THEN "idle" ELSE "closed"]
  /\ gate' = "shut"

PoolNext ==
  \/ \E c \in Clients : Arrive(c) \/ Admit(c) \/ Refuse(c) \/ Finish(c)
  \/ Shut
  \/ Vanish

PoolSpec == PoolInit /\ [][PoolNext]_poolVars

=============================================================================
