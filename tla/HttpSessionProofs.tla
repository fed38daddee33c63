------------------------- MODULE HttpSessionProofs -------------------------
(* What holds of the sessions for any number of connections, services and  *)
(* requests: secured functions run for credentials of their own, the       *)
(* statistics the admin page shows are those of one moment, and answers    *)
(* keep in step with requests until something of one is left unread.       *)
EXTENDS HttpSession, SequenceLemmas, FiniteSetTheorems

-----------------------------------------------------------------------------
(* The inductive invariant of the locks and credentials. The units of      *)
(* `input` are left out: nothing of that depends on what a request is.     *)
Served == {"count", "counting", "auth", "func", "reading", "account", "accounting"}

Shapes ==
  /\ default \in {0} \cup ServiceIds
  /\ statistics \in [ServiceIds -> Statistics]
  /\ writer \in [ServiceIds -> Conns \cup {NoConn}]
  /\ readers \in [ServiceIds -> SUBSET Conns]
  /\ spc \in [Conns -> SessionPC]
  /\ service \in [Conns -> {0} \cup ServiceIds]
  /\ \A c \in Conns : spc[c] \in Served => service[c] \in ServiceIds
  /\ copy \in [Conns -> Statistics]
  /\ DOMAIN req = Conns
  /\ DOMAIN log = Conns
  /\ \A c \in Conns : \E S : log[c] \in Seq(S)

(* Whoever runs a function was accepted with the request in hand.          *)
AuthInv ==
  /\ \A c \in Conns : spc[c] \in {"func", "reading"} => Accepted(c)
  /\ Authorised

(* A session changes statistics with the lock of their service, and reads  *)
(* those of the service it was asked for with that service's lock.         *)
Target(c) == httpd_find_service(req[c].target)

LockInv ==
  /\ \A c \in Conns : spc[c] \in {"counting", "accounting"} => writer[service[c]] = c
  /\ \A s \in ServiceIds : writer[s] = NoConn \/ readers[s] = {}
  /\ \A c \in Conns : spc[c] = "reading" => Target(c) \in ServiceIds /\ c \in readers[Target(c)]

(* The copies of the sessions, each of the moment its lock was taken; the  *)
(* bytes of a request are added before its time, under one lock.           *)
CopyInv ==
  \A c \in Conns :
    /\ spc[c] = "counting" => copy[c] = statistics[service[c]]
    /\ spc[c] \in {"auth", "func"} => copy[c] = NoStatistics
    /\ spc[c] = "reading" =>
         /\ copy[c].bytes = statistics[Target(c)].bytes
         /\ copy[c].requests = statistics[Target(c)].requests
    /\ spc[c] = "account" => copy[c].bytes = copy[c].time /\ Len(copy[c].time) <= copy[c].requests

Accounting(s) == \E c \in Conns : spc[c] = "accounting" /\ service[c] = s

TimeInv ==
  \A s \in ServiceIds :
    /\ ~Accounting(s) => statistics[s].bytes = statistics[s].time
    /\ \A c \in Conns : spc[c] = "accounting" /\ service[c] = s =>
         statistics[s].bytes = Append(statistics[s].time, Total(c))

(* A request is counted before it is accounted for.                        *)
Booked(s) == {c \in Conns : service[c] = s /\ spc[c] \in {"auth", "func", "reading", "account"}}

BookInv ==
  \A s \in ServiceIds : Len(statistics[s].bytes) + Cardinality(Booked(s)) <= statistics[s].requests

Inv == Shapes /\ AuthInv /\ LockInv /\ CopyInv /\ TimeInv /\ BookInv

-----------------------------------------------------------------------------
LEMMA ServiceFacts ==
  /\ ServiceIds \subseteq Nat /\ 0 \notin ServiceIds
  /\ Defaults \subseteq {0} \cup ServiceIds
<1>1. ServiceIds = 1 .. Len(Services) /\ Len(Services) \in Nat
  BY SessionAssumption DEF ServiceIds
<1>2. QED
  BY <1>1, SessionAssumption

LEMMA FindFacts ==
  ASSUME default \in {0} \cup ServiceIds, NEW path
  PROVE  httpd_find_service(path) \in {0} \cup ServiceIds
<1> DEFINE found == {s \in ServiceIds : Services[s].context = path}
<1>1. CASE found = {}
  BY <1>1 DEF httpd_find_service
<1>2. CASE found # {}
  <2>1. \E s \in found : \A t \in found : s <= t
    BY <1>2, ServiceFacts, SomeLeast
  <2>2. QED
    BY <1>2, <2>1 DEF httpd_find_service
<1>3. QED
  BY <1>1, <1>2

LEMMA BookedFinite ==
  ASSUME NEW s
  PROVE  IsFiniteSet(Booked(s)) /\ Cardinality(Booked(s)) \in Nat
<1>1. Booked(s) \subseteq Conns
  BY DEF Booked
<1>2. QED
  BY <1>1, SessionAssumption, FS_Subset, FS_CardinalityType

LEMMA InitInv == ASSUME Init PROVE Inv
<1>1. Shapes
  <2>1. \A c \in Conns : log[c] = << >> /\ << >> \in Seq({})
    BY DEF Init
  <2>2. \A c \in Conns : \E S : log[c] \in Seq(S)
    BY <2>1
  <2>3. DOMAIN req = Conns /\ DOMAIN log = Conns /\ default \in {0} \cup ServiceIds
    BY ServiceFacts DEF Init
  <2>4. QED
    BY <2>2, <2>3, SessionAssumption
       DEF Init, Shapes, NoStatistics, Statistics, Sums, SessionPC, Served
<1>2. AuthInv /\ LockInv /\ CopyInv
  BY DEF Init, AuthInv, Authorised, LockInv, CopyInv
<1>3. TimeInv
  BY DEF Init, TimeInv, Accounting, NoStatistics
<1>4. BookInv
  <2>1. \A s : Booked(s) = {}
    BY DEF Init, Booked
  <2>2. Cardinality({}) = 0
    BY FS_EmptySet
  <2>3. \A s \in ServiceIds : /\ Cardinality(Booked(s)) = 0
                               /\ Len(statistics[s].bytes) = 0 /\ statistics[s].requests = 0
    BY <2>1, <2>2 DEF Init, NoStatistics
  <2>4. QED
    BY <2>3 DEF BookInv
<1>5. QED
  BY <1>1, <1>2, <1>3, <1>4 DEF Inv

-----------------------------------------------------------------------------
(* An answer that is recorded: if a function gave it, the request was      *)
(* accepted.                                                               *)
LEMMA RecordStep ==
  ASSUME Shapes, Authorised, NEW c \in Conns, NEW by, NEW ran, NEW body, Record(c, by, ran, body),
         ran /\ Services[by].auth => req'[c].cred
  PROVE  /\ Authorised'
         /\ DOMAIN log' = Conns
         /\ \A d \in Conns : \E S : log'[d] \in Seq(S)
         /\ \A d \in Conns : d # c => log'[d] = log[d]
<1>1. PICK a : /\ a.req = req'[c] /\ a.ran = ran /\ a.by = by
               /\ log' = [log EXCEPT ![c] = Append(@, a)]
  <2> DEFINE a == [req |-> req'[c], by |-> by, ran |-> ran, body |-> body,
                   declared |-> header'[c], left |-> Adrift(input'[c]) \/ req'[c].long]
  <2>1. a.req = req'[c] /\ a.ran = ran /\ a.by = by
    OBVIOUS
  <2>2. log' = [log EXCEPT ![c] = Append(@, a)]
    BY DEF Record
  <2> HIDE DEF a
  <2>3. QED
    BY <2>1, <2>2
<1>2. PICK S : log[c] \in Seq(S)
  BY DEF Shapes
<1>3. DOMAIN log' = Conns /\ log'[c] = Append(log[c], a) /\ \A d \in Conns : d # c => log'[d] = log[d]
  BY <1>1 DEF Shapes
<1>4. log[c] \in Seq(S \cup {a}) /\ Append(log[c], a) \in Seq(S \cup {a})
  BY <1>2
<1>5. \A i \in DOMAIN log'[c] : log'[c][i] = a \/ (i \in DOMAIN log[c] /\ log'[c][i] = log[c][i])
  BY <1>2, <1>3
<1>6. Authorised'
  BY <1>1, <1>3, <1>5 DEF Authorised
<1>7. QED
  BY <1>3, <1>4, <1>6 DEF Shapes

LEMMA LogSame ==
  ASSUME Shapes, Authorised, UNCHANGED log
  PROVE  /\ Authorised' /\ DOMAIN log' = Conns /\ \A d \in Conns : \E S : log'[d] \in Seq(S)
         /\ \A d \in Conns : log'[d] = log[d]
BY DEF Shapes, Authorised

LEMMA TargetSame == ASSUME NEW d, req'[d] = req[d], UNCHANGED default PROVE Target(d)' = Target(d)
<1>1. \A path : httpd_find_service(path)' = httpd_find_service(path)
  BY DEF httpd_find_service
<1>2. QED
  BY <1>1, Zenon DEF Target

(* A step of session c that takes no lock and changes no statistics.       *)
LEMMA QuietStep ==
  ASSUME Inv, NEW c \in Conns, NEW to \in SessionPC \ {"counting", "accounting", "reading"},
         UNCHANGED <<default, statistics, writer, readers, copy>>,
         spc' = [spc EXCEPT ![c] = to],
         spc[c] \notin {"counting", "accounting", "reading"},
         service' \in [Conns -> {0} \cup ServiceIds], DOMAIN req' = Conns,
         \A d \in Conns : d # c => service'[d] = service[d] /\ req'[d] = req[d],
         to \in Served => service'[c] \in ServiceIds,
         to \in {"auth", "func", "account"} =>
           spc[c] \in {"auth", "func"} /\ service'[c] = service[c],
         to = "func" => Accepted(c)', \A d \in Conns : d # c => log'[d] = log[d],
         Authorised', DOMAIN log' = Conns, \A d \in Conns : \E S : log'[d] \in Seq(S)
  PROVE  Inv'
<1>1. /\ spc \in [Conns -> SessionPC] /\ spc'[c] = to
      /\ \A d \in Conns : d # c => spc'[d] = spc[d]
  BY DEF Inv, Shapes
<1>2. Shapes'
  BY <1>1 DEF Inv, Shapes
<1>3. \A d \in Conns : d # c => Target(d)' = Target(d)
  BY TargetSame
<1>4. AuthInv'
  BY <1>1 DEF Inv, AuthInv, Accepted
<1>5. LockInv'
  BY <1>1, <1>3 DEF Inv, LockInv
<1>6. CopyInv'
  BY <1>1, <1>3 DEF Inv, CopyInv, NoStatistics
<1>7. TimeInv'
  <2>1. \A d \in Conns : /\ spc'[d] = "accounting" <=> spc[d] = "accounting"
                         /\ spc[d] = "accounting" => service'[d] = service[d] /\ Total(d)' = Total(d)
    BY <1>1 DEF Total
  <2>2. \A s \in ServiceIds : Accounting(s)' <=> Accounting(s)
    BY <2>1 DEF Accounting
  <2>3. QED
    BY <2>1, <2>2 DEF Inv, TimeInv
<1>8. BookInv'
  <2>1. ASSUME NEW s \in ServiceIds PROVE Booked(s)' \subseteq Booked(s)
    BY <1>1 DEF Booked
  <2>2. ASSUME NEW s \in ServiceIds
        PROVE  Len(statistics'[s].bytes) + Cardinality(Booked(s)') <= statistics'[s].requests
    <3>1. /\ Cardinality(Booked(s)') \in Nat /\ Cardinality(Booked(s)) \in Nat
          /\ Cardinality(Booked(s)') <= Cardinality(Booked(s))
      BY <2>1, BookedFinite, FS_Subset, FS_CardinalityType
    <3>2. Len(statistics[s].bytes) + Cardinality(Booked(s)) <= statistics[s].requests
      BY DEF Inv, BookInv
    <3>3. Len(statistics[s].bytes) \in Nat /\ statistics[s].requests \in Nat
      BY DEF Inv, Shapes, Statistics, Sums
    <3>4. QED
      BY <3>1, <3>2, <3>3
  <2>3. QED
    BY <2>2 DEF BookInv
<1>9. QED
  BY <1>2, <1>4, <1>5, <1>6, <1>7, <1>8 DEF Inv

(* Reading a request, finding its service and refusing it.                 *)
LEMMA ReadStep ==
  ASSUME Inv, NEW c \in Conns,
         ReadRequest(c) \/ Misread(c) \/ ReadFails(c) \/ FindService(c) \/ Authenticate(c) \/ Close(c)
  PROVE  Inv'
<1>1. UNCHANGED <<default, statistics, writer, readers, copy, log>>
  BY DEF ReadRequest, Misread, ReadFails, FindService, Authenticate, Close, shared, locks
<1>2. /\ Authorised' /\ DOMAIN log' = Conns /\ \A d \in Conns : \E S : log'[d] \in Seq(S)
      /\ \A d \in Conns : log'[d] = log[d]
  BY <1>1, LogSame DEF Inv, AuthInv
<1>3. /\ service \in [Conns -> {0} \cup ServiceIds] /\ DOMAIN req = Conns
      /\ spc[c] \in Served => service[c] \in ServiceIds
  BY DEF Inv, Shapes
<1>4. CASE ReadRequest(c) \/ Misread(c)
  <2>1. /\ spc[c] = "read" /\ spc' = [spc EXCEPT ![c] = "find"] /\ UNCHANGED service
        /\ \E r : req' = [req EXCEPT ![c] = r]
    BY <1>4 DEF ReadRequest, Misread, Goto
  <2>2. "find" \in SessionPC \ {"counting", "accounting", "reading"}
    BY DEF SessionPC
  <2>3. QED
    BY <1>1, <1>2, <1>3, <2>1, <2>2, QuietStep DEF Served
<1>5. CASE ReadFails(c) \/ Close(c)
  <2>1. /\ spc[c] \in {"read", "close"} /\ UNCHANGED <<service, req>>
        /\ \E to \in {"read", "close", "ended"} : spc' = [spc EXCEPT ![c] = to]
    BY <1>5 DEF ReadFails, Close, Goto, Loop
  <2>2. {"read", "close", "ended"} \subseteq SessionPC \ {"counting", "accounting", "reading"}
    BY DEF SessionPC
  <2>3. QED
    BY <1>1, <1>2, <1>3, <2>1, <2>2, QuietStep DEF Served
<1>6. CASE FindService(c)
  <2>1. /\ spc[c] = "find" /\ spc' = [spc EXCEPT ![c] = "count"] /\ UNCHANGED req
        /\ service' = [service EXCEPT ![c] = httpd_find_service(req[c].path)] /\ service'[c] # 0
    BY <1>6 DEF FindService, Goto
  <2>2. httpd_find_service(req[c].path) \in {0} \cup ServiceIds
    BY FindFacts DEF Inv, Shapes
  <2>3. "count" \in SessionPC \ {"counting", "accounting", "reading"}
    BY DEF SessionPC
  <2>4. service' \in [Conns -> {0} \cup ServiceIds] /\ service'[c] \in ServiceIds
        /\ \A d \in Conns : d # c => service'[d] = service[d]
    BY <1>3, <2>1, <2>2
  <2>5. QED
    BY <1>1, <1>2, <1>3, <2>1, <2>3, <2>4, QuietStep
<1>7. CASE Authenticate(c)
  <2>1. /\ spc[c] = "auth" /\ spc' = [spc EXCEPT ![c] = "func"] /\ UNCHANGED <<req, service>>
        /\ Accepted(c)
    BY <1>7 DEF Authenticate, Goto
  <2>2. Accepted(c)'
    BY <2>1 DEF Accepted
  <2>3. "func" \in SessionPC \ {"counting", "accounting", "reading"}
    BY DEF SessionPC
  <2>4. QED
    BY <1>1, <1>2, <1>3, <2>1, <2>2, <2>3, QuietStep DEF Served
<1>8. QED
  BY <1>4, <1>5, <1>6, <1>7

LEMMA RefuseStep ==
  ASSUME Inv, NEW c \in Conns,
         ReadMalformed(c) \/ ServiceDown(c) \/ NoService(c) \/ Unauthorized(c) \/ NotImplemented(c)
  PROVE  Inv'
<1>1. UNCHANGED <<default, statistics, writer, readers, copy>>
  BY DEF ReadMalformed, ServiceDown, NoService, Unauthorized, NotImplemented, shared, locks
<1>2. \E by, body : Record(c, by, FALSE, body)
  BY DEF ReadMalformed, ServiceDown, NoService, Unauthorized, NotImplemented, SendWithLength
<1>3. /\ Authorised' /\ DOMAIN log' = Conns /\ \A d \in Conns : \E S : log'[d] \in Seq(S)
      /\ \A d \in Conns : d # c => log'[d] = log[d]
  BY <1>2, RecordStep DEF Inv, AuthInv
<1>4. /\ spc[c] \in {"read", "find", "auth"}
      /\ \E to \in {"read", "close"} : spc' = [spc EXCEPT ![c] = to]
  BY DEF ReadMalformed, ServiceDown, NoService, Unauthorized, NotImplemented, Loop, Goto
<1>5. /\ DOMAIN req' = Conns /\ service' \in [Conns -> {0} \cup ServiceIds]
      /\ \A d \in Conns : d # c => service'[d] = service[d] /\ req'[d] = req[d]
  <2>1. /\ service \in [Conns -> {0} \cup ServiceIds] /\ DOMAIN req = Conns
        /\ httpd_find_service(req[c].path) \in {0} \cup ServiceIds
    BY FindFacts DEF Inv, Shapes
  <2>2. \/ UNCHANGED service
        \/ service' = [service EXCEPT ![c] = httpd_find_service(req[c].path)]
    BY DEF ReadMalformed, ServiceDown, NoService, Unauthorized, NotImplemented
  <2>3. UNCHANGED req \/ \E r : req' = [req EXCEPT ![c] = r]
    BY DEF ReadMalformed, ServiceDown, NoService, Unauthorized, NotImplemented
  <2>4. QED
    BY <2>1, <2>2, <2>3
<1>6. {"read", "close"} \subseteq SessionPC \ {"counting", "accounting", "reading"}
  BY DEF SessionPC
<1>7. QED
  BY <1>1, <1>3, <1>4, <1>5, <1>6, QuietStep DEF Served

(* The functions, but for the reading of statistics.                       *)
LEMMA FunctionStep ==
  ASSUME Inv, NEW c \in Conns,
         SoapProcess(c) \/ AdminPage(c) \/ AdminSwitch(c) \/ AdminFindsNothing(c)
  PROVE  Inv'
<1>1. UNCHANGED <<default, statistics, writer, readers, copy, service, req>>
  BY DEF SoapProcess, AdminPage, AdminSwitch, AdminFindsNothing, shared, locks
<1>2. spc[c] = "func" /\ spc' = [spc EXCEPT ![c] = "account"]
  BY DEF SoapProcess, AdminPage, AdminSwitch, AdminFindsNothing, AdminRuns, Goto
<1>3. \E body : Record(c, service[c], TRUE, body)
  BY DEF SoapProcess, AdminPage, AdminSwitch, AdminFindsNothing, SendWithLength, SendPage
<1>4. Services[service[c]].auth => req'[c].cred
  BY <1>1, <1>2 DEF Inv, AuthInv, Accepted
<1>5. /\ Authorised' /\ DOMAIN log' = Conns /\ \A d \in Conns : \E S : log'[d] \in Seq(S)
      /\ \A d \in Conns : d # c => log'[d] = log[d]
  BY <1>3, <1>4, RecordStep DEF Inv, AuthInv
<1>6. /\ service \in [Conns -> {0} \cup ServiceIds] /\ DOMAIN req = Conns
      /\ service[c] \in ServiceIds
  BY <1>2 DEF Inv, Shapes, Served
<1>7. "account" \in SessionPC \ {"counting", "accounting", "reading"}
  BY DEF SessionPC
<1>8. QED
  BY <1>1, <1>2, <1>5, <1>6, <1>7, QuietStep

-----------------------------------------------------------------------------
(* The steps with a lock: one lemma for what they share, the places and    *)
(* shapes, then one each.                                                  *)
Moves(c, from, to) ==
  /\ spc[c] = from /\ spc' = [spc EXCEPT ![c] = to]
  /\ UNCHANGED <<default, req, service>>

LEMMA MoveShapes ==
  ASSUME Inv, NEW c \in Conns, NEW from \in Served, NEW to \in SessionPC, Moves(c, from, to),
         statistics' \in [ServiceIds -> Statistics], writer' \in [ServiceIds -> Conns \cup {NoConn}],
         readers' \in [ServiceIds -> SUBSET Conns], copy' \in [Conns -> Statistics],
         DOMAIN log' = Conns, \A d \in Conns : \E S : log'[d] \in Seq(S)
  PROVE  Shapes'
BY DEF Inv, Shapes, Moves

LEMMA MoveFacts ==
  ASSUME Inv, NEW c \in Conns, NEW from \in Served, NEW to \in SessionPC, Moves(c, from, to)
  PROVE  /\ spc'[c] = to /\ \A d \in Conns : d # c => spc'[d] = spc[d]
         /\ service[c] \in ServiceIds /\ UNCHANGED service
         /\ \A d \in Conns : Target(d)' = Target(d) /\ (Accepted(d)' <=> Accepted(d))
         /\ \A d \in Conns : Target(d) \in {0} \cup ServiceIds
         /\ statistics \in [ServiceIds -> Statistics] /\ writer \in [ServiceIds -> Conns \cup {NoConn}]
         /\ readers \in [ServiceIds -> SUBSET Conns] /\ copy \in [Conns -> Statistics]
<1>1. /\ spc'[c] = to /\ \A d \in Conns : d # c => spc'[d] = spc[d]
      /\ service[c] \in ServiceIds /\ UNCHANGED service
      /\ statistics \in [ServiceIds -> Statistics] /\ writer \in [ServiceIds -> Conns \cup {NoConn}]
      /\ readers \in [ServiceIds -> SUBSET Conns] /\ copy \in [Conns -> Statistics]
  BY DEF Inv, Shapes, Moves
<1>2. \A d \in Conns : Target(d)' = Target(d)
  BY TargetSame DEF Moves
<1>3. \A d \in Conns : Accepted(d)' <=> Accepted(d)
  BY DEF Accepted, Moves
<1>4. \A d \in Conns : Target(d) \in {0} \cup ServiceIds
  BY FindFacts DEF Target, Inv, Shapes
<1>5. QED
  BY <1>1, <1>2, <1>3, <1>4

(* One session leaves Booked, or enters it.                                *)
LEMMA BookedChange ==
  ASSUME NEW s, NEW T, NEW c,
         T \subseteq Booked(s) \/ T \subseteq Booked(s) \cup {c}
                             \/ (c \in Booked(s) /\ T \subseteq Booked(s) \ {c})
  PROVE  /\ Cardinality(T) \in Nat /\ Cardinality(Booked(s)) \in Nat
         /\ T \subseteq Booked(s) => Cardinality(T) <= Cardinality(Booked(s))
         /\ Cardinality(T) <= Cardinality(Booked(s)) + 1
         /\ c \in Booked(s) /\ T \subseteq Booked(s) \ {c} => Cardinality(T) <= Cardinality(Booked(s)) - 1
<1>1. IsFiniteSet(Booked(s)) /\ Cardinality(Booked(s)) \in Nat
  BY BookedFinite
<1>2. IsFiniteSet(Booked(s) \cup {c}) /\ Cardinality(Booked(s) \cup {c}) \in Nat
      /\ Cardinality(Booked(s) \cup {c}) <= Cardinality(Booked(s)) + 1
  <2>1. IsFiniteSet(Booked(s) \cup {c}) /\ Cardinality(Booked(s) \cup {c}) =
          IF c \in Booked(s) THEN Cardinality(Booked(s)) ELSE Cardinality(Booked(s)) + 1
    BY <1>1, FS_AddElement, Zenon
  <2>2. QED
    BY <1>1, <2>1
<1>3. IsFiniteSet(T) /\ Cardinality(T) \in Nat /\ Cardinality(T) <= Cardinality(Booked(s) \cup {c})
  <2>1. T \subseteq Booked(s) \cup {c}
    OBVIOUS
  <2>2. QED
    BY <1>2, <2>1, FS_Subset, FS_CardinalityType
<1>4. T \subseteq Booked(s) => Cardinality(T) <= Cardinality(Booked(s))
  BY <1>1, FS_Subset
<1>5. c \in Booked(s) /\ T \subseteq Booked(s) \ {c} => Cardinality(T) <= Cardinality(Booked(s)) - 1
  <2>1. ASSUME c \in Booked(s)
        PROVE  /\ IsFiniteSet(Booked(s) \ {c})
               /\ Cardinality(Booked(s) \ {c}) = Cardinality(Booked(s)) - 1
    BY <1>1, <2>1, FS_RemoveElement
  <2>2. QED
    BY <2>1, FS_Subset
<1>6. QED
  BY <1>1, <1>2, <1>3, <1>4, <1>5

LEMMA TotalTyped == ASSUME Shapes, NEW c \in Conns PROVE Total(c) \in Conns \X Nat
BY DEF Shapes, Total

LEMMA CountLockStep == ASSUME Inv, NEW c \in Conns, CountLock(c) PROVE Inv'
<1>0. Moves(c, "count", "counting") /\ "count" \in Served /\ "counting" \in SessionPC
  BY DEF CountLock, Moves, Goto, Served, SessionPC
<1>1. /\ spc'[c] = "counting" /\ \A d \in Conns : d # c => spc'[d] = spc[d]
      /\ service[c] \in ServiceIds /\ UNCHANGED service
      /\ \A d \in Conns : Target(d)' = Target(d) /\ (Accepted(d)' <=> Accepted(d))
      /\ statistics \in [ServiceIds -> Statistics] /\ writer \in [ServiceIds -> Conns \cup {NoConn}]
      /\ readers \in [ServiceIds -> SUBSET Conns] /\ copy \in [Conns -> Statistics]
  BY <1>0, MoveFacts
<1>2. /\ writer[service[c]] = NoConn /\ readers[service[c]] = {}
      /\ writer' = [writer EXCEPT ![service[c]] = c]
      /\ copy' = [copy EXCEPT ![c] = statistics[service[c]]]
      /\ UNCHANGED <<statistics, readers, log>>
  BY DEF CountLock, Unlocked
<1>3. Authorised' /\ DOMAIN log' = Conns /\ \A d \in Conns : \E S : log'[d] \in Seq(S)
  BY <1>2, LogSame DEF Inv, AuthInv
<1>4. Shapes'
  <2>1. writer' \in [ServiceIds -> Conns \cup {NoConn}] /\ copy' \in [Conns -> Statistics]
    BY <1>1, <1>2
  <2>2. QED
    BY <1>0, <1>1, <1>2, <1>3, <2>1, MoveShapes
<1>5. AuthInv'
  BY <1>0, <1>1, <1>3 DEF Inv, AuthInv, Moves
<1>6. LockInv'
  <2>1. \A d \in Conns : spc[d] \in {"counting", "accounting"} => service[d] # service[c]
    BY <1>2, SessionAssumption DEF Inv, LockInv
  <2>2. \A d \in Conns : spc[d] \in {"counting", "accounting"} => service[d] \in ServiceIds
    BY DEF Inv, Shapes, Served
  <2>3. QED
    BY <1>1, <1>2, <2>1, <2>2 DEF Inv, LockInv
<1>7. CopyInv'
  BY <1>1, <1>2 DEF Inv, CopyInv
<1>8. TimeInv'
  <2>1. \A d \in Conns : spc'[d] = "accounting" <=> spc[d] = "accounting"
    BY <1>0, <1>1 DEF Moves
  <2>2. (\A s : Accounting(s)' <=> Accounting(s)) /\ \A d : Total(d)' = Total(d)
    BY <1>1, <1>2, <2>1 DEF Accounting, Total
  <2>3. QED
    BY <1>1, <1>2, <2>1, <2>2 DEF Inv, TimeInv
<1>9. BookInv'
  <2>1. \A s : Booked(s)' = Booked(s)
    BY <1>0, <1>1 DEF Booked, Moves
  <2>2. QED
    BY <1>2, <2>1 DEF Inv, BookInv
<1>10. QED
  BY <1>4, <1>5, <1>6, <1>7, <1>8, <1>9 DEF Inv

LEMMA CountUnlockStep == ASSUME Inv, NEW c \in Conns, CountUnlock(c) PROVE Inv'
<1>0. Moves(c, "counting", "auth") /\ "counting" \in Served /\ "auth" \in SessionPC
  BY DEF CountUnlock, Moves, Goto, Served, SessionPC
<1> DEFINE own == service[c]
<1>1. /\ spc'[c] = "auth" /\ \A d \in Conns : d # c => spc'[d] = spc[d]
      /\ own \in ServiceIds /\ UNCHANGED service
      /\ \A d \in Conns : Target(d)' = Target(d) /\ (Accepted(d)' <=> Accepted(d))
      /\ statistics \in [ServiceIds -> Statistics] /\ writer \in [ServiceIds -> Conns \cup {NoConn}]
      /\ readers \in [ServiceIds -> SUBSET Conns] /\ copy \in [Conns -> Statistics]
  BY <1>0, MoveFacts
<1>2. /\ writer[own] = c /\ readers[own] = {} /\ copy[c] = statistics[own] /\ c # NoConn
  <2>1. c # NoConn
    BY SessionAssumption
  <2>2. writer[own] = c /\ copy[c] = statistics[own]
    BY <1>0 DEF Inv, LockInv, CopyInv, Moves
  <2>3. writer[own] = NoConn \/ readers[own] = {}
    BY <1>1 DEF Inv, LockInv
  <2>4. QED
    BY <2>1, <2>2, <2>3
<1>3. /\ writer' = [writer EXCEPT ![own] = NoConn]
      /\ copy' = [copy EXCEPT ![c] = NoStatistics]
      /\ statistics' = [statistics EXCEPT ![own].requests = copy[c].requests + 1]
      /\ UNCHANGED <<readers, log>>
  BY DEF CountUnlock
<1>4. /\ statistics'[own].requests = statistics[own].requests + 1
      /\ statistics'[own].bytes = statistics[own].bytes /\ statistics'[own].time = statistics[own].time
      /\ \A s \in ServiceIds : s # own => statistics'[s] = statistics[s]
      /\ statistics' \in [ServiceIds -> Statistics]
  BY <1>1, <1>2, <1>3 DEF Statistics
<1>5. Authorised' /\ DOMAIN log' = Conns /\ \A d \in Conns : \E S : log'[d] \in Seq(S)
  BY <1>3, LogSame DEF Inv, AuthInv
<1>6. Shapes'
  <2>1. writer' \in [ServiceIds -> Conns \cup {NoConn}] /\ copy' \in [Conns -> Statistics]
    BY <1>1, <1>3 DEF NoStatistics, Statistics, Sums
  <2>2. QED
    BY <1>0, <1>1, <1>3, <1>4, <1>5, <2>1, MoveShapes
<1>7. AuthInv'
  BY <1>0, <1>1, <1>5 DEF Inv, AuthInv, Moves
<1>8. \A d \in Conns : /\ spc[d] \in {"counting", "accounting"} => d = c \/ service[d] # own
                       /\ spc[d] = "reading" => Target(d) \in ServiceIds \ {own}
  BY <1>2 DEF Inv, LockInv
<1>9. LockInv'
  BY <1>1, <1>3, <1>8 DEF Inv, LockInv, Shapes, Served
<1>10. CopyInv'
  BY <1>1, <1>3, <1>4, <1>8 DEF Inv, CopyInv, Shapes, Served
<1>11. TimeInv'
  <2>1. \A d \in Conns : spc'[d] = "accounting" <=> spc[d] = "accounting"
    BY <1>0, <1>1 DEF Moves
  <2>2. (\A s : Accounting(s)' <=> Accounting(s)) /\ \A d : Total(d)' = Total(d)
    BY <1>1, <1>3, <2>1 DEF Accounting, Total
  <2>3. \A s \in ServiceIds : /\ statistics'[s].bytes = statistics[s].bytes
                              /\ statistics'[s].time = statistics[s].time
    BY <1>4
  <2>4. QED
    BY <1>1, <2>1, <2>2, <2>3 DEF Inv, TimeInv
<1>12. BookInv'
  <2>1. ASSUME NEW s \in ServiceIds
        PROVE  Len(statistics'[s].bytes) + Cardinality(Booked(s)') <= statistics'[s].requests
    <3>1. Booked(s)' \subseteq Booked(s) \cup {c} /\ (s # own => Booked(s)' \subseteq Booked(s))
      BY <1>1 DEF Booked
    <3>2. /\ Cardinality(Booked(s)') \in Nat /\ Cardinality(Booked(s)) \in Nat
          /\ Cardinality(Booked(s)') <= Cardinality(Booked(s)) + 1
          /\ s # own => Cardinality(Booked(s)') <= Cardinality(Booked(s))
      BY <3>1, BookedChange
    <3>3. /\ Len(statistics[s].bytes) \in Nat /\ statistics[s].requests \in Nat
          /\ Len(statistics[s].bytes) + Cardinality(Booked(s)) <= statistics[s].requests
      BY <1>1 DEF Statistics, Sums, Inv, BookInv
    <3>4. /\ Len(statistics'[s].bytes) = Len(statistics[s].bytes)
          /\ statistics'[s].requests = IF s = own THEN statistics[s].requests + 1 ELSE statistics[s].requests
      BY <1>4
    <3>5. QED
      BY <3>2, <3>3, <3>4
  <2>2. QED
    BY <2>1 DEF BookInv
<1>13. QED
  BY <1>6, <1>7, <1>9, <1>10, <1>11, <1>12 DEF Inv

LEMMA AdminReadLockStep == ASSUME Inv, NEW c \in Conns, AdminReadLock(c) PROVE Inv'
<1>0. Moves(c, "func", "reading") /\ "func" \in Served /\ "reading" \in SessionPC
  BY DEF AdminReadLock, AdminRuns, Moves, Goto, Served, SessionPC
<1> DEFINE s0 == Target(c)
<1>1. /\ spc'[c] = "reading" /\ \A d \in Conns : d # c => spc'[d] = spc[d]
      /\ service[c] \in ServiceIds /\ UNCHANGED service
      /\ \A d \in Conns : Target(d)' = Target(d) /\ (Accepted(d)' <=> Accepted(d))
      /\ statistics \in [ServiceIds -> Statistics] /\ writer \in [ServiceIds -> Conns \cup {NoConn}]
      /\ readers \in [ServiceIds -> SUBSET Conns] /\ copy \in [Conns -> Statistics]
      /\ s0 \in {0} \cup ServiceIds
  BY <1>0, MoveFacts
<1>2. /\ s0 \in ServiceIds /\ writer[s0] = NoConn
      /\ readers' = [readers EXCEPT ![s0] = @ \cup {c}]
      /\ copy' = [copy EXCEPT ![c] = [statistics[s0] EXCEPT !.time = << >>]]
      /\ UNCHANGED <<statistics, writer, log>>
  BY <1>1 DEF AdminReadLock, Target
<1>3. Authorised' /\ DOMAIN log' = Conns /\ \A d \in Conns : \E S : log'[d] \in Seq(S)
  BY <1>2, LogSame DEF Inv, AuthInv
<1>4. copy'[c] \in Statistics /\ copy'[c].bytes = statistics[s0].bytes
      /\ copy'[c].requests = statistics[s0].requests
      /\ \A d \in Conns : d # c => copy'[d] = copy[d]
  <2>1. << >> \in Sums
    BY DEF Sums
  <2>2. QED
    BY <1>1, <1>2, <2>1 DEF Statistics
<1>5. Shapes'
  <2>1. readers' \in [ServiceIds -> SUBSET Conns]
    BY <1>1, <1>2
  <2>2. copy' \in [Conns -> Statistics]
    BY <1>1, <1>2, <1>4
  <2>3. QED
    BY <1>0, <1>1, <1>2, <1>3, <2>1, <2>2, MoveShapes
<1>6. AuthInv'
  BY <1>0, <1>1, <1>3 DEF Inv, AuthInv, Moves
<1>7. LockInv'
  BY <1>1, <1>2 DEF Inv, LockInv
<1>8. CopyInv'
  BY <1>1, <1>2, <1>4 DEF Inv, CopyInv
<1>9. TimeInv'
  <2>1. \A d \in Conns : spc'[d] = "accounting" <=> spc[d] = "accounting"
    BY <1>0, <1>1 DEF Moves
  <2>2. (\A s : Accounting(s)' <=> Accounting(s)) /\ \A d : Total(d)' = Total(d)
    BY <1>1, <1>2, <2>1 DEF Accounting, Total
  <2>3. QED
    BY <1>1, <1>2, <2>1, <2>2 DEF Inv, TimeInv
<1>10. BookInv'
  <2>1. \A s : Booked(s)' = Booked(s)
    BY <1>0, <1>1 DEF Booked, Moves
  <2>2. QED
    BY <1>2, <2>1 DEF Inv, BookInv
<1>11. QED
  BY <1>5, <1>6, <1>7, <1>8, <1>9, <1>10 DEF Inv

LEMMA AdminReadUnlockStep == ASSUME Inv, NEW c \in Conns, AdminReadUnlock(c) PROVE Inv'
<1>0. Moves(c, "reading", "account") /\ "reading" \in Served /\ "account" \in SessionPC
  BY DEF AdminReadUnlock, Moves, Goto, Served, SessionPC
<1> DEFINE s0 == Target(c)
<1>1. /\ spc'[c] = "account" /\ \A d \in Conns : d # c => spc'[d] = spc[d]
      /\ service[c] \in ServiceIds /\ UNCHANGED service
      /\ \A d \in Conns : Target(d)' = Target(d) /\ (Accepted(d)' <=> Accepted(d))
      /\ statistics \in [ServiceIds -> Statistics] /\ writer \in [ServiceIds -> Conns \cup {NoConn}]
      /\ readers \in [ServiceIds -> SUBSET Conns] /\ copy \in [Conns -> Statistics]
  BY <1>0, MoveFacts
<1>2. /\ readers' = [readers EXCEPT ![s0] = @ \ {c}]
      /\ copy' = [copy EXCEPT ![c].time = statistics[s0].time]
      /\ UNCHANGED <<statistics, writer>>
  BY DEF AdminReadUnlock, Target
<1>3. s0 \in ServiceIds /\ writer[s0] = NoConn
      /\ copy[c].bytes = statistics[s0].bytes /\ copy[c].requests = statistics[s0].requests
  BY <1>0 DEF Inv, LockInv, CopyInv, Moves
<1>4. ~Accounting(s0)
  BY <1>3, SessionAssumption DEF Accounting, Inv, LockInv
<1>5. statistics[s0].bytes = statistics[s0].time /\ Len(statistics[s0].time) <= statistics[s0].requests
  <2>1. statistics[s0].bytes = statistics[s0].time
    BY <1>3, <1>4 DEF Inv, TimeInv
  <2>2. /\ Len(statistics[s0].bytes) \in Nat /\ statistics[s0].requests \in Nat
        /\ Cardinality(Booked(s0)) \in Nat
    BY <1>1, <1>3, BookedFinite DEF Statistics, Sums
  <2>3. Len(statistics[s0].bytes) + Cardinality(Booked(s0)) <= statistics[s0].requests
    BY <1>3 DEF Inv, BookInv
  <2>4. QED
    BY <2>1, <2>2, <2>3
<1>6. /\ copy'[c] \in Statistics /\ copy'[c].bytes = copy'[c].time
      /\ Len(copy'[c].time) <= copy'[c].requests
      /\ \A d \in Conns : d # c => copy'[d] = copy[d]
  BY <1>1, <1>2, <1>3, <1>5 DEF Statistics
<1>7. /\ Authorised' /\ DOMAIN log' = Conns /\ \A d \in Conns : \E S : log'[d] \in Seq(S)
      /\ \A d \in Conns : d # c => log'[d] = log[d]
  <2>1. Record(c, service[c], TRUE, "page") /\ UNCHANGED req
    BY DEF AdminReadUnlock, SendPage
  <2>2. Services[service[c]].auth => req'[c].cred
    BY <1>0, <2>1 DEF Inv, AuthInv, Accepted, Moves
  <2>3. QED
    BY <2>1, <2>2, RecordStep DEF Inv, AuthInv
<1>8. Shapes'
  <2>1. readers' \in [ServiceIds -> SUBSET Conns]
    BY <1>1, <1>2
  <2>2. copy' \in [Conns -> Statistics]
    BY <1>1, <1>2, <1>6
  <2>3. QED
    BY <1>0, <1>1, <1>2, <1>7, <2>1, <2>2, MoveShapes
<1>9. AuthInv'
  BY <1>0, <1>1, <1>7 DEF Inv, AuthInv, Moves
<1>10. LockInv'
  BY <1>1, <1>2 DEF Inv, LockInv, Shapes
<1>11. CopyInv'
  BY <1>1, <1>2, <1>6 DEF Inv, CopyInv
<1>12. TimeInv'
  <2>1. \A d \in Conns : /\ spc'[d] = "accounting" <=> spc[d] = "accounting"
                         /\ spc'[d] = "accounting" => Total(d)' = Total(d)
    BY <1>0, <1>1, <1>7 DEF Moves, Total
  <2>2. \A s : Accounting(s)' <=> Accounting(s)
    BY <1>1, <2>1 DEF Accounting
  <2>3. QED
    BY <1>1, <1>2, <2>1, <2>2 DEF Inv, TimeInv
<1>13. BookInv'
  <2>1. \A s : Booked(s)' = Booked(s)
    BY <1>0, <1>1 DEF Booked, Moves
  <2>2. QED
    BY <1>2, <2>1 DEF Inv, BookInv
<1>14. QED
  BY <1>8, <1>9, <1>10, <1>11, <1>12, <1>13 DEF Inv

LEMMA AccountLockStep == ASSUME Inv, NEW c \in Conns, AccountLock(c) PROVE Inv'
<1>0. Moves(c, "account", "accounting") /\ "account" \in Served /\ "accounting" \in SessionPC
  BY DEF AccountLock, Moves, Goto, Served, SessionPC
<1> DEFINE own == service[c]
<1>1. /\ spc'[c] = "accounting" /\ \A d \in Conns : d # c => spc'[d] = spc[d]
      /\ own \in ServiceIds /\ UNCHANGED service
      /\ \A d \in Conns : Target(d)' = Target(d) /\ (Accepted(d)' <=> Accepted(d))
      /\ statistics \in [ServiceIds -> Statistics] /\ writer \in [ServiceIds -> Conns \cup {NoConn}]
      /\ readers \in [ServiceIds -> SUBSET Conns] /\ copy \in [Conns -> Statistics]
  BY <1>0, MoveFacts
<1>2. /\ writer[own] = NoConn /\ readers[own] = {}
      /\ writer' = [writer EXCEPT ![own] = c]
      /\ copy' = [copy EXCEPT ![c] = NoStatistics]
      /\ statistics' = [statistics EXCEPT ![own].bytes = Append(@, Total(c))]
      /\ UNCHANGED <<readers, log>>
  BY DEF AccountLock, Unlocked
<1>3. /\ statistics'[own].bytes = Append(statistics[own].bytes, Total(c))
      /\ Len(statistics'[own].bytes) = Len(statistics[own].bytes) + 1
      /\ statistics'[own].requests = statistics[own].requests
      /\ statistics'[own].time = statistics[own].time
      /\ \A s \in ServiceIds : s # own => statistics'[s] = statistics[s]
      /\ statistics' \in [ServiceIds -> Statistics]
  <2>1. Append(statistics[own].bytes, Total(c)) \in Sums
        /\ Len(Append(statistics[own].bytes, Total(c))) = Len(statistics[own].bytes) + 1
    BY <1>1, TotalTyped DEF Statistics, Sums, Inv
  <2>2. QED
    BY <1>1, <1>2, <2>1 DEF Statistics
<1>4. Authorised' /\ DOMAIN log' = Conns /\ \A d \in Conns : \E S : log'[d] \in Seq(S)
  BY <1>2, LogSame DEF Inv, AuthInv
<1>5. Shapes'
  <2>1. writer' \in [ServiceIds -> Conns \cup {NoConn}] /\ copy' \in [Conns -> Statistics]
    BY <1>1, <1>2 DEF NoStatistics, Statistics, Sums
  <2>2. QED
    BY <1>0, <1>1, <1>2, <1>3, <1>4, <2>1, MoveShapes
<1>6. AuthInv'
  BY <1>0, <1>1, <1>4 DEF Inv, AuthInv, Moves
<1>7. \A d \in Conns : /\ spc[d] \in {"counting", "accounting"} => service[d] \in ServiceIds \ {own}
                       /\ spc[d] = "reading" => Target(d) \in ServiceIds \ {own}
  BY <1>2, SessionAssumption DEF Inv, LockInv, Shapes, Served
<1>8. LockInv'
  BY <1>1, <1>2, <1>7 DEF Inv, LockInv
<1>9. CopyInv'
  BY <1>1, <1>2, <1>3, <1>7 DEF Inv, CopyInv
<1>10. TimeInv'
  <2>1. ~Accounting(own)
    BY <1>7 DEF Accounting
  <2>2. \A s \in ServiceIds : Accounting(s)' <=> s = own \/ Accounting(s)
    BY <1>0, <1>1 DEF Accounting, Moves
  <2>3. statistics[own].bytes = statistics[own].time
    BY <1>1, <2>1 DEF Inv, TimeInv
  <2>4. \A d \in Conns : /\ Total(d)' = Total(d)
                         /\ spc'[d] = "accounting" <=> d = c \/ spc[d] = "accounting"
    BY <1>0, <1>1, <1>2 DEF Total, Moves
  <2>5. ASSUME NEW s \in ServiceIds
        PROVE  /\ ~Accounting(s)' => statistics'[s].bytes = statistics'[s].time
               /\ \A d \in Conns : spc'[d] = "accounting" /\ service'[d] = s =>
                    statistics'[s].bytes = Append(statistics'[s].time, Total(d)')
    <3>1. CASE s = own
      <4>1. \A d \in Conns : spc'[d] = "accounting" /\ service'[d] = s => d = c
        BY <1>1, <1>7, <2>4, <3>1
      <4>2. QED
        BY <1>3, <2>2, <2>3, <2>4, <3>1, <4>1
    <3>2. CASE s # own
      BY <1>1, <1>3, <2>2, <2>4, <3>2 DEF Inv, TimeInv
    <3>3. QED
      BY <3>1, <3>2
  <2>6. QED
    BY <2>5 DEF TimeInv
<1>11. BookInv'
  <2>1. ASSUME NEW s \in ServiceIds
        PROVE  Len(statistics'[s].bytes) + Cardinality(Booked(s)') <= statistics'[s].requests
    <3>1. /\ Booked(s)' \subseteq Booked(s)
          /\ s = own => c \in Booked(s) /\ Booked(s)' \subseteq Booked(s) \ {c}
      BY <1>0, <1>1 DEF Booked, Moves
    <3>2. /\ Cardinality(Booked(s)') \in Nat /\ Cardinality(Booked(s)) \in Nat
          /\ Cardinality(Booked(s)') <= Cardinality(Booked(s))
          /\ s = own => Cardinality(Booked(s)') <= Cardinality(Booked(s)) - 1
      BY <3>1, BookedChange
    <3>3. /\ Len(statistics[s].bytes) \in Nat /\ statistics[s].requests \in Nat
          /\ Len(statistics[s].bytes) + Cardinality(Booked(s)) <= statistics[s].requests
      BY <1>1 DEF Statistics, Sums, Inv, BookInv
    <3>4. /\ s = own => Len(statistics'[s].bytes) = Len(statistics[s].bytes) + 1
          /\ s # own => Len(statistics'[s].bytes) = Len(statistics[s].bytes)
          /\ statistics'[s].requests = statistics[s].requests
      BY <1>3
    <3>5. CASE s = own
      <4>1. \A l, b, q, k \in Nat : l + b <= q /\ k <= b - 1 => (l + 1) + k <= q
        OBVIOUS
      <4>2. Len(statistics[s].bytes) + 1 + Cardinality(Booked(s)') <= statistics[s].requests
        BY <3>2, <3>3, <3>5, <4>1
      <4>3. Len(statistics'[s].bytes) = Len(statistics[s].bytes) + 1
        BY <3>4, <3>5
      <4>4. statistics'[s].requests = statistics[s].requests
        BY <3>4
      <4>5. QED
        BY <4>2, <4>3, <4>4, Zenon
    <3>6. CASE s # own
      <4>1. \A l, b, q, k \in Nat : l + b <= q /\ k <= b => l + k <= q
        OBVIOUS
      <4>2. Len(statistics[s].bytes) + Cardinality(Booked(s)') <= statistics[s].requests
        BY <3>2, <3>3, <4>1
      <4>3. Len(statistics'[s].bytes) = Len(statistics[s].bytes)
        BY <3>4, <3>6
      <4>4. statistics'[s].requests = statistics[s].requests
        BY <3>4
      <4>5. QED
        BY <4>2, <4>3, <4>4, Zenon
    <3>7. QED
      BY <3>5, <3>6
  <2>2. QED
    BY <2>1 DEF BookInv
<1>12. QED
  BY <1>5, <1>6, <1>8, <1>9, <1>10, <1>11 DEF Inv

LEMMA AccountUnlockStep == ASSUME Inv, NEW c \in Conns, AccountUnlock(c) PROVE Inv'
<1>0. PICK to \in {"read", "close"} : Moves(c, "accounting", to)
  BY DEF AccountUnlock, Moves, Goto, Loop
<1> DEFINE own == service[c]
<1>1. /\ spc'[c] = to /\ \A d \in Conns : d # c => spc'[d] = spc[d]
      /\ own \in ServiceIds /\ UNCHANGED service
      /\ \A d \in Conns : Target(d)' = Target(d) /\ (Accepted(d)' <=> Accepted(d))
      /\ statistics \in [ServiceIds -> Statistics] /\ writer \in [ServiceIds -> Conns \cup {NoConn}]
      /\ readers \in [ServiceIds -> SUBSET Conns] /\ copy \in [Conns -> Statistics]
  <2>1. "accounting" \in Served /\ to \in SessionPC
    BY DEF Served, SessionPC
  <2>2. QED
    BY <1>0, <2>1, MoveFacts
<1>2. /\ writer[own] = c /\ readers[own] = {}
  <2>1. c # NoConn
    BY SessionAssumption
  <2>2. writer[own] = c
    BY <1>0 DEF Inv, LockInv, Moves
  <2>3. writer[own] = NoConn \/ readers[own] = {}
    BY <1>1 DEF Inv, LockInv
  <2>4. QED
    BY <2>1, <2>2, <2>3
<1>3. /\ writer' = [writer EXCEPT ![own] = NoConn]
      /\ statistics' = [statistics EXCEPT ![own].time = Append(@, Total(c))]
      /\ UNCHANGED <<readers, log, copy>>
  BY DEF AccountUnlock
<1>4. /\ statistics'[own].time = Append(statistics[own].time, Total(c))
      /\ statistics'[own].requests = statistics[own].requests
      /\ statistics'[own].bytes = statistics[own].bytes
      /\ \A s \in ServiceIds : s # own => statistics'[s] = statistics[s]
      /\ statistics' \in [ServiceIds -> Statistics]
  <2>1. Append(statistics[own].time, Total(c)) \in Sums
    BY <1>1, TotalTyped DEF Statistics, Sums, Inv
  <2>2. QED
    <3>1. [statistics[own] EXCEPT !.time = Append(statistics[own].time, Total(c))] \in Statistics
      BY <1>1, <2>1 DEF Statistics
    <3>2. statistics' = [statistics EXCEPT ![own] =
                           [statistics[own] EXCEPT !.time = Append(statistics[own].time, Total(c))]]
      BY <1>1, <1>3
    <3>3. statistics'[own] = [statistics[own] EXCEPT !.time = Append(statistics[own].time, Total(c))]
          /\ \A s \in ServiceIds : s # own => statistics'[s] = statistics[s]
      BY <1>1, <3>2
    <3>4. statistics' \in [ServiceIds -> Statistics]
      BY <1>1, <3>1, <3>2
    <3>5. statistics[own] \in Statistics
      BY <1>1
    <3>6. QED
      BY <3>3, <3>4, <3>5 DEF Statistics
<1>5. Authorised' /\ DOMAIN log' = Conns /\ \A d \in Conns : \E S : log'[d] \in Seq(S)
  BY <1>3, LogSame DEF Inv, AuthInv
<1>6. Shapes'
  <2>1. writer' \in [ServiceIds -> Conns \cup {NoConn}]
    BY <1>1, <1>3
  <2>2. "accounting" \in Served /\ to \in SessionPC
    BY DEF Served, SessionPC
  <2>3. QED
    BY <1>0, <1>1, <1>3, <1>4, <1>5, <2>1, <2>2, MoveShapes
<1>7. AuthInv'
  BY <1>0, <1>1, <1>5 DEF Inv, AuthInv, Moves
<1>8. \A d \in Conns : /\ spc[d] \in {"counting", "accounting"} => d = c \/ service[d] \in ServiceIds \ {own}
                       /\ spc[d] = "reading" => Target(d) \in ServiceIds \ {own}
  BY <1>2 DEF Inv, LockInv, Shapes, Served
<1>9. LockInv'
  BY <1>1, <1>3, <1>8 DEF Inv, LockInv
<1>10. CopyInv'
  BY <1>1, <1>3, <1>4, <1>8 DEF Inv, CopyInv
<1>11. TimeInv'
  <2>1. Accounting(own)
    BY <1>0 DEF Accounting, Moves
  <2>2. \A s \in ServiceIds : s = own => ~Accounting(s)'
    BY <1>1, <1>8 DEF Accounting
  <2>3. \A s \in ServiceIds : s # own => (Accounting(s)' <=> Accounting(s))
    BY <1>0, <1>1 DEF Accounting, Moves
  <2>4. \A d \in Conns : /\ Total(d)' = Total(d)
                         /\ spc'[d] = "accounting" => d # c /\ spc[d] = "accounting"
    BY <1>0, <1>1, <1>3 DEF Total, Moves
  <2>5. ASSUME NEW s \in ServiceIds
        PROVE  /\ ~Accounting(s)' => statistics'[s].bytes = statistics'[s].time
               /\ \A d \in Conns : spc'[d] = "accounting" /\ service'[d] = s =>
                    statistics'[s].bytes = Append(statistics'[s].time, Total(d)')
    <3>1. CASE s = own
      <4>1. statistics[own].bytes = Append(statistics[own].time, Total(c))
        BY <1>0, <1>1 DEF Inv, TimeInv, Moves
      <4>2. \A d \in Conns : ~(spc'[d] = "accounting" /\ service'[d] = s)
        BY <1>1, <1>8, <2>4, <3>1
      <4>3. QED
        BY <1>4, <3>1, <4>1, <4>2
    <3>2. CASE s # own
      BY <1>1, <1>4, <2>3, <2>4, <3>2 DEF Inv, TimeInv
    <3>3. QED
      BY <3>1, <3>2
  <2>6. QED
    BY <2>5 DEF TimeInv
<1>12. BookInv'
  <2>1. \A s : Booked(s)' = Booked(s)
    BY <1>0, <1>1 DEF Booked, Moves
  <2>2. QED
    BY <1>4, <2>1 DEF Inv, BookInv
<1>13. QED
  BY <1>6, <1>7, <1>9, <1>10, <1>11, <1>12 DEF Inv

-----------------------------------------------------------------------------
LEMMA NextInv == ASSUME Inv, [Next]_vars PROVE Inv'
<1>1. ASSUME NEW c \in Conns, httpd_session_main(c) PROVE Inv'
  BY <1>1, ReadStep, RefuseStep, FunctionStep, CountLockStep, CountUnlockStep, AdminReadLockStep,
     AdminReadUnlockStep, AccountLockStep, AccountUnlockStep DEF httpd_session_main
<1>2. CASE UNCHANGED vars
  <2>1. UNCHANGED <<default, statistics, writer, readers, spc, service, req, copy, log>>
    BY <1>2 DEF vars, shared, session
  <2>2. Shapes' /\ LockInv'
    BY <2>1, ZenonT(60) DEF Inv, Shapes, LockInv, Target, httpd_find_service
  <2>3. AuthInv'
    BY <2>1 DEF Inv, AuthInv, Accepted, Authorised
  <2>4. CopyInv'
    <3>1. \A c \in Conns : Target(c)' = Target(c)
      BY <2>1, TargetSame
    <3>2. QED
      BY <2>1, <3>1 DEF Inv, CopyInv
  <2>5. TimeInv' /\ BookInv'
    BY <2>1 DEF Inv, TimeInv, Accounting, Total, BookInv, Booked
  <2>6. QED
    BY <2>2, <2>3, <2>4, <2>5 DEF Inv
<1>3. QED
  BY <1>1, <1>2 DEF Next

THEOREM Invariance == Spec => []Inv
<1>1. Init => Inv
  BY InitInv
<1>2. Inv /\ [Next]_vars => Inv'
  BY NextInv
<1>3. QED
  BY <1>1, <1>2, PTL DEF Spec

(* The function of a secured service only ever runs for a request whose    *)
(* own credentials were accepted, for any requests in any order on any     *)
(* number of connections, and whatever unread bodies spell.                *)
THEOREM Authorisation == Spec => []Authorised
<1>1. Inv => Authorised
  BY DEF Inv, AuthInv
<1>2. QED
  BY <1>1, Invariance, PTL

(* What the admin page shows of a service's statistics is a moment of      *)
(* them: the bytes and the time of the same requests, all of them counted. *)
THEOREM Snapshots == Spec => []SnapshotConsistent
<1>1. Inv => SnapshotConsistent
  BY DEF Inv, CopyInv, SnapshotConsistent
<1>2. QED
  BY <1>1, Invariance, PTL

-----------------------------------------------------------------------------
(* What a step of a session does to the variables that Shapes leaves out.  *)
Units == [kind : {"head", "rest", "body"}, req : Requests]

LEMMA UnitTyped ==
  ASSUME NEW s \in Seq(Units), s # << >>
  PROVE  Head(s).req \in Requests /\ Tail(s) \in Seq(Units)
<1>1. Head(s) \in Units /\ Tail(s) \in Seq(Units)
  OBVIOUS
<1>. QED
  BY <1>1 DEF Units

LEMMA DropTyped == ASSUME NEW s \in Seq(Units), NEW k \in Nat PROVE Drop(s, k) \in Seq(Units)
BY DEF Drop

LEMMA AsReadFacts ==
  ASSUME NEW r \in Requests, NEW q \in AsRead(r)
  PROVE  q \in Requests /\ (q.long <=> r.long) /\ (~r.long => q = r)
BY DEF AsRead, Cuts

LEMMA RemainsTyped ==
  ASSUME NEW s \in Seq(Units), NEW t \in Remains(s)
  PROVE  t \in Seq(Units)
<1>1. ASSUME NEW k \in 1 .. Len(s) PROVE Drop(s, k) \in Seq(Units)
  <2>1. k \in Nat
    OBVIOUS
  <2>. QED
    BY <2>1, DropTyped
<1>2. ASSUME NEW k \in 1 .. Len(s) PROVE PartRead(s, k) \in Seq(Units)
  <2>1. Unit("rest", s[k].req) \in Units
    <3>1. s[k] \in Units
      BY <1>2
    <3>. QED
      BY <3>1 DEF Unit, Units
  <2>. DEFINE d == Drop(s, k)
              u == Unit("rest", s[k].req)
  <2>2. d \in Seq(Units) /\ u \in Units /\ PartRead(s, k) = <<u>> \o d
    BY <1>1, <1>2, <2>1 DEF PartRead
  <2>. HIDE DEF d, u
  <2>. QED
    BY <2>2
<1>. QED
  BY <1>1, <1>2 DEF Remains

LEMMA BodyReadTyped ==
  ASSUME NEW s \in Seq(Units), NEW r \in Requests, NEW t \in BodyRead(s, r)
  PROVE  t \in Seq(Units) /\ (~r.long => t = IF Adrift(s) THEN Tail(s) ELSE s)
<1>1. Adrift(s) => Tail(s) \in Seq(Units)
  BY UnitTyped DEF Adrift
<1>2. CASE r.long
  <2>1. t = s \/ t \in Remains(s)
    BY <1>2 DEF BodyRead
  <2>. QED
    BY <1>2, <2>1, RemainsTyped
<1>3. CASE ~r.long
  BY <1>1, <1>3 DEF BodyRead
<1>. QED
  BY <1>2, <1>3

LEMMA RequestTyped ==
  ASSUME TypeOK, NEW c \in Conns, httpd_session_main(c)
  PROVE  req' \in [Conns -> Requests]
<1>1. req \in [Conns -> Requests] /\ input[c] \in Seq(Units)
  BY DEF TypeOK, Units
<1>2. CASE ReadRequest(c) \/ ReadMalformed(c)
  <2>1. input[c] # << >> /\ \E r \in AsRead(Head(input[c]).req) : req' = [req EXCEPT ![c] = r]
    BY <1>2 DEF ReadRequest, ReadMalformed
  <2>2. PICK r \in AsRead(Head(input[c]).req) : req' = [req EXCEPT ![c] = r]
    BY <2>1
  <2>3. r \in Requests
    BY <1>1, <2>1, UnitTyped, AsReadFacts
  <2>. QED
    BY <1>1, <2>2, <2>3
<1>3. CASE Misread(c)
  <2>1. PICK r \in Strays : req' = [req EXCEPT ![c] = r]
    BY <1>3 DEF Misread
  <2>2. r \in Requests
    BY SessionAssumption
  <2>. QED
    BY <1>1, <2>1, <2>2
<1>4. ASSUME ~(ReadRequest(c) \/ ReadMalformed(c) \/ Misread(c)) PROVE UNCHANGED req
  BY <1>4 DEF httpd_session_main, ReadFails, FindService, ServiceDown, NoService, CountLock, CountUnlock,
     Authenticate, Unauthorized, NotImplemented, SoapProcess, AdminPage, AdminSwitch, AdminFindsNothing,
     AdminReadLock, AdminReadUnlock, AccountLock, AccountUnlock, Close
<1>. QED
  BY <1>1, <1>2, <1>3, <1>4

LEMMA InputTyped ==
  ASSUME TypeOK, NEW c \in Conns, httpd_session_main(c)
  PROVE  input' \in [Conns -> Seq(Units)]
<1>1. input \in [Conns -> Seq(Units)] /\ input[c] \in Seq(Units) /\ << >> \in Seq(Units)
  <2>1. input \in [Conns -> Seq(Units)]
    BY DEF TypeOK, Units
  <2>. QED
    BY <2>1
<1>2. req[c] \in Requests
  BY DEF TypeOK
<1>3. input[c] # << >> => Tail(input[c]) \in Seq(Units) /\ Head(input[c]).req \in Requests
  BY <1>1, UnitTyped
<1>4. ASSUME NEW left, left \in Seq(Units), input' = [input EXCEPT ![c] = left]
      PROVE  input' \in [Conns -> Seq(Units)]
  BY <1>1, <1>4
<1>5. CASE ReadRequest(c) \/ SoapProcess(c) \/ ReadMalformed(c) \/ Misread(c) \/ Close(c)
  <2>1. CASE ReadRequest(c)
    BY <1>1, <1>3, <2>1 DEF ReadRequest
  <2>2. CASE SoapProcess(c)
    <3>1. PICK left \in {input[c]} \cup BodyRead(input[c], req[c]) : input' = [input EXCEPT ![c] = left]
      BY <2>2 DEF SoapProcess
    <3>. QED
      BY <1>1, <1>2, <1>4, <3>1, BodyReadTyped
  <2>3. CASE ReadMalformed(c)
    <3>1. PICK r \in AsRead(Head(input[c]).req) :
            \E left \in BodyRead(Tail(input[c]), r) : input' = [input EXCEPT ![c] = left]
      BY <2>3 DEF ReadMalformed
    <3>2. PICK left \in BodyRead(Tail(input[c]), r) : input' = [input EXCEPT ![c] = left]
      BY <3>1
    <3>3. input[c] # << >> /\ r \in Requests
      BY <1>3, <2>3, AsReadFacts DEF ReadMalformed
    <3>. QED
      BY <1>3, <1>4, <3>2, <3>3, BodyReadTyped
  <2>4. CASE Misread(c)
    <3>1. PICK left \in Remains(input[c]) : input' = [input EXCEPT ![c] = left]
      BY <2>4 DEF Misread
    <3>. QED
      BY <1>1, <1>4, <3>1, RemainsTyped
  <2>5. CASE Close(c)
    BY <1>1, <2>5 DEF Close
  <2>. QED
    BY <1>5, <2>1, <2>2, <2>3, <2>4, <2>5
<1>6. ASSUME ~(ReadRequest(c) \/ SoapProcess(c) \/ ReadMalformed(c) \/ Misread(c) \/ Close(c))
      PROVE  UNCHANGED input
  BY <1>6 DEF httpd_session_main, ReadFails, FindService, ServiceDown, NoService, CountLock, CountUnlock,
     Authenticate, Unauthorized, NotImplemented, AdminPage, AdminSwitch, AdminFindsNothing,
     AdminReadLock, AdminReadUnlock, AccountLock, AccountUnlock
<1>. QED
  BY <1>1, <1>5, <1>6

LEMMA AnswerTyped ==
  ASSUME TypeOK, Shapes, NEW c \in Conns, NEW by \in {0} \cup ServiceIds, NEW ran \in BOOLEAN, NEW body \in Bodies,
         Record(c, by, ran, body), SendHeader(c), header' \in [Conns -> Lengths], req' \in [Conns -> Requests]
  PROVE  log' \in [Conns -> Seq(Answers)] /\ out' \in [Conns -> {"NULL", "close", "length"}]
<1>1. log \in [Conns -> Seq(Answers)] /\ out \in [Conns -> {"NULL", "close", "length"}]
  BY DEF TypeOK
<1>2. PICK a : /\ a = [req |-> req'[c], by |-> by, ran |-> ran, body |-> body,
                       declared |-> header'[c], left |-> Adrift(input'[c]) \/ req'[c].long]
               /\ log' = [log EXCEPT ![c] = Append(@, a)]
  BY DEF Record
<1>3. (Adrift(input'[c]) \/ req'[c].long) \in BOOLEAN
  OBVIOUS
<1>4. a \in Answers
  BY <1>2, <1>3 DEF Answers
<1>5. Append(log[c], a) \in Seq(Answers)
  BY <1>1, <1>4
<1>. QED
  BY <1>1, <1>2, <1>5 DEF SendHeader

LEMMA LogTyped ==
  ASSUME TypeOK, Shapes, NEW c \in Conns, httpd_session_main(c)
  PROVE  /\ header' \in [Conns -> Lengths] /\ log' \in [Conns -> Seq(Answers)]
         /\ out' \in [Conns -> {"NULL", "close", "length"}]
<1>1. req' \in [Conns -> Requests]
  BY RequestTyped
<1>2. header \in [Conns -> Lengths]
  BY DEF TypeOK
<1>3. \/ UNCHANGED <<header, log, out>>
      \/ \E by \in {0, service[c]}, ran \in BOOLEAN, body \in Bodies :
           by \in {0} \cup ServiceIds /\ SendWithLength(c, by, ran, body)
      \/ service[c] \in {0} \cup ServiceIds /\ SendPage(c, service[c])
  <2>1. service[c] \in {0} \cup ServiceIds
    BY DEF Shapes
  <2>2. CASE ReadMalformed(c)
    BY <2>2 DEF ReadMalformed, Bodies
  <2>3. CASE ServiceDown(c) \/ NoService(c)
    BY <2>3 DEF ServiceDown, NoService, Bodies
  <2>4. CASE Unauthorized(c) \/ NotImplemented(c)
    BY <2>1, <2>4 DEF Unauthorized, NotImplemented, Bodies
  <2>5. CASE SoapProcess(c)
    BY <2>1, <2>5 DEF SoapProcess, Bodies
  <2>6. CASE AdminPage(c) \/ AdminSwitch(c) \/ AdminFindsNothing(c) \/ AdminReadUnlock(c)
    BY <2>1, <2>6 DEF AdminPage, AdminSwitch, AdminFindsNothing, AdminReadUnlock
  <2>7. CASE ReadRequest(c) \/ Misread(c) \/ ReadFails(c) \/ FindService(c) \/ CountLock(c)
             \/ CountUnlock(c) \/ Authenticate(c) \/ AdminReadLock(c) \/ AccountLock(c)
             \/ AccountUnlock(c) \/ Close(c)
    BY <2>7 DEF ReadRequest, Misread, ReadFails, FindService, CountLock, CountUnlock, Authenticate,
       AdminReadLock, AccountLock, AccountUnlock, Close
  <2>. QED
    BY <2>2, <2>3, <2>4, <2>5, <2>6, <2>7 DEF httpd_session_main
<1>4. CASE UNCHANGED <<header, log, out>>
  BY <1>4 DEF TypeOK
<1>5. ASSUME NEW by \in {0} \cup ServiceIds, NEW ran \in BOOLEAN, NEW body \in Bodies,
             SendWithLength(c, by, ran, body)
      PROVE  /\ header' \in [Conns -> Lengths] /\ log' \in [Conns -> Seq(Answers)]
             /\ out' \in [Conns -> {"NULL", "close", "length"}]
  <2>1. header' \in [Conns -> Lengths] /\ SendHeader(c) /\ Record(c, by, ran, body)
    BY <1>2, <1>5 DEF SendWithLength, Lengths
  <2>. QED
    BY <1>1, <2>1, AnswerTyped
<1>6. CASE service[c] \in {0} \cup ServiceIds /\ SendPage(c, service[c])
  <2>1. header' \in [Conns -> Lengths] /\ SendHeader(c) /\ Record(c, service[c], TRUE, "page")
    BY <1>2, <1>6 DEF SendPage
  <2>2. "page" \in Bodies
    BY DEF Bodies
  <2>. QED
    BY <1>1, <1>6, <2>1, <2>2, AnswerTyped
<1>. QED
  BY <1>3, <1>4, <1>5, <1>6

LEMMA RestTyped ==
  ASSUME TypeOK, Shapes, NEW c \in Conns, httpd_session_main(c), req' \in [Conns -> Requests]
  PROVE  /\ UNCHANGED <<default, sent>>
         /\ up' \in [ServiceIds -> BOOLEAN] /\ done' \in [Conns -> BOOLEAN]
<1>1. UNCHANGED <<default, sent>>
  BY DEF httpd_session_main, ReadRequest, ReadMalformed, Misread, ReadFails, FindService, ServiceDown,
     NoService, CountLock, CountUnlock, Authenticate, Unauthorized, NotImplemented, SoapProcess, AdminPage,
     AdminSwitch, AdminFindsNothing, AdminReadLock, AdminReadUnlock, AccountLock, AccountUnlock, Close, shared
<1>2. up' \in [ServiceIds -> BOOLEAN]
  <2>1. up \in [ServiceIds -> BOOLEAN]
    BY DEF TypeOK
  <2>2. CASE AdminSwitch(c)
    BY <2>1, <2>2 DEF AdminSwitch
  <2>3. ASSUME ~AdminSwitch(c) PROVE UNCHANGED up
    BY <2>3 DEF httpd_session_main, ReadRequest, ReadMalformed, Misread, ReadFails, FindService, ServiceDown,
     NoService, CountLock, CountUnlock, Authenticate, Unauthorized, NotImplemented, SoapProcess, AdminPage,
     AdminFindsNothing, AdminReadLock, AdminReadUnlock, AccountLock, AccountUnlock, Close, shared
  <2>. QED
    BY <2>1, <2>2, <2>3
<1>3. done' \in [Conns -> BOOLEAN]
  <2>1. done \in [Conns -> BOOLEAN] /\ out \in [Conns -> {"NULL", "close", "length"}]
    BY DEF TypeOK
  <2>2. \A r \in Requests : r.close \in BOOLEAN
    BY SessionAssumption
  <2>3. Strays \subseteq Requests
    BY SessionAssumption
  <2>4. CASE ReadRequest(c) \/ Misread(c)
    BY <2>1, <2>2, <2>3, <2>4 DEF ReadRequest, Misread
  <2>5. CASE ReadMalformed(c) \/ ReadFails(c) \/ NoService(c) \/ Unauthorized(c) \/ AccountUnlock(c)
    BY <2>1, <2>5 DEF ReadMalformed, ReadFails, NoService, Unauthorized, AccountUnlock
  <2>6. ASSUME ~(ReadRequest(c) \/ Misread(c) \/ ReadMalformed(c) \/ ReadFails(c) \/ NoService(c)
                 \/ Unauthorized(c) \/ AccountUnlock(c))
        PROVE  UNCHANGED done
    BY <2>6 DEF httpd_session_main, FindService, ServiceDown, CountLock, CountUnlock, Authenticate,
       NotImplemented, SoapProcess, AdminPage, AdminSwitch, AdminFindsNothing, AdminReadLock,
       AdminReadUnlock, AccountLock, Close
  <2>. QED
    BY <2>1, <2>4, <2>5, <2>6
<1>. QED
  BY <1>1, <1>2, <1>3

LEMMA NextTyped == ASSUME TypeOK, Inv, [Next]_vars PROVE TypeOK'
<1>1. Inv'
  BY NextInv
<1>2. ASSUME NEW c \in Conns, httpd_session_main(c) PROVE TypeOK'
  <2>1. req' \in [Conns -> Requests] /\ input' \in [Conns -> Seq(Units)]
    BY <1>2, RequestTyped, InputTyped
  <2>2. /\ header' \in [Conns -> Lengths] /\ log' \in [Conns -> Seq(Answers)]
        /\ out' \in [Conns -> {"NULL", "close", "length"}]
    BY <1>2, LogTyped DEF Inv
  <2>3. /\ UNCHANGED <<default, sent>>
        /\ up' \in [ServiceIds -> BOOLEAN] /\ done' \in [Conns -> BOOLEAN]
    BY <1>2, <2>1, RestTyped DEF Inv
  <2>4. default' \in Defaults /\ sent' \in Workloads
    BY <2>3 DEF TypeOK
  <2>. QED
    BY <1>1, <2>1, <2>2, <2>3, <2>4 DEF TypeOK, Inv, Shapes, Units
<1>3. CASE UNCHANGED vars
  BY <1>3 DEF TypeOK, vars, shared, session
<1>. QED
  BY <1>2, <1>3 DEF Next

-----------------------------------------------------------------------------
(* The recursive function of UnitsFrom is there: one for the last request, *)
(* and from one for the k last requests one for the k + 1 last. The least  *)
(* k without one would be neither.                                         *)
UnitsOf(r) == <<Unit("head", r)>> \o BodyUnits(r)

IsUnitsFrom(g, rs, m) ==
  /\ g \in [m .. Len(rs) + 1 -> Seq(Units)]
  /\ \A k \in m .. Len(rs) + 1 :
       g[k] = IF k = Len(rs) + 1 THEN << >> ELSE UnitsOf(rs[k]) \o g[k + 1]

LEMMA UnitsTyped == ASSUME NEW r \in Requests PROVE UnitsOf(r) \in Seq(Units) /\ BodyUnits(r) \in Seq(Units)
<1>1. Unit("head", r) \in Units /\ Unit("rest", r) \in Units /\ Unit("body", r) \in Units
  BY DEF Unit, Units
<1>2. /\ <<Unit("head", r)>> \in Seq(Units) /\ <<Unit("rest", r)>> \in Seq(Units)
      /\ <<Unit("body", r)>> \in Seq(Units) /\ << >> \in Seq(Units)
  BY <1>1
<1>3. BodyUnits(r) \in Seq(Units)
  <2>. DEFINE a == IF r.long THEN <<Unit("rest", r)>> ELSE << >>
              b == IF r.body = "none" THEN << >> ELSE <<Unit("body", r)>>
  <2>1. a \in Seq(Units) /\ b \in Seq(Units) /\ BodyUnits(r) = a \o b
    BY <1>2 DEF BodyUnits
  <2>. HIDE DEF a, b
  <2>. QED
    BY <2>1
<1>. QED
  BY <1>2, <1>3 DEF UnitsOf

LEMMA UnitsExist ==
  ASSUME NEW rs \in Seq(Requests), NEW j \in 0 .. Len(rs)
  PROVE  \E g : IsUnitsFrom(g, rs, Len(rs) + 1 - j)
<1>. DEFINE n == Len(rs)
            Without == {k \in 0 .. n : ~ \E g : IsUnitsFrom(g, rs, n + 1 - k)}
<1>0. n \in Nat
  OBVIOUS
<1>. SUFFICES ASSUME Without # {} PROVE FALSE
  OBVIOUS
<1>1. PICK k \in Without : \A l \in Without : k <= l
  <2>1. Without \subseteq Nat
    OBVIOUS
  <2>. HIDE DEF Without
  <2>. QED
    BY <2>1, SomeLeast
<1>2. k \in 0 .. n /\ ~ \E g : IsUnitsFrom(g, rs, n + 1 - k)
  OBVIOUS
<1>. HIDE DEF Without
<1>3. CASE k = 0
  <2>. DEFINE g == [i \in {n + 1} |-> << >>]
  <2>1. n + 1 .. n + 1 = {n + 1} /\ n + 1 - 0 = n + 1
    BY <1>0
  <2>2. << >> \in Seq(Units)
    OBVIOUS
  <2>3. IsUnitsFrom(g, rs, n + 1)
    BY <2>1, <2>2 DEF IsUnitsFrom
  <2>. QED
    BY <1>2, <1>3, <2>1, <2>3
<1>4. CASE k > 0
  <2>1. k - 1 \in 0 .. n /\ ~(k <= k - 1) /\ n + 1 - (k - 1) = (n + 1 - k) + 1
    BY <1>0, <1>2, <1>4
  <2>2. PICK g : IsUnitsFrom(g, rs, (n + 1 - k) + 1)
    BY <1>1, <2>1 DEF Without
  <2>3. PICK m \in 1 .. n : m = n + 1 - k
    BY <1>0, <1>2, <1>4
  <2>. DEFINE h == [i \in m .. n + 1 |-> IF i = m THEN UnitsOf(rs[m]) \o g[m + 1] ELSE g[i]]
  <2>4. rs[m] \in Requests /\ UnitsOf(rs[m]) \in Seq(Units)
    BY <2>3, UnitsTyped
  <2>5. /\ g \in [m + 1 .. n + 1 -> Seq(Units)] /\ m + 1 \in m + 1 .. n + 1
        /\ \A i \in m + 1 .. n + 1 : g[i] = IF i = n + 1 THEN << >> ELSE UnitsOf(rs[i]) \o g[i + 1]
    BY <1>0, <2>2, <2>3 DEF IsUnitsFrom
  <2>6. UnitsOf(rs[m]) \o g[m + 1] \in Seq(Units)
    BY <2>4, <2>5
  <2>7. \A i \in m .. n + 1 : i = m \/ i \in m + 1 .. n + 1
    BY <2>3
  <2>8. h \in [m .. n + 1 -> Seq(Units)]
    BY <2>5, <2>6, <2>7
  <2>9. ASSUME NEW i \in m .. n + 1
        PROVE  h[i] = IF i = n + 1 THEN << >> ELSE UnitsOf(rs[i]) \o h[i + 1]
    <3>1. i # n + 1 => i + 1 \in m .. n + 1 /\ i + 1 # m
      BY <1>0, <2>3
    <3>2. m # n + 1
      BY <1>0, <2>3
    <3>3. CASE i = m
      BY <3>1, <3>2, <3>3
    <3>4. CASE i # m
      <4>1. i \in m + 1 .. n + 1 /\ h[i] = g[i]
        BY <2>7, <3>4
      <4>2. i # n + 1 => h[i + 1] = g[i + 1]
        BY <3>1
      <4>. QED
        BY <2>5, <4>1, <4>2
    <3>. QED
      BY <3>3, <3>4
  <2>. HIDE DEF h
  <2>10. IsUnitsFrom(h, rs, m)
    BY <2>8, <2>9 DEF IsUnitsFrom
  <2>. QED
    BY <1>2, <2>3, <2>10
<1>. QED
  BY <1>0, <1>2, <1>3, <1>4

LEMMA UnitsFromFacts ==
  ASSUME NEW rs \in Seq(Requests), NEW i \in 1 .. Len(rs) + 1
  PROVE  /\ UnitsFrom(rs, i) \in Seq(Units)
         /\ UnitsFrom(rs, i) =
              IF i = Len(rs) + 1 THEN << >> ELSE UnitsOf(rs[i]) \o UnitsFrom(rs, i + 1)
<1>. DEFINE n == Len(rs)
            F(g) == [k \in 1 .. n + 1 |-> IF k = n + 1 THEN << >> ELSE UnitsOf(rs[k]) \o g[k + 1]]
            f == CHOOSE g : g = F(g)
<1>1. n \in Nat /\ n \in 0 .. n /\ n + 1 - n = 1
  OBVIOUS
<1>2. PICK g : IsUnitsFrom(g, rs, 1)
  BY <1>1, UnitsExist
<1>3. g = F(g)
  BY <1>2 DEF IsUnitsFrom
<1>4. f = F(f)
  BY <1>3
<1>5. \A k : UnitsFrom(rs, k) = f[k]
  BY DEF UnitsFrom, UnitsOf
<1>. HIDE DEF f
<1>6. f[i] = IF i = n + 1 THEN << >> ELSE UnitsOf(rs[i]) \o f[i + 1]
  BY <1>4
<1>7. f[i] \in Seq(Units)
  <2>. DEFINE Untyped == {k \in 0 .. n : f[n + 1 - k] \notin Seq(Units)}
  <2>. SUFFICES ASSUME Untyped # {} PROVE FALSE
    <3>1. n + 1 - i \in 0 .. n /\ n + 1 - (n + 1 - i) = i
      BY <1>1
    <3>. QED
      BY <3>1
  <2>1. Untyped \subseteq Nat
    OBVIOUS
  <2>2. PICK k \in Untyped : \A l \in Untyped : k <= l
    <3>. HIDE DEF Untyped
    <3>. QED
      BY <2>1, SomeLeast
  <2>3. PICK m \in 1 .. n + 1 : m = n + 1 - k /\ k \in 0 .. n /\ f[m] \notin Seq(Units)
    BY <1>1
  <2>4. f[m] = IF m = n + 1 THEN << >> ELSE UnitsOf(rs[m]) \o f[m + 1]
    BY <1>4
  <2>5. << >> \in Seq(Units)
    OBVIOUS
  <2>6. m # n + 1 /\ f[m] = UnitsOf(rs[m]) \o f[m + 1]
    BY <2>3, <2>4, <2>5
  <2>7. rs[m] \in Requests /\ UnitsOf(rs[m]) \in Seq(Units)
    BY <2>6, UnitsTyped
  <2>8. k - 1 \in 0 .. n /\ ~(k <= k - 1) /\ n + 1 - (k - 1) = m + 1
    BY <1>1, <2>3, <2>6
  <2>9. f[m + 1] \in Seq(Units)
    BY <2>2, <2>8
  <2>. QED
    BY <2>3, <2>6, <2>7, <2>9
<1>. QED
  BY <1>5, <1>6, <1>7

\* What is to be read where a request is expected, and behind its head.
LEMMA HeadAhead ==
  ASSUME NEW rs \in Seq(Requests), NEW i \in 1 .. Len(rs) + 1
  PROVE  /\ ~Adrift(UnitsFrom(rs, i))
         /\ i = Len(rs) + 1 => UnitsFrom(rs, i) = << >>
         /\ i # Len(rs) + 1 =>
              /\ i + 1 \in 1 .. Len(rs) + 1 /\ rs[i] \in Requests
              /\ UnitsFrom(rs, i) # << >> /\ Head(UnitsFrom(rs, i)).req = rs[i]
              /\ Tail(UnitsFrom(rs, i)) = BodyUnits(rs[i]) \o UnitsFrom(rs, i + 1)
<1>1. CASE i = Len(rs) + 1
  BY <1>1, UnitsFromFacts DEF Adrift
<1>2. CASE i # Len(rs) + 1
  <2>1. i + 1 \in 1 .. Len(rs) + 1 /\ rs[i] \in Requests
    BY <1>2
  <2>2. PICK u, b, s : /\ u = Unit("head", rs[i]) /\ b = BodyUnits(rs[i]) /\ s = UnitsFrom(rs, i + 1)
                       /\ u \in Units /\ b \in Seq(Units) /\ s \in Seq(Units)
    <3>1. Unit("head", rs[i]) \in Units
      BY <2>1 DEF Unit, Units
    <3>2. BodyUnits(rs[i]) \in Seq(Units)
      BY <2>1, UnitsTyped
    <3>3. UnitsFrom(rs, i + 1) \in Seq(Units)
      BY <2>1, UnitsFromFacts
    <3>. QED
      BY <3>1, <3>2, <3>3
  <2>3. UnitsFrom(rs, i) = (<<u>> \o b) \o s
    BY <1>2, <2>2, UnitsFromFacts DEF UnitsOf
  <2>4. /\ (<<u>> \o b) \o s # << >> /\ Head((<<u>> \o b) \o s) = u
        /\ Tail((<<u>> \o b) \o s) = b \o s
    <3>1. <<u>> \o b \in Seq(Units) /\ Len(<<u>> \o b) = 1 + Len(b) /\ (<<u>> \o b)[1] = u
      BY <2>2
    <3>2. (<<u>> \o b) \o s = <<u>> \o (b \o s)
      BY <2>2
    <3>3. b \o s \in Seq(Units)
      BY <2>2
    <3>. QED
      BY SMTT(30), <2>2, <3>2, <3>3
  <2>5. u.kind = "head" /\ u.req = rs[i]
    BY <2>2 DEF Unit
  <2>. QED
    BY <1>2, <2>1, <2>2, <2>3, <2>4, <2>5 DEF Adrift
<1>. QED
  BY <1>1, <1>2

LEMMA BodyAhead ==
  ASSUME NEW r \in Requests, ~r.long, NEW s \in Seq(Units), ~Adrift(s)
  PROVE  /\ ~Adrift(BodyUnits(r) \o s) => BodyUnits(r) \o s = s
         /\ Adrift(BodyUnits(r) \o s) => Tail(BodyUnits(r) \o s) = s
<1>1. CASE r.body = "none"
  <2>1. BodyUnits(r) \o s = s
    BY <1>1 DEF BodyUnits
  <2>. QED
    BY <2>1
<1>2. CASE r.body # "none"
  <2>1. PICK u : u = Unit("body", r) /\ u \in Units /\ u.kind = "body"
    <3>1. Unit("body", r) \in Units /\ Unit("body", r).kind = "body"
      BY DEF Unit, Units
    <3>. QED
      BY <3>1
  <2>2. BodyUnits(r) = <<u>>
    BY <1>2, <2>1 DEF BodyUnits
  <2>3. <<u>> \o s # << >> /\ Head(<<u>> \o s) = u /\ Tail(<<u>> \o s) = s
    BY <2>1
  <2>. QED
    BY <2>1, <2>2, <2>3 DEF Adrift
<1>. QED
  BY <1>1, <1>2

-----------------------------------------------------------------------------
(* The invariant of one connection. As long as no answer has left part of  *)
(* its request behind, the request in hand is what was read of the first   *)
(* one without an answer, and what its body has left and the requests      *)
(* behind it are still to be read.                                         *)
InHand == {"find", "count", "counting", "auth", "func", "reading"}
InStepUpTo(c, i) == \A j \in 1 .. i : ~log[c][j].left

RequestsInOrder(c) ==
  \A i \in DOMAIN log[c] :
    InStepUpTo(c, i - 1) => i <= Len(sent[c]) /\ log[c][i].req \in AsRead(sent[c][i])

Remaining(c) ==
  InStepUpTo(c, Len(log[c])) =>
    /\ spc[c] \in {"read", "account", "accounting"} =>
         Len(log[c]) <= Len(sent[c]) /\ input[c] = UnitsFrom(sent[c], Len(log[c]) + 1)
    /\ spc[c] \in InHand =>
         /\ Len(log[c]) < Len(sent[c]) /\ req[c] \in AsRead(sent[c][Len(log[c]) + 1])
         /\ ~req[c].long => input[c] = BodyUnits(req[c]) \o UnitsFrom(sent[c], Len(log[c]) + 2)

LastIsMine(c) ==
  /\ spc[c] \in InHand => done[c] = req[c].close
  /\ spc[c] \in {"account", "accounting"} =>
       /\ log[c] # << >> /\ done[c] = req[c].close /\ log[c][Len(log[c])].req = req[c]
       /\ out[c] = "close" <=> log[c][Len(log[c])].declared = NoLength

StepFine(c) == RequestsInOrder(c) /\ Remaining(c) /\ LastIsMine(c) /\ Delimited(c)

\* What of the state is a connection's own.
View(c) == <<spc[c], req[c], done[c], out[c], input[c], log[c], sent[c]>>

LEMMA SameView ==
  ASSUME NEW c \in Conns, StepFine(c), UNCHANGED View(c)
  PROVE  StepFine(c)'
<1>1. /\ spc'[c] = spc[c] /\ req'[c] = req[c] /\ done'[c] = done[c] /\ out'[c] = out[c]
      /\ input'[c] = input[c] /\ log'[c] = log[c] /\ sent'[c] = sent[c]
  BY DEF View
<1>. QED
  BY <1>1 DEF StepFine, RequestsInOrder, Remaining, LastIsMine, Delimited, InStepUpTo

\* The types of a connection's part, for both ends of a step.
LEMMA ViewTyped ==
  ASSUME TypeOK, NEW c \in Conns
  PROVE  /\ log[c] \in Seq(Answers) /\ sent[c] \in Seq(Requests) /\ input[c] \in Seq(Units)
         /\ Len(log[c]) \in Nat /\ Len(sent[c]) \in Nat
         /\ DOMAIN log[c] = 1 .. Len(log[c]) /\ req[c] \in Requests
<1>1. sent \in [Conns -> Seq(Requests)]
  BY SessionAssumption DEF TypeOK
<1>2. log[c] \in Seq(Answers) /\ input[c] \in Seq(Units) /\ req[c] \in Requests
  BY DEF TypeOK, Units
<1>. QED
  BY <1>1, <1>2

(* An answer is recorded that is the first for its request.                *)
LEMMA AnswerStep ==
  ASSUME TypeOK, TypeOK', NEW c \in Conns, StepFine(c), NEW a \in Answers,
         log'[c] = Append(log[c], a), sent'[c] = sent[c],
         spc'[c] \in {"account", "read", "close"},
         InStepUpTo(c, Len(log[c])) =>
           /\ Len(log[c]) < Len(sent[c]) /\ a.req \in AsRead(sent[c][Len(log[c]) + 1])
           /\ ~a.left => input'[c] = UnitsFrom(sent[c], Len(log[c]) + 2),
         spc'[c] = "account" =>
           /\ done'[c] = req'[c].close /\ a.req = req'[c]
           /\ out'[c] = "close" <=> a.declared = NoLength,
         spc'[c] = "read" => a.declared # NoLength /\ ~a.req.close
  PROVE  StepFine(c)'
<1>0. PICK n : n = Len(log[c])
  OBVIOUS
<1>1. /\ n \in Nat /\ DOMAIN log[c] = 1 .. n /\ DOMAIN log'[c] = 1 .. n + 1 /\ Len(log'[c]) = n + 1
      /\ log'[c][n + 1] = a /\ \A j \in 1 .. n : log'[c][j] = log[c][j]
      /\ log'[c] # << >> /\ Len(sent[c]) \in Nat
  <2>1. log[c] \in Seq(Answers) /\ n \in Nat /\ DOMAIN log[c] = 1 .. n /\ Len(sent[c]) \in Nat
    BY <1>0, ViewTyped
  <2>2. PICK l : l \in Seq(Answers) /\ l = log[c] /\ Len(l) = n
    BY <2>1
  <2>3. /\ Append(l, a) # << >> /\ Len(Append(l, a)) = n + 1 /\ DOMAIN Append(l, a) = 1 .. n + 1
        /\ Append(l, a)[n + 1] = a /\ \A j \in 1 .. n : Append(l, a)[j] = l[j]
    BY <2>2
  <2>. QED
    BY <2>1, <2>2, <2>3
<1>2. \A i \in 0 .. n : InStepUpTo(c, i)' <=> InStepUpTo(c, i)
  BY <1>1, SMTT(30) DEF InStepUpTo
<1>3. InStepUpTo(c, n + 1)' <=> InStepUpTo(c, n) /\ ~a.left
  <2>1. \A j : j \in 1 .. n + 1 <=> j \in 1 .. n \/ j = n + 1
    BY <1>1
  <2>2. InStepUpTo(c, n + 1)' <=> \A j \in 1 .. n + 1 : ~log'[c][j].left
    BY <1>1 DEF InStepUpTo
  <2>3. InStepUpTo(c, n) <=> \A j \in 1 .. n : ~log'[c][j].left
    BY <1>1 DEF InStepUpTo
  <2>. QED
    BY <1>1, <2>1, <2>2, <2>3
<1>4. RequestsInOrder(c)'
  <2>. SUFFICES ASSUME NEW i \in 1 .. n + 1, InStepUpTo(c, i - 1)'
               PROVE  i <= Len(sent[c]) /\ log'[c][i].req \in AsRead(sent[c][i])
    BY <1>1 DEF RequestsInOrder, InStepUpTo
  <2>1. i - 1 \in 0 .. n /\ InStepUpTo(c, i - 1)
    BY <1>1, <1>2
  <2>2. CASE i = n + 1
    <3>1. InStepUpTo(c, n)
      BY <1>1, <2>1, <2>2
    <3>. QED
      BY <1>0, <1>1, <2>2, <3>1
  <2>3. CASE i # n + 1
    <3>1. i \in 1 .. n
      BY <1>1, <2>3
    <3>. QED
      BY <1>1, <2>1, <3>1 DEF StepFine, RequestsInOrder
  <2>. QED
    BY <2>2, <2>3
<1>5. Remaining(c)'
  <2>1. n + 1 + 1 = n + 2
    BY <1>1
  <2>2. InStepUpTo(c, Len(log[c]))' => InStepUpTo(c, n) /\ ~a.left
    BY <1>1, <1>3 DEF InStepUpTo
  <2>. QED
    BY <1>0, <1>1, <2>1, <2>2 DEF Remaining, InHand
<1>6. LastIsMine(c)' /\ Delimited(c)'
  BY <1>1 DEF LastIsMine, Delimited, InHand
<1>. QED
  BY <1>4, <1>5, <1>6 DEF StepFine

\* The functions and refusals that leave the request in hand as it is.
LEMMA AnswerInHand ==
  ASSUME TypeOK, TypeOK', NEW c \in Conns, StepFine(c), spc[c] \in InHand, sent'[c] = sent[c],
         NEW by, NEW ran, NEW body, SendHeader(c), Record(c, by, ran, body),
         \/ input'[c] = input[c] \/ (Adrift(input[c]) /\ input'[c] = Tail(input[c]))
         \/ req[c].long,
         req'[c] = req[c],
         \/ spc'[c] = "account" /\ done'[c] = done[c]
         \/ spc'[c] \in {"close", "read"} /\ (spc'[c] = "read" => ~done[c] /\ header'[c] # NoLength)
  PROVE  StepFine(c)'
<1>1. PICK a : /\ a.req = req[c] /\ a.declared = header'[c] /\ (a.left <=> Adrift(input'[c]) \/ req[c].long)
               /\ log' = [log EXCEPT ![c] = Append(@, a)]
  <2>1. PICK a : /\ a = [req |-> req'[c], by |-> by, ran |-> ran, body |-> body,
                          declared |-> header'[c], left |-> Adrift(input'[c]) \/ req'[c].long]
                 /\ log' = [log EXCEPT ![c] = Append(@, a)]
    BY DEF Record
  <2>2. a.req = req'[c] /\ a.declared = header'[c] /\ a.left = (Adrift(input'[c]) \/ req'[c].long)
    BY <2>1
  <2>. QED
    BY <2>1, <2>2
<1>2. /\ log'[c] = Append(log[c], a) /\ a \in Answers
      /\ out'[c] = IF a.declared = NoLength THEN "close" ELSE "length"
  <2>1. log'[c] = Append(log[c], a)
    BY <1>1 DEF TypeOK
  <2>2. log'[c] \in Seq(Answers) /\ log[c] \in Seq(Answers)
    BY DEF TypeOK
  <2>3. Len(log[c]) + 1 \in 1 .. Len(Append(log[c], a)) /\ Append(log[c], a)[Len(log[c]) + 1] = a
    BY <2>2
  <2>4. a \in Answers
    BY <2>1, <2>2, <2>3
  <2>5. out'[c] = IF a.declared = NoLength THEN "close" ELSE "length"
    BY <1>1 DEF TypeOK, SendHeader
  <2>. QED
    BY <2>1, <2>4, <2>5
<1>3. ASSUME InStepUpTo(c, Len(log[c]))
      PROVE  /\ Len(log[c]) < Len(sent[c]) /\ a.req \in AsRead(sent[c][Len(log[c]) + 1])
             /\ ~a.left => input'[c] = UnitsFrom(sent[c], Len(log[c]) + 2)
  <2>1. /\ Len(log[c]) < Len(sent[c]) /\ req[c] \in AsRead(sent[c][Len(log[c]) + 1])
        /\ ~req[c].long => input[c] = BodyUnits(req[c]) \o UnitsFrom(sent[c], Len(log[c]) + 2)
    BY <1>3 DEF StepFine, Remaining
  <2>2. Len(log[c]) + 2 \in 1 .. Len(sent[c]) + 1 /\ sent[c] \in Seq(Requests) /\ req[c] \in Requests
    <3>1. log[c] \in Seq(Answers) /\ sent[c] \in Seq(Requests) /\ req[c] \in Requests
      BY ViewTyped
    <3>2. \A a1, b1 \in Nat : a1 < b1 => a1 + 2 \in 1 .. b1 + 1
      OBVIOUS
    <3>3. Len(log[c]) \in Nat /\ Len(sent[c]) \in Nat
      BY ViewTyped
    <3>. QED
      BY <2>1, <3>1, <3>2, <3>3, ZenonT(60)
  <2>3. PICK s \in Seq(Units) : s = UnitsFrom(sent[c], Len(log[c]) + 2) /\ ~Adrift(s)
    BY <2>2, UnitsFromFacts, HeadAhead
  <2>4. ~req[c].long /\ ~Adrift(input'[c]) => input'[c] = s
    BY <2>1, <2>2, <2>3, BodyAhead
  <2>. QED
    BY <1>1, <2>1, <2>3, <2>4
<1>4. done[c] = req[c].close
  BY DEF StepFine, LastIsMine
<1>. QED
  BY <1>1, <1>2, <1>3, <1>4, AnswerStep

-----------------------------------------------------------------------------
(* The steps, one session's own variables at a time.                       *)

\* A session leaves what is another connection's alone.
LEMMA Others ==
  ASSUME TypeOK, NEW c \in Conns, httpd_session_main(c), NEW d \in Conns, d # c
  PROVE  UNCHANGED View(d)
<1>1. /\ DOMAIN spc = Conns /\ DOMAIN req = Conns /\ DOMAIN done = Conns /\ DOMAIN out = Conns
      /\ DOMAIN input = Conns /\ DOMAIN log = Conns
  BY DEF TypeOK
<1>2. spc'[d] = spc[d] /\ req'[d] = req[d] /\ done'[d] = done[d] /\ input'[d] = input[d] /\ sent'[d] = sent[d]
  <2>1. CASE ReadRequest(c) \/ ReadMalformed(c) \/ Misread(c) \/ ReadFails(c) \/ FindService(c)
    BY <1>1, <2>1 DEF ReadRequest, ReadMalformed, Misread, ReadFails, FindService, Goto, Loop
  <2>2. CASE ServiceDown(c) \/ NoService(c) \/ CountLock(c) \/ CountUnlock(c) \/ Authenticate(c)
             \/ Unauthorized(c) \/ NotImplemented(c)
    BY <1>1, <2>2 DEF ServiceDown, NoService, CountLock, CountUnlock, Authenticate, Unauthorized,
       NotImplemented, Goto, Loop
  <2>3. CASE SoapProcess(c)
    BY <1>1, <2>3 DEF SoapProcess, Goto
  <2>4. CASE AdminPage(c) \/ AdminSwitch(c) \/ AdminFindsNothing(c) \/ AdminReadLock(c)
             \/ AdminReadUnlock(c) \/ AccountLock(c) \/ AccountUnlock(c) \/ Close(c)
    BY <1>1, <2>4 DEF AdminPage, AdminSwitch, AdminFindsNothing, AdminReadLock, AdminReadUnlock,
       AccountLock, AccountUnlock, Close, Goto, Loop
  <2>. QED
    BY <2>1, <2>2, <2>3, <2>4 DEF httpd_session_main
<1>3. out'[d] = out[d] /\ log'[d] = log[d]
  <2>1. UNCHANGED <<out, log>> \/ (SendHeader(c) /\ \E by, ran, body : Record(c, by, ran, body))
    <3>1. CASE ReadMalformed(c) \/ ServiceDown(c) \/ NoService(c) \/ Unauthorized(c) \/ NotImplemented(c)
               \/ SoapProcess(c)
      BY <3>1 DEF ReadMalformed, ServiceDown, NoService, Unauthorized, NotImplemented, SoapProcess,
         SendWithLength
    <3>2. CASE AdminPage(c) \/ AdminSwitch(c) \/ AdminFindsNothing(c) \/ AdminReadUnlock(c)
      BY <3>2 DEF AdminPage, AdminSwitch, AdminFindsNothing, AdminReadUnlock, SendPage
    <3>3. CASE ReadRequest(c) \/ Misread(c) \/ ReadFails(c) \/ FindService(c) \/ CountLock(c)
               \/ CountUnlock(c) \/ Authenticate(c) \/ AdminReadLock(c) \/ AccountLock(c)
               \/ AccountUnlock(c) \/ Close(c)
      BY <3>3 DEF ReadRequest, Misread, ReadFails, FindService, CountLock, CountUnlock, Authenticate,
         AdminReadLock, AccountLock, AccountUnlock, Close
    <3>. QED
      BY <3>1, <3>2, <3>3 DEF httpd_session_main
  <2>. QED
    BY <1>1, <2>1 DEF SendHeader, Record
<1>. QED
  BY <1>2, <1>3 DEF View

\* Finding the service, counting, authenticating, and the admin page's lock.
LEMMA InHandStep ==
  ASSUME TypeOK, NEW c \in Conns, StepFine(c), spc[c] \in InHand, spc'[c] \in InHand,
         UNCHANGED <<req, done, out, input, sent, log>>
  PROVE  StepFine(c)'
BY DEF StepFine, RequestsInOrder, Remaining, LastIsMine, Delimited, InStepUpTo, InHand

LEMMA DispatchFine ==
  ASSUME TypeOK, NEW c \in Conns, StepFine(c),
         FindService(c) \/ CountLock(c) \/ CountUnlock(c) \/ Authenticate(c) \/ AdminReadLock(c)
  PROVE  StepFine(c)'
<1>1. UNCHANGED <<req, done, out, input, sent, log>>
  BY DEF FindService, CountLock, CountUnlock, Authenticate, AdminReadLock
<1>2. spc[c] \in InHand /\ spc'[c] \in InHand
  BY DEF FindService, CountLock, CountUnlock, Authenticate, AdminReadLock, AdminRuns, Goto, InHand, TypeOK
<1>. QED
  BY <1>1, <1>2, InHandStep

\* Where a request is expected and the connection is in step, one is ahead.
LEMMA ReadAhead ==
  ASSUME TypeOK, NEW c \in Conns, StepFine(c), spc[c] = "read", InStepUpTo(c, Len(log[c]))
  PROVE  /\ ~Adrift(input[c])
         /\ input[c] # << >> =>
              /\ Len(log[c]) < Len(sent[c]) /\ Len(log[c]) + 2 \in 1 .. Len(sent[c]) + 1
              /\ sent[c][Len(log[c]) + 1] \in Requests
              /\ Head(input[c]).req = sent[c][Len(log[c]) + 1]
              /\ Tail(input[c]) = BodyUnits(sent[c][Len(log[c]) + 1]) \o UnitsFrom(sent[c], Len(log[c]) + 2)
<1>1. Len(log[c]) <= Len(sent[c]) /\ input[c] = UnitsFrom(sent[c], Len(log[c]) + 1)
  BY DEF StepFine, Remaining
<1>2. PICK n \in Nat : n = Len(log[c]) /\ Len(sent[c]) \in Nat /\ sent[c] \in Seq(Requests)
  BY ViewTyped
<1>3. n + 1 \in 1 .. Len(sent[c]) + 1 /\ n + 1 + 1 = n + 2
  BY <1>1, <1>2
<1>4. ~Adrift(UnitsFrom(sent[c], n + 1)) /\ (n + 1 = Len(sent[c]) + 1 => UnitsFrom(sent[c], n + 1) = << >>)
  BY <1>2, <1>3, HeadAhead
<1>5. ASSUME input[c] # << >>
      PROVE  /\ n < Len(sent[c]) /\ n + 2 \in 1 .. Len(sent[c]) + 1
             /\ sent[c][n + 1] \in Requests
             /\ Head(input[c]).req = sent[c][n + 1]
             /\ Tail(input[c]) = BodyUnits(sent[c][n + 1]) \o UnitsFrom(sent[c], n + 2)
  <2>1. n + 1 # Len(sent[c]) + 1
    BY <1>1, <1>2, <1>4, <1>5
  <2>2. PICK rs \in Seq(Requests) : rs = sent[c]
    BY <1>2
  <2>3. /\ n + 1 + 1 \in 1 .. Len(rs) + 1 /\ rs[n + 1] \in Requests
        /\ Head(UnitsFrom(rs, n + 1)).req = rs[n + 1]
        /\ Tail(UnitsFrom(rs, n + 1)) = BodyUnits(rs[n + 1]) \o UnitsFrom(rs, n + 1 + 1)
    BY <1>3, <2>1, <2>2, HeadAhead
  <2>4. n < Len(rs) /\ n + 2 \in 1 .. Len(rs) + 1
    BY <1>1, <1>2, <2>1, <2>2, <1>3
  <2>. QED
    BY <1>1, <1>2, <1>3, <2>2, <2>3, <2>4
<1>. QED
  BY <1>1, <1>2, <1>4, <1>5

LEMMA ReadFine ==
  ASSUME TypeOK, NEW c \in Conns, StepFine(c), ReadRequest(c) \/ Misread(c) \/ ReadFails(c) \/ Close(c)
  PROVE  StepFine(c)'
<1>1. UNCHANGED <<out, sent, log>>
  BY DEF ReadRequest, Misread, ReadFails, Close
<1>2. RequestsInOrder(c)'
  BY <1>1 DEF StepFine, RequestsInOrder, InStepUpTo
<1>3. CASE ReadFails(c) \/ Close(c)
  <2>1. spc'[c] \in {"close", "ended"}
    BY <1>3 DEF ReadFails, Close, Goto, Loop, TypeOK
  <2>. QED
    BY <1>2, <2>1 DEF StepFine, Remaining, LastIsMine, Delimited, InHand
<1>4. CASE ReadRequest(c) \/ Misread(c)
  <2>1. spc[c] = "read" /\ spc'[c] = "find" /\ done'[c] = req'[c].close
    BY <1>4 DEF ReadRequest, Misread, Goto, TypeOK
  <2>2. ASSUME InStepUpTo(c, Len(log[c]))
        PROVE  /\ Len(log[c]) < Len(sent[c]) /\ req'[c] \in AsRead(sent[c][Len(log[c]) + 1])
               /\ ~req'[c].long => input'[c] = BodyUnits(req'[c]) \o UnitsFrom(sent[c], Len(log[c]) + 2)
    <3>1. ReadRequest(c)
      BY <1>4, <2>1, <2>2, ReadAhead DEF Misread
    <3>2. input[c] # << >> /\ req'[c] \in AsRead(Head(input[c]).req) /\ input'[c] = Tail(input[c])
      BY <3>1 DEF ReadRequest, TypeOK
    <3>3. /\ Len(log[c]) < Len(sent[c]) /\ sent[c][Len(log[c]) + 1] \in Requests
          /\ Head(input[c]).req = sent[c][Len(log[c]) + 1]
          /\ Tail(input[c]) = BodyUnits(sent[c][Len(log[c]) + 1]) \o UnitsFrom(sent[c], Len(log[c]) + 2)
      BY <2>1, <2>2, <3>2, ReadAhead
    <3>4. ~req'[c].long => req'[c] = sent[c][Len(log[c]) + 1]
      BY <3>2, <3>3, AsReadFacts
    <3>. QED
      BY <3>2, <3>3, <3>4
  <2>3. Remaining(c)'
    BY <1>1, <2>1, <2>2 DEF Remaining, InStepUpTo
  <2>. QED
    BY <1>2, <2>1, <2>3 DEF StepFine, LastIsMine, Delimited
<1>. QED
  BY <1>3, <1>4

LEMMA MalformedFine ==
  ASSUME TypeOK, TypeOK', NEW c \in Conns, StepFine(c), ReadMalformed(c)
  PROVE  StepFine(c)'
<1>1. spc[c] = "read" /\ input[c] # << >> /\ spc'[c] = "close" /\ UNCHANGED sent
  BY DEF ReadMalformed, Loop, Goto, TypeOK
<1>2. PICK r \in AsRead(Head(input[c]).req) :
        /\ r.body = "mime" /\ req'[c] = r
        /\ \E left \in BodyRead(Tail(input[c]), r) : input'[c] = left
  BY DEF ReadMalformed, TypeOK
<1>3. PICK a : a = [req |-> req'[c], by |-> 0, ran |-> FALSE, body |-> "400",
                    declared |-> header'[c], left |-> Adrift(input'[c]) \/ req'[c].long]
  OBVIOUS
<1>4. a.req = r /\ log'[c] = Append(log[c], a) /\ (r.long => a.left)
  BY <1>2, <1>3 DEF ReadMalformed, SendWithLength, Record, TypeOK
<1>5. a \in Answers
  <2>1. /\ req'[c] \in Requests /\ header'[c] \in Lengths
        /\ (Adrift(input'[c]) \/ req'[c].long) \in BOOLEAN /\ "400" \in Bodies
    BY DEF TypeOK, Bodies
  <2>. QED
    BY <1>3, <2>1 DEF Answers
<1>6. ASSUME InStepUpTo(c, Len(log[c]))
      PROVE  /\ Len(log[c]) < Len(sent[c]) /\ r \in AsRead(sent[c][Len(log[c]) + 1])
             /\ ~r.long => input'[c] = UnitsFrom(sent[c], Len(log[c]) + 2)
  <2>1. /\ Len(log[c]) < Len(sent[c]) /\ Len(log[c]) + 2 \in 1 .. Len(sent[c]) + 1
        /\ Head(input[c]).req = sent[c][Len(log[c]) + 1] /\ sent[c][Len(log[c]) + 1] \in Requests
        /\ Tail(input[c]) = BodyUnits(sent[c][Len(log[c]) + 1]) \o UnitsFrom(sent[c], Len(log[c]) + 2)
    BY <1>1, <1>6, ReadAhead
  <2>2. ASSUME ~r.long PROVE input'[c] = UnitsFrom(sent[c], Len(log[c]) + 2)
    <3>1. r \in Requests /\ r = sent[c][Len(log[c]) + 1]
      BY <1>2, <2>1, <2>2, AsReadFacts
    <3>2. PICK s \in Seq(Units) : s = UnitsFrom(sent[c], Len(log[c]) + 2) /\ ~Adrift(s)
      <4>1. sent[c] \in Seq(Requests)
        BY ViewTyped
      <4>. QED
        BY <2>1, <4>1, UnitsFromFacts, HeadAhead
    <3>3. PICK t : t = BodyUnits(r) \o s /\ t = Tail(input[c]) /\ t \in Seq(Units)
      <4>1. BodyUnits(r) \o s \in Seq(Units)
        BY <3>1, <3>2, UnitsTyped
      <4>. QED
        BY <2>1, <3>1, <3>2, <4>1
    <3>4. PICK left \in BodyRead(t, r) : input'[c] = left
      BY <1>2, <3>3
    <3>5. input'[c] = IF Adrift(t) THEN Tail(t) ELSE t
      BY <2>2, <3>1, <3>3, <3>4, BodyReadTyped
    <3>6. (~Adrift(t) => t = s) /\ (Adrift(t) => Tail(t) = s)
      <4>1. r \in Requests /\ ~r.long /\ s \in Seq(Units) /\ ~Adrift(s)
        BY <2>2, <3>1, <3>2
      <4>2. /\ ~Adrift(BodyUnits(r) \o s) => BodyUnits(r) \o s = s
            /\ Adrift(BodyUnits(r) \o s) => Tail(BodyUnits(r) \o s) = s
        BY <4>1, BodyAhead, Zenon
      <4>. QED
        BY <3>3, <4>2, Zenon
    <3>. QED
      BY <3>2, <3>5, <3>6
  <2>. QED
    BY <1>2, <2>1, <2>2
<1>. QED
  BY <1>1, <1>2, <1>4, <1>5, <1>6, AnswerStep

LEMMA AnswersFine ==
  ASSUME TypeOK, TypeOK', NEW c \in Conns, StepFine(c),
         \/ ServiceDown(c) \/ NoService(c) \/ Unauthorized(c) \/ NotImplemented(c)
         \/ SoapProcess(c) \/ AdminPage(c) \/ AdminSwitch(c) \/ AdminFindsNothing(c) \/ AdminReadUnlock(c)
  PROVE  StepFine(c)'
<1>1. spc[c] \in InHand /\ UNCHANGED <<sent, req>>
  BY DEF ServiceDown, NoService, Unauthorized, NotImplemented, SoapProcess, AdminPage, AdminSwitch,
     AdminFindsNothing, AdminReadUnlock, AdminRuns, InHand
<1>2. SendHeader(c) /\ \E by, ran, body : Record(c, by, ran, body)
  BY DEF ServiceDown, NoService, Unauthorized, NotImplemented, SoapProcess, AdminPage, AdminSwitch,
     AdminFindsNothing, AdminReadUnlock, SendWithLength, SendPage
<1>3. \/ input'[c] = input[c] \/ (Adrift(input[c]) /\ input'[c] = Tail(input[c]))
      \/ req[c].long
  <2>1. CASE SoapProcess(c)
    <3>1. PICK left \in {input[c]} \cup BodyRead(input[c], req[c]) : input' = [input EXCEPT ![c] = left]
      BY <2>1 DEF SoapProcess
    <3>2. input[c] \in Seq(Units) /\ req[c] \in Requests /\ input'[c] = left
      BY <3>1 DEF TypeOK, Units
    <3>. QED
      BY <3>1, <3>2, BodyReadTyped
  <2>2. ASSUME ~SoapProcess(c) PROVE UNCHANGED input
    BY <2>2 DEF ServiceDown, NoService, Unauthorized, NotImplemented, AdminPage, AdminSwitch,
       AdminFindsNothing, AdminReadUnlock
  <2>. QED
    BY <2>1, <2>2
<1>4. \/ spc'[c] = "account" /\ done'[c] = done[c]
      \/ spc'[c] \in {"close", "read"} /\ (spc'[c] = "read" => ~done[c] /\ header'[c] # NoLength)
  <2>1. CASE ServiceDown(c) \/ NotImplemented(c)
    <3>1. UNCHANGED done /\ header'[c] \in Bodies
      BY <2>1 DEF ServiceDown, NotImplemented, SendWithLength, TypeOK, Bodies
    <3>2. header'[c] # NoLength
      BY <3>1, SessionAssumption
    <3>. QED
      BY <2>1, <3>1, <3>2 DEF ServiceDown, NotImplemented, Loop, Goto, TypeOK
  <2>2. CASE NoService(c) \/ Unauthorized(c)
    BY <2>2 DEF NoService, Unauthorized, Loop, Goto, TypeOK
  <2>3. CASE SoapProcess(c) \/ AdminPage(c) \/ AdminSwitch(c) \/ AdminFindsNothing(c) \/ AdminReadUnlock(c)
    BY <2>3 DEF SoapProcess, AdminPage, AdminSwitch, AdminFindsNothing, AdminReadUnlock, Goto, TypeOK
  <2>. QED
    BY <2>1, <2>2, <2>3
<1>. QED
  BY <1>1, <1>2, <1>3, <1>4, AnswerInHand

LEMMA AccountFine ==
  ASSUME TypeOK, NEW c \in Conns, StepFine(c), AccountLock(c) \/ AccountUnlock(c)
  PROVE  StepFine(c)'
<1>1. UNCHANGED <<req, out, input, sent, log>>
  BY DEF AccountLock, AccountUnlock
<1>2. RequestsInOrder(c)'
  BY <1>1 DEF StepFine, RequestsInOrder, InStepUpTo
<1>3. CASE AccountLock(c)
  <2>1. spc[c] = "account" /\ spc'[c] = "accounting" /\ UNCHANGED done
    BY <1>3 DEF AccountLock, Goto, TypeOK
  <2>. QED
    BY <1>1, <1>2, <2>1 DEF StepFine, Remaining, LastIsMine, Delimited, InStepUpTo, InHand
<1>4. CASE AccountUnlock(c)
  <2>1. /\ spc[c] = "accounting" /\ done'[c] = (done[c] \/ out[c] = "close")
        /\ spc'[c] = IF done'[c] THEN "close" ELSE "read"
    BY <1>4 DEF AccountUnlock, Goto, Loop, TypeOK
  <2>2. Remaining(c)' /\ LastIsMine(c)'
    BY <1>1, <2>1 DEF StepFine, Remaining, LastIsMine, InStepUpTo, InHand
  <2>3. Delimited(c)'
    <3>. SUFFICES ASSUME spc'[c] = "read" PROVE log[c][Len(log[c])].declared # NoLength /\ ~log[c][Len(log[c])].req.close
      BY <1>1 DEF Delimited
    <3>. QED
      BY <2>1 DEF StepFine, LastIsMine
  <2>. QED
    BY <1>2, <2>2, <2>3 DEF StepFine
<1>. QED
  BY <1>3, <1>4

LEMMA NextFine ==
  ASSUME TypeOK, TypeOK', \A c \in Conns : StepFine(c), [Next]_vars
  PROVE  \A c \in Conns : StepFine(c)'
<1>1. ASSUME NEW c \in Conns, httpd_session_main(c), NEW d \in Conns PROVE StepFine(d)'
  <2>1. CASE d # c
    BY <1>1, <2>1, Others, SameView
  <2>2. CASE d = c
    BY <1>1, <2>2, DispatchFine, ReadFine, MalformedFine, AnswersFine, AccountFine DEF httpd_session_main
  <2>. QED
    BY <2>1, <2>2
<1>2. ASSUME UNCHANGED vars, NEW d \in Conns PROVE StepFine(d)'
  <2>1. UNCHANGED View(d)
    BY <1>2 DEF vars, session, View
  <2>. QED
    BY <2>1, SameView
<1>. QED
  BY <1>1, <1>2 DEF Next

LEMMA InitFine == ASSUME Init PROVE TypeOK /\ \A c \in Conns : StepFine(c)
<1>1. sent \in [Conns -> Seq(Requests)] /\ (CHOOSE r \in Requests : TRUE) \in Requests
  BY SessionAssumption DEF Init
<1>2. \A c \in Conns : UnitsFrom(sent[c], 1) \in Seq(Units)
  <2>1. \A c \in Conns : sent[c] \in Seq(Requests) /\ 1 \in 1 .. Len(sent[c]) + 1
    BY <1>1
  <2>. QED
    BY <2>1, UnitsFromFacts
<1>3. TypeOK
  <2>1. input \in [Conns -> Seq(Units)] /\ req \in [Conns -> Requests]
    BY <1>1, <1>2 DEF Init
  <2>2. statistics \in [ServiceIds -> Statistics] /\ copy \in [Conns -> Statistics]
    BY DEF Init, NoStatistics, Statistics, Sums
  <2>3. log \in [Conns -> Seq(Answers)]
    BY DEF Init
  <2>. QED
    BY <2>1, <2>2, <2>3 DEF Init, TypeOK, Units, SessionPC, Lengths
<1>4. ASSUME NEW c \in Conns PROVE StepFine(c)
  <2>1. spc[c] = "read" /\ log[c] = << >> /\ Len(log[c]) = 0 /\ input[c] = UnitsFrom(sent[c], 1) /\ DOMAIN log[c] = {}
    BY <1>4 DEF Init
  <2>2. Len(sent[c]) \in Nat
    BY <1>1, <1>4
  <2>. QED
    BY <2>1, <2>2 DEF StepFine, RequestsInOrder, Remaining, LastIsMine, Delimited, InHand
<1>. QED
  BY <1>3, <1>4

\* The inductive invariant of what follows.
StepInv == Inv /\ TypeOK /\ \A c \in Conns : StepFine(c)

(* It holds in every state the sessions reach.                             *)
THEOREM StepInvariance == Spec => []StepInv
<1>1. Init => StepInv
  BY InitInv, InitFine DEF StepInv
<1>2. StepInv /\ [Next]_vars => StepInv'
  BY NextInv, NextTyped, NextFine DEF StepInv
<1>. QED
  BY <1>1, <1>2, PTL DEF Spec

(* Every variable keeps its type, whatever requests the connections carry  *)
(* and whatever their unread bodies spell.                                 *)
THEOREM TypeCorrect == Spec => []TypeOK
<1>1. StepInv => TypeOK
  BY DEF StepInv
<1>. QED
  BY <1>1, StepInvariance, PTL

(* The answers on a connection answer its requests, as they were read, in  *)
(* their order for as long as no head is longer than MAX_HEADER_SIZE and   *)
(* every service function has read the body of its request, and the        *)
(* connection goes on only behind an answer whose end can be told.         *)
THEOREM AnswersInStep == Spec => []InStep
<1>1. StepInv => InStep
  BY DEF StepInv, StepFine, RequestsInOrder, Remaining, InStepUpTo, InStep
<1>. QED
  BY <1>1, StepInvariance, PTL

-----------------------------------------------------------------------------
(* The statistics of a service are exact for any number of connections and *)
(* requests: what is answered or under way has been counted once, and for  *)
(* each answer of its function the totals have been added once.            *)
\* The answers of a service, and the sessions that have counted a request
\* but not answered it.
Counted(s) == UNION {{c} \X {i \in DOMAIN log[c] : log[c][i].by = s} : c \in Conns}
Underway(s) == {c \in Conns : service[c] = s /\ spc[c] \in {"auth", "func", "reading"}}

CountInv ==
  \A s \in ServiceIds :
    /\ IsFiniteSet(Counted(s))
    /\ statistics[s].requests = Cardinality(Counted(s)) + Cardinality(Underway(s))

\* What has been added to a service's time: each total once.
AddedOnce(s) ==
  LET time == statistics[s].time
  IN  /\ {time[i] : i \in DOMAIN time} = Accounted(s)
      /\ \A i, j \in DOMAIN time : i # j => time[i] # time[j]

Settling == {"account", "accounting"}

\* A session that accounts for an answer has just given it.
LastAnswer(c) ==
  spc[c] \in Settling =>
    log[c] # << >> /\ log[c][Len(log[c])].by = service[c] /\ log[c][Len(log[c])].ran

SumInv == (\A s \in ServiceIds : AddedOnce(s)) /\ \A c \in Conns : LastAnswer(c)

-----------------------------------------------------------------------------
LEMMA OneMore ==
  ASSUME NEW T, IsFiniteSet(T), NEW x, x \notin T
  PROVE  IsFiniteSet(T \cup {x}) /\ Cardinality(T \cup {x}) = Cardinality(T) + 1
<1>1. IsFiniteSet(T \cup {x})
      /\ Cardinality(T \cup {x}) = IF x \in T THEN Cardinality(T) ELSE Cardinality(T) + 1
  BY FS_AddElement, Zenon
<1>2. QED
  BY <1>1

LEMMA OneLess ==
  ASSUME NEW T, IsFiniteSet(T), NEW x \in T
  PROVE  Cardinality(T \ {x}) = Cardinality(T) - 1
BY FS_RemoveElement

LEMMA SessionSets ==
  ASSUME NEW s
  PROVE  IsFiniteSet(Underway(s)) /\ Cardinality(Underway(s)) \in Nat
<1>1. Underway(s) \subseteq Conns
  BY DEF Underway
<1>2. QED
  BY <1>1, SessionAssumption, FS_Subset, FS_CardinalityType

(* What an answer adds.                                                    *)
LEMMA AnswerLog ==
  ASSUME Shapes, NEW c \in Conns, NEW by, NEW ran, NEW body, Record(c, by, ran, body)
  PROVE  \E n \in Nat \ {0} : \E a :
           /\ a.ran = ran /\ a.by = by
           /\ DOMAIN log[c] = 1 .. n - 1 /\ Len(log[c]) = n - 1
           /\ DOMAIN log'[c] = 1 .. n /\ Len(log'[c]) = n /\ log'[c] # << >> /\ log'[c][n] = a
           /\ \A i \in 1 .. n - 1 : log'[c][i] = log[c][i]
           /\ \A d \in Conns : d # c => log'[d] = log[d]
<1>1. PICK a : /\ a.ran = ran /\ a.by = by
               /\ log' = [log EXCEPT ![c] = Append(@, a)]
  <2> DEFINE a == [req |-> req'[c], by |-> by, ran |-> ran, body |-> body,
                   declared |-> header'[c], left |-> Adrift(input'[c]) \/ req'[c].long]
  <2>1. a.ran = ran /\ a.by = by
    OBVIOUS
  <2>2. log' = [log EXCEPT ![c] = Append(@, a)]
    BY DEF Record
  <2> HIDE DEF a
  <2>3. QED
    BY <2>1, <2>2
<1>2. PICK S : log[c] \in Seq(S)
  BY DEF Shapes
<1>3. PICK n \in Nat \ {0} : n = Len(log[c]) + 1
  BY <1>2
<1>4. DOMAIN log[c] = 1 .. n - 1 /\ Len(log[c]) = n - 1 /\ log[c] \in Seq(S \cup {a})
  <2>1. Len(log[c]) \in Nat /\ DOMAIN log[c] = 1 .. Len(log[c]) /\ log[c] \in Seq(S \cup {a})
    BY <1>2
  <2>2. n - 1 = Len(log[c])
    BY <1>3, <2>1
  <2>3. QED
    BY <2>1, <2>2
<1>5. PICK l : l = Append(log[c], a) /\ l \in Seq(S \cup {a})
  <2>1. PICK k, T : k \in Seq(T) /\ a \in T /\ k = log[c] /\ T = S \cup {a}
    BY <1>4
  <2>2. Append(k, a) \in Seq(T)
    BY <2>1
  <2>3. QED
    BY <2>1, <2>2
<1>6. DOMAIN l = 1 .. n /\ Len(l) = n /\ l # << >> /\ l[n] = a /\ \A i \in 1 .. n - 1 : l[i] = log[c][i]
  BY <1>3, <1>4, <1>5
<1>7. log'[c] = l /\ \A d \in Conns : d # c => log'[d] = log[d]
  BY <1>1, <1>5 DEF Shapes
<1>8. QED
  BY <1>1, <1>4, <1>6, <1>7

LEMMA AnswerAdds ==
  ASSUME Shapes, NEW c \in Conns, NEW by, NEW ran, NEW body, Record(c, by, ran, body), NEW s
  PROVE  \E x : /\ x \notin Counted(s)
                /\ Counted(s)' = IF by = s THEN Counted(s) \cup {x} ELSE Counted(s)
<1>1. PICK n \in Nat \ {0} : \E a :
        /\ a.ran = ran /\ a.by = by
        /\ DOMAIN log[c] = 1 .. n - 1 /\ DOMAIN log'[c] = 1 .. n /\ log'[c][n] = a
        /\ \A i \in 1 .. n - 1 : log'[c][i] = log[c][i]
        /\ \A d \in Conns : d # c => log'[d] = log[d]
  BY AnswerLog
<1>2. PICK a :
        /\ a.ran = ran /\ a.by = by
        /\ DOMAIN log[c] = 1 .. n - 1 /\ DOMAIN log'[c] = 1 .. n /\ log'[c][n] = a
        /\ \A i \in 1 .. n - 1 : log'[c][i] = log[c][i]
        /\ \A d \in Conns : d # c => log'[d] = log[d]
  BY <1>1
<1>3. PICK x : x = <<c, n>>
  OBVIOUS
<1>4. \A y : /\ y \in Counted(s) <=> \E d \in Conns : \E i \in DOMAIN log[d] :
                                       y = <<d, i>> /\ log[d][i].by = s
             /\ y \in Counted(s)' <=> \E d \in Conns : \E i \in DOMAIN log'[d] :
                                        y = <<d, i>> /\ log'[d][i].by = s
  BY DEF Counted
<1>5. x \notin Counted(s)
  BY <1>2, <1>3, <1>4
<1>6. ASSUME NEW d \in Conns, NEW i
      PROVE  i \in DOMAIN log'[d] <=> i \in DOMAIN log[d] \/ (d = c /\ i = n)
  BY <1>2
<1>7. ASSUME NEW d \in Conns, NEW i \in DOMAIN log[d] PROVE log'[d][i] = log[d][i]
  BY <1>2
<1>8. \A y : y \in Counted(s)' <=> y \in Counted(s) \/ (y = x /\ by = s)
  BY <1>2, <1>3, <1>4, <1>6, <1>7
<1>9. QED
  BY <1>5, <1>8

LEMMA InitCount == ASSUME Init PROVE CountInv /\ SumInv
<1>1. \A s : Counted(s) = {} /\ Accounted(s) = {} /\ Underway(s) = {}
  BY DEF Init, Counted, Accounted, Underway
<1>2. Cardinality({}) = 0 /\ IsFiniteSet({})
  BY FS_EmptySet
<1>3. \A s \in ServiceIds : statistics[s].requests = 0 /\ statistics[s].time = << >>
  BY DEF Init, NoStatistics
<1>4. SumInv
  <2>1. \A s \in ServiceIds : AddedOnce(s)
    BY <1>1, <1>3 DEF AddedOnce
  <2>2. \A c \in Conns : LastAnswer(c)
    BY DEF Init, LastAnswer, Settling
  <2>3. QED
    BY <2>1, <2>2 DEF SumInv
<1>5. CountInv
  <2>1. ASSUME NEW s \in ServiceIds
        PROVE  /\ IsFiniteSet(Counted(s))
               /\ statistics[s].requests = Cardinality(Counted(s)) + Cardinality(Underway(s))
    <3>1. Cardinality(Counted(s)) = 0 /\ Cardinality(Underway(s)) = 0 /\ IsFiniteSet(Counted(s))
      BY <1>1, <1>2
    <3>2. statistics[s].requests = 0
      BY <1>3
    <3>3. QED
      BY <3>1, <3>2
  <2>2. QED
    BY <2>1 DEF CountInv
<1>6. QED
  BY <1>4, <1>5

-----------------------------------------------------------------------------
(* Where a session is decides in which sets it is.                         *)
Counting == {"auth", "func", "reading"}

Steps(c, to) ==
  /\ spc' = [spc EXCEPT ![c] = to]
  /\ \A d \in Conns : d # c => service'[d] = service[d]

LEMMA PlacesChange ==
  ASSUME Inv, NEW c \in Conns, NEW to, Steps(c, to), NEW s
  PROVE  Underway(s)' = (Underway(s) \ {c})
                        \cup (IF service'[c] = s /\ to \in Counting THEN {c} ELSE {})
<1>1. spc'[c] = to /\ \A d \in Conns : d # c => spc'[d] = spc[d]
  BY DEF Inv, Shapes, Steps
<1>2. \A d : /\ d \in Underway(s)' <=> d \in Conns /\ service'[d] = s /\ spc'[d] \in Counting
             /\ d \in Underway(s) <=> d \in Conns /\ service[d] = s /\ spc[d] \in Counting
  BY DEF Underway, Counting
<1>3. QED
  BY <1>1, <1>2 DEF Steps

\* What has been accounted for, one answer at a time.
LEMMA AccountedFacts ==
  ASSUME NEW s, NEW y
  PROVE  /\ y \in Accounted(s) <=>
              \E d \in Conns : \E i \in DOMAIN log[d] :
                /\ y = <<d, i>> /\ log[d][i].by = s /\ log[d][i].ran
                /\ i = Len(log[d]) => spc[d] \notin Settling
         /\ y \in Accounted(s)' <=>
              \E d \in Conns : \E i \in DOMAIN log'[d] :
                /\ y = <<d, i>> /\ log'[d][i].by = s /\ log'[d][i].ran
                /\ i = Len(log'[d]) => spc'[d] \notin Settling
BY DEF Accounted, Settling

(* A step that answers nothing and changes no count.                       *)
LEMMA QuietCount ==
  ASSUME Inv, CountInv, SumInv, NEW c \in Conns, NEW to, Steps(c, to), UNCHANGED log,
         \A s \in ServiceIds : /\ statistics'[s].requests = statistics[s].requests
                               /\ statistics'[s].time = statistics[s].time,
         \/ /\ spc[c] \notin Counting \cup Settling
            /\ to \notin Counting \cup Settling
         \/ /\ service'[c] = service[c]
            /\ spc[c] \in Counting <=> to \in Counting
            /\ spc[c] \in Settling <=> to \in Settling
  PROVE  CountInv' /\ SumInv'
<1>1. ASSUME NEW s PROVE Counted(s)' = Counted(s)
  BY DEF Counted
<1>2. ASSUME NEW s PROVE Underway(s)' = Underway(s)
  <2>1. c \in Underway(s) <=> service[c] = s /\ spc[c] \in Counting
    BY DEF Underway, Counting
  <2>2. Underway(s)' = (Underway(s) \ {c})
                       \cup (IF service'[c] = s /\ to \in Counting THEN {c} ELSE {})
    BY PlacesChange
  <2>3. QED
    BY <2>1, <2>2
<1>3. \A d \in Conns : /\ spc'[d] \in Settling <=> spc[d] \in Settling
                       /\ spc[d] \in Settling => service'[d] = service[d]
  BY DEF Steps, Inv, Shapes
<1>4. ASSUME NEW s PROVE Accounted(s)' = Accounted(s)
  <2>1. \A y : y \in Accounted(s)' <=> y \in Accounted(s)
    BY <1>3, AccountedFacts
  <2>2. QED
    BY <2>1
<1>5. SumInv'
  BY <1>3, <1>4 DEF SumInv, AddedOnce, LastAnswer
<1>6. QED
  BY <1>1, <1>2, <1>5 DEF CountInv

(* An answer: by no service, or by the one that counted the request.       *)
LEMMA AnswerCount ==
  ASSUME Inv, CountInv, SumInv, NEW c \in Conns, NEW to, Steps(c, to), UNCHANGED statistics,
         NEW by, NEW ran \in BOOLEAN, NEW body, Record(c, by, ran, body),
         \/ /\ by = 0 /\ ~ran
            /\ spc[c] \notin Counting \cup Settling /\ to \notin Counting \cup Settling
         \/ /\ by \in ServiceIds /\ by = service[c] /\ service'[c] = service[c]
            /\ spc[c] \in Counting /\ to \notin Counting
            /\ ran <=> to \in Settling
  PROVE  CountInv' /\ SumInv'
<1>0. Counting \cap Settling = {}
  BY DEF Counting, Settling
<1>1. ASSUME NEW s \in ServiceIds
      PROVE  /\ IsFiniteSet(Counted(s)')
             /\ statistics'[s].requests = Cardinality(Counted(s)') + Cardinality(Underway(s)')
  <2>1. PICK x : /\ x \notin Counted(s)
                 /\ Counted(s)' = IF by = s THEN Counted(s) \cup {x} ELSE Counted(s)
    BY AnswerAdds, ZenonT(60) DEF Inv
  <2>2. /\ IsFiniteSet(Counted(s))
        /\ statistics[s].requests = Cardinality(Counted(s)) + Cardinality(Underway(s))
    BY DEF CountInv
  <2>3. /\ Underway(s)' = (Underway(s) \ {c})
                          \cup (IF service'[c] = s /\ to \in Counting THEN {c} ELSE {})
        /\ c \in Underway(s) <=> service[c] = s /\ spc[c] \in Counting
    BY PlacesChange DEF Underway, Counting
  <2>4. s # 0
    BY ServiceFacts
  <2>5. CASE by # s
    <3>1. Underway(s)' = Underway(s)
      BY <2>3, <2>5
    <3>2. QED
      BY <2>1, <2>2, <2>5, <3>1
  <2>6. CASE by = s
    <3>1. c \in Underway(s) /\ Underway(s)' = Underway(s) \ {c}
      BY <2>3, <2>4, <2>6
    <3>2. IsFiniteSet(Underway(s)) /\ Cardinality(Underway(s)) \in Nat
      BY SessionSets
    <3>3. Cardinality(Underway(s)') = Cardinality(Underway(s)) - 1
      BY <3>1, <3>2, OneLess
    <3>4. /\ IsFiniteSet(Counted(s)') /\ Cardinality(Counted(s)') = Cardinality(Counted(s)) + 1
          /\ Cardinality(Counted(s)) \in Nat
      BY <2>1, <2>2, <2>6, OneMore, FS_CardinalityType
    <3>5. QED
      BY <2>2, <3>2, <3>3, <3>4
  <2>7. QED
    BY <2>5, <2>6
<1>2. PICK n \in Nat \ {0} : \E a :
        /\ a.ran = ran /\ a.by = by
        /\ DOMAIN log[c] = 1 .. n - 1 /\ Len(log[c]) = n - 1
        /\ DOMAIN log'[c] = 1 .. n /\ Len(log'[c]) = n /\ log'[c] # << >> /\ log'[c][n] = a
        /\ \A i \in 1 .. n - 1 : log'[c][i] = log[c][i]
        /\ \A d \in Conns : d # c => log'[d] = log[d]
  BY AnswerLog DEF Inv
<1>3. /\ log'[c][n].ran = ran /\ log'[c][n].by = by
      /\ DOMAIN log[c] = 1 .. n - 1 /\ Len(log[c]) = n - 1
      /\ DOMAIN log'[c] = 1 .. n /\ Len(log'[c]) = n /\ log'[c] # << >>
      /\ \A i \in 1 .. n - 1 : log'[c][i] = log[c][i]
      /\ \A d \in Conns : d # c => log'[d] = log[d]
  BY <1>2
<1>4. /\ spc[c] \notin Settling /\ spc'[c] = to
      /\ \A d \in Conns : d # c => spc'[d] = spc[d] /\ service'[d] = service[d]
  BY <1>0 DEF Steps, Inv, Shapes
<1>5. ran => to \in Settling
  OBVIOUS
<1>6. ASSUME NEW s PROVE Accounted(s)' = Accounted(s)
  <2>1. ASSUME NEW d \in Conns, NEW i
        PROVE  (/\ i \in DOMAIN log'[d] /\ log'[d][i].by = s /\ log'[d][i].ran
                /\ i = Len(log'[d]) => spc'[d] \notin Settling)
               <=>
               (/\ i \in DOMAIN log[d] /\ log[d][i].by = s /\ log[d][i].ran
                /\ i = Len(log[d]) => spc[d] \notin Settling)
    <3>1. CASE d # c
      BY <1>3, <1>4, <3>1
    <3>2. CASE d = c /\ i = n
      BY <1>3, <1>4, <1>5, <3>2
    <3>3. CASE d = c /\ i # n
      <4>1. i \in 1 .. n <=> i \in 1 .. n - 1
        BY <3>3
      <4>2. QED
        BY <1>3, <1>4, <3>3, <4>1
    <3>4. QED
      BY <3>1, <3>2, <3>3
  <2>2. \A y : y \in Accounted(s)' <=> y \in Accounted(s)
    BY <2>1, AccountedFacts
  <2>3. QED
    BY <2>2
<1>7. ASSUME NEW d \in Conns PROVE LastAnswer(d)'
  <2>1. CASE d = c
    BY <1>3, <1>4, <1>5, <2>1 DEF LastAnswer
  <2>2. CASE d # c
    BY <1>3, <1>4, <2>2 DEF LastAnswer, SumInv
  <2>3. QED
    BY <2>1, <2>2
<1>8. SumInv'
  BY <1>6, <1>7 DEF SumInv, AddedOnce
<1>9. QED
  BY <1>1, <1>8 DEF CountInv

-----------------------------------------------------------------------------
(* Each of a session's steps is of one of these kinds.                     *)
LEMMA CountUnlockCount ==
  ASSUME Inv, CountInv, SumInv, NEW c \in Conns, CountUnlock(c)
  PROVE  CountInv' /\ SumInv'
<1>1. /\ spc[c] = "counting" /\ Steps(c, "auth") /\ UNCHANGED <<service, log>>
      /\ statistics' = [statistics EXCEPT ![service[c]].requests = copy[c].requests + 1]
  BY DEF CountUnlock, Goto, Steps
<1>2. /\ service[c] \in ServiceIds /\ copy[c] = statistics[service[c]]
      /\ statistics \in [ServiceIds -> Statistics]
  BY <1>1 DEF Inv, Shapes, Served, CopyInv
<1>3. ASSUME NEW s \in ServiceIds
      PROVE  /\ IsFiniteSet(Counted(s)')
             /\ statistics'[s].requests = Cardinality(Counted(s)') + Cardinality(Underway(s)')
  <2>1. Counted(s)' = Counted(s)
    BY <1>1 DEF Counted
  <2>2. /\ Underway(s)' = (Underway(s) \ {c}) \cup (IF service[c] = s THEN {c} ELSE {})
        /\ c \notin Underway(s)
    <3>1. Underway(s)' = (Underway(s) \ {c})
                         \cup (IF service'[c] = s /\ "auth" \in Counting THEN {c} ELSE {})
      BY <1>1, PlacesChange
    <3>2. c \notin Underway(s) /\ "auth" \in Counting
      BY <1>1 DEF Underway, Counting
    <3>3. QED
      BY <1>1, <3>1, <3>2
  <2>3. /\ IsFiniteSet(Counted(s)) /\ Cardinality(Counted(s)) \in Nat
        /\ statistics[s].requests = Cardinality(Counted(s)) + Cardinality(Underway(s))
        /\ Cardinality(Underway(s)) \in Nat /\ IsFiniteSet(Underway(s))
    BY FS_CardinalityType, SessionSets DEF CountInv
  <2>4. CASE s = service[c]
    <3>1. statistics'[s].requests = statistics[s].requests + 1
      BY <1>1, <1>2, <2>4 DEF Statistics
    <3>2. Cardinality(Underway(s)') = Cardinality(Underway(s)) + 1
      <4>1. Underway(s)' = Underway(s) \cup {c}
        BY <2>2, <2>4
      <4>2. QED
        BY <2>2, <2>3, <4>1, OneMore
    <3>3. QED
      BY <2>1, <2>3, <3>1, <3>2
  <2>5. CASE s # service[c]
    <3>1. statistics'[s] = statistics[s] /\ Underway(s)' = Underway(s)
      BY <1>1, <1>2, <2>2, <2>5
    <3>2. QED
      BY <2>1, <2>3, <3>1
  <2>6. QED
    BY <2>4, <2>5
<1>4. \A s \in ServiceIds : statistics'[s].time = statistics[s].time
  BY <1>1, <1>2 DEF Statistics
<1>5. \A d \in Conns : spc'[d] \in Settling <=> spc[d] \in Settling
  BY <1>1 DEF Settling, Steps, Inv, Shapes
<1>6. ASSUME NEW s PROVE Accounted(s)' = Accounted(s)
  <2>1. \A y : y \in Accounted(s)' <=> y \in Accounted(s)
    BY <1>1, <1>5, AccountedFacts
  <2>2. QED
    BY <2>1
<1>7. SumInv'
  BY <1>1, <1>4, <1>5, <1>6 DEF SumInv, AddedOnce, LastAnswer
<1>8. QED
  BY <1>3, <1>7 DEF CountInv

LEMMA AccountUnlockCount ==
  ASSUME Inv, CountInv, SumInv, NEW c \in Conns, AccountUnlock(c)
  PROVE  CountInv' /\ SumInv'
<1>1. PICK to \in {"read", "close"} : Steps(c, to)
  BY DEF AccountUnlock, Goto, Loop, Steps
<1>2. /\ spc[c] = "accounting" /\ UNCHANGED <<service, log>>
      /\ statistics' = [statistics EXCEPT ![service[c]].time = Append(@, Total(c))]
  BY DEF AccountUnlock
<1>3. service[c] \in ServiceIds /\ statistics \in [ServiceIds -> Statistics]
  BY <1>2 DEF Inv, Shapes, Served
<1>4. ASSUME NEW s \in ServiceIds
      PROVE  /\ IsFiniteSet(Counted(s)')
             /\ statistics'[s].requests = Cardinality(Counted(s)') + Cardinality(Underway(s)')
  <2>1. Counted(s)' = Counted(s)
    BY <1>2 DEF Counted
  <2>2. Underway(s)' = Underway(s)
    <3>1. Underway(s)' = (Underway(s) \ {c})
                         \cup (IF service'[c] = s /\ to \in Counting THEN {c} ELSE {})
      BY <1>1, PlacesChange
    <3>2. c \notin Underway(s) /\ to \notin Counting
      BY <1>2 DEF Underway, Counting
    <3>3. QED
      BY <3>1, <3>2
  <2>3. statistics'[s].requests = statistics[s].requests
    BY <1>2, <1>3 DEF Statistics
  <2>4. QED
    BY <2>1, <2>2, <2>3 DEF CountInv
<1>5. PICK n \in Nat : n = Len(log[c]) /\ n \in DOMAIN log[c] /\ Total(c) = <<c, n>>
  <2>1. log[c] # << >>
    BY <1>2 DEF SumInv, LastAnswer, Settling
  <2>2. PICK S : log[c] \in Seq(S)
    BY DEF Inv, Shapes
  <2>3. Len(log[c]) \in Nat /\ Len(log[c]) \in DOMAIN log[c]
    BY <2>1, <2>2
  <2>4. QED
    BY <2>3 DEF Total
<1>6. log[c][n].by = service[c] /\ log[c][n].ran
  BY <1>2, <1>5 DEF SumInv, LastAnswer, Settling
<1>7. /\ spc[c] \in Settling /\ spc'[c] \notin Settling
      /\ \A d \in Conns : d # c => spc'[d] = spc[d]
  BY <1>1, <1>2 DEF Settling, Steps, Inv, Shapes
<1>8. ASSUME NEW s
      PROVE  \A y : y \in Accounted(s)' <=> y \in Accounted(s) \/ (y = <<c, n>> /\ s = service[c])
  <2>1. ASSUME NEW d \in Conns, NEW i \in DOMAIN log[d], log[d][i].by = s, log[d][i].ran
        PROVE  (i = Len(log'[d]) => spc'[d] \notin Settling)
               <=> (i = Len(log[d]) => spc[d] \notin Settling) \/ (d = c /\ i = n)
    BY <1>2, <1>5, <1>7
  <2>2. ASSUME NEW y, NEW d \in Conns, NEW i \in DOMAIN log[d], y = <<d, i>>, log[d][i].by = s, log[d][i].ran
        PROVE  (i = Len(log'[d]) => spc'[d] \notin Settling)
               <=> (i = Len(log[d]) => spc[d] \notin Settling) \/ y = <<c, n>>
    BY <2>1, <2>2
  <2>3. DOMAIN log' = DOMAIN log /\ \A d : log'[d] = log[d]
    BY <1>2
  <2>4. ASSUME NEW y PROVE y \in Accounted(s)' => y \in Accounted(s) \/ (y = <<c, n>> /\ s = service[c])
    <3>1. SUFFICES ASSUME y \in Accounted(s)' PROVE y \in Accounted(s) \/ (y = <<c, n>> /\ s = service[c])
      OBVIOUS
    <3>2. PICK d \in Conns : \E i \in DOMAIN log[d] :
            /\ y = <<d, i>> /\ log[d][i].by = s /\ log[d][i].ran
            /\ i = Len(log'[d]) => spc'[d] \notin Settling
      BY <2>3, <3>1, AccountedFacts
    <3>3. PICK i \in DOMAIN log[d] :
            /\ y = <<d, i>> /\ log[d][i].by = s /\ log[d][i].ran
            /\ i = Len(log'[d]) => spc'[d] \notin Settling
      BY <3>2
    <3>4. (i = Len(log[d]) => spc[d] \notin Settling) \/ y = <<c, n>>
      BY <2>2, <3>3
    <3>5. CASE y = <<c, n>>
      BY <1>6, <3>3, <3>5
    <3>6. CASE i = Len(log[d]) => spc[d] \notin Settling
      BY <3>3, <3>6, AccountedFacts
    <3>7. QED
      BY <3>4, <3>5, <3>6
  <2>5. ASSUME NEW y, y \in Accounted(s) PROVE y \in Accounted(s)'
    <3>1. PICK d \in Conns : \E i \in DOMAIN log[d] :
            /\ y = <<d, i>> /\ log[d][i].by = s /\ log[d][i].ran
            /\ i = Len(log[d]) => spc[d] \notin Settling
      BY <2>5, AccountedFacts
    <3>2. PICK i \in DOMAIN log[d] :
            /\ y = <<d, i>> /\ log[d][i].by = s /\ log[d][i].ran
            /\ i = Len(log[d]) => spc[d] \notin Settling
      BY <3>1
    <3>3. i = Len(log'[d]) => spc'[d] \notin Settling
      BY <2>2, <3>2
    <3>4. QED
      BY <2>3, <3>2, <3>3, AccountedFacts
  <2>6. s = service[c] => <<c, n>> \in Accounted(s)'
    <3>1. n = Len(log'[c]) => spc'[c] \notin Settling
      BY <1>7
    <3>2. QED
      BY <1>5, <1>6, <2>3, <3>1, AccountedFacts
  <2>7. QED
    BY <2>4, <2>5, <2>6
<1>9. <<c, n>> \notin Accounted(service[c])
  BY <1>5, <1>7, AccountedFacts
<1>10. ASSUME NEW s \in ServiceIds PROVE AddedOnce(s)'
  <2>1. AddedOnce(s)
    BY DEF SumInv
  <2>2. CASE s # service[c]
    <3>1. statistics'[s].time = statistics[s].time
      BY <1>2, <1>3, <2>2
    <3>2. \A y : y \in Accounted(s)' <=> y \in Accounted(s)
      BY <1>8, <2>2
    <3>3. Accounted(s)' = Accounted(s)
      BY <3>2
    <3>4. QED
      BY <2>1, <3>1, <3>3 DEF AddedOnce
  <2>3. CASE s = service[c]
    <3>0. /\ statistics[s].time \in Sums
          /\ statistics'[s].time = Append(statistics[s].time, <<c, n>>)
      BY <1>2, <1>3, <1>5, <2>3 DEF Statistics
    <3>1. PICK t, u : /\ t = statistics[s].time /\ t \in Sums
                      /\ u = Append(t, <<c, n>>) /\ u = statistics'[s].time
      BY <3>0
    <3>2. PICK m \in Nat : /\ DOMAIN t = 1 .. m /\ DOMAIN u = 1 .. m + 1
                           /\ u[m + 1] = <<c, n>> /\ \A i \in 1 .. m : u[i] = t[i]
      <4>1. Len(t) \in Nat /\ DOMAIN t = 1 .. Len(t) /\ <<c, n>> \in Conns \X Nat
        BY <3>1 DEF Sums
      <4>2. /\ DOMAIN Append(t, <<c, n>>) = 1 .. Len(t) + 1
            /\ Append(t, <<c, n>>)[Len(t) + 1] = <<c, n>>
            /\ \A i \in 1 .. Len(t) : Append(t, <<c, n>>)[i] = t[i]
        BY <3>1, <4>1 DEF Sums
      <4>3. QED
        BY <3>1, <4>1, <4>2
    <3>3. {t[i] : i \in DOMAIN t} = Accounted(s) /\ \A i, j \in DOMAIN t : i # j => t[i] # t[j]
      BY <2>1, <3>1 DEF AddedOnce
    <3>4. \A i : i \in DOMAIN u <=> i \in DOMAIN t \/ i = m + 1
      BY <3>2
    <3>5. {u[i] : i \in DOMAIN u} = Accounted(s)'
      <4>1. \A y : y \in {u[i] : i \in DOMAIN u} <=> y \in {t[i] : i \in DOMAIN t} \/ y = <<c, n>>
        BY <3>2, <3>4
      <4>2. QED
        BY <1>8, <2>3, <3>3, <4>1
    <3>6. \A i \in DOMAIN t : t[i] # <<c, n>>
      BY <1>9, <2>3, <3>3
    <3>7. ASSUME NEW i \in DOMAIN u, NEW j \in DOMAIN u, i # j PROVE u[i] # u[j]
      <4>1. CASE i \in DOMAIN t /\ j \in DOMAIN t
        BY <3>2, <3>3, <3>7, <4>1
      <4>2. CASE i \in DOMAIN t /\ j = m + 1
        BY <3>2, <3>6, <4>2
      <4>3. CASE i = m + 1 /\ j \in DOMAIN t
        BY <3>2, <3>6, <4>3
      <4>4. QED
        BY <3>4, <3>7, <4>1, <4>2, <4>3
    <3>8. QED
      BY <3>1, <3>5, <3>7 DEF AddedOnce
  <2>4. QED
    BY <2>2, <2>3
<1>11. ASSUME NEW d \in Conns PROVE LastAnswer(d)'
  BY <1>2, <1>7 DEF LastAnswer, SumInv
<1>12. QED
  BY <1>4, <1>10, <1>11 DEF CountInv, SumInv

LEMMA ReadCount ==
  ASSUME Inv, CountInv, SumInv, NEW c \in Conns,
         \/ ReadRequest(c) \/ Misread(c) \/ ReadFails(c) \/ FindService(c) \/ Close(c)
         \/ Authenticate(c) \/ CountLock(c) \/ AdminReadLock(c) \/ AccountLock(c)
  PROVE  CountInv' /\ SumInv'
<1>1. \/ /\ spc[c] \in {"read", "find", "count", "close"}
         /\ \E to \in {"read", "find", "count", "counting", "close", "ended"} : Steps(c, to)
      \/ /\ spc[c] \in {"auth", "func"} /\ UNCHANGED service
         /\ \E to \in {"func", "reading"} : Steps(c, to)
      \/ spc[c] = "account" /\ UNCHANGED service /\ Steps(c, "accounting")
  <2>1. ASSUME ReadRequest(c) \/ Misread(c) \/ ReadFails(c) \/ Close(c)
        PROVE  /\ spc[c] \in {"read", "close"}
               /\ \E to \in {"read", "find", "close", "ended"} : Steps(c, to)
    BY <2>1 DEF ReadRequest, Misread, ReadFails, Close, Steps, Goto, Loop
  <2>2. ASSUME FindService(c) \/ CountLock(c)
        PROVE  /\ spc[c] \in {"find", "count"}
               /\ \E to \in {"count", "counting"} : Steps(c, to)
    BY <2>2 DEF FindService, CountLock, Steps, Goto, Inv, Shapes
  <2>3. ASSUME Authenticate(c) \/ AdminReadLock(c)
        PROVE  /\ spc[c] \in {"auth", "func"} /\ UNCHANGED service
               /\ \E to \in {"func", "reading"} : Steps(c, to)
    BY <2>3 DEF Authenticate, AdminReadLock, AdminRuns, Steps, Goto
  <2>4. ASSUME AccountLock(c)
        PROVE  spc[c] = "account" /\ UNCHANGED service /\ Steps(c, "accounting")
    BY <2>4 DEF AccountLock, Steps, Goto
  <2>5. QED
    BY <2>1, <2>2, <2>3, <2>4
<1>2. UNCHANGED log
      /\ \A s \in ServiceIds : /\ statistics'[s].requests = statistics[s].requests
                               /\ statistics'[s].time = statistics[s].time
  <2>1. UNCHANGED log
        /\ (UNCHANGED statistics \/ statistics' = [statistics EXCEPT ![service[c]].bytes = Append(@, Total(c))])
    BY DEF ReadRequest, Misread, ReadFails, FindService, Close, Authenticate, CountLock,
           AdminReadLock, AccountLock, shared, locks
  <2>2. statistics \in [ServiceIds -> Statistics]
    BY DEF Inv, Shapes
  <2>3. QED
    BY <2>1, <2>2 DEF Statistics
<1>3. QED
  BY <1>1, <1>2, QuietCount DEF Counting, Settling

LEMMA AnsweringCount ==
  ASSUME Inv, CountInv, SumInv, NEW c \in Conns,
         \/ ReadMalformed(c) \/ ServiceDown(c) \/ NoService(c) \/ Unauthorized(c) \/ NotImplemented(c)
         \/ SoapProcess(c) \/ AdminPage(c) \/ AdminSwitch(c) \/ AdminFindsNothing(c) \/ AdminReadUnlock(c)
  PROVE  CountInv' /\ SumInv'
<1>1. CASE ReadMalformed(c) \/ ServiceDown(c) \/ NoService(c)
  <2>1. /\ spc[c] \in {"read", "find"} /\ UNCHANGED statistics
        /\ \E to \in {"read", "close"} : Steps(c, to)
        /\ \E body : Record(c, 0, FALSE, body)
    BY <1>1 DEF ReadMalformed, ServiceDown, NoService, SendWithLength, shared, Steps, Goto, Loop,
                Inv, Shapes
  <2>2. QED
    BY <2>1, AnswerCount DEF Counting, Settling
<1>2. CASE Unauthorized(c) \/ NotImplemented(c)
  <2>1. /\ spc[c] = "auth" /\ UNCHANGED <<statistics, service>>
        /\ \E to \in {"read", "close"} : Steps(c, to)
        /\ \E body : Record(c, service[c], FALSE, body)
    BY <1>2 DEF Unauthorized, NotImplemented, SendWithLength, shared, Steps, Goto, Loop
  <2>2. service[c] \in ServiceIds
    BY <2>1 DEF Inv, Shapes, Served
  <2>3. QED
    BY <2>1, <2>2, AnswerCount DEF Counting, Settling
<1>3. CASE SoapProcess(c) \/ AdminPage(c) \/ AdminSwitch(c) \/ AdminFindsNothing(c) \/ AdminReadUnlock(c)
  <2>1. /\ spc[c] \in {"func", "reading"} /\ UNCHANGED <<statistics, service>>
        /\ Steps(c, "account")
        /\ \E body : Record(c, service[c], TRUE, body)
    BY <1>3 DEF SoapProcess, AdminPage, AdminSwitch, AdminFindsNothing, AdminReadUnlock, AdminRuns,
                SendWithLength, SendPage, shared, Steps, Goto
  <2>2. service[c] \in ServiceIds
    BY <2>1 DEF Inv, Shapes, Served
  <2>3. /\ "func" \in Counting /\ "reading" \in Counting
        /\ "account" \in Settling /\ "account" \notin Counting
    BY DEF Counting, Settling
  <2>4. PICK body : Record(c, service[c], TRUE, body)
    BY <2>1
  <2>5. QED
    BY <2>1, <2>2, <2>3, <2>4, AnswerCount
<1>4. QED
  BY <1>1, <1>2, <1>3

LEMMA NextCount == ASSUME Inv, CountInv, SumInv, [Next]_vars PROVE CountInv' /\ SumInv'
<1>1. ASSUME NEW c \in Conns, httpd_session_main(c) PROVE CountInv' /\ SumInv'
  <2>1. CASE \/ ReadMalformed(c) \/ ServiceDown(c) \/ NoService(c) \/ Unauthorized(c)
             \/ NotImplemented(c) \/ SoapProcess(c) \/ AdminPage(c) \/ AdminSwitch(c)
             \/ AdminFindsNothing(c) \/ AdminReadUnlock(c)
    BY <2>1, AnsweringCount
  <2>2. CASE \/ ReadRequest(c) \/ Misread(c) \/ ReadFails(c) \/ FindService(c) \/ Close(c)
             \/ Authenticate(c) \/ CountLock(c) \/ AdminReadLock(c) \/ AccountLock(c)
    BY <2>2, ReadCount
  <2>3. CASE CountUnlock(c) \/ AccountUnlock(c)
    BY <2>3, CountUnlockCount, AccountUnlockCount
  <2>4. QED
    BY <1>1, <2>1, <2>2, <2>3 DEF httpd_session_main
<1>2. CASE UNCHANGED vars
  <2>1. UNCHANGED <<statistics, service, spc, log>>
    BY <1>2 DEF vars, shared, session
  <2>2. \A s : /\ Counted(s)' = Counted(s) /\ Accounted(s)' = Accounted(s)
               /\ Underway(s)' = Underway(s)
    BY <2>1 DEF Counted, Accounted, Underway
  <2>3. QED
    BY <2>1, <2>2 DEF CountInv, SumInv, AddedOnce, LastAnswer
<1>3. QED
  BY <1>1, <1>2 DEF Next

(* No session's update of a service's statistics is ever lost, for any     *)
(* number of connections, services and requests: every request is counted  *)
(* once, and what the connection's counters and the session's clock showed *)
(* at an answer of its function is added once.                             *)
THEOREM NoLostUpdate == Spec => []StatisticsExact
<1>1. Init => CountInv /\ SumInv
  BY InitCount
<1>2. Inv /\ (CountInv /\ SumInv) /\ [Next]_vars => (CountInv /\ SumInv)'
  BY NextCount
<1>3. Inv /\ CountInv /\ SumInv => StatisticsExact
  <2> SUFFICES ASSUME Inv, CountInv, SumInv, NEW s \in ServiceIds
               PROVE  /\ statistics[s].requests =
                           Answered(LAMBDA a : a.by = s) + At(s, {"auth", "func", "reading"})
                      /\ AddedOnce(s)
    BY DEF StatisticsExact, AddedOnce
  <2>1. Answered(LAMBDA a : a.by = s) = Cardinality(Counted(s))
    BY DEF Answered, Counted
  <2>2. At(s, {"auth", "func", "reading"}) = Cardinality(Underway(s))
    BY DEF At, Underway
  <2>3. statistics[s].requests = Cardinality(Counted(s)) + Cardinality(Underway(s))
    BY DEF CountInv
  <2>4. QED
    BY <2>1, <2>2, <2>3 DEF SumInv
<1>4. QED
  BY <1>1, <1>2, <1>3, Invariance, PTL DEF Spec

=============================================================================
