-------------------------- MODULE HttpClientProofs --------------------------
(* What holds of the descriptors and blocks of a process, of the answers   *)
(* its calls return and of the requests its servers get, for any number of *)
(* threads, calls, files, descriptors and faults.                          *)
EXTENDS HttpClient, SequenceLemmas

-----------------------------------------------------------------------------
(* The inductive invariant. A running thread is in its n-th call, and the  *)
(* calls it has still to make are as many as the names that are left.      *)
ThreadFields == {"pc", "n", "todo", "sock", "writes", "wild", "block", "head", "status", "answer"}
Running == {"head", "write", "receive", "mime", "parts", "root", "read", "result", "release"}
Statuses == {"none", "ok", "error", "dangling"}

ThreadFine(r) ==
  /\ DOMAIN r = ThreadFields
  /\ r.pc \in Running \cup {"idle"} /\ r.n \in Nat /\ r.sock \in 0 .. MaxSockets
  /\ r.status \in Statuses
  /\ \E S : r.todo \in Seq(S)
  /\ r.pc = "idle" => r.n + Len(r.todo) <= MaxCalls /\ r.sock = Free
  /\ r.pc # "idle" => r.todo # << >> /\ r.n > 0 /\ r.n + Len(r.todo) <= MaxCalls + 1

ThreadInv == DOMAIN threads = Threads /\ \A t \in Threads : ThreadFine(threads[t])

ConnFields == {"state", "ssl", "sent", "back", "answered", "unsent", "ask"}
ConnStates == {"none", "up", "full", "fin", "reset", "closed"}

ConnInv ==
  /\ DOMAIN conns = Calls
  /\ \A c \in Calls : DOMAIN conns[c] = ConnFields /\ conns[c].state \in ConnStates

\* Two parsers have two blocks.
BlockInv ==
  /\ heap \subseteq Blocks
  /\ \A t \in Threads : threads[t].pc = "mime" => threads[t].block \in heap
  /\ \A t, u \in Threads :
       threads[t].pc = "mime" /\ threads[u].pc = "mime" /\ t # u => threads[t].block # threads[u].block

OtherInv ==
  /\ fds \in [1 .. MaxSockets -> Calls \cup {None}]
  /\ process \in {"alive", "dead", "wild"} /\ spent \in 0 .. MaxFaults

Inv == ThreadInv /\ ConnInv /\ BlockInv /\ OtherInv /\ DescriptorsOwned

-----------------------------------------------------------------------------
LEMMA InitInv == ASSUME Init PROVE Inv
<1>1. PICK s \in Scenarios : threads = [t \in Threads |-> [Idle EXCEPT !.todo = s[t]]]
  BY DEF Init
<1>2. ASSUME NEW t \in Threads
      PROVE  ThreadFine(threads[t]) /\ threads[t].pc = "idle" /\ threads[t].sock = Free
  <2>1. DOMAIN Idle = ThreadFields
    BY DEF Idle, ThreadFields
  <2>2. threads[t] = [Idle EXCEPT !.todo = s[t]]
    BY <1>1
  <2>3. /\ DOMAIN threads[t] = ThreadFields /\ threads[t].todo = s[t] /\ threads[t].pc = "idle"
        /\ threads[t].n = 0 /\ threads[t].sock = 0 /\ threads[t].status = "none"
    BY <2>1, <2>2 DEF Idle, ThreadFields, Free
  <2>4. s[t] \in Seq(Range(s[t])) /\ Len(s[t]) <= MaxCalls /\ MaxCalls \in Nat /\ MaxSockets \in Nat
    BY ClientAssumption
  <2>5. 0 + Len(s[t]) <= MaxCalls
    BY <2>4
  <2>. QED
    BY <2>3, <2>4, <2>5 DEF ThreadFine, Running, Statuses, Free
<1>3. ThreadInv
  BY <1>1, <1>2 DEF ThreadInv
<1>4. ConnInv
  BY DEF Init, ConnInv, ConnFields, ConnStates
<1>5. BlockInv
  BY <1>2 DEF Init, BlockInv
<1>6. OtherInv
  BY ClientAssumption DEF Init, OtherInv
<1>7. DescriptorsOwned
  BY <1>2 DEF Init, DescriptorsOwned, Free
<1>. QED
  BY <1>3, <1>4, <1>5, <1>6, <1>7 DEF Inv

-----------------------------------------------------------------------------
(* A running thread goes on with its call and its descriptor.              *)
Keeps(r, q) ==
  /\ DOMAIN q = ThreadFields /\ q.pc \in Running /\ q.status \in Statuses
  /\ q.n = r.n /\ q.todo = r.todo /\ q.sock = r.sock

ConnsKeep ==
  /\ ConnInv'
  /\ \A c \in Calls : conns'[c].unsent = conns[c].unsent

LEMMA ThreadGoesOn ==
  ASSUME ThreadInv, NEW t \in Threads, NEW q, threads[t].pc # "idle", Keeps(threads[t], q), Step(t, q)
  PROVE  /\ ThreadInv' /\ threads'[t] = q
         /\ \A u \in Threads : u # t => threads'[u] = threads[u]
         /\ \A u \in Threads : /\ threads'[u].sock = threads[u].sock /\ threads'[u].n = threads[u].n
                               /\ threads'[u].pc = "idle" <=> threads[u].pc = "idle"
<1>1. DOMAIN threads = Threads /\ \A u \in Threads : ThreadFine(threads[u])
  BY DEF ThreadInv
<1>2. threads' = [threads EXCEPT ![t] = q]
  BY DEF Step
<1>3. DOMAIN threads' = Threads /\ threads'[t] = q /\ \A u \in Threads : u # t => threads'[u] = threads[u]
  BY <1>1, <1>2
<1>4. q.pc # "idle"
  BY DEF Keeps, Running
<1>5. ThreadFine(q)
  BY <1>1, <1>4 DEF ThreadFine, Keeps
<1>6. ThreadInv'
  <2>1. \A u \in Threads : ThreadFine(threads'[u])
    BY <1>1, <1>3, <1>5
  <2>. QED
    BY <1>3, <2>1 DEF ThreadInv, ThreadFine
<1>. QED
  BY <1>3, <1>4, <1>6 DEF Keeps

LEMMA OwnersStay ==
  ASSUME DescriptorsOwned, UNCHANGED fds,
         \A c \in Calls : conns'[c].unsent = conns[c].unsent,
         \A u \in Threads : /\ threads'[u].sock = threads[u].sock /\ threads'[u].n = threads[u].n
                            /\ threads'[u].pc = "idle" <=> threads[u].pc = "idle"
  PROVE  DescriptorsOwned'
<1>. SUFFICES ASSUME Undisturbed'
             PROVE  /\ \A fd \in DOMAIN fds' : fds'[fd] # None =>
                         \E u \in Threads : /\ threads'[u].pc # "idle" /\ threads'[u].sock = fd
                                            /\ fds'[fd] = <<u, threads'[u].n>>
                    /\ \A u \in Threads : threads'[u].sock # Free =>
                         fds'[threads'[u].sock] = <<u, threads'[u].n>>
  BY DEF DescriptorsOwned, Current
<1>1. Undisturbed
  BY DEF Undisturbed
<1>2. /\ \A fd \in DOMAIN fds : fds[fd] # None =>
           \E u \in Threads : threads[u].pc # "idle" /\ threads[u].sock = fd /\ fds[fd] = <<u, threads[u].n>>
      /\ \A u \in Threads : threads[u].sock # Free => fds[threads[u].sock] = <<u, threads[u].n>>
  BY <1>1 DEF DescriptorsOwned, Current
<1>. QED
  BY <1>2

\* What happens to the blocks when a thread goes on.
BlocksMove(t, q) ==
  \/ UNCHANGED heap /\ q.pc # "mime"
  \/ q.pc = "mime" /\ q.block \in Blocks \ heap /\ heap' = heap \cup {q.block}
  \/ threads[t].pc = "mime" /\ q.pc # "mime" /\ heap' = heap \ {threads[t].block}

LEMMA BlocksStay ==
  ASSUME BlockInv, NEW t \in Threads, NEW q, BlocksMove(t, q), threads'[t] = q,
         \A u \in Threads : u # t => threads'[u] = threads[u]
  PROVE  BlockInv'
<1>1. CASE UNCHANGED heap /\ q.pc # "mime"
  BY <1>1 DEF BlockInv
<1>2. CASE q.pc = "mime" /\ q.block \in Blocks \ heap /\ heap' = heap \cup {q.block}
  BY <1>2 DEF BlockInv
<1>3. CASE threads[t].pc = "mime" /\ q.pc # "mime" /\ heap' = heap \ {threads[t].block}
  BY <1>3 DEF BlockInv
<1>. QED
  BY <1>1, <1>2, <1>3 DEF BlocksMove

\* A step of a running thread that leaves the table of descriptors alone.
LEMMA CallGoesOn ==
  ASSUME Inv, NEW t \in Threads, NEW q, threads[t].pc # "idle", Keeps(threads[t], q), Step(t, q),
         BlocksMove(t, q), ConnsKeep, UNCHANGED <<fds, process, spent>>
  PROVE  Inv'
<1>1. /\ ThreadInv' /\ threads'[t] = q
      /\ \A u \in Threads : u # t => threads'[u] = threads[u]
      /\ \A u \in Threads : /\ threads'[u].sock = threads[u].sock /\ threads'[u].n = threads[u].n
                            /\ threads'[u].pc = "idle" <=> threads[u].pc = "idle"
  BY ThreadGoesOn DEF Inv
<1>2. BlockInv'
  BY <1>1, BlocksStay DEF Inv
<1>3. DescriptorsOwned'
  BY <1>1, OwnersStay DEF Inv, ConnsKeep
<1>. QED
  BY <1>1, <1>2, <1>3 DEF Inv, OtherInv, ConnsKeep

LEMMA SentOrTaken ==
  ASSUME ConnInv, NEW c, NEW x,
         \/ conns' = [conns EXCEPT ![c].sent = x]
         \/ conns' = [conns EXCEPT ![c].back = x]
  PROVE  ConnsKeep
BY DEF ConnInv, ConnsKeep, ConnFields

LEMMA SendsStep ==
  ASSUME Inv, NEW t \in Threads, NEW units, NEW q, threads[t].pc # "idle", Keeps(threads[t], q),
         q.pc # "mime", Sends(t, units, q)
  PROVE  Inv'
<1>1. /\ conns' = [conns EXCEPT ![ConnOf(t)].sent = @ \o units] /\ Step(t, q)
      /\ UNCHANGED <<fds, heap, files, kept, process, spent>>
  BY DEF Sends
<1>2. ConnsKeep
  <2>1. PICK c, x : c = ConnOf(t) /\ x = conns[c].sent \o units
    OBVIOUS
  <2>2. conns' = [conns EXCEPT ![c].sent = x]
    BY <1>1, <2>1
  <2>. QED
    BY <2>2, SentOrTaken DEF Inv
<1>. QED
  BY <1>1, <1>2, CallGoesOn DEF BlocksMove

LEMMA TakesStep ==
  ASSUME Inv, NEW t \in Threads, NEW q, threads[t].pc # "idle", Keeps(threads[t], q),
         BlocksMove(t, q), Takes(t, q)
  PROVE  Inv'
<1>1. /\ conns' = [conns EXCEPT ![ConnOf(t)].back = Tail(@)] /\ Step(t, q)
      /\ UNCHANGED <<fds, kept, process, spent>>
  BY DEF Takes
<1>2. ConnsKeep
  <2>1. PICK c, x : c = ConnOf(t) /\ x = Tail(conns[c].back)
    OBVIOUS
  <2>2. conns' = [conns EXCEPT ![c].back = x]
    BY <1>1, <2>1
  <2>. QED
    BY <2>2, SentOrTaken DEF Inv
<1>. QED
  BY <1>1, <1>2, CallGoesOn

LEMMA GivesStep ==
  ASSUME Inv, NEW t \in Threads, NEW q, threads[t].pc # "idle", Keeps(threads[t], q),
         q.pc # "mime", Gives(t, q)
  PROVE  Inv'
<1>1. Step(t, q) /\ UNCHANGED <<fds, conns, heap, files, kept, process, spent>>
  BY DEF Gives
<1>2. ConnsKeep
  BY <1>1 DEF Inv, ConnInv, ConnsKeep
<1>. QED
  BY <1>1, <1>2, CallGoesOn DEF BlocksMove

-----------------------------------------------------------------------------
LEMMA Kept ==
  ASSUME Inv, NEW t \in Threads, threads[t].pc # "idle", NEW x \in Running, NEW y
  PROVE  /\ Keeps(threads[t], threads[t])
         /\ Keeps(threads[t], [threads[t] EXCEPT !.pc = x])
         /\ Keeps(threads[t], [threads[t] EXCEPT !.pc = x, !.writes = y])
         /\ Keeps(threads[t], [threads[t] EXCEPT !.pc = x, !.answer = y])
         /\ Keeps(threads[t], [threads[t] EXCEPT !.writes = y])
         /\ Keeps(threads[t], [threads[t] EXCEPT !.head = y])
<1>1. ThreadFine(threads[t])
  BY DEF Inv, ThreadInv
<1>2. /\ DOMAIN threads[t] = ThreadFields /\ threads[t].pc \in Running /\ threads[t].status \in Statuses
  BY <1>1 DEF ThreadFine
<1>. QED
  BY <1>2 DEF Keeps, ThreadFields

LEMMA KeptFailing ==
  ASSUME Inv, NEW t \in Threads, threads[t].pc # "idle", NEW status \in Statuses
  PROVE  Keeps(threads[t], Failing(t, status)) /\ Failing(t, status).pc = "release"
<1>1. ThreadFine(threads[t])
  BY DEF Inv, ThreadInv
<1>2. DOMAIN threads[t] = ThreadFields
  BY <1>1 DEF ThreadFine
<1>. QED
  BY <1>2 DEF Keeps, ThreadFields, Failing, Running

LEMMA SendHeadStep == ASSUME Inv, NEW t \in Threads, SendHead(t) PROVE Inv'
<1>1. threads[t].pc = "head" /\ DOMAIN threads[t] = ThreadFields
  BY DEF SendHead, Inv, ThreadInv, ThreadFine
<1>2. PICK units, w :
        Sends(t, units, IF Asked(t).method = "GET" THEN [threads[t] EXCEPT !.pc = "receive"]
                        ELSE [threads[t] EXCEPT !.pc = "write", !.writes = w])
  BY DEF SendHead
<1>3. "receive" \in Running /\ "write" \in Running
  BY DEF Running
<1>4. CASE Asked(t).method = "GET"
  <2>1. PICK q : q = [threads[t] EXCEPT !.pc = "receive"]
    OBVIOUS
  <2>2. Keeps(threads[t], q) /\ q.pc # "mime" /\ Sends(t, units, q)
    BY <1>1, <1>2, <1>3, <1>4, <2>1, Kept DEF ThreadFields
  <2>. QED
    BY <1>1, <2>2, SendsStep
<1>5. CASE Asked(t).method # "GET"
  <2>1. PICK q : q = [threads[t] EXCEPT !.pc = "write", !.writes = w]
    OBVIOUS
  <2>2. Keeps(threads[t], q) /\ q.pc # "mime" /\ Sends(t, units, q)
    BY <1>1, <1>2, <1>3, <1>5, <2>1, Kept DEF ThreadFields
  <2>. QED
    BY <1>1, <2>2, SendsStep
<1>. QED
  BY <1>4, <1>5

LEMMA WriteStep == ASSUME Inv, NEW t \in Threads, Write(t) PROVE Inv'
<1>1. threads[t].pc = "write" /\ DOMAIN threads[t] = ThreadFields
  BY DEF Write, Inv, ThreadInv, ThreadFine
<1>2. PICK units, w : Sends(t, units, [threads[t] EXCEPT !.writes = w])
  BY DEF Write
<1>3. PICK q : q = [threads[t] EXCEPT !.writes = w]
  OBVIOUS
<1>4. Keeps(threads[t], q) /\ q.pc # "mime" /\ Sends(t, units, q)
  <2>1. "write" \in Running
    BY DEF Running
  <2>. QED
    BY <1>1, <1>2, <1>3, <2>1, Kept DEF ThreadFields
<1>. QED
  BY <1>1, <1>4, SendsStep

LEMMA FlushStep == ASSUME Inv, NEW t \in Threads, http_output_stream_flush(t) PROVE Inv'
<1>1. threads[t].pc = "write" /\ DOMAIN threads[t] = ThreadFields
  BY DEF http_output_stream_flush, Inv, ThreadInv, ThreadFine
<1>2. PICK units : Sends(t, units, [threads[t] EXCEPT !.pc = "receive"])
  BY DEF http_output_stream_flush
<1>3. PICK q : q = [threads[t] EXCEPT !.pc = "receive"]
  OBVIOUS
<1>4. Keeps(threads[t], q) /\ q.pc # "mime" /\ Sends(t, units, q)
  <2>1. "receive" \in Running
    BY DEF Running
  <2>. QED
    BY <1>1, <1>2, <1>3, <2>1, Kept DEF ThreadFields
<1>. QED
  BY <1>1, <1>4, SendsStep

(* The step that ends the proviso: a head that was not sent.               *)
LEMMA HeadFailsStep == ASSUME Inv, NEW t \in Threads, HeadFails(t) PROVE Inv'
<1>1. /\ threads[t].pc = "head" /\ Closes(threads[t].sock) /\ Step(t, Failing(t, "error"))
      /\ conns' = [Closed(threads[t].sock) EXCEPT ![Current(t)].unsent = TRUE]
      /\ UNCHANGED <<heap, files, kept, process, spent>>
  BY DEF HeadFails
<1>2. PICK q : q = Failing(t, "error") /\ Keeps(threads[t], q) /\ q.pc = "release" /\ Step(t, q)
  BY <1>1, KeptFailing DEF Statuses
<1>3. /\ ThreadInv' /\ threads'[t] = q
      /\ \A u \in Threads : u # t => threads'[u] = threads[u]
  BY <1>1, <1>2, ThreadGoesOn DEF Inv
<1>4. BlockInv'
  BY <1>1, <1>2, <1>3, BlocksStay DEF Inv, BlocksMove
<1>5. ThreadFine(threads[t])
  BY DEF Inv, ThreadInv
<1>6. Current(t) \in Calls
  <2>1. /\ threads[t].n \in Nat /\ threads[t].n > 0 /\ threads[t].todo # << >>
        /\ threads[t].n + Len(threads[t].todo) <= MaxCalls + 1
    BY <1>1, <1>5 DEF ThreadFine
  <2>2. Len(threads[t].todo) \in Nat /\ Len(threads[t].todo) > 0
    <3>1. PICK S : threads[t].todo \in Seq(S)
      BY <1>5 DEF ThreadFine
    <3>. QED
      BY <2>1, <3>1
  <2>3. threads[t].n \in 1 .. MaxCalls
    BY <2>1, <2>2, ClientAssumption
  <2>. QED
    BY <2>3 DEF Current, Calls
<1>7. OtherInv'
  <2>1. fds' \in [1 .. MaxSockets -> Calls \cup {None}]
    <3>1. fds \in [1 .. MaxSockets -> Calls \cup {None}]
      BY DEF Inv, OtherInv
    <3>. QED
      BY <1>1, <3>1 DEF Closes
  <2>. QED
    BY <1>1, <2>1 DEF Inv, OtherInv
<1>8. DOMAIN Closed(threads[t].sock) = Calls
      /\ \A c \in Calls : /\ DOMAIN Closed(threads[t].sock)[c] = ConnFields
                          /\ Closed(threads[t].sock)[c].state \in ConnStates
  <2>1. ConnInv
    BY DEF Inv
  <2>2. CASE Closed(threads[t].sock) = conns
    BY <2>1, <2>2 DEF ConnInv
  <2>3. CASE Closed(threads[t].sock) # conns
    <3>1. PICK c : Closed(threads[t].sock) = [conns EXCEPT ![c].state = "closed", ![c].back = << >>]
      BY <2>3 DEF Closed
    <3>. QED
      BY <2>1, <3>1 DEF ConnInv, ConnFields, ConnStates
  <2>. QED
    BY <2>2, <2>3
<1>9. ConnInv' /\ conns'[Current(t)].unsent
  <2>1. PICK cs, c : cs = Closed(threads[t].sock) /\ c = Current(t) /\ c \in Calls
    BY <1>6
  <2>2. conns' = [cs EXCEPT ![c].unsent = TRUE]
    BY <1>1, <2>1
  <2>3. DOMAIN cs = Calls /\ \A d \in Calls : DOMAIN cs[d] = ConnFields /\ cs[d].state \in ConnStates
    BY <1>8, <2>1
  <2>. QED
    BY <2>1, <2>2, <2>3 DEF ConnInv, ConnFields
<1>10. DescriptorsOwned'
  <2>1. PICK c \in Calls : c = Current(t) /\ conns'[c].unsent
    BY <1>6, <1>9
  <2>. QED
    BY <2>1 DEF DescriptorsOwned, Undisturbed
<1>. QED
  BY <1>3, <1>4, <1>7, <1>9, <1>10 DEF Inv

LEMMA WriteFailsStep == ASSUME Inv, NEW t \in Threads, WriteFails(t) PROVE Inv'
<1>1. threads[t].pc = "write" /\ Gives(t, Failing(t, "error"))
  BY DEF WriteFails, Gives
<1>2. PICK q : q = Failing(t, "error") /\ Keeps(threads[t], q) /\ q.pc = "release"
  BY <1>1, KeptFailing DEF Statuses
<1>. QED
  BY <1>1, <1>2, GivesStep

LEMMA HeadMissingStep == ASSUME Inv, NEW t \in Threads, HeadMissing(t) PROVE Inv'
<1>1. threads[t].pc = "receive" /\ Gives(t, Failing(t, "error"))
  BY DEF HeadMissing, NothingComes
<1>2. PICK q : q = Failing(t, "error") /\ Keeps(threads[t], q) /\ q.pc = "release"
  BY <1>1, KeptFailing DEF Statuses
<1>. QED
  BY <1>1, <1>2, GivesStep

\* The answer of the call is read, or its failure noted.
LEMMA FinishStep == ASSUME Inv, NEW t \in Threads, Finish(t) PROVE Inv'
<1>1. /\ threads[t].pc = "result" /\ UNCHANGED <<fds, conns, heap, process, spent>>
      /\ \E status \in {"ok", "error"} : Step(t, Failing(t, status))
  BY DEF Finish, Refused
<1>2. PICK status \in {"ok", "error"} : Step(t, Failing(t, status))
  BY <1>1
<1>3. PICK q : q = Failing(t, status) /\ Keeps(threads[t], q) /\ q.pc = "release" /\ Step(t, q)
  BY <1>1, <1>2, KeptFailing DEF Statuses
<1>4. ConnsKeep
  BY <1>1 DEF Inv, ConnInv, ConnsKeep
<1>. QED
  BY <1>1, <1>3, <1>4, CallGoesOn DEF BlocksMove

LEMMA BodyMissingStep == ASSUME Inv, NEW t \in Threads, BodyMissing(t) PROVE Inv'
<1>1. threads[t].pc \in {"mime", "read"} /\ threads[t].pc # "idle"
  BY DEF BodyMissing
<1>2. \/ \E status \in Statuses : Gives(t, Failing(t, status))
      \/ \E a : Gives(t, [threads[t] EXCEPT !.pc = "result", !.answer = a])
  BY DEF BodyMissing, NothingComes, BodyError, Answered, Statuses
<1>3. ASSUME NEW status \in Statuses, Gives(t, Failing(t, status)) PROVE Inv'
  <2>1. PICK q : q = Failing(t, status) /\ Keeps(threads[t], q) /\ q.pc = "release"
    BY <1>1, KeptFailing
  <2>. QED
    BY <1>1, <1>3, <2>1, GivesStep
<1>4. ASSUME NEW a, Gives(t, [threads[t] EXCEPT !.pc = "result", !.answer = a]) PROVE Inv'
  <2>1. PICK q : q = [threads[t] EXCEPT !.pc = "result", !.answer = a]
    OBVIOUS
  <2>2. Keeps(threads[t], q) /\ q.pc # "mime"
    BY <1>1, <2>1, Kept DEF Running, Inv, ThreadInv, ThreadFine, ThreadFields
  <2>. QED
    BY <1>1, <1>4, <2>1, <2>2, GivesStep
<1>. QED
  BY <1>2, <1>3, <1>4

LEMMA ReadBodyStep == ASSUME Inv, NEW t \in Threads, ReadBody(t) PROVE Inv'
<1>1. threads[t].pc = "read" /\ UNCHANGED heap
  BY DEF ReadBody
<1>2. PICK a : Takes(t, [threads[t] EXCEPT !.pc = "result", !.answer = a])
  BY DEF ReadBody, Answered
<1>3. PICK q : q = [threads[t] EXCEPT !.pc = "result", !.answer = a]
  OBVIOUS
<1>4. Keeps(threads[t], q) /\ q.pc # "mime" /\ Takes(t, q)
  BY <1>1, <1>2, <1>3, Kept DEF Running, Inv, ThreadInv, ThreadFine, ThreadFields
<1>. QED
  BY <1>1, <1>4, TakesStep DEF BlocksMove

LEMMA MimeParsedStep == ASSUME Inv, NEW t \in Threads, MimeParsed(t) PROVE Inv'
<1>1. threads[t].pc = "mime" /\ DOMAIN threads[t] = ThreadFields
  BY DEF MimeParsed, Inv, ThreadInv, ThreadFine
<1>2. \/ \E a : /\ Takes(t, [[threads[t] EXCEPT !.pc = "result", !.answer = a] EXCEPT !.pc = "parts"])
                /\ heap' = heap \ {threads[t].block}
      \/ Takes(t, Failing(t, "error")) /\ UNCHANGED heap
  BY DEF MimeParsed, Answered
<1>3. ASSUME NEW a, Takes(t, [[threads[t] EXCEPT !.pc = "result", !.answer = a] EXCEPT !.pc = "parts"]),
             heap' = heap \ {threads[t].block}
      PROVE  Inv'
  <2>1. PICK r : r = [threads[t] EXCEPT !.pc = "result", !.answer = a]
    OBVIOUS
  <2>2. Keeps(threads[t], r) /\ DOMAIN r = ThreadFields
    BY <1>1, <2>1, Kept DEF Running, Keeps
  <2>3. PICK q : q = [r EXCEPT !.pc = "parts"]
    OBVIOUS
  <2>4. Keeps(threads[t], q) /\ q.pc = "parts" /\ Takes(t, q)
    BY <1>3, <2>1, <2>2, <2>3 DEF Keeps, ThreadFields, Running
  <2>. QED
    BY <1>1, <1>3, <2>4, TakesStep DEF BlocksMove
<1>4. ASSUME Takes(t, Failing(t, "error")), UNCHANGED heap PROVE Inv'
  <2>1. PICK q : q = Failing(t, "error") /\ Keeps(threads[t], q) /\ q.pc = "release" /\ Takes(t, q)
    BY <1>1, <1>4, KeptFailing DEF Statuses
  <2>. QED
    BY <1>1, <1>4, <2>1, TakesStep DEF BlocksMove
<1>. QED
  BY <1>2, <1>3, <1>4

\* The files of a message are removed, opened or read.
LEMMA FilesStep ==
  ASSUME Inv, NEW t \in Threads, NEW q, threads[t].pc # "idle", Keeps(threads[t], q), q.pc # "mime",
         Step(t, q), UNCHANGED <<fds, conns, heap, process, spent>>
  PROVE  Inv'
<1>1. ConnsKeep
  BY DEF Inv, ConnInv, ConnsKeep
<1>. QED
  BY <1>1, CallGoesOn DEF BlocksMove

\* What a thread becomes when its root is opened, or cannot be.
LEMMA OpenRootMoves ==
  ASSUME Inv, NEW t \in Threads, OpenRoot(t)
  PROVE  \E q : /\ Keeps(threads[t], q) /\ Step(t, q)
                /\ \/ q.pc = "release" /\ q.status = "error"
                   \/ q.pc = "root" /\ q.answer = threads[t].answer /\ q.block = threads[t].block
                   \/ q.pc = "result" /\ q.answer = [threads[t].answer EXCEPT !.body = "none"]
<1>1. /\ threads[t].pc = "parts" /\ DOMAIN threads[t] = ThreadFields /\ threads[t].status \in Statuses
  BY DEF OpenRoot, Inv, ThreadInv, ThreadFine
<1>2. PICK a : a = [threads[t].answer EXCEPT !.body = "none"]
  OBVIOUS
<1>3. \/ Step(t, Failing(t, "error"))
      \/ Step(t, [threads[t] EXCEPT !.pc = "root"])
      \/ Step(t, [threads[t] EXCEPT !.pc = "result", !.answer = a])
  BY <1>2 DEF OpenRoot
<1>4. CASE Step(t, Failing(t, "error"))
  <2>1. PICK q : q = Failing(t, "error") /\ Keeps(threads[t], q) /\ q.pc = "release"
    BY <1>1, KeptFailing DEF Statuses
  <2>2. q.status = "error"
    BY <1>1, <2>1 DEF Failing, ThreadFields
  <2>. QED
    BY <1>4, <2>1, <2>2
<1>5. CASE Step(t, [threads[t] EXCEPT !.pc = "root"])
  <2>1. PICK q : q = [threads[t] EXCEPT !.pc = "root"]
    OBVIOUS
  <2>2. Keeps(threads[t], q) /\ q.pc = "root" /\ q.answer = threads[t].answer /\ q.block = threads[t].block
    BY <1>1, <2>1 DEF Keeps, ThreadFields, Running
  <2>. QED
    BY <1>5, <2>1, <2>2
<1>6. CASE Step(t, [threads[t] EXCEPT !.pc = "result", !.answer = a])
  <2>1. PICK q : q = [threads[t] EXCEPT !.pc = "result", !.answer = a]
    OBVIOUS
  <2>2. Keeps(threads[t], q) /\ q.pc = "result" /\ q.answer = a
    BY <1>1, <2>1 DEF Keeps, ThreadFields, Running
  <2>. QED
    BY <1>2, <1>6, <2>1, <2>2
<1>. QED
  BY <1>3, <1>4, <1>5, <1>6

LEMMA OpenRootStep == ASSUME Inv, NEW t \in Threads, OpenRoot(t) PROVE Inv'
<1>1. threads[t].pc = "parts" /\ UNCHANGED <<fds, conns, heap, process, spent>>
  BY DEF OpenRoot
<1>2. PICK q : Keeps(threads[t], q) /\ Step(t, q) /\ q.pc \in {"release", "root", "result"}
  BY OpenRootMoves
<1>. QED
  BY <1>1, <1>2, FilesStep

\* Whose the root is that a thread has read.
LEMMA ReadRootMoves ==
  ASSUME Inv, NEW t \in Threads, ReadRoot(t)
  PROVE  \E q, c : /\ Keeps(threads[t], q) /\ Step(t, q) /\ q.pc = "result"
                   /\ c \in {Current(t), files[threads[t].block].of}
                   /\ q.answer = [threads[t].answer EXCEPT
                        !.parts = c, !.reused = files[threads[t].block].reused]
<1>1. threads[t].pc = "root" /\ DOMAIN threads[t] = ThreadFields /\ threads[t].status \in Statuses
  BY DEF ReadRoot, Inv, ThreadInv, ThreadFine
<1>2. PICK file : file = files[threads[t].block]
  OBVIOUS
<1>3. PICK c \in {Current(t), file.of} :
        Step(t, [threads[t] EXCEPT !.pc = "result", !.answer.parts = c, !.answer.reused = file.reused])
  BY <1>2 DEF ReadRoot, Gives
<1>4. PICK q : q = [threads[t] EXCEPT !.pc = "result", !.answer.parts = c, !.answer.reused = file.reused]
  OBVIOUS
<1>5. /\ Keeps(threads[t], q) /\ q.pc = "result"
      /\ q.answer = [threads[t].answer EXCEPT !.parts = c, !.reused = file.reused]
  BY <1>1, <1>4 DEF Keeps, ThreadFields, Running
<1>6. Step(t, q) /\ c \in {Current(t), files[threads[t].block].of}
      /\ q.answer = [threads[t].answer EXCEPT !.parts = c, !.reused = files[threads[t].block].reused]
  BY <1>2, <1>3, <1>4, <1>5
<1>. QED
  BY <1>5, <1>6

LEMMA ReadRootStep == ASSUME Inv, NEW t \in Threads, ReadRoot(t) PROVE Inv'
<1>1. threads[t].pc = "root" /\ UNCHANGED <<fds, conns, heap, process, spent>>
  BY DEF ReadRoot, Gives
<1>2. PICK q : Keeps(threads[t], q) /\ Step(t, q) /\ q.pc = "result"
  BY ReadRootMoves
<1>. QED
  BY <1>1, <1>2, FilesStep

\* A parser takes a block that nobody has.
LEMMA AnswerHeadStep == ASSUME Inv, NEW t \in Threads, hresponse_new_from_socket(t) PROVE Inv'
<1>1. threads[t].pc = "receive"
  BY DEF hresponse_new_from_socket
<1>2. /\ DOMAIN threads[t] = ThreadFields /\ threads[t].status \in Statuses
  BY DEF Inv, ThreadInv, ThreadFine
<1>3. \/ \E status \in Statuses : Takes(t, Failing(t, status)) /\ UNCHANGED heap
      \/ Takes(t, threads[t]) /\ UNCHANGED heap
      \/ \E h : Takes(t, [[threads[t] EXCEPT !.head = h] EXCEPT !.pc = "read"]) /\ UNCHANGED heap
      \/ \E h, b : /\ Takes(t, [[threads[t] EXCEPT !.head = h] EXCEPT !.pc = "mime", !.block = b])
                   /\ b \in Blocks \ heap /\ heap' = heap \cup {b}
  BY DEF hresponse_new_from_socket, mime_block, Statuses
<1>4. ASSUME NEW status \in Statuses, Takes(t, Failing(t, status)), UNCHANGED heap PROVE Inv'
  <2>1. PICK q : q = Failing(t, status) /\ Keeps(threads[t], q) /\ q.pc = "release" /\ Takes(t, q)
    BY <1>1, <1>4, KeptFailing
  <2>. QED
    BY <1>1, <1>4, <2>1, TakesStep DEF BlocksMove
<1>5. ASSUME Takes(t, threads[t]), UNCHANGED heap PROVE Inv'
  <2>1. PICK q : q = threads[t] /\ Keeps(threads[t], q) /\ q.pc # "mime" /\ Takes(t, q)
    BY <1>1, <1>2, <1>5 DEF Keeps, Running
  <2>. QED
    BY <1>1, <1>5, <2>1, TakesStep DEF BlocksMove
<1>6. ASSUME NEW h, Takes(t, [[threads[t] EXCEPT !.head = h] EXCEPT !.pc = "read"]), UNCHANGED heap
      PROVE  Inv'
  <2>1. PICK q : q = [[threads[t] EXCEPT !.head = h] EXCEPT !.pc = "read"]
    OBVIOUS
  <2>2. Keeps(threads[t], q) /\ q.pc # "mime" /\ Takes(t, q)
    BY <1>2, <1>6, <2>1 DEF Keeps, Running, ThreadFields
  <2>. QED
    BY <1>1, <1>6, <2>2, TakesStep DEF BlocksMove
<1>7. ASSUME NEW h, NEW b \in Blocks \ heap, heap' = heap \cup {b},
             Takes(t, [[threads[t] EXCEPT !.head = h] EXCEPT !.pc = "mime", !.block = b])
      PROVE  Inv'
  <2>1. PICK q : q = [[threads[t] EXCEPT !.head = h] EXCEPT !.pc = "mime", !.block = b]
    OBVIOUS
  <2>2. Keeps(threads[t], q) /\ q.pc = "mime" /\ q.block = b /\ Takes(t, q)
    BY <1>2, <1>7, <2>1 DEF Keeps, Running, ThreadFields
  <2>. QED
    BY <1>1, <1>7, <2>2, TakesStep DEF BlocksMove
<1>. QED
  BY <1>3, <1>4, <1>5, <1>6, <1>7

-----------------------------------------------------------------------------
(* Steps in which no thread moves.                                         *)
LEMMA PeerStep ==
  ASSUME Inv, NEW c \in Calls, Continue(c) \/ Reply(c) \/ End(c) \/ Reset(c) \/ Stall(c)
  PROVE  Inv'
<1>1. DOMAIN conns[c] = ConnFields /\ conns[c].state \in ConnStates /\ DOMAIN conns = Calls
  BY DEF Inv, ConnInv
<1>2. \E x : \/ Peer(c, [conns[c] EXCEPT !.back = x])
            \/ Peer(c, [conns[c] EXCEPT !.answered = TRUE, !.back = x])
            \/ Peer(c, [conns[c] EXCEPT !.state = "fin"])
            \/ Peer(c, [conns[c] EXCEPT !.state = "reset", !.back = x])
            \/ Peer(c, [conns[c] EXCEPT !.state = "full"])
  BY DEF Continue, Reply, End, Reset, Stall
<1>3. PICK conn : /\ Peer(c, conn) /\ DOMAIN conn = ConnFields /\ conn.state \in ConnStates
                  /\ conn.unsent = conns[c].unsent
  <2>1. PICK x :  \/ Peer(c, [conns[c] EXCEPT !.back = x])
                  \/ Peer(c, [conns[c] EXCEPT !.answered = TRUE, !.back = x])
                  \/ Peer(c, [conns[c] EXCEPT !.state = "fin"])
                  \/ Peer(c, [conns[c] EXCEPT !.state = "reset", !.back = x])
                  \/ Peer(c, [conns[c] EXCEPT !.state = "full"])
    BY <1>2
  <2>2. PICK conn : /\ Peer(c, conn)
                    /\ \/ conn = [conns[c] EXCEPT !.back = x]
                       \/ conn = [conns[c] EXCEPT !.answered = TRUE, !.back = x]
                       \/ conn = [conns[c] EXCEPT !.state = "fin"]
                       \/ conn = [conns[c] EXCEPT !.state = "reset", !.back = x]
                       \/ conn = [conns[c] EXCEPT !.state = "full"]
    BY <2>1
  <2>3. DOMAIN conn = ConnFields /\ conn.state \in ConnStates /\ conn.unsent = conns[c].unsent
    BY <1>1, <2>2 DEF ConnFields, ConnStates
  <2>. QED
    BY <2>2, <2>3
<1>4. conns' = [conns EXCEPT ![c] = conn] /\ UNCHANGED <<threads, fds, heap, files, kept, process>>
  BY <1>3 DEF Peer
<1>5. ConnsKeep
  <2>1. conns'[c] = conn /\ \A d \in Calls : d # c => conns'[d] = conns[d]
    BY <1>1, <1>4
  <2>2. DOMAIN conns' = Calls
    BY <1>1, <1>4
  <2>. QED
    BY <1>3, <2>1, <2>2 DEF Inv, ConnInv, ConnsKeep
<1>6. spent' \in 0 .. MaxFaults
  <2>1. spent' = spent \/ Faulty
    BY DEF Continue, Reply, End, Reset, Stall
  <2>. QED
    BY <2>1, ClientAssumption DEF Faulty, Inv, OtherInv
<1>7. DescriptorsOwned'
  BY <1>4, <1>5, OwnersStay DEF Inv, ConnsKeep
<1>. QED
  BY <1>4, <1>5, <1>6, <1>7 DEF Inv, ThreadInv, ThreadFine, BlockInv, OtherInv, ConnsKeep

LEMMA KilledStep == ASSUME Inv, NEW t \in Threads, Killed(t) PROVE Inv'
<1>1. process' = "dead" /\ UNCHANGED <<threads, fds, conns, heap, files, kept, spent>>
  BY DEF Killed
<1>2. DescriptorsOwned'
  BY <1>1, OwnersStay DEF Inv
<1>. QED
  BY <1>1, <1>2 DEF Inv, ThreadInv, ThreadFine, ConnInv, BlockInv, OtherInv

LEMMA OverrunStep == ASSUME Inv, NEW t \in Threads, CredentialsOverrun(t) PROVE Inv'
<1>1. process' = "wild" /\ UNCHANGED <<threads, fds, conns, heap, files, kept, spent>>
  BY DEF CredentialsOverrun
<1>2. DescriptorsOwned'
  BY <1>1, OwnersStay DEF Inv
<1>. QED
  BY <1>1, <1>2 DEF Inv, ThreadInv, ThreadFine, ConnInv, BlockInv, OtherInv

LEMMA StutterStep == ASSUME Inv, UNCHANGED vars PROVE Inv'
<1>1. UNCHANGED <<threads, fds, conns, heap, files, kept, process, spent>>
  BY DEF vars
<1>2. DescriptorsOwned'
  BY <1>1, OwnersStay DEF Inv
<1>. QED
  BY <1>1, <1>2 DEF Inv, ThreadInv, ThreadFine, ConnInv, BlockInv, OtherInv

-----------------------------------------------------------------------------
(* The steps that move descriptors.                                        *)
LEMMA LeastNumber ==
  ASSUME NEW T, T \subseteq Nat, T # {}
  PROVE  Least(T) \in T /\ \A y \in T : Least(T) <= y
<1>1. \E x \in T : \A y \in T : x <= y
  BY SomeLeast
<1>. QED
  BY <1>1 DEF Least

\* The calls of a thread are counted from 1 on; no call is None.
LEMMA CountedCalls ==
  ASSUME Inv, NEW t \in Threads
  PROVE  /\ threads[t].pc # "idle" => Current(t) \in Calls /\ Current(t) # None
         /\ threads[t].pc = "idle" /\ threads[t].todo # << >>
              => <<t, threads[t].n + 1>> \in Calls /\ <<t, threads[t].n + 1>> # None
<1>1. ThreadFine(threads[t])
  BY DEF Inv, ThreadInv
<1>2. threads[t].n \in Nat /\ (threads[t].todo # << >> => Len(threads[t].todo) \in Nat \ {0})
  <2>1. PICK S : threads[t].todo \in Seq(S)
    BY <1>1 DEF ThreadFine
  <2>. QED
    BY <1>1, <2>1 DEF ThreadFine
<1>3. ASSUME threads[t].pc # "idle" PROVE threads[t].n \in 1 .. MaxCalls
  <2>1. /\ threads[t].n > 0 /\ threads[t].todo # << >>
        /\ threads[t].n + Len(threads[t].todo) <= MaxCalls + 1
    BY <1>1, <1>3 DEF ThreadFine
  <2>. QED
    BY <1>2, <2>1, ClientAssumption
<1>4. ASSUME threads[t].pc = "idle", threads[t].todo # << >> PROVE threads[t].n + 1 \in 1 .. MaxCalls
  <2>1. threads[t].n + Len(threads[t].todo) <= MaxCalls
    BY <1>1, <1>4 DEF ThreadFine
  <2>. QED
    BY <1>2, <1>4, <2>1, ClientAssumption
<1>5. \A m \in 1 .. MaxCalls : <<t, m>> \in Calls /\ <<t, m>> # None
  BY ClientAssumption DEF Calls, None
<1>. QED
  BY <1>3, <1>4, <1>5 DEF Current

LEMMA ThreadMoves ==
  ASSUME ThreadInv, NEW t \in Threads, NEW q, ThreadFine(q), Step(t, q)
  PROVE  ThreadInv' /\ threads'[t] = q /\ \A u \in Threads : u # t => threads'[u] = threads[u]
<1>1. DOMAIN threads = Threads /\ \A u \in Threads : ThreadFine(threads[u])
  BY DEF ThreadInv
<1>2. DOMAIN threads' = Threads /\ threads'[t] = q /\ \A u \in Threads : u # t => threads'[u] = threads[u]
  BY <1>1 DEF Step
<1>3. \A u \in Threads : ThreadFine(threads'[u])
  BY <1>1, <1>2
<1>. QED
  BY <1>2, <1>3 DEF ThreadInv, ThreadFine

\* A call that is begun without a descriptor.
LEMMA BeginFailsStep ==
  ASSUME Inv, NEW t \in Threads, NEW q, threads[t].pc = "idle", ThreadFine(q), Step(t, q),
         q.pc = "release", q.sock = Free, UNCHANGED <<fds, conns, heap, process, spent>>
  PROVE  Inv'
<1>1. ThreadInv' /\ threads'[t] = q /\ \A u \in Threads : u # t => threads'[u] = threads[u]
  BY ThreadMoves DEF Inv
<1>2. BlockInv'
  BY <1>1, BlocksStay DEF Inv, BlocksMove
<1>3. threads[t].sock = Free
  BY DEF Inv, ThreadInv, ThreadFine
<1>4. DescriptorsOwned'
  <2>. SUFFICES ASSUME Undisturbed'
               PROVE  /\ \A fd \in DOMAIN fds : fds[fd] # None =>
                           \E u \in Threads : /\ threads'[u].pc # "idle" /\ threads'[u].sock = fd
                                              /\ fds[fd] = <<u, threads'[u].n>>
                      /\ \A u \in Threads : threads'[u].sock # Free =>
                           fds[threads'[u].sock] = <<u, threads'[u].n>>
    BY DEF DescriptorsOwned, Current
  <2>1. Undisturbed
    BY DEF Undisturbed
  <2>2. /\ \A fd \in DOMAIN fds : fds[fd] # None =>
             \E u \in Threads : threads[u].pc # "idle" /\ threads[u].sock = fd /\ fds[fd] = <<u, threads[u].n>>
        /\ \A u \in Threads : threads[u].sock # Free => fds[threads[u].sock] = <<u, threads[u].n>>
    BY <2>1 DEF Inv, DescriptorsOwned, Current
  <2>. QED
    BY <1>1, <1>3, <2>2
<1>. QED
  BY <1>1, <1>2, <1>4 DEF Inv, ConnInv, OtherInv

\* The descriptor that socket() returns was nobody's.
LEMMA BeginOpensStep ==
  ASSUME Inv, NEW t \in Threads, NEW q, NEW fd \in DOMAIN fds, fds[fd] = None,
         threads[t].pc = "idle", threads[t].todo # << >>, ThreadFine(q), Step(t, q),
         q.pc \in {"head", "release"}, q.sock = fd, q.n = threads[t].n + 1,
         fds' = [fds EXCEPT ![fd] = <<t, q.n>>], ConnsKeep, UNCHANGED <<heap, process, spent>>
  PROVE  Inv'
<1>1. ThreadInv' /\ threads'[t] = q /\ \A u \in Threads : u # t => threads'[u] = threads[u]
  BY ThreadMoves DEF Inv
<1>2. BlockInv'
  BY <1>1, BlocksStay DEF Inv, BlocksMove
<1>3. fds \in [1 .. MaxSockets -> Calls \cup {None}] /\ <<t, q.n>> \in Calls /\ <<t, q.n>> # None
  BY CountedCalls DEF Inv, OtherInv
<1>4. OtherInv'
  BY <1>3 DEF Inv, OtherInv
<1>5. DescriptorsOwned'
  <2>. SUFFICES ASSUME Undisturbed'
               PROVE  /\ \A d \in DOMAIN fds' : fds'[d] # None =>
                           \E u \in Threads : /\ threads'[u].pc # "idle" /\ threads'[u].sock = d
                                              /\ fds'[d] = <<u, threads'[u].n>>
                      /\ \A u \in Threads : threads'[u].sock # Free =>
                           fds'[threads'[u].sock] = <<u, threads'[u].n>>
    BY DEF DescriptorsOwned, Current
  <2>1. Undisturbed
    BY DEF Undisturbed, ConnsKeep
  <2>2. /\ \A d \in DOMAIN fds : fds[d] # None =>
             \E u \in Threads : threads[u].pc # "idle" /\ threads[u].sock = d /\ fds[d] = <<u, threads[u].n>>
        /\ \A u \in Threads : threads[u].sock # Free => fds[threads[u].sock] = <<u, threads[u].n>>
    BY <2>1 DEF Inv, DescriptorsOwned, Current
  <2>3. \A u \in Threads : u # t => threads[u].sock # fd
    <3>. SUFFICES ASSUME NEW u \in Threads, u # t, threads[u].sock = fd PROVE FALSE
      OBVIOUS
    <3>1. fd # Free
      BY <1>3, ClientAssumption DEF Free
    <3>2. fds[fd] = <<u, threads[u].n>>
      BY <2>2, <3>1
    <3>3. threads[u].pc # "idle"
      BY <3>1 DEF Inv, ThreadInv, ThreadFine
    <3>. QED
      BY <3>2, <3>3, CountedCalls DEF Current
  <2>4. /\ DOMAIN fds' = DOMAIN fds /\ fds'[fd] = <<t, q.n>>
        /\ \A d \in DOMAIN fds : d # fd => fds'[d] = fds[d]
    BY <1>3
  <2>5. ASSUME NEW d \in DOMAIN fds', fds'[d] # None
        PROVE  \E u \in Threads : /\ threads'[u].pc # "idle" /\ threads'[u].sock = d
                                  /\ fds'[d] = <<u, threads'[u].n>>
    <3>1. CASE d = fd
      BY <1>1, <2>4, <3>1
    <3>2. CASE d # fd
      BY <1>1, <2>2, <2>4, <2>5, <3>2
    <3>. QED
      BY <3>1, <3>2
  <2>6. ASSUME NEW u \in Threads, threads'[u].sock # Free
        PROVE  fds'[threads'[u].sock] = <<u, threads'[u].n>>
    <3>1. CASE u = t
      BY <1>1, <2>4, <3>1
    <3>2. CASE u # t
      <4>1. threads[u].sock \in 0 .. MaxSockets /\ threads[u].sock # 0 /\ MaxSockets \in Nat
        BY <1>1, <2>6, <3>2, ClientAssumption DEF Inv, ThreadInv, ThreadFine, Free
      <4>2. threads[u].sock \in DOMAIN fds
        BY <1>3, <4>1
      <4>. QED
        BY <1>1, <2>2, <2>3, <2>4, <2>6, <3>2, <4>2
    <3>. QED
      BY <3>1, <3>2
  <2>. QED
    BY <2>5, <2>6
<1>. QED
  BY <1>1, <1>2, <1>4, <1>5 DEF Inv, ConnsKeep

LEMMA BeginStep == ASSUME Inv, NEW t \in Threads, Begin(t) PROVE Inv'
<1>. DEFINE unused == {fd \in DOMAIN fds : fds[fd] = None}
            n == threads[t].n
            new == [Idle EXCEPT !.n = n + 1, !.todo = threads[t].todo]
            url == Url[Asked(t)]
            c == <<t, n + 1>>
<1>1. threads[t].pc = "idle" /\ threads[t].todo # << >> /\ UNCHANGED <<heap, process, spent>>
  BY DEF Begin
<1>2. /\ ThreadFine(threads[t]) /\ n \in Nat /\ n + Len(threads[t].todo) <= MaxCalls
      /\ \E S : threads[t].todo \in Seq(S)
  BY <1>1 DEF Inv, ThreadInv, ThreadFine
<1>3. n + 1 \in Nat /\ n + 1 > 0 /\ (n + 1) + Len(threads[t].todo) <= MaxCalls + 1
  <2>1. Len(threads[t].todo) \in Nat
    BY <1>2
  <2>. QED
    BY <1>2, <2>1, ClientAssumption
<1>4. /\ DOMAIN new = ThreadFields /\ new.n = n + 1 /\ new.todo = threads[t].todo
      /\ new.sock = 0 /\ new.status = "none"
  BY DEF Idle, ThreadFields, Free
<1>5. 0 \in 0 .. MaxSockets
  BY ClientAssumption
<1>6. ASSUME ~url.ok \/ unused = {} PROVE Inv'
  <2>1. /\ Step(t, [new EXCEPT !.pc = "release", !.status = "error", !.wild = ~url.ok])
        /\ UNCHANGED <<fds, conns>>
    BY <1>6 DEF Begin
  <2>2. PICK q : q = [new EXCEPT !.pc = "release", !.status = "error", !.wild = ~url.ok]
    OBVIOUS
  <2>3. /\ DOMAIN q = ThreadFields /\ q.n = n + 1 /\ q.todo = threads[t].todo /\ q.sock = 0
        /\ q.status = "error" /\ q.pc = "release"
    BY <1>4, <2>2 DEF ThreadFields
  <2>4. ThreadFine(q)
    BY <1>1, <1>2, <1>3, <1>5, <2>3 DEF ThreadFine, Running, Statuses
  <2>5. Step(t, q) /\ q.sock = Free
    BY <2>1, <2>2, <2>3 DEF Free
  <2>. QED
    BY <1>1, <2>1, <2>3, <2>4, <2>5, BeginFailsStep
<1>7. ASSUME ~(~url.ok \/ unused = {}) PROVE Inv'
  <2>1. PICK state \in {"none", "up"} :
          /\ fds' = [fds EXCEPT ![Least(unused)] = c]
          /\ conns' = [conns EXCEPT ![c].state = state, ![c].ask = Asked(t),
                                   ![c].ssl = url.protocol = "https"]
          /\ Step(t, [new EXCEPT !.sock = Least(unused),
                        !.pc = IF state = "up" THEN "head" ELSE "release",
                        !.status = IF state = "up" THEN "none" ELSE "error"])
    BY <1>7 DEF Begin
  <2>2. fds \in [1 .. MaxSockets -> Calls \cup {None}]
    BY DEF Inv, OtherInv
  <2>3. Least(unused) \in unused
    <3>1. unused \subseteq Nat
      BY <2>2, ClientAssumption
    <3>2. unused # {}
      BY <1>7
    <3>. HIDE DEF unused
    <3>. QED
      BY <3>1, <3>2, LeastNumber
  <2>4. PICK fd : fd = Least(unused) /\ fd \in DOMAIN fds /\ fds[fd] = None /\ fd \in 0 .. MaxSockets
    <3>1. PICK fd : fd = Least(unused)
      OBVIOUS
    <3>2. fd \in DOMAIN fds /\ fds[fd] = None
      BY <2>3, <3>1
    <3>3. fd \in 0 .. MaxSockets
      BY <2>2, <3>2, ClientAssumption
    <3>. QED
      BY <3>1, <3>2, <3>3
  <2>5. PICK q, pc, status : /\ q = [new EXCEPT !.sock = fd, !.pc = pc, !.status = status]
                             /\ pc \in {"head", "release"} /\ status \in {"none", "error"}
                             /\ Step(t, q)
    BY <2>1, <2>4
  <2>6. /\ DOMAIN q = ThreadFields /\ q.n = n + 1 /\ q.todo = threads[t].todo /\ q.sock = fd
        /\ q.status = status /\ q.pc = pc
    BY <1>4, <2>5 DEF ThreadFields
  <2>7. ThreadFine(q)
    BY <1>1, <1>2, <1>3, <2>4, <2>5, <2>6 DEF ThreadFine, Running, Statuses
  <2>8. ConnsKeep
    <3>1. PICK d, a, s : d = c /\ a = Asked(t) /\ s = (url.protocol = "https")
      OBVIOUS
    <3>2. conns' = [conns EXCEPT ![d].state = state, ![d].ask = a, ![d].ssl = s]
      BY <2>1, <3>1
    <3>3. state \in ConnStates
      BY <2>1 DEF ConnStates
    <3>. QED
      BY <3>2, <3>3 DEF Inv, ConnInv, ConnsKeep, ConnFields
  <2>9. fds' = [fds EXCEPT ![fd] = <<t, q.n>>]
    BY <2>1, <2>4, <2>6
  <2>. QED
    BY <1>1, <2>4, <2>5, <2>6, <2>7, <2>8, <2>9, BeginOpensStep
<1>. QED
  BY <1>6, <1>7

(* A thread closes its own descriptor: nobody else has the same.           *)
LEMMA CloseStep == ASSUME Inv, NEW t \in Threads, httpc_close_free(t) PROVE Inv'
<1>. DEFINE n == threads[t].n
            sock == threads[t].sock
<1>1. /\ threads[t].pc = "release" /\ Closes(sock) /\ conns' = Closed(sock)
      /\ Step(t, [Idle EXCEPT !.n = n, !.todo = Tail(threads[t].todo)])
      /\ process' \in {"alive", "dead"} /\ UNCHANGED <<heap, spent>>
  BY DEF httpc_close_free
<1>2. /\ ThreadFine(threads[t]) /\ n \in Nat /\ threads[t].todo # << >>
      /\ n + Len(threads[t].todo) <= MaxCalls + 1 /\ sock \in 0 .. MaxSockets
  BY <1>1 DEF Inv, ThreadInv, ThreadFine
<1>3. PICK S : threads[t].todo \in Seq(S)
  BY <1>2 DEF ThreadFine
<1>4. Tail(threads[t].todo) \in Seq(S) /\ n + Len(Tail(threads[t].todo)) <= MaxCalls
  <2>1. Len(threads[t].todo) \in Nat /\ Len(Tail(threads[t].todo)) = Len(threads[t].todo) - 1
    BY <1>2, <1>3
  <2>. QED
    BY <1>2, <1>3, <2>1, ClientAssumption
<1>5. PICK q : q = [Idle EXCEPT !.n = n, !.todo = Tail(threads[t].todo)]
  OBVIOUS
<1>6. /\ DOMAIN q = ThreadFields /\ q.n = n /\ q.todo = Tail(threads[t].todo) /\ q.sock = 0
      /\ q.status = "none" /\ q.pc = "idle"
  BY <1>5 DEF Idle, ThreadFields, Free
<1>7. ThreadFine(q)
  <2>1. 0 \in 0 .. MaxSockets
    BY ClientAssumption
  <2>. QED
    BY <1>2, <1>4, <1>6, <2>1 DEF ThreadFine, Statuses, Free
<1>8. ThreadInv' /\ threads'[t] = q /\ \A u \in Threads : u # t => threads'[u] = threads[u]
  BY <1>1, <1>5, <1>7, ThreadMoves DEF Inv
<1>9. BlockInv'
  BY <1>1, <1>6, <1>8, BlocksStay DEF Inv, BlocksMove
<1>10. fds \in [1 .. MaxSockets -> Calls \cup {None}]
  BY DEF Inv, OtherInv
<1>11. OtherInv'
  <2>1. fds' \in [1 .. MaxSockets -> Calls \cup {None}]
    BY <1>1, <1>10 DEF Closes
  <2>. QED
    BY <1>1, <2>1 DEF Inv, OtherInv
<1>12. ConnsKeep
  <2>1. CASE conns' = conns
    BY <2>1 DEF Inv, ConnInv, ConnsKeep
  <2>2. CASE conns' # conns
    <3>1. PICK c : conns' = [conns EXCEPT ![c].state = "closed", ![c].back = << >>]
      BY <1>1, <2>2 DEF Closed
    <3>. QED
      BY <3>1 DEF Inv, ConnInv, ConnsKeep, ConnFields, ConnStates
  <2>. QED
    BY <2>1, <2>2
<1>13. DescriptorsOwned'
  <2>. SUFFICES ASSUME Undisturbed'
               PROVE  /\ \A d \in DOMAIN fds' : fds'[d] # None =>
                           \E u \in Threads : /\ threads'[u].pc # "idle" /\ threads'[u].sock = d
                                              /\ fds'[d] = <<u, threads'[u].n>>
                      /\ \A u \in Threads : threads'[u].sock # Free =>
                           fds'[threads'[u].sock] = <<u, threads'[u].n>>
    BY DEF DescriptorsOwned, Current
  <2>1. Undisturbed
    BY <1>12 DEF Undisturbed, ConnsKeep
  <2>2. /\ \A d \in DOMAIN fds : fds[d] # None =>
             \E u \in Threads : threads[u].pc # "idle" /\ threads[u].sock = d /\ fds[d] = <<u, threads[u].n>>
        /\ \A u \in Threads : threads[u].sock # Free => fds[threads[u].sock] = <<u, threads[u].n>>
    BY <2>1 DEF Inv, DescriptorsOwned, Current
  <2>3. /\ DOMAIN fds' = DOMAIN fds /\ (sock # Free => fds'[sock] = None)
        /\ \A d \in DOMAIN fds : d # sock => fds'[d] = fds[d]
    <3>1. CASE sock = Free
      BY <1>1, <3>1 DEF Closes
    <3>2. CASE sock # Free
      <4>1. sock \in DOMAIN fds
        BY <1>2, <1>10, <3>2, ClientAssumption DEF Free
      <4>. QED
        BY <1>1, <1>10, <3>2, <4>1 DEF Closes
    <3>. QED
      BY <3>1, <3>2
  <2>4. \A u \in Threads : u # t /\ sock # Free => threads[u].sock # sock
    BY <2>2
  <2>5. ASSUME NEW d \in DOMAIN fds', fds'[d] # None
        PROVE  \E u \in Threads : /\ threads'[u].pc # "idle" /\ threads'[u].sock = d
                                  /\ fds'[d] = <<u, threads'[u].n>>
    <3>1. d # 0
      BY <1>10, <2>3, ClientAssumption
    <3>2. d # sock
      BY <2>3, <2>5, <3>1 DEF Free
    <3>3. PICK u \in Threads : threads[u].pc # "idle" /\ threads[u].sock = d /\ fds[d] = <<u, threads[u].n>>
      BY <2>2, <2>3, <2>5, <3>2
    <3>4. u # t
      BY <3>2, <3>3
    <3>. QED
      BY <1>8, <2>3, <3>2, <3>3, <3>4
  <2>6. ASSUME NEW u \in Threads, threads'[u].sock # Free
        PROVE  fds'[threads'[u].sock] = <<u, threads'[u].n>>
    <3>1. u # t
      BY <1>6, <1>8, <2>6 DEF Free
    <3>2. threads'[u] = threads[u]
      BY <1>8, <3>1
    <3>3. threads[u].sock \in 0 .. MaxSockets /\ threads[u].sock # 0 /\ MaxSockets \in Nat
      BY <2>6, <3>2, ClientAssumption DEF Inv, ThreadInv, ThreadFine, Free
    <3>4. threads[u].sock \in DOMAIN fds
      BY <1>10, <3>3
    <3>5. threads[u].sock # sock
      BY <2>4, <2>6, <3>1, <3>2
    <3>. QED
      BY <2>2, <2>3, <2>6, <3>2, <3>4, <3>5
  <2>. QED
    BY <2>5, <2>6
<1>. QED
  BY <1>8, <1>9, <1>11, <1>12, <1>13 DEF Inv, ConnsKeep

-----------------------------------------------------------------------------
LEMMA NextInv == ASSUME Inv, [Next]_vars PROVE Inv'
<1>1. ASSUME NEW t \in Threads, Thread(t) PROVE Inv'
  BY <1>1, OverrunStep, BeginStep, SendHeadStep, HeadFailsStep, WriteStep, FlushStep, WriteFailsStep,
     AnswerHeadStep, HeadMissingStep, MimeParsedStep, OpenRootStep, ReadRootStep, BodyMissingStep,
     ReadBodyStep, FinishStep, CloseStep DEF Thread
<1>2. ASSUME NEW t \in Threads, Killed(t) PROVE Inv'
  BY <1>2, KilledStep
<1>3. ASSUME NEW c \in Calls, Continue(c) \/ Reply(c) \/ End(c) \/ Reset(c) \/ Stall(c) PROVE Inv'
  BY <1>3, PeerStep
<1>. QED
  BY <1>1, <1>2, <1>3, StutterStep DEF Next

LEMMA Invariance == Spec => []Inv
<1>1. Init => Inv
  BY InitInv
<1>2. Inv /\ [Next]_vars => Inv'
  BY NextInv
<1>. QED
  BY <1>1, <1>2, PTL DEF Spec

(* httpc_new to httpc_close_free: calls, descriptors, blocks and           *)
(* connections stay what they are.                                         *)
THEOREM TypeCorrect == Spec => []TypeOK
<1>1. Inv => TypeOK
  <2>. SUFFICES ASSUME Inv PROVE TypeOK
    OBVIOUS
  <2>1. ASSUME NEW t \in Threads
        PROVE  /\ threads[t].pc \in Running \cup {"idle"} /\ threads[t].sock \in 0 .. MaxSockets
               /\ threads[t].n \in 0 .. MaxCalls /\ threads[t].status \in Statuses
    <3>1. ThreadFine(threads[t]) /\ threads[t].n \in Nat
      BY DEF Inv, ThreadInv, ThreadFine
    <3>2. PICK S : threads[t].todo \in Seq(S)
      BY <3>1 DEF ThreadFine
    <3>3. Len(threads[t].todo) \in Nat
      BY <3>2
    <3>4. CASE threads[t].pc = "idle"
      <4>1. threads[t].n + Len(threads[t].todo) <= MaxCalls
        BY <3>1, <3>4 DEF ThreadFine
      <4>2. threads[t].n \in 0 .. MaxCalls
        BY <3>1, <3>3, <4>1, ClientAssumption
      <4>. QED
        BY <3>1, <4>2 DEF ThreadFine
    <3>5. CASE threads[t].pc # "idle"
      <4>1. threads[t].n \in 1 .. MaxCalls
        BY <3>5, CountedCalls DEF Current, Calls
      <4>2. threads[t].n \in 0 .. MaxCalls
        BY <4>1, ClientAssumption
      <4>. QED
        BY <3>1, <4>2 DEF ThreadFine
    <3>. QED
      BY <3>4, <3>5
  <2>2. /\ \A t \in Threads : threads[t].pc = "mime" => threads[t].block \in heap
        /\ heap \subseteq Blocks
    BY DEF Inv, BlockInv
  <2>3. /\ \A fd \in DOMAIN fds : fds[fd] \in Calls \cup {None}
        /\ process \in {"alive", "dead", "wild"} /\ spent \in 0 .. MaxFaults
    BY DEF Inv, OtherInv
  <2>4. \A c \in Calls : conns[c].state \in ConnStates
    BY DEF Inv, ConnInv
  <2>. QED
    BY <2>1, <2>2, <2>3, <2>4 DEF TypeOK, Running, Statuses, ConnStates
<1>. QED
  BY <1>1, Invariance, PTL

(* As long as every head is sent, a descriptor is closed by the thread     *)
(* that opened it, and no call works on the connection of another: what    *)
(* the two closes of _httpc_talk_to_server and httpc_close_free break.     *)
THEOREM Descriptors == Spec => []DescriptorsOwned
<1>1. Inv => DescriptorsOwned
  BY DEF Inv
<1>. QED
  BY <1>1, Invariance, PTL

-----------------------------------------------------------------------------
(* Whose answer it is. While every head is sent, the first thing on a      *)
(* connection is the head of the call it was opened for; what comes back   *)
(* answers that, and a thread keeps only that. While a parser runs nobody  *)
(* else has its files, and who gets them afterwards leaves a mark.         *)
ConnMine(c) ==
  /\ IsSeq(conns[c].sent) /\ IsSeq(conns[c].back)
  /\ conns[c].sent # << >> => conns[c].sent[1].what = "head" /\ conns[c].sent[1].of = c
  /\ \A i \in DOMAIN conns[c].back : conns[c].back[i].kind = "head" => conns[c].back[i].of = c

AnswerFields == {"of", "code", "body", "parts", "reused"}
FileFields == {"of", "there", "reused"}

AnswerMine(t) ==
  /\ DOMAIN threads[t].answer = AnswerFields
  /\ threads[t].answer.of = Current(t) /\ threads[t].answer.code # 100
  /\ threads[t].answer.parts \in {None, Current(t)} \/ threads[t].answer.reused

FileMine(t) ==
  /\ threads[t].block \in Blocks
  /\ files[threads[t].block].of = Current(t) \/ files[threads[t].block].reused

ThreadMine(t) ==
  /\ threads[t].pc = "write" => conns[Current(t)].sent # << >>
  /\ threads[t].pc \in {"mime", "read"} =>
       threads[t].head.of = Current(t) /\ threads[t].head.parsed.errcode # 100
  /\ threads[t].pc = "mime" => files[threads[t].block].of = Current(t)
  /\ threads[t].pc \in {"parts", "root"} => AnswerMine(t) /\ FileMine(t)
  /\ threads[t].pc = "result" => AnswerMine(t)
  /\ threads[t].pc = "release" /\ threads[t].status = "ok" =>
       /\ AnswerMine(t)
       /\ Asked(t).method # "GET" => threads[t].answer.code = 200 /\ threads[t].answer.body = "whole"

Mine == (\A c \in Calls : ConnMine(c)) /\ (\A t \in Threads : ThreadMine(t))

FilesFine == DOMAIN files = Blocks /\ \A b \in Blocks : DOMAIN files[b] = FileFields

MineInv == FilesFine /\ (Undisturbed => Mine)

\* Only a block that is free gets other files, which is seen by who still reads the old.
FileGoes(b) ==
  \/ files'[b].of = files[b].of /\ files'[b].reused = files[b].reused
  \/ b \notin heap /\ files'[b].reused = StillUsed(b)

FilesKeep == FilesFine' /\ \A b \in Blocks : FileGoes(b)

LEMMA FilesSame == ASSUME FilesFine, UNCHANGED files PROVE FilesKeep
BY DEF FilesFine, FilesKeep, FileGoes

LEMMA FilesRemoved == ASSUME FilesFine, NEW t \in Threads, files' = Removed(t) PROVE FilesKeep
<1>1. CASE threads[t].block \notin Blocks
  BY <1>1, FilesSame DEF Removed
<1>2. CASE threads[t].block \in Blocks
  <2>1. PICK b \in Blocks : b = threads[t].block /\ files' = [files EXCEPT ![b].there = FALSE]
    BY <1>2 DEF Removed
  <2>2. /\ DOMAIN files' = Blocks /\ files'[b] = [files[b] EXCEPT !.there = FALSE]
        /\ \A x \in Blocks : x # b => files'[x] = files[x]
    BY <2>1 DEF FilesFine
  <2>3. DOMAIN files'[b] = FileFields /\ files'[b].of = files[b].of /\ files'[b].reused = files[b].reused
    BY <2>2 DEF FilesFine, FileFields
  <2>. QED
    BY <2>2, <2>3 DEF FilesFine, FilesKeep, FileGoes
<1>. QED
  BY <1>1, <1>2

LEMMA FilesGiven ==
  ASSUME FilesFine, NEW c, NEW b \in Blocks \ heap,
         files' = [files EXCEPT ![b] = [of |-> c, there |-> TRUE, reused |-> StillUsed(b)]]
  PROVE  FilesKeep /\ files'[b].of = c
<1>1. PICK file : file = [of |-> c, there |-> TRUE, reused |-> StillUsed(b)]
  OBVIOUS
<1>2. DOMAIN file = FileFields /\ file.of = c
  BY <1>1 DEF FileFields
<1>3. file.reused = StillUsed(b)
  BY <1>1
<1>4. DOMAIN files' = Blocks /\ files'[b] = file /\ \A x \in Blocks : x # b => files'[x] = files[x]
  BY <1>1 DEF FilesFine
<1>5. FilesFine'
  BY <1>2, <1>4 DEF FilesFine
<1>6. FileGoes(b)
  BY <1>3, <1>4 DEF FileGoes
<1>7. \A x \in Blocks : x # b => FileGoes(x)
  BY <1>4 DEF FileGoes
<1>. QED
  BY <1>2, <1>4, <1>5, <1>6, <1>7 DEF FilesKeep

LEMMA InitMine == ASSUME Init PROVE MineInv
<1>1. \A c \in Calls : conns[c].sent = << >> /\ conns[c].back = << >>
  BY DEF Init
<1>2. IsSeq(<< >>)
  <2>1. << >> \in Seq({})
    OBVIOUS
  <2>. QED
    BY <2>1 DEF IsSeq
<1>3. \A c \in Calls : ConnMine(c)
  BY <1>1, <1>2 DEF ConnMine
<1>4. ASSUME NEW t \in Threads PROVE ThreadMine(t)
  <2>1. threads[t].pc = "idle"
    <3>1. PICK s \in Scenarios : threads = [u \in Threads |-> [Idle EXCEPT !.todo = s[u]]]
      BY DEF Init
    <3>. QED
      BY <3>1 DEF Idle
  <2>. QED
    BY <2>1 DEF ThreadMine
<1>5. FilesFine
  BY DEF Init, FilesFine, FileFields
<1>. QED
  BY <1>3, <1>4, <1>5 DEF MineInv, Mine

\* What a running thread works on is its own connection.
LEMMA OwnConn ==
  ASSUME Inv, Undisturbed, NEW t \in Threads, ConnOf(t) # None
  PROVE  ConnOf(t) = Current(t) /\ Current(t) \in Calls /\ threads[t].pc # "idle"
<1>1. threads[t].sock # Free /\ ConnOf(t) = fds[threads[t].sock]
  BY DEF ConnOf
<1>2. ConnOf(t) = Current(t)
  BY <1>1 DEF Inv, DescriptorsOwned
<1>3. threads[t].pc # "idle"
  BY <1>1 DEF Inv, ThreadInv, ThreadFine
<1>. QED
  BY <1>2, <1>3, CountedCalls

\* The threads that do not move.
LEMMA OthersMine ==
  ASSUME Inv, Undisturbed, NEW u \in Threads, ThreadMine(u), threads'[u] = threads[u],
         Current(u) \in Calls /\ conns[Current(u)].sent # << >> => conns'[Current(u)].sent # << >>,
         FilesKeep
  PROVE  ThreadMine(u)'
<1>1. Current(u)' = Current(u) /\ Asked(u)' = Asked(u)
  BY DEF Current, Asked
<1>2. threads[u].pc = "write" => Current(u) \in Calls
  BY CountedCalls
<1>3. AnswerMine(u)' <=> AnswerMine(u)
  BY <1>1 DEF AnswerMine
<1>4. ASSUME threads[u].pc = "mime" PROVE files'[threads[u].block].of = files[threads[u].block].of
  <2>1. threads[u].block \in heap /\ heap \subseteq Blocks
    BY <1>4 DEF Inv, BlockInv
  <2>2. FileGoes(threads[u].block)
    BY <2>1 DEF FilesKeep
  <2>. QED
    BY <2>1, <2>2 DEF FileGoes
<1>5. ASSUME threads[u].pc \in {"parts", "root"} PROVE FileMine(u)'
  <2>1. PICK b \in Blocks : b = threads[u].block /\ (files[b].of = Current(u) \/ files[b].reused)
    BY <1>5 DEF ThreadMine, FileMine
  <2>2. StillUsed(b)
    BY <1>5, <2>1 DEF StillUsed
  <2>3. FileGoes(b)
    BY DEF FilesKeep
  <2>4. files'[b].of = Current(u) \/ files'[b].reused
    BY <2>1, <2>2, <2>3, Zenon DEF FileGoes
  <2>. QED
    BY <1>1, <2>1, <2>4 DEF FileMine
<1>6. threads[u].pc = "mime" => files'[threads[u].block].of = Current(u)
  BY <1>4 DEF ThreadMine
<1>. QED
  BY <1>1, <1>2, <1>3, <1>5, <1>6 DEF ThreadMine

LEMMA PeerMine ==
  ASSUME Inv, MineInv, NEW c \in Calls, Continue(c) \/ Reply(c) \/ End(c) \/ Reset(c) \/ Stall(c)
  PROVE  MineInv'
<1>1. DOMAIN conns[c] = ConnFields /\ DOMAIN conns = Calls
  BY DEF Inv, ConnInv
<1>2. UNCHANGED <<threads, files>> /\ \E conn : conns' = [conns EXCEPT ![c] = conn]
  BY DEF Continue, Reply, End, Reset, Stall, Peer
<1>3. /\ conns'[c].sent = conns[c].sent /\ conns'[c].unsent = conns[c].unsent
      /\ \/ conns'[c].back = conns[c].back
         \/ conns'[c].back = << >>
         \/ \E head : Open(c) /\ conns'[c].back = Append(conns[c].back, HeadUnit(c, head))
         \/ \E head, tail : /\ Open(c) /\ tail.kind = "body"
                            /\ conns'[c].back = conns[c].back \o <<HeadUnit(c, head), tail>>
  <2>1. CASE Continue(c)
    BY <1>1, <2>1 DEF Continue, Peer, ConnFields
  <2>2. CASE Reply(c)
    <3>1. Open(c)
      BY <2>2 DEF Reply
    <3>2. PICK head, tail : /\ tail.kind = "body"
                            /\ Peer(c, [conns[c] EXCEPT !.answered = TRUE, !.back = @ \o <<HeadUnit(c, head), tail>>])
      BY <2>2 DEF Reply
    <3>. QED
      BY <1>1, <3>1, <3>2 DEF Peer, ConnFields
  <2>3. CASE End(c) \/ Reset(c) \/ Stall(c)
    BY <1>1, <2>3, ZenonT(60) DEF End, Reset, Stall, Peer, ConnFields
  <2>. QED
    BY <2>1, <2>2, <2>3
<1>4. \A d \in Calls : d # c => conns'[d] = conns[d]
  BY <1>1, <1>2
<1>9. FilesKeep
  BY <1>2, FilesSame DEF MineInv
<1>. SUFFICES ASSUME Undisturbed' PROVE Mine'
  BY <1>9 DEF MineInv, FilesKeep
<1>5. Undisturbed /\ Mine
  BY <1>3, <1>4 DEF Undisturbed, MineInv
<1>6. ASSUME NEW t \in Threads PROVE ThreadMine(t)'
  <2>1. Current(t) \in Calls => conns'[Current(t)].sent = conns[Current(t)].sent
    BY <1>3, <1>4
  <2>. QED
    BY <1>2, <1>5, <1>9, <2>1, OthersMine DEF Mine
<1>7. ConnMine(c)'
  <2>1. ConnMine(c)
    BY <1>5 DEF Mine
  <2>2. ASSUME Open(c), NEW head PROVE HeadUnit(c, head).of = c
    <3>1. PICK s, S : s = conns[c].sent /\ s \in Seq(S)
      BY <2>1 DEF ConnMine, IsSeq
    <3>2. DOMAIN s = 1 .. Len(s) /\ Len(s) \in Nat
      BY <3>1
    <3>3. Heads(c) \subseteq 1 .. Len(s) /\ Heads(c) # {}
      BY <2>2, <3>1, <3>2 DEF Open, Heads
    <3>4. s # << >>
      BY <3>2, <3>3
    <3>5. 1 \in Heads(c)
      <4>1. 1 \in DOMAIN s
        BY <3>1, <3>2, <3>4
      <4>. QED
        BY <2>1, <3>1, <3>4, <4>1 DEF ConnMine, Heads
    <3>6. Least(Heads(c)) = 1
      <4>1. \A y \in Heads(c) : 1 <= y
        BY <3>2, <3>3
      <4>2. \A x \in Heads(c) : (\A y \in Heads(c) : x <= y) => x = 1
        BY <3>2, <3>3, <3>5
      <4>. QED
        BY <3>5, <4>1, <4>2 DEF Least
    <3>. QED
      BY <2>1, <3>1, <3>4, <3>6 DEF ConnMine, HeadUnit
  <2>3. IsSeq(conns'[c].back) /\ \A i \in DOMAIN conns'[c].back :
          conns'[c].back[i].kind = "head" => conns'[c].back[i].of = c
    <3>1. CASE conns'[c].back = conns[c].back
      BY <2>1, <3>1 DEF ConnMine
    <3>2. CASE conns'[c].back = << >>
      <4>1. << >> \in Seq({}) /\ DOMAIN << >> = {}
        OBVIOUS
      <4>. QED
        BY <3>2, <4>1 DEF IsSeq
    <3>3. ASSUME NEW head, Open(c), conns'[c].back = Append(conns[c].back, HeadUnit(c, head))
          PROVE  IsSeq(conns'[c].back) /\ \A i \in DOMAIN conns'[c].back :
                   conns'[c].back[i].kind = "head" => conns'[c].back[i].of = c
      <4>1. PICK u : u = HeadUnit(c, head) /\ u.of = c
        BY <2>2, <3>3
      <4>2. PICK b : b = conns[c].back /\ IsSeq(b) /\ \A i \in DOMAIN b : b[i].kind = "head" => b[i].of = c
        BY <2>1 DEF ConnMine
      <4>3. IsSeq(Append(b, u)) /\ \A i \in DOMAIN Append(b, u) :
              Append(b, u)[i] = u \/ (i \in DOMAIN b /\ Append(b, u)[i] = b[i])
        BY <4>2, AppendFacts
      <4>. QED
        BY <3>3, <4>1, <4>2, <4>3
    <3>4. ASSUME NEW head, NEW tail, Open(c), tail.kind = "body",
                 conns'[c].back = conns[c].back \o <<HeadUnit(c, head), tail>>
          PROVE  IsSeq(conns'[c].back) /\ \A i \in DOMAIN conns'[c].back :
                   conns'[c].back[i].kind = "head" => conns'[c].back[i].of = c
      <4>1. PICK u, b : u = HeadUnit(c, head) /\ u.of = c /\ b = conns[c].back /\ IsSeq(b)
                      /\ \A i \in DOMAIN b : b[i].kind = "head" => b[i].of = c
        BY <2>1, <2>2, <3>4 DEF ConnMine
      <4>2. b \o <<u, tail>> = Append(Append(b, u), tail)
        <5>1. PICK S : b \in Seq(S)
          BY <4>1 DEF IsSeq
        <5>2. b \in Seq(S \cup {u, tail})
          BY <5>1
        <5>. QED
          BY <5>2
      <4>3. IsSeq(Append(b, u)) /\ \A i \in DOMAIN Append(b, u) :
              Append(b, u)[i] = u \/ (i \in DOMAIN b /\ Append(b, u)[i] = b[i])
        BY <4>1, AppendFacts
      <4>4. ASSUME NEW i \in DOMAIN Append(b, u), Append(b, u)[i].kind = "head"
            PROVE  Append(b, u)[i].of = c
        BY <4>1, <4>3, <4>4
      <4>5. PICK x : x = Append(b, u) /\ IsSeq(x)
        BY <4>3
      <4>6. IsSeq(Append(x, tail)) /\ \A i \in DOMAIN Append(x, tail) :
              Append(x, tail)[i] = tail \/ (i \in DOMAIN x /\ Append(x, tail)[i] = x[i])
        BY <4>5, AppendFacts
      <4>7. ASSUME NEW i \in DOMAIN Append(x, tail), Append(x, tail)[i].kind = "head"
            PROVE  Append(x, tail)[i].of = c
        <5>1. Append(x, tail)[i] # tail
          BY <3>4, <4>7
        <5>2. i \in DOMAIN x /\ Append(x, tail)[i] = x[i]
          BY <4>6, <5>1
        <5>. QED
          BY <4>4, <4>5, <4>7, <5>2
      <4>8. conns'[c].back = Append(x, tail)
        BY <3>4, <4>1, <4>2, <4>5
      <4>. QED
        BY <4>6, <4>7, <4>8
    <3>. QED
      BY <1>3, <3>1, <3>2, <3>3, <3>4
  <2>. QED
    BY <1>3, <2>1, <2>3 DEF ConnMine
<1>8. \A d \in Calls : ConnMine(d)'
  BY <1>4, <1>5, <1>7 DEF Mine, ConnMine
<1>. QED
  BY <1>6, <1>8 DEF Mine

-----------------------------------------------------------------------------
\* A step of one thread: the others keep what is theirs.
LEMMA ThreadStepMine ==
  ASSUME Inv, Undisturbed, Mine, NEW t \in Threads,
         \A u \in Threads : u # t => threads'[u] = threads[u],
         \A c \in Calls : conns[c].sent # << >> => conns'[c].sent # << >>,
         FilesKeep, \A c \in Calls : ConnMine(c)', ThreadMine(t)'
  PROVE  Mine'
<1>1. ASSUME NEW u \in Threads, u # t PROVE ThreadMine(u)'
  <2>1. ThreadMine(u)
    BY DEF Mine
  <2>. QED
    BY <1>1, <2>1, OthersMine
<1>2. \A u \in Threads : ThreadMine(u)'
  BY <1>1
<1>. QED
  BY <1>2 DEF Mine

\* Connections on which nothing is sent, and from which at most is taken.
LEMMA ConnStays ==
  ASSUME NEW c \in Calls, ConnMine(c), conns'[c].sent = conns[c].sent,
         \/ conns'[c].back = conns[c].back
         \/ conns'[c].back = << >>
         \/ conns[c].back # << >> /\ conns'[c].back = Tail(conns[c].back)
  PROVE  ConnMine(c)'
<1>1. << >> \in Seq({}) /\ DOMAIN << >> = {}
  OBVIOUS
<1>2. PICK b : b = conns[c].back /\ IsSeq(b) /\ \A i \in DOMAIN b : b[i].kind = "head" => b[i].of = c
  BY DEF ConnMine
<1>3. IsSeq(conns'[c].back) /\ \A i \in DOMAIN conns'[c].back :
        conns'[c].back[i].kind = "head" => conns'[c].back[i].of = c
  <2>1. CASE conns'[c].back = << >>
    BY <1>1, <2>1 DEF IsSeq
  <2>2. CASE conns'[c].back = b
    BY <1>2, <2>2
  <2>3. CASE b # << >> /\ conns'[c].back = Tail(b)
    <3>1. IsSeq(Tail(b)) /\ \A i \in DOMAIN Tail(b) : i + 1 \in DOMAIN b /\ Tail(b)[i] = b[i + 1]
      BY <1>2, <2>3, TailFacts
    <3>2. ASSUME NEW i \in DOMAIN Tail(b), Tail(b)[i].kind = "head" PROVE Tail(b)[i].of = c
      BY <1>2, <3>1, <3>2
    <3>. QED
      BY <2>3, <3>1, <3>2
  <2>. QED
    BY <1>2, <2>1, <2>2, <2>3
<1>. QED
  BY <1>3 DEF ConnMine

LEMMA SendsMine ==
  ASSUME Inv, MineInv, NEW t \in Threads, NEW units, NEW q, Keeps(threads[t], q), Sends(t, units, q),
         q.pc \in {"write", "receive"},
         \/ threads[t].pc = "write" /\ (units = << >> \/ \E u : units = <<u>>)
         \/ threads[t].pc = "head" /\ \E u : units = <<u>> /\ u.what = "head" /\ u.of = Current(t)
  PROVE  MineInv'
<1>1. /\ ConnOf(t) # None /\ Step(t, q) /\ UNCHANGED files
      /\ conns' = [conns EXCEPT ![ConnOf(t)].sent = @ \o units]
  BY DEF Sends, CanSend
<1>2. DOMAIN conns = Calls /\ \A c \in Calls : DOMAIN conns[c] = ConnFields
  BY DEF Inv, ConnInv
<1>14. FilesKeep
  BY <1>1, FilesSame DEF MineInv
<1>. SUFFICES ASSUME Undisturbed' PROVE Mine'
  BY <1>14 DEF MineInv, FilesKeep
<1>3. Undisturbed /\ Mine
  <2>1. PICK c, x : c = ConnOf(t) /\ x = conns[c].sent \o units
    OBVIOUS
  <2>2. conns' = [conns EXCEPT ![c].sent = x]
    BY <1>1, <2>1
  <2>3. Undisturbed
    BY <1>2, <2>2 DEF Undisturbed, ConnFields
  <2>. QED
    BY <2>3 DEF MineInv
<1>4. PICK c \in Calls : c = Current(t) /\ c = ConnOf(t) /\ threads[t].pc # "idle"
  BY <1>1, <1>3, OwnConn
<1>5. /\ conns'[c].sent = conns[c].sent \o units /\ conns'[c].back = conns[c].back
      /\ \A d \in Calls : d # c => conns'[d] = conns[d]
  BY <1>1, <1>2, <1>4 DEF ConnFields
<1>6. PICK s : s = conns[c].sent /\ IsSeq(s) /\ (s # << >> => s[1].what = "head" /\ s[1].of = c)
  BY <1>3 DEF Mine, ConnMine
<1>7. threads[t].pc = "write" => s # << >>
  <2>1. ThreadMine(t)
    BY <1>3 DEF Mine
  <2>2. threads[t].pc = "write" => conns[Current(t)].sent # << >>
    BY <2>1 DEF ThreadMine
  <2>. QED
    BY <1>4, <1>6, <2>2
<1>8. /\ IsSeq(s \o units) /\ s \o units # << >>
      /\ (s \o units)[1].what = "head" /\ (s \o units)[1].of = c
  <2>1. CASE units = << >>
    <3>1. s \o << >> = s
      <4>1. PICK S : s \in Seq(S)
        BY <1>6 DEF IsSeq
      <4>. QED
        BY <4>1
    <3>2. threads[t].pc = "write"
      BY <2>1
    <3>. QED
      BY <1>6, <1>7, <2>1, <3>1, <3>2
  <2>2. ASSUME NEW u, units = <<u>>, threads[t].pc = "head" => u.what = "head" /\ u.of = c
        PROVE  /\ IsSeq(s \o units) /\ s \o units # << >>
               /\ (s \o units)[1].what = "head" /\ (s \o units)[1].of = c
    <3>1. /\ IsSeq(Append(s, u)) /\ s \o <<u>> = Append(s, u) /\ Append(s, u) # << >>
          /\ s = << >> => Append(s, u)[1] = u
          /\ s # << >> => Append(s, u)[1] = s[1]
      BY <1>6, AppendFacts
    <3>. QED
      BY <1>6, <1>7, <2>2, <3>1
  <2>. QED
    BY <1>4, <2>1, <2>2
<1>9. ConnMine(c)'
  <2>1. ConnMine(c)
    BY <1>3 DEF Mine
  <2>. QED
    BY <1>5, <1>6, <1>8, <2>1 DEF ConnMine
<1>10. \A d \in Calls : ConnMine(d)'
  <2>1. ASSUME NEW d \in Calls, d # c PROVE ConnMine(d)'
    BY <1>3, <1>5, <2>1, ConnStays DEF Mine
  <2>. QED
    BY <1>9, <2>1
<1>11. threads'[t] = q /\ \A u \in Threads : u # t => threads'[u] = threads[u]
  BY <1>1, <1>4, ThreadGoesOn DEF Inv
<1>12. ThreadMine(t)'
  <2>1. Current(t)' = c
    BY <1>4, <1>11 DEF Current, Keeps
  <2>. QED
    BY <1>5, <1>6, <1>8, <1>11, <2>1 DEF ThreadMine
<1>13. \A d \in Calls : conns[d].sent # << >> => conns'[d].sent # << >>
  BY <1>5, <1>6, <1>8
<1>. QED
  BY <1>3, <1>10, <1>11, <1>12, <1>13, <1>14, ThreadStepMine

\* A unit is taken from the thread's own connection.
LEMMA TakesMine ==
  ASSUME Inv, MineInv, NEW t \in Threads, NEW q, Keeps(threads[t], q), Takes(t, q), Back(t) # << >>,
         FilesKeep, Undisturbed /\ Mine /\ threads'[t] = q => ThreadMine(t)'
  PROVE  MineInv'
<1>1. /\ ConnOf(t) # None /\ Step(t, q) /\ Back(t) = conns[ConnOf(t)].back
      /\ conns' = [conns EXCEPT ![ConnOf(t)].back = Tail(@)]
  BY DEF Takes, Back
<1>2. DOMAIN conns = Calls /\ \A c \in Calls : DOMAIN conns[c] = ConnFields
  BY DEF Inv, ConnInv
<1>. SUFFICES ASSUME Undisturbed' PROVE Mine'
  BY DEF MineInv, FilesKeep
<1>3. Undisturbed /\ Mine
  <2>1. PICK c, x : c = ConnOf(t) /\ x = Tail(conns[c].back)
    OBVIOUS
  <2>2. conns' = [conns EXCEPT ![c].back = x]
    BY <1>1, <2>1
  <2>3. Undisturbed
    BY <1>2, <2>2 DEF Undisturbed, ConnFields
  <2>. QED
    BY <2>3 DEF MineInv
<1>4. PICK c \in Calls : c = Current(t) /\ c = ConnOf(t) /\ threads[t].pc # "idle"
  BY <1>1, <1>3, OwnConn
<1>5. /\ conns'[c].back = Tail(conns[c].back) /\ conns'[c].sent = conns[c].sent /\ conns[c].back # << >>
      /\ \A d \in Calls : d # c => conns'[d] = conns[d]
  BY <1>1, <1>2, <1>4 DEF ConnFields
<1>6. \A d \in Calls : ConnMine(d)'
  <2>1. ASSUME NEW d \in Calls PROVE ConnMine(d)'
    BY <1>3, <1>5, <2>1, ConnStays DEF Mine
  <2>. QED
    BY <2>1
<1>7. threads'[t] = q /\ \A u \in Threads : u # t => threads'[u] = threads[u]
  BY <1>1, <1>4, ThreadGoesOn DEF Inv
<1>8. \A d \in Calls : conns[d].sent # << >> => conns'[d].sent # << >>
  BY <1>5
<1>. QED
  BY <1>3, <1>6, <1>7, <1>8, ThreadStepMine

LEMMA GivesMine ==
  ASSUME Inv, MineInv, NEW t \in Threads, NEW q, threads[t].pc # "idle", Keeps(threads[t], q), Step(t, q),
         UNCHANGED conns, FilesKeep, Undisturbed /\ Mine /\ threads'[t] = q => ThreadMine(t)'
  PROVE  MineInv'
<1>. SUFFICES ASSUME Undisturbed' PROVE Mine'
  BY DEF MineInv, FilesKeep
<1>1. Undisturbed /\ Mine
  BY DEF Undisturbed, MineInv
<1>2. threads'[t] = q /\ \A u \in Threads : u # t => threads'[u] = threads[u]
  BY ThreadGoesOn DEF Inv
<1>3. \A d \in Calls : ConnMine(d)'
  BY <1>1 DEF Mine, ConnMine
<1>. QED
  BY <1>1, <1>2, <1>3, ThreadStepMine

\* A thread that fails has nothing to keep.
LEMMA FailingMine ==
  ASSUME NEW t \in Threads, NEW q, threads'[t] = q, q.pc \notin {"write", "mime", "parts", "root", "read", "result"},
         q.pc = "release" => q.status # "ok"
  PROVE  ThreadMine(t)'
BY DEF ThreadMine

-----------------------------------------------------------------------------
LEMMA SendingMine ==
  ASSUME Inv, MineInv, NEW t \in Threads, SendHead(t) \/ Write(t) \/ http_output_stream_flush(t)
  PROVE  MineInv'
<1>1. DOMAIN threads[t] = ThreadFields /\ "receive" \in Running /\ "write" \in Running
  BY DEF Inv, ThreadInv, ThreadFine, Running
<1>2. CASE SendHead(t)
  <2>1. PICK u, w : /\ u.what = "head" /\ u.of = Current(t) /\ threads[t].pc = "head"
                    /\ Sends(t, <<u>>, IF Asked(t).method = "GET" THEN [threads[t] EXCEPT !.pc = "receive"]
                                       ELSE [threads[t] EXCEPT !.pc = "write", !.writes = w])
    <3>1. PICK u : u = [what |-> "head", size |-> 1, of |-> Current(t), header |-> Header[Asked(t)]]
      OBVIOUS
    <3>2. u.what = "head" /\ u.of = Current(t)
      BY <3>1
    <3>. QED
      BY <1>2, <3>1, <3>2 DEF SendHead
  <2>2. PICK q : q = IF Asked(t).method = "GET" THEN [threads[t] EXCEPT !.pc = "receive"]
                     ELSE [threads[t] EXCEPT !.pc = "write", !.writes = w]
    OBVIOUS
  <2>3. Keeps(threads[t], q) /\ q.pc \in {"write", "receive"}
    BY <1>1, <2>1, <2>2, Kept DEF ThreadFields
  <2>4. Sends(t, <<u>>, q)
    BY <2>1, <2>2
  <2>. QED
    BY <2>1, <2>3, <2>4, SendsMine
<1>3. CASE Write(t)
  <2>1. PICK q : /\ q = [threads[t] EXCEPT !.writes = Tail(@)] /\ threads[t].pc = "write"
                 /\ Sends(t, <<threads[t].writes[1]>>, q)
    BY <1>3 DEF Write
  <2>2. Keeps(threads[t], q) /\ q.pc \in {"write", "receive"}
    BY <1>1, <2>1, Kept DEF ThreadFields
  <2>. QED
    BY <2>1, <2>2, SendsMine
<1>4. CASE http_output_stream_flush(t)
  <2>1. PICK q, units : /\ q = [threads[t] EXCEPT !.pc = "receive"] /\ threads[t].pc = "write"
                        /\ Sends(t, units, q) /\ (units = << >> \/ \E u : units = <<u>>)
    BY <1>4 DEF http_output_stream_flush
  <2>2. Keeps(threads[t], q) /\ q.pc \in {"write", "receive"}
    BY <1>1, <2>1, Kept DEF ThreadFields
  <2>. QED
    BY <2>1, <2>2, SendsMine
<1>. QED
  BY <1>2, <1>3, <1>4

LEMMA FailsMine ==
  ASSUME Inv, MineInv, NEW t \in Threads, WriteFails(t) \/ HeadMissing(t)
  PROVE  MineInv'
<1>1. threads[t].pc \in {"write", "receive"} /\ Step(t, Failing(t, "error")) /\ UNCHANGED <<conns, files>>
  BY DEF WriteFails, HeadMissing, NothingComes, Gives
<1>2. PICK q : q = Failing(t, "error") /\ Keeps(threads[t], q) /\ q.pc = "release"
  BY <1>1, KeptFailing DEF Statuses
<1>3. q.status = "error"
  BY <1>2 DEF Failing, Inv, ThreadInv, ThreadFine, ThreadFields
<1>4. FilesKeep
  BY <1>1, FilesSame DEF MineInv
<1>. QED
  BY <1>1, <1>2, <1>3, <1>4, GivesMine, FailingMine

LEMMA HeadFailsMine == ASSUME Inv, MineInv, NEW t \in Threads, HeadFails(t) PROVE MineInv'
<1>1. PICK cs, c : c = Current(t) /\ cs = Closed(threads[t].sock) /\ conns' = [cs EXCEPT ![c].unsent = TRUE]
  BY DEF HeadFails
<1>2. c \in Calls
  BY <1>1, CountedCalls DEF HeadFails
<1>3. DOMAIN cs = Calls /\ "unsent" \in DOMAIN cs[c]
  BY <1>1, <1>2 DEF Closed, Inv, ConnInv, ConnFields
<1>4. conns'[c].unsent
  BY <1>1, <1>2, <1>3
<1>. QED
  BY <1>2, <1>4 DEF MineInv, FilesFine, Undisturbed, HeadFails

\* The head of an answer that is not an interim one.
LEMMA AnswerHeadMine ==
  ASSUME Inv, MineInv, NEW t \in Threads, hresponse_new_from_socket(t)
  PROVE  MineInv'
<1>1. threads[t].pc = "receive" /\ Back(t) # << >> /\ DOMAIN threads[t] = ThreadFields /\ FilesFine
  BY DEF hresponse_new_from_socket, Inv, ThreadInv, ThreadFine, MineInv
<1>2. threads[t].status \in Statuses
  BY DEF Inv, ThreadInv, ThreadFine
<1>. DEFINE Given(b) == [of |-> Current(t), there |-> TRUE, reused |-> StillUsed(b)]
            Answering(h) ==
              h.of = Back(t)[1].of /\ h.parsed.errcode # 100 /\ Back(t)[1].kind = "head"
<1>3. \/ Takes(t, Failing(t, "error")) /\ UNCHANGED files
      \/ Takes(t, threads[t]) /\ UNCHANGED files
      \/ \E h : /\ Takes(t, [[threads[t] EXCEPT !.head = h] EXCEPT !.pc = "read"])
                /\ UNCHANGED files /\ Answering(h)
      \/ \E h, b : /\ Takes(t, [[threads[t] EXCEPT !.head = h] EXCEPT !.pc = "mime", !.block = b])
                   /\ b \in Blocks \ heap /\ files' = [files EXCEPT ![b] = Given(b)] /\ Answering(h)
  <2>1. PICK unit, head : /\ unit = Back(t)[1]
                          /\ head = IF unit.kind = "head" THEN Parsed[unit.head] ELSE [ok |-> FALSE]
    OBVIOUS
  <2>2. PICK h : h = [parsed |-> head, of |-> unit.of, fits |-> Fits(unit.head)]
    OBVIOUS
  <2>3. h.of = unit.of /\ h.parsed = head
    BY <2>2
  <2>4. head.ok => unit.kind = "head"
    BY <2>1
  <2>5. \/ Takes(t, Failing(t, "error")) /\ UNCHANGED files
        \/ Takes(t, threads[t]) /\ UNCHANGED files
        \/ /\ Takes(t, [[threads[t] EXCEPT !.head = h] EXCEPT !.pc = "read"])
           /\ UNCHANGED files /\ head.ok /\ ~GoesOn(head)
        \/ \E b : /\ Takes(t, [[threads[t] EXCEPT !.head = h] EXCEPT !.pc = "mime", !.block = b])
                  /\ b \in Blocks \ heap /\ files' = [files EXCEPT ![b] = Given(b)]
                  /\ head.ok /\ ~GoesOn(head)
    BY <2>1, <2>2 DEF hresponse_new_from_socket
  <2>. QED
    BY <2>1, <2>3, <2>4, <2>5 DEF GoesOn
<1>4. ASSUME Undisturbed, Mine, NEW h, Answering(h) PROVE h.of = Current(t) /\ h.parsed.errcode # 100
  <2>1. ConnOf(t) # None /\ Back(t) = conns[ConnOf(t)].back
    BY <1>1 DEF Back
  <2>2. PICK c \in Calls : c = Current(t) /\ c = ConnOf(t)
    BY <1>4, <2>1, OwnConn
  <2>3. PICK b : b = conns[c].back /\ IsSeq(b) /\ b # << >> /\ \A i \in DOMAIN b : b[i].kind = "head" => b[i].of = c
    BY <1>1, <1>4, <2>1, <2>2 DEF Mine, ConnMine
  <2>4. 1 \in DOMAIN b
    BY <2>3, TailFacts
  <2>. QED
    BY <1>4, <2>1, <2>2, <2>3, <2>4
<1>. HIDE DEF Answering
<1>9. UNCHANGED files => FilesKeep
  BY <1>1, FilesSame
<1>5. CASE Takes(t, Failing(t, "error")) /\ UNCHANGED files
  <2>1. PICK q : q = Failing(t, "error") /\ Keeps(threads[t], q) /\ q.pc = "release" /\ Takes(t, q)
    BY <1>1, <1>5, KeptFailing DEF Statuses
  <2>2. q.status = "error"
    BY <1>1, <2>1 DEF Failing, ThreadFields
  <2>. QED
    BY <1>1, <1>5, <1>9, <2>1, <2>2, TakesMine, FailingMine
<1>6. CASE Takes(t, threads[t]) /\ UNCHANGED files
  <2>1. PICK q : q = threads[t] /\ Keeps(threads[t], q) /\ q.pc = "receive" /\ Takes(t, q)
    BY <1>1, <1>2, <1>6 DEF Keeps, Running
  <2>. QED
    BY <1>1, <1>6, <1>9, <2>1, TakesMine, FailingMine
<1>7. ASSUME NEW h, Takes(t, [[threads[t] EXCEPT !.head = h] EXCEPT !.pc = "read"]), UNCHANGED files, Answering(h)
      PROVE  MineInv'
  <2>1. PICK q : q = [[threads[t] EXCEPT !.head = h] EXCEPT !.pc = "read"]
    OBVIOUS
  <2>2. Keeps(threads[t], q) /\ q.pc = "read" /\ q.head = h /\ Takes(t, q)
    BY <1>1, <1>2, <1>7, <2>1 DEF Keeps, Running, ThreadFields
  <2>3. Undisturbed /\ Mine /\ threads'[t] = q => ThreadMine(t)'
    BY <1>4, <1>7, <2>2 DEF ThreadMine, Current, Keeps
  <2>. QED
    BY <1>1, <1>7, <1>9, <2>2, <2>3, TakesMine
<1>8. ASSUME NEW h, NEW b, Takes(t, [[threads[t] EXCEPT !.head = h] EXCEPT !.pc = "mime", !.block = b]),
             b \in Blocks \ heap, files' = [files EXCEPT ![b] = Given(b)], Answering(h)
      PROVE  MineInv'
  <2>1. PICK q : q = [[threads[t] EXCEPT !.head = h] EXCEPT !.pc = "mime", !.block = b]
    OBVIOUS
  <2>2. Keeps(threads[t], q) /\ q.pc = "mime" /\ q.block = b /\ q.head = h /\ Takes(t, q)
    BY <1>1, <1>2, <1>8, <2>1 DEF Keeps, Running, ThreadFields
  <2>3. FilesKeep /\ files'[b].of = Current(t)
    BY <1>1, <1>8, FilesGiven
  <2>4. Undisturbed /\ Mine /\ threads'[t] = q => ThreadMine(t)'
    BY <1>4, <1>8, <2>2, <2>3 DEF ThreadMine, Current, Keeps
  <2>. QED
    BY <1>1, <2>2, <2>3, <2>4, TakesMine
<1>. QED
  BY <1>3, <1>5, <1>6, <1>7, <1>8

\* What is kept of an answer is what its head said.
LEMMA AnsweredFacts ==
  ASSUME Inv, NEW t \in Threads, threads[t].pc \in {"mime", "read"}, NEW body
  PROVE  \E q : /\ q = Answered(t, body) /\ Keeps(threads[t], q) /\ q.pc = "result"
                /\ q.block = threads[t].block /\ DOMAIN q.answer = AnswerFields
                /\ q.answer.of = threads[t].head.of /\ q.answer.code = threads[t].head.parsed.errcode
                /\ q.answer.parts = None
<1>1. DOMAIN threads[t] = ThreadFields
  BY DEF Inv, ThreadInv, ThreadFine
<1>2. PICK a : a = [of |-> threads[t].head.of, code |-> threads[t].head.parsed.errcode,
                    body |-> body, parts |-> None, reused |-> FALSE]
  OBVIOUS
<1>3. /\ a.of = threads[t].head.of /\ a.code = threads[t].head.parsed.errcode /\ a.parts = None
      /\ DOMAIN a = AnswerFields
  BY <1>2 DEF AnswerFields
<1>4. PICK q : q = [threads[t] EXCEPT !.pc = "result", !.answer = a]
  OBVIOUS
<1>5. q = Answered(t, body)
  BY <1>2, <1>4 DEF Answered
<1>6. Keeps(threads[t], q)
  BY <1>4, Kept DEF Running
<1>7. q.pc = "result" /\ q.answer = a /\ q.block = threads[t].block
  BY <1>1, <1>4 DEF ThreadFields
<1>. QED
  BY <1>3, <1>5, <1>6, <1>7

LEMMA PartsFacts ==
  ASSUME Inv, NEW t \in Threads, threads[t].pc \in {"mime", "read"}, NEW body
  PROVE  \E q : /\ q = [Answered(t, body) EXCEPT !.pc = "parts"] /\ Keeps(threads[t], q) /\ q.pc = "parts"
                /\ q.block = threads[t].block /\ DOMAIN q.answer = AnswerFields
                /\ q.answer.of = threads[t].head.of /\ q.answer.code = threads[t].head.parsed.errcode
                /\ q.answer.parts = None
<1>1. PICK r : /\ r = Answered(t, body) /\ Keeps(threads[t], r) /\ r.pc = "result"
               /\ r.block = threads[t].block /\ DOMAIN r.answer = AnswerFields
               /\ r.answer.of = threads[t].head.of /\ r.answer.code = threads[t].head.parsed.errcode
               /\ r.answer.parts = None
  BY AnsweredFacts
<1>2. PICK q : q = [r EXCEPT !.pc = "parts"]
  OBVIOUS
<1>3. Keeps(threads[t], q) /\ q.pc = "parts" /\ q.block = r.block /\ q.answer = r.answer
  BY <1>1, <1>2 DEF Keeps, ThreadFields, Running
<1>. QED
  BY <1>1, <1>2, <1>3

LEMMA AnsweredMine ==
  ASSUME Inv, NEW t \in Threads, threads[t].pc \in {"mime", "read"}, NEW q, Keeps(threads[t], q),
         q.pc = "result" \/ (q.pc = "parts" /\ threads[t].pc = "mime"), q.block = threads[t].block,
         DOMAIN q.answer = AnswerFields, q.answer.of = threads[t].head.of,
         q.answer.code = threads[t].head.parsed.errcode, q.answer.parts = None, UNCHANGED files
  PROVE  Undisturbed /\ Mine /\ threads'[t] = q => ThreadMine(t)'
<1>. SUFFICES ASSUME Mine, threads'[t] = q PROVE ThreadMine(t)'
  OBVIOUS
<1>1. /\ threads[t].head.of = Current(t) /\ threads[t].head.parsed.errcode # 100
      /\ threads[t].pc = "mime" => files[threads[t].block].of = Current(t)
  BY DEF Mine, ThreadMine
<1>2. Current(t)' = Current(t)
  BY DEF Current, Keeps
<1>3. AnswerMine(t)'
  BY <1>1, <1>2 DEF AnswerMine
<1>4. threads[t].pc = "mime" => FileMine(t)'
  <2>1. threads[t].pc = "mime" => threads[t].block \in Blocks
    BY DEF Inv, BlockInv
  <2>. QED
    BY <1>1, <1>2, <2>1 DEF FileMine
<1>. QED
  BY <1>3, <1>4 DEF ThreadMine

LEMMA BodyMine ==
  ASSUME Inv, MineInv, NEW t \in Threads, MimeParsed(t) \/ BodyMissing(t) \/ ReadBody(t)
  PROVE  MineInv'
<1>1. /\ threads[t].pc \in {"mime", "read"} /\ DOMAIN threads[t] = ThreadFields /\ UNCHANGED files
      /\ FilesKeep
  BY FilesSame DEF MimeParsed, BodyMissing, ReadBody, NothingComes, Gives, Inv, ThreadInv, ThreadFine, MineInv
<1>2. (MimeParsed(t) \/ ReadBody(t)) => Back(t) # << >>
  BY DEF MimeParsed, ReadBody, BodyThere
<1>3. \/ \E status \in {"error", "dangling"} :
           (Step(t, Failing(t, status)) /\ UNCHANGED conns) \/ (Back(t) # << >> /\ Takes(t, Failing(t, status)))
      \/ \E body : \/ Step(t, Answered(t, body)) /\ UNCHANGED conns
                   \/ Back(t) # << >> /\ Takes(t, Answered(t, body))
      \/ /\ threads[t].pc = "mime" /\ Back(t) # << >>
         /\ \E body : Takes(t, [Answered(t, body) EXCEPT !.pc = "parts"])
  <2>1. CASE MimeParsed(t)
    BY <1>2, <2>1 DEF MimeParsed
  <2>2. CASE BodyMissing(t)
    BY <2>2 DEF BodyMissing, NothingComes, BodyError, Gives
  <2>3. CASE ReadBody(t)
    BY <1>2, <2>3 DEF ReadBody
  <2>. QED
    BY <2>1, <2>2, <2>3
<1>4. ASSUME NEW status \in {"error", "dangling"},
             (Step(t, Failing(t, status)) /\ UNCHANGED conns) \/ (Back(t) # << >> /\ Takes(t, Failing(t, status)))
      PROVE  MineInv'
  <2>1. PICK q : q = Failing(t, status) /\ Keeps(threads[t], q) /\ q.pc = "release"
    BY <1>1, KeptFailing DEF Statuses
  <2>2. q.status = status
    BY <1>1, <2>1 DEF Failing, ThreadFields
  <2>3. threads'[t] = q => ThreadMine(t)'
    BY <2>1, <2>2, FailingMine
  <2>. QED
    BY <1>1, <1>4, <2>1, <2>3, TakesMine, GivesMine
<1>5. ASSUME NEW body,
             \/ Step(t, Answered(t, body)) /\ UNCHANGED conns
             \/ Back(t) # << >> /\ Takes(t, Answered(t, body))
      PROVE  MineInv'
  <2>1. PICK q : /\ q = Answered(t, body) /\ Keeps(threads[t], q) /\ q.pc = "result"
                 /\ q.block = threads[t].block /\ DOMAIN q.answer = AnswerFields
                 /\ q.answer.of = threads[t].head.of /\ q.answer.code = threads[t].head.parsed.errcode
                 /\ q.answer.parts = None
    BY <1>1, AnsweredFacts
  <2>2. Undisturbed /\ Mine /\ threads'[t] = q => ThreadMine(t)'
    BY <1>1, <2>1, AnsweredMine
  <2>. QED
    BY <1>1, <1>5, <2>1, <2>2, TakesMine, GivesMine
<1>6. ASSUME threads[t].pc = "mime", Back(t) # << >>, NEW body,
             Takes(t, [Answered(t, body) EXCEPT !.pc = "parts"])
      PROVE  MineInv'
  <2>1. PICK q : /\ q = [Answered(t, body) EXCEPT !.pc = "parts"] /\ Keeps(threads[t], q) /\ q.pc = "parts"
                 /\ q.block = threads[t].block /\ DOMAIN q.answer = AnswerFields
                 /\ q.answer.of = threads[t].head.of /\ q.answer.code = threads[t].head.parsed.errcode
                 /\ q.answer.parts = None
    BY <1>1, PartsFacts
  <2>2. Undisturbed /\ Mine /\ threads'[t] = q => ThreadMine(t)'
    BY <1>1, <1>6, <2>1, AnsweredMine
  <2>. QED
    BY <1>1, <1>6, <2>1, <2>2, TakesMine
<1>. QED
  BY <1>3, <1>4, <1>5, <1>6

\* The root is opened under the name of a block that may be another's by now.
LEMMA OpenRootMine == ASSUME Inv, MineInv, NEW t \in Threads, OpenRoot(t) PROVE MineInv'
<1>1. threads[t].pc = "parts" /\ UNCHANGED conns /\ FilesKeep
  BY FilesSame, FilesRemoved DEF OpenRoot, MineInv
<1>2. PICK q : /\ Keeps(threads[t], q) /\ Step(t, q)
               /\ \/ q.pc = "release" /\ q.status = "error"
                  \/ q.pc = "root" /\ q.answer = threads[t].answer /\ q.block = threads[t].block
                  \/ q.pc = "result" /\ q.answer = [threads[t].answer EXCEPT !.body = "none"]
  BY OpenRootMoves
<1>3. q.pc = "root" => UNCHANGED files
  <2>1. CASE UNCHANGED files
    BY <2>1
  <2>2. CASE Step(t, Failing(t, "error"))
    <3>1. threads'[t] = Failing(t, "error") /\ threads'[t] = q
      BY <1>2, <2>2 DEF Step, Inv, ThreadInv
    <3>2. Failing(t, "error").pc = "release"
      BY <1>1, KeptFailing DEF Statuses
    <3>. QED
      BY <3>1, <3>2
  <2>. QED
    BY <2>1, <2>2 DEF OpenRoot
<1>4. ASSUME Mine, threads'[t] = q PROVE ThreadMine(t)'
  <2>1. AnswerMine(t) /\ FileMine(t)
    BY <1>1, <1>4 DEF Mine, ThreadMine
  <2>2. Current(t)' = Current(t)
    BY <1>2, <1>4 DEF Current, Keeps
  <2>3. CASE q.pc = "release" /\ q.status = "error"
    BY <1>4, <2>3, FailingMine
  <2>4. CASE q.pc = "root" /\ q.answer = threads[t].answer /\ q.block = threads[t].block
    <3>1. AnswerMine(t)' /\ FileMine(t)'
      BY <1>3, <1>4, <2>1, <2>2, <2>4 DEF AnswerMine, FileMine
    <3>. QED
      BY <1>4, <2>4, <3>1 DEF ThreadMine
  <2>5. CASE q.pc = "result" /\ q.answer = [threads[t].answer EXCEPT !.body = "none"]
    <3>1. /\ DOMAIN q.answer = AnswerFields /\ q.answer.of = threads[t].answer.of
          /\ q.answer.code = threads[t].answer.code /\ q.answer.parts = threads[t].answer.parts
          /\ q.answer.reused = threads[t].answer.reused
      BY <2>1, <2>5 DEF AnswerMine, AnswerFields
    <3>2. AnswerMine(t)'
      BY <1>4, <2>1, <2>2, <3>1 DEF AnswerMine
    <3>. QED
      BY <1>4, <2>5, <3>2 DEF ThreadMine
  <2>. QED
    BY <1>2, <2>3, <2>4, <2>5
<1>. QED
  BY <1>1, <1>2, <1>4, GivesMine

\* What is read is the call's own, or the mark is read with it.
LEMMA ReadRootMine == ASSUME Inv, MineInv, NEW t \in Threads, ReadRoot(t) PROVE MineInv'
<1>1. threads[t].pc = "root" /\ UNCHANGED conns /\ FilesKeep
  BY FilesSame DEF ReadRoot, Gives, MineInv
<1>2. PICK q, c : /\ Keeps(threads[t], q) /\ Step(t, q) /\ q.pc = "result"
                  /\ c \in {Current(t), files[threads[t].block].of}
                  /\ q.answer = [threads[t].answer EXCEPT
                       !.parts = c, !.reused = files[threads[t].block].reused]
  BY ReadRootMoves
<1>3. ASSUME Mine, threads'[t] = q PROVE ThreadMine(t)'
  <2>1. AnswerMine(t) /\ FileMine(t)
    BY <1>1, <1>3 DEF Mine, ThreadMine
  <2>2. Current(t)' = Current(t)
    BY <1>2, <1>3 DEF Current, Keeps
  <2>3. PICK file : file = files[threads[t].block]
    OBVIOUS
  <2>4. c = Current(t) \/ file.reused
    BY <1>2, <2>1, <2>3 DEF FileMine
  <2>5. /\ DOMAIN q.answer = AnswerFields /\ q.answer.of = threads[t].answer.of
        /\ q.answer.code = threads[t].answer.code /\ q.answer.parts = c
        /\ q.answer.reused = file.reused
    BY <1>2, <2>1, <2>3 DEF AnswerMine, AnswerFields
  <2>6. AnswerMine(t)'
    BY <1>3, <2>1, <2>2, <2>4, <2>5 DEF AnswerMine
  <2>. QED
    BY <1>2, <1>3, <2>6 DEF ThreadMine
<1>. QED
  BY <1>1, <1>2, <1>3, GivesMine

\* Only what is accepted is returned.
LEMMA FinishMine == ASSUME Inv, MineInv, NEW t \in Threads, Finish(t) PROVE MineInv'
<1>1. /\ threads[t].pc = "result" /\ DOMAIN threads[t] = ThreadFields /\ UNCHANGED conns /\ FilesKeep
      /\ (Accepted(t) /\ Step(t, Failing(t, "ok"))) \/ Step(t, Failing(t, "error"))
  BY FilesRemoved DEF Finish, Refused, Inv, ThreadInv, ThreadFine, MineInv
<1>2. CASE Step(t, Failing(t, "error"))
  <2>1. PICK q : q = Failing(t, "error") /\ Keeps(threads[t], q) /\ q.pc = "release"
    BY <1>1, KeptFailing DEF Statuses
  <2>2. q.status = "error"
    BY <1>1, <2>1 DEF Failing, ThreadFields
  <2>. QED
    BY <1>1, <1>2, <2>1, <2>2, GivesMine, FailingMine
<1>3. CASE Accepted(t) /\ Step(t, Failing(t, "ok"))
  <2>1. PICK q : q = Failing(t, "ok") /\ Keeps(threads[t], q) /\ q.pc = "release"
    BY <1>1, KeptFailing DEF Statuses
  <2>2. q.answer = threads[t].answer
    BY <1>1, <2>1 DEF Failing, ThreadFields
  <2>3. ASSUME Mine, threads'[t] = q PROVE ThreadMine(t)'
    <3>1. Current(t)' = Current(t) /\ Asked(t)' = Asked(t)
      BY <2>1, <2>3 DEF Current, Asked, Keeps
    <3>2. AnswerMine(t)
      BY <1>1, <2>3 DEF Mine, ThreadMine
    <3>3. AnswerMine(t)'
      BY <2>2, <2>3, <3>1, <3>2 DEF AnswerMine
    <3>. QED
      BY <1>3, <2>1, <2>2, <2>3, <3>1, <3>3 DEF ThreadMine, Accepted
  <2>. QED
    BY <1>1, <1>3, <2>1, <2>3, GivesMine
<1>. QED
  BY <1>1, <1>2, <1>3

\* The first and the last step of a call keep nothing of an answer.
LEMMA CallMine == ASSUME Inv, MineInv, NEW t \in Threads, Begin(t) \/ httpc_close_free(t) PROVE MineInv'
<1>1. /\ UNCHANGED files
      /\ \E q : /\ Step(t, q) /\ q.pc \in {"head", "release", "idle"}
                /\ q.pc = "release" => q.status # "ok"
  <2>1. CASE Begin(t)
    <3>1. PICK new : new = [Idle EXCEPT !.n = threads[t].n + 1, !.todo = threads[t].todo]
      OBVIOUS
    <3>2. DOMAIN new = ThreadFields /\ new.status = "none"
      BY <3>1 DEF Idle, ThreadFields
    <3>3. UNCHANGED files
      BY <2>1 DEF Begin
    <3>4. \/ \E w : Step(t, [new EXCEPT !.pc = "release", !.status = "error", !.wild = w])
          \/ \E s, pc, status : /\ Step(t, [new EXCEPT !.sock = s, !.pc = pc, !.status = status])
                                /\ pc \in {"head", "release"} /\ status \in {"none", "error"}
      BY <2>1, <3>1 DEF Begin
    <3>5. ASSUME NEW w, Step(t, [new EXCEPT !.pc = "release", !.status = "error", !.wild = w])
          PROVE  \E q : Step(t, q) /\ q.pc \in {"head", "release", "idle"} /\ (q.pc = "release" => q.status # "ok")
      <4>1. PICK q : q = [new EXCEPT !.pc = "release", !.status = "error", !.wild = w]
        OBVIOUS
      <4>2. q.pc = "release" /\ q.status = "error"
        BY <3>2, <4>1 DEF ThreadFields
      <4>. QED
        BY <3>5, <4>1, <4>2
    <3>6. ASSUME NEW s, NEW pc \in {"head", "release"}, NEW status \in {"none", "error"},
                 Step(t, [new EXCEPT !.sock = s, !.pc = pc, !.status = status])
          PROVE  \E q : Step(t, q) /\ q.pc \in {"head", "release", "idle"} /\ (q.pc = "release" => q.status # "ok")
      <4>1. PICK q : q = [new EXCEPT !.sock = s, !.pc = pc, !.status = status]
        OBVIOUS
      <4>2. q.pc = pc /\ q.status = status
        BY <3>2, <4>1 DEF ThreadFields
      <4>. QED
        BY <3>6, <4>1, <4>2
    <3>. QED
      BY <3>3, <3>4, <3>5, <3>6
  <2>2. CASE httpc_close_free(t)
    <3>1. PICK q : Step(t, q) /\ q = [Idle EXCEPT !.n = threads[t].n, !.todo = Tail(threads[t].todo)]
      BY <2>2 DEF httpc_close_free
    <3>2. q.pc = "idle"
      BY <3>1 DEF Idle
    <3>. QED
      BY <2>2, <3>1, <3>2 DEF httpc_close_free
  <2>. QED
    BY <2>1, <2>2
<1>2. DOMAIN conns = Calls /\ \A c \in Calls : DOMAIN conns[c] = ConnFields
  BY DEF Inv, ConnInv
<1>3. \A c \in Calls : /\ conns'[c].sent = conns[c].sent /\ conns'[c].unsent = conns[c].unsent
                       /\ conns'[c].back = conns[c].back \/ conns'[c].back = << >>
  <2>1. CASE Begin(t)
    <3>1. UNCHANGED conns \/ \E c, a, s, state :
            conns' = [conns EXCEPT ![c].state = state, ![c].ask = a, ![c].ssl = s]
      <4>1. PICK c, a, s : c = <<t, threads[t].n + 1>> /\ a = Asked(t) /\ s = (Url[Asked(t)].protocol = "https")
        OBVIOUS
      <4>2. UNCHANGED conns \/ \E state \in {"none", "up"} :
              conns' = [conns EXCEPT ![c].state = state, ![c].ask = a, ![c].ssl = s]
        BY <2>1, <4>1 DEF Begin
      <4>. QED
        BY <4>2
    <3>2. ASSUME NEW c, NEW a, NEW s, NEW state,
                 conns' = [conns EXCEPT ![c].state = state, ![c].ask = a, ![c].ssl = s], NEW d \in Calls
          PROVE  /\ conns'[d].sent = conns[d].sent /\ conns'[d].unsent = conns[d].unsent
                 /\ conns'[d].back = conns[d].back
      BY <1>2, <3>2 DEF ConnFields
    <3>. QED
      BY <3>1, <3>2
  <2>2. CASE httpc_close_free(t)
    <3>1. UNCHANGED conns \/ \E c : conns' = [conns EXCEPT ![c].state = "closed", ![c].back = << >>]
      BY <2>2 DEF httpc_close_free, Closed
    <3>2. ASSUME NEW c, conns' = [conns EXCEPT ![c].state = "closed", ![c].back = << >>], NEW d \in Calls
          PROVE  /\ conns'[d].sent = conns[d].sent /\ conns'[d].unsent = conns[d].unsent
                 /\ conns'[d].back = conns[d].back \/ conns'[d].back = << >>
      BY <1>2, <3>2 DEF ConnFields
    <3>. QED
      BY <3>1, <3>2
  <2>. QED
    BY <2>1, <2>2
<1>9. FilesKeep
  BY <1>1, FilesSame DEF MineInv
<1>. SUFFICES ASSUME Undisturbed' PROVE Mine'
  BY <1>9 DEF MineInv, FilesKeep
<1>4. Undisturbed /\ Mine
  BY <1>3 DEF Undisturbed, MineInv
<1>5. \A c \in Calls : ConnMine(c)'
  BY <1>3, <1>4, ConnStays DEF Mine
<1>6. PICK q : /\ Step(t, q) /\ q.pc \in {"head", "release", "idle"}
               /\ q.pc = "release" => q.status # "ok"
  BY <1>1
<1>7. threads'[t] = q /\ \A u \in Threads : u # t => threads'[u] = threads[u]
  BY <1>6 DEF Step, Inv, ThreadInv
<1>8. ThreadMine(t)'
  BY <1>6, <1>7, FailingMine
<1>. QED
  BY <1>3, <1>4, <1>5, <1>7, <1>8, <1>9, ThreadStepMine

LEMMA NextMine == ASSUME Inv, MineInv, [Next]_vars PROVE MineInv'
<1>2. ASSUME UNCHANGED <<threads, conns, files>> PROVE MineInv'
  BY <1>2 DEF MineInv, FilesFine, Undisturbed, Mine, ConnMine, ThreadMine, AnswerMine, FileMine, Current, Asked
<1>6. ASSUME NEW t \in Threads, CredentialsOverrun(t) PROVE MineInv'
  BY <1>2, <1>6 DEF CredentialsOverrun
<1>1. ASSUME NEW t \in Threads, Thread(t) PROVE MineInv'
  BY <1>1, <1>6, SendingMine, FailsMine, HeadFailsMine, AnswerHeadMine, BodyMine, OpenRootMine, ReadRootMine,
     FinishMine, CallMine DEF Thread
<1>3. ASSUME NEW t \in Threads, Killed(t) PROVE MineInv'
  BY <1>2, <1>3 DEF Killed
<1>4. ASSUME NEW c \in Calls, Continue(c) \/ Reply(c) \/ End(c) \/ Reset(c) \/ Stall(c) PROVE MineInv'
  BY <1>4, PeerMine
<1>5. CASE UNCHANGED vars
  BY <1>2, <1>5 DEF vars
<1>. QED
  BY <1>1, <1>3, <1>4, <1>5 DEF Next

(* What a call returns is the final answer to its own request, and a SOAP  *)
(* call returns one that is whole, whatever the other threads and the      *)
(* peers do, as long as every head could be sent; its parts are its own    *)
(* unless another call was given their names between the end of its parser *)
(* and the reading of its root.                                            *)
THEOREM OwnAnswers == Spec => []AnswerIsMine
<1>1. Init => Inv /\ MineInv
  BY InitInv, InitMine
<1>2. Inv /\ MineInv /\ [Next]_vars => Inv' /\ MineInv'
  BY NextInv, NextMine
<1>3. Inv /\ MineInv => AnswerIsMine
  BY DEF MineInv, Mine, ThreadMine, AnswerMine, AnswerIsMine
<1>. QED
  BY <1>1, <1>2, <1>3, PTL DEF Spec

-----------------------------------------------------------------------------
\* Parts that are all as long, but for the last.
InBlocks(seqs, S, n, w) ==
  /\ FlattenSeq(seqs) \in Seq(S) /\ Len(FlattenSeq(seqs)) = w * (n - 1) + Len(seqs[n])
  /\ \A i \in 1 .. n : \A k \in 1 .. Len(seqs[i]) :
       FlattenSeq(seqs)[w * (i - 1) + k] = seqs[i][k]

LEMMA FlattenBlocks ==
  ASSUME NEW S, NEW n \in Nat, n # 0, NEW seqs \in [1 .. n -> Seq(S)], NEW w \in {3, 4},
         \A i \in 1 .. n - 1 : Len(seqs[i]) = w
  PROVE  InBlocks(seqs, S, n, w)
<1>0. PICK at : Spread(at, seqs, S, n)
  BY FlattenFacts
<1>1. /\ at \in [0 .. n -> Nat]
      /\ at[0] = 0 /\ \A i \in 1 .. n : at[i] = at[i - 1] + Len(seqs[i])
      /\ FlattenSeq(seqs) \in Seq(S) /\ Len(FlattenSeq(seqs)) = at[n]
      /\ \A i \in 1 .. n : \A k \in 1 .. Len(seqs[i]) :
           FlattenSeq(seqs)[at[i - 1] + k] = seqs[i][k]
  BY <1>0 DEF Spread
<1>. DEFINE T == {m \in Nat : m > n - 1 \/ at[m] = w * m}
<1>2. Nat \subseteq T
  <2>1. 0 \in T
    BY <1>1
  <2>2. ASSUME NEW m \in Nat, m \in T PROVE m + 1 \in T
    <3>1. CASE m + 1 > n - 1
      BY <3>1
    <3>2. CASE m + 1 <= n - 1
      <4>1. m + 1 \in 1 .. n - 1 /\ m + 1 \in 1 .. n /\ m + 1 - 1 = m /\ ~(m > n - 1)
        BY <3>2
      <4>2. at[m + 1] = at[m] + w /\ at[m] = w * m
        BY <1>1, <2>2, <4>1
      <4>3. w * m + w = w * (m + 1)
        OBVIOUS
      <4>4. at[m + 1] = w * (m + 1)
        BY <4>2, <4>3
      <4>. QED
        BY <4>4
    <3>. QED
      BY <3>1, <3>2
  <2>. HIDE DEF T
  <2>. QED
    BY <2>1, <2>2, AllNumbers
<1>3. ASSUME NEW i \in 1 .. n PROVE at[i - 1] = w * (i - 1)
  <2>1. i - 1 \in Nat /\ ~(i - 1 > n - 1)
    OBVIOUS
  <2>. QED
    BY <1>2, <2>1
<1>4. n \in 1 .. n /\ n \in 0 .. n
  OBVIOUS
<1>5. at[n] = w * (n - 1) + Len(seqs[n])
  BY <1>1, <1>3, <1>4
<1>6. ASSUME NEW i \in 1 .. n, NEW k \in 1 .. Len(seqs[i])
      PROVE  FlattenSeq(seqs)[w * (i - 1) + k] = seqs[i][k]
  BY <1>1, <1>3
<1>. QED
  BY <1>1, <1>5, <1>6 DEF InBlocks

-----------------------------------------------------------------------------
(* Base64. The parts a text is cut into.                                   *)
Quantity(l, w) == (l + w - 1) \div w

LEMMA PartSizes ==
  ASSUME NEW l \in Nat, NEW w \in {3, 4}, NEW g \in 1 .. Quantity(l, w)
  PROVE  /\ Quantity(l, w) \in Nat /\ w * (g - 1) \in Nat /\ w * (g - 1) + 1 <= l
         /\ w * (g - 1) <= (IF w * g < l THEN w * g ELSE l)
         /\ (IF w * g < l THEN w * g ELSE l) \in Nat /\ (IF w * g < l THEN w * g ELSE l) <= l
         /\ (IF w * g < l THEN w * g ELSE l) - w * (g - 1) \in 1 .. w
         /\ g < Quantity(l, w) => (IF w * g < l THEN w * g ELSE l) - w * (g - 1) = w
<1>1. CASE w = 3
  BY <1>1 DEF Quantity
<1>2. CASE w = 4
  BY <1>2 DEF Quantity
<1>. QED
  BY <1>1, <1>2

LEMMA Cut ==
  ASSUME NEW S, NEW s \in Seq(S), NEW a \in Nat, NEW b \in Nat, a <= b, b <= Len(s)
  PROVE  /\ SubSeq(s, a + 1, b) \in Seq(S) /\ Len(SubSeq(s, a + 1, b)) = b - a
         /\ \A k \in 1 .. b - a : SubSeq(s, a + 1, b)[k] = s[a + k]
<1>1. \A i \in a + 1 .. b : s[i] \in S
  OBVIOUS
<1>2. a + 1 \in Int /\ b \in Int
  OBVIOUS
<1>3. /\ SubSeq(s, a + 1, b) \in Seq(S)
      /\ Len(SubSeq(s, a + 1, b)) = IF a + 1 <= b THEN b - (a + 1) + 1 ELSE 0
      /\ \A i \in 1 .. b - (a + 1) + 1 : SubSeq(s, a + 1, b)[i] = s[a + 1 + i - 1]
  BY <1>1, <1>2, SubSeqProperties
<1>4. Len(SubSeq(s, a + 1, b)) = b - a
  BY <1>3
<1>5. ASSUME NEW k \in 1 .. b - a PROVE SubSeq(s, a + 1, b)[k] = s[a + k]
  <2>1. k \in 1 .. b - (a + 1) + 1 /\ (a + 1) + k - 1 = a + k
    OBVIOUS
  <2>. QED
    BY <1>3, <2>1
<1>6. SubSeq(s, a + 1, b) \in Seq(S)
  BY <1>3
<1>. QED
  BY <1>4, <1>5, <1>6, ZenonT(30)

LEMMA CutFront ==
  ASSUME NEW S, NEW s \in Seq(S), NEW b \in Nat, b <= Len(s)
  PROVE  /\ SubSeq(s, 1, b) \in Seq(S) /\ Len(SubSeq(s, 1, b)) = b
         /\ \A k \in 1 .. b : SubSeq(s, 1, b)[k] = s[k]
<1>1. \A i \in 1 .. b : s[i] \in S
  OBVIOUS
<1>2. 1 \in Int /\ b \in Int
  OBVIOUS
<1>3. /\ SubSeq(s, 1, b) \in Seq(S)
      /\ Len(SubSeq(s, 1, b)) = IF 1 <= b THEN b - 1 + 1 ELSE 0
      /\ \A i \in 1 .. b - 1 + 1 : SubSeq(s, 1, b)[i] = s[1 + i - 1]
  BY <1>1, <1>2, SubSeqProperties
<1>4. Len(SubSeq(s, 1, b)) = b
  BY <1>3
<1>5. ASSUME NEW k \in 1 .. b PROVE SubSeq(s, 1, b)[k] = s[k]
  <2>1. k \in 1 .. b - 1 + 1 /\ 1 + k - 1 = k
    OBVIOUS
  <2>. QED
    BY <1>3, <2>1
<1>. QED
  BY <1>3, <1>4, <1>5, ZenonT(30)

LEMMA PartFacts ==
  ASSUME NEW S, NEW s \in Seq(S), NEW w \in {3, 4}, NEW g \in 1 .. Quantity(Len(s), w)
  PROVE  /\ Part(s, g, w) \in Seq(S) /\ Len(Part(s, g, w)) \in 1 .. w
         /\ Len(Part(s, g, w)) = (IF w * g < Len(s) THEN w * g ELSE Len(s)) - w * (g - 1)
         /\ g < Quantity(Len(s), w) => Len(Part(s, g, w)) = w
         /\ \A k \in 1 .. Len(Part(s, g, w)) : Part(s, g, w)[k] = s[w * (g - 1) + k]
<1>1. PICK l \in Nat, a \in Nat, b \in Nat :
        /\ l = Len(s) /\ a = w * (g - 1) /\ b = (IF w * g < l THEN w * g ELSE l)
        /\ a <= b /\ b <= l /\ b - a \in 1 .. w /\ (g < Quantity(l, w) => b - a = w)
  BY PartSizes
<1>2. Part(s, g, w) = SubSeq(s, a + 1, b)
  BY <1>1 DEF Part
<1>3. /\ SubSeq(s, a + 1, b) \in Seq(S) /\ Len(SubSeq(s, a + 1, b)) = b - a
      /\ \A k \in 1 .. b - a : SubSeq(s, a + 1, b)[k] = s[a + k]
  <2>1. a <= b /\ b <= Len(s)
    BY <1>1
  <2>. QED
    BY <2>1, Cut, ZenonT(30)
<1>. QED
  BY <1>1, <1>2, <1>3

LEMMA PartsAre ==
  ASSUME NEW s, NEW w
  PROVE  Parts(s, w) = [g \in 1 .. Quantity(Len(s), w) |-> Part(s, g, w)]
BY DEF Parts, Quantity

-----------------------------------------------------------------------------
\* One block, there and back: of k characters k - 1 bytes come back.
Octet == 0 .. 255
Sextet == 0 .. 63
Symbol == 0 .. 64

LEMMA BlockArithmetic ==
  ASSUME NEW a \in Octet, NEW b \in Octet, NEW c \in Octet
  PROVE  /\ a \div 4 \in Sextet /\ (a % 4) * 16 + b \div 16 \in Sextet
         /\ (b % 16) * 4 + c \div 64 \in Sextet /\ c % 64 \in Sextet
         /\ (a % 4) * 16 + 0 \div 16 \in Sextet /\ (b % 16) * 4 + 0 \div 64 \in Sextet
         /\ ((a \div 4) * 4 + ((a % 4) * 16 + b \div 16) \div 16) % 256 = a
         /\ (((a % 4) * 16 + b \div 16) * 16 + ((b % 16) * 4 + c \div 64) \div 4) % 256 = b
         /\ ((((b % 16) * 4 + c \div 64) % 4) * 64) + (c % 64) = c
<1>1. /\ a \div 4 \in Sextet /\ a % 4 \in 0 .. 3 /\ a = (4 * (a \div 4)) + (a % 4)
      /\ b \div 16 \in 0 .. 15 /\ b % 16 \in 0 .. 15 /\ b = (16 * (b \div 16)) + (b % 16)
      /\ c \div 64 \in 0 .. 3 /\ c % 64 \in Sextet /\ c = (64 * (c \div 64)) + (c % 64)
      /\ 0 \div 16 = 0 /\ 0 \div 64 = 0
  BY DEF Octet, Sextet
<1>2. PICK ah \in Sextet, al \in 0 .. 3 : ah = a \div 4 /\ al = a % 4
  BY <1>1
<1>3. PICK bh \in 0 .. 15, bl \in 0 .. 15 : bh = b \div 16 /\ bl = b % 16
  BY <1>1
<1>4. PICK ch \in 0 .. 3, cl \in Sextet : ch = c \div 64 /\ cl = c % 64
  BY <1>1
<1>5. a = 4 * ah + al /\ b = 16 * bh + bl /\ c = 64 * ch + cl
  BY <1>1, <1>2, <1>3, <1>4
<1>6. /\ al * 16 + bh \in Sextet /\ bl * 4 + ch \in Sextet /\ al * 16 \in Sextet /\ bl * 4 \in Sextet
  BY DEF Sextet
<1>7. /\ (al * 16 + bh) \div 16 = al /\ (bl * 4 + ch) \div 4 = bl /\ (bl * 4 + ch) % 4 = ch
  OBVIOUS
<1>8. (ah * 4 + al) % 256 = a
  BY <1>5 DEF Octet, Sextet
<1>9. ((al * 16 + bh) * 16 + bl) % 256 = b
  <2>1. (al * 16 + bh) * 16 + bl = 256 * al + b
    BY <1>5
  <2>. QED
    BY <2>1 DEF Octet
<1>10. ch * 64 + cl = c
  BY <1>5
<1>11. /\ a \div 4 \in Sextet /\ (a % 4) * 16 + b \div 16 \in Sextet
       /\ (b % 16) * 4 + c \div 64 \in Sextet /\ c % 64 \in Sextet
  BY <1>2, <1>3, <1>4, <1>6
<1>12. (a % 4) * 16 + 0 \div 16 \in Sextet /\ (b % 16) * 4 + 0 \div 64 \in Sextet
  <2>1. al * 16 + 0 = al * 16 /\ bl * 4 + 0 = bl * 4
    OBVIOUS
  <2>. QED
    BY <1>1, <1>2, <1>3, <1>6, <2>1
<1>13. ((a \div 4) * 4 + ((a % 4) * 16 + b \div 16) \div 16) % 256 = a
  BY <1>2, <1>3, <1>7, <1>8
<1>14. (((a % 4) * 16 + b \div 16) * 16 + ((b % 16) * 4 + c \div 64) \div 4) % 256 = b
  BY <1>2, <1>3, <1>4, <1>7, <1>9
<1>15. ((((b % 16) * 4 + c \div 64) % 4) * 64) + (c % 64) = c
  BY <1>3, <1>4, <1>7, <1>10
<1>. QED
  BY <1>11, <1>12, <1>13, <1>14, <1>15

LEMMA AtOctet ==
  ASSUME NEW in \in Seq(Octet), NEW k \in Nat \ {0} PROVE At(in, k) \in Octet
<1>1. CASE k <= Len(in)
  <2>1. k \in 1 .. Len(in)
    BY <1>1
  <2>. QED
    BY <1>1, <2>1 DEF At
<1>2. CASE ~(k <= Len(in))
  BY <1>2 DEF At, Octet
<1>. QED
  BY <1>1, <1>2

LEMMA BlockEncoded ==
  ASSUME NEW in \in Seq(Octet), Len(in) \in 1 .. 3
  PROVE  /\ encodeblock(in) \in Seq(Symbol) /\ Len(encodeblock(in)) = 4
         /\ encodeblock(in)[1] \in Sextet /\ encodeblock(in)[2] \in Sextet
         /\ Len(in) = 1 => encodeblock(in)[3] = Pad
         /\ Len(in) > 1 => encodeblock(in)[3] \in Sextet
         /\ Len(in) < 3 => encodeblock(in)[4] = Pad
         /\ Len(in) = 3 => encodeblock(in)[4] \in Sextet
<1>1. At(in, 1) \in Octet /\ At(in, 2) \in Octet /\ At(in, 3) \in Octet
  BY AtOctet
<1>2. PICK a \in Octet, b \in Octet, c \in Octet : a = At(in, 1) /\ b = At(in, 2) /\ c = At(in, 3)
  BY <1>1
<1>3. PICK e1, e2, e3, e4 :
        /\ e1 = a \div 4 /\ e2 = (a % 4) * 16 + b \div 16
        /\ e3 = (IF Len(in) > 1 THEN (b % 16) * 4 + c \div 64 ELSE Pad)
        /\ e4 = (IF Len(in) > 2 THEN c % 64 ELSE Pad)
  OBVIOUS
<1>4. encodeblock(in) = <<e1, e2, e3, e4>>
  BY <1>2, <1>3 DEF encodeblock
<1>5. /\ e1 \in Sextet /\ e2 \in Sextet /\ (b % 16) * 4 + c \div 64 \in Sextet /\ c % 64 \in Sextet
  BY <1>3, BlockArithmetic
<1>0. PICK l \in 1 .. 3 : l = Len(in)
  OBVIOUS
<1>6. /\ l = 1 => e3 = Pad
      /\ l > 1 => e3 \in Sextet
      /\ l < 3 => e4 = Pad
      /\ l = 3 => e4 \in Sextet
  <2>1. ~(1 > 1) /\ (l < 3 => ~(l > 2)) /\ (l = 3 => l > 2)
    OBVIOUS
  <2>. QED
    BY <1>0, <1>3, <1>5, <2>1
<1>7. e1 \in Symbol /\ e2 \in Symbol /\ e3 \in Symbol /\ e4 \in Symbol
  <2>1. l = 1 \/ l > 1
    OBVIOUS
  <2>2. l < 3 \/ l = 3
    OBVIOUS
  <2>. QED
    BY <1>5, <1>6, <2>1, <2>2 DEF Sextet, Symbol, Pad
<1>8. <<e1, e2, e3, e4>> \in Seq(Symbol) /\ Len(<<e1, e2, e3, e4>>) = 4
  BY <1>7
<1>. QED
  BY <1>0, <1>4, <1>5, <1>6, <1>8

LEMMA BlockDecoded ==
  ASSUME NEW in \in Seq(Octet), Len(in) \in 1 .. 3, NEW c \in Seq(Sextet),
         Len(c) \in 2 .. 4, Len(c) <= Len(in) + 1,
         \A k \in 1 .. Len(c) : c[k] = encodeblock(in)[k]
  PROVE  /\ SubSeq(decodeblock(c), 1, Len(c) - 1) \in Seq(Octet)
         /\ Len(SubSeq(decodeblock(c), 1, Len(c) - 1)) = Len(c) - 1
         /\ \A k \in 1 .. Len(c) - 1 : SubSeq(decodeblock(c), 1, Len(c) - 1)[k] = in[k]
<1>0. Len(in) \in 1 .. 3 /\ Len(c) \in 2 .. 4 /\ Len(c) <= Len(in) + 1
  OBVIOUS
<1>1. PICK a \in Octet, b \in Octet, d \in Octet : a = At(in, 1) /\ b = At(in, 2) /\ d = At(in, 3)
  BY AtOctet
<1>2. PICK e1, e2, e3, e4 :
        /\ e1 = a \div 4 /\ e2 = (a % 4) * 16 + b \div 16
        /\ e3 = (IF Len(in) > 1 THEN (b % 16) * 4 + d \div 64 ELSE Pad)
        /\ e4 = (IF Len(in) > 2 THEN d % 64 ELSE Pad)
  OBVIOUS
<1>3. PICK e : e = encodeblock(in) /\ e[1] = e1 /\ e[2] = e2 /\ e[3] = e3 /\ e[4] = e4
  <2>1. encodeblock(in) = <<e1, e2, e3, e4>>
    BY <1>1, <1>2 DEF encodeblock
  <2>2. /\ <<e1, e2, e3, e4>>[1] = e1 /\ <<e1, e2, e3, e4>>[2] = e2
        /\ <<e1, e2, e3, e4>>[3] = e3 /\ <<e1, e2, e3, e4>>[4] = e4
    OBVIOUS
  <2>. QED
    BY <2>1, <2>2
<1>4. /\ Len(c) \in 2 .. 4 /\ Len(in) \in Len(c) - 1 .. 3 /\ c[1] = e1 /\ c[2] = e2
      /\ Len(c) > 2 => c[3] = e3
      /\ Len(c) > 3 => c[4] = e4
  <2>1. PICK l \in 1 .. 3, r \in 2 .. 4 : l = Len(in) /\ r = Len(c) /\ r <= l + 1
    BY <1>0
  <2>2. l \in r - 1 .. 3 /\ 1 \in 1 .. r /\ 2 \in 1 .. r
    BY <2>1
  <2>3. r > 2 => 3 \in 1 .. r
    OBVIOUS
  <2>4. r > 3 => 4 \in 1 .. r
    OBVIOUS
  <2>. QED
    BY <1>3, <2>1, <2>2, <2>3, <2>4
<1>5. PICK d1, d2, d3 :
        /\ d1 = (At(c, 1) * 4 + At(c, 2) \div 16) % 256
        /\ d2 = (At(c, 2) * 16 + At(c, 3) \div 4) % 256
        /\ d3 = (At(c, 3) % 4) * 64 + At(c, 4)
  OBVIOUS
<1>6. At(c, 1) = e1 /\ At(c, 2) = e2 /\ (Len(c) > 2 => At(c, 3) = e3) /\ (Len(c) > 3 => At(c, 4) = e4)
  BY <1>4 DEF At
<1>7. decodeblock(c) = <<d1, d2, d3>>
  <2>1. At(c, 1) = c[1]
    BY <1>4 DEF At
  <2>. QED
    BY <1>5, <2>1 DEF decodeblock
<1>8. /\ d1 = a
      /\ Len(c) > 2 => d2 = b
      /\ Len(c) > 3 => d3 = d
  <2>1. PICK l \in 1 .. 3, r \in 2 .. 4 : l = Len(in) /\ r = Len(c) /\ r <= l + 1
    BY <1>0
  <2>2. (r > 2 => l > 1) /\ (r > 3 => l > 2 /\ l > 1 /\ r > 2)
    BY <2>1
  <2>3. /\ (e1 * 4 + e2 \div 16) % 256 = a
        /\ (e2 * 16 + ((b % 16) * 4 + d \div 64) \div 4) % 256 = b
        /\ ((((b % 16) * 4 + d \div 64) % 4) * 64) + (d % 64) = d
    BY <1>2, BlockArithmetic
  <2>4. d1 = a
    BY <1>5, <1>6, <2>3
  <2>5. r > 2 => d2 = b
    BY <1>2, <1>5, <1>6, <2>1, <2>2, <2>3, ZenonT(30)
  <2>6. r > 3 => d3 = d
    BY <1>2, <1>5, <1>6, <2>1, <2>2, <2>3, ZenonT(30)
  <2>. QED
    BY <2>1, <2>4, <2>5, <2>6
<1>9. /\ a = in[1]
      /\ Len(c) > 2 => b = in[2]
      /\ Len(c) > 3 => d = in[3]
  BY <1>1, <1>4 DEF At
<1>10. PICK w : w = <<d1, d2, d3>> /\ w[1] = d1 /\ w[2] = d2 /\ w[3] = d3
  <2>1. <<d1, d2, d3>>[1] = d1 /\ <<d1, d2, d3>>[2] = d2 /\ <<d1, d2, d3>>[3] = d3
    OBVIOUS
  <2>. QED
    BY <2>1
<1>11. ASSUME NEW k \in 1 .. Len(c) - 1 PROVE w[k] = in[k] /\ in[k] \in Octet
  <2>1. k \in 1 .. 3 /\ k \in 1 .. Len(in)
    BY <1>4
  <2>2. in[k] \in Octet
    BY <2>1
  <2>3. w[k] = in[k]
    <3>1. CASE k = 1
      BY <1>8, <1>9, <1>10, <3>1
    <3>2. CASE k = 2
      <4>1. Len(c) > 2
        BY <1>4, <3>2
      <4>. QED
        BY <1>8, <1>9, <1>10, <3>2, <4>1
    <3>3. CASE k = 3
      <4>1. Len(c) > 3
        BY <1>4, <3>3
      <4>2. Len(c) > 2
        BY <1>4, <4>1
      <4>. QED
        BY <1>8, <1>9, <1>10, <3>3, <4>1
    <3>. QED
      BY <2>1, <3>1, <3>2, <3>3
  <2>. QED
    BY <2>2, <2>3
<1>12. PICK n \in Nat : n = Len(c) - 1
  BY <1>4
<1>13. /\ SubSeq(w, 1, n) \in Seq(Octet) /\ Len(SubSeq(w, 1, n)) = n
       /\ \A k \in 1 .. n : SubSeq(w, 1, n)[k] = w[k]
  <2>1. \A k \in 1 .. n : w[k] \in Octet
    BY <1>11, <1>12
  <2>2. 1 \in Int /\ n \in Int
    OBVIOUS
  <2>3. /\ SubSeq(w, 1, n) \in Seq(Octet)
        /\ Len(SubSeq(w, 1, n)) = IF 1 <= n THEN n - 1 + 1 ELSE 0
        /\ \A i \in 1 .. n - 1 + 1 : SubSeq(w, 1, n)[i] = w[1 + i - 1]
    BY <2>1, <2>2, SubSeqProperties
  <2>4. ASSUME NEW k \in 1 .. n PROVE SubSeq(w, 1, n)[k] = w[k]
    <3>1. k \in 1 .. n - 1 + 1 /\ 1 + k - 1 = k
      OBVIOUS
    <3>. QED
      BY <2>3, <3>1
  <2>5. Len(SubSeq(w, 1, n)) = n
    BY <2>3
  <2>. QED
    BY <2>3, <2>4, <2>5
<1>. QED
  BY <1>7, <1>10, <1>11, <1>12, <1>13

\* What a text encodes to, block by block.
LEMMA Encoded ==
  ASSUME NEW b \in Seq(Octet), Len(b) # 0
  PROVE  /\ base64_encode_string(b) \in Seq(Symbol)
         /\ Len(base64_encode_string(b)) = 4 * Quantity(Len(b), 3)
         /\ \A g \in 1 .. Quantity(Len(b), 3) : \A k \in 1 .. 4 :
              base64_encode_string(b)[4 * (g - 1) + k] = encodeblock(Part(b, g, 3))[k]
<1>1. PICK n \in Nat : n = Quantity(Len(b), 3) /\ n # 0
  <2>1. \A l \in Nat \ {0} : Quantity(l, 3) \in Nat /\ Quantity(l, 3) # 0
    BY DEF Quantity
  <2>. QED
    BY <2>1
<1>. DEFINE seqs == [g \in 1 .. n |-> encodeblock(Part(b, g, 3))]
<1>2. Parts(b, 3) = [g \in 1 .. n |-> Part(b, g, 3)] /\ DOMAIN Parts(b, 3) = 1 .. n
  BY <1>1, PartsAre
<1>3. base64_encode_string(b) = FlattenSeq(seqs)
  BY <1>2 DEF base64_encode_string
<1>4. ASSUME NEW g \in 1 .. n
      PROVE  seqs[g] = encodeblock(Part(b, g, 3)) /\ seqs[g] \in Seq(Symbol) /\ Len(seqs[g]) = 4
  <2>1. Part(b, g, 3) \in Seq(Octet) /\ Len(Part(b, g, 3)) \in 1 .. 3
    BY <1>1, PartFacts
  <2>. QED
    BY <2>1, BlockEncoded
<1>5. seqs \in [1 .. n -> Seq(Symbol)]
  BY <1>4
<1>. HIDE DEF seqs
<1>6. (\A g \in 1 .. n - 1 : g \in 1 .. n) /\ n \in 1 .. n
  BY <1>1
<1>7. \A g \in 1 .. n - 1 : Len(seqs[g]) = 4
  BY <1>4, <1>6
<1>8. /\ FlattenSeq(seqs) \in Seq(Symbol) /\ Len(FlattenSeq(seqs)) = 4 * (n - 1) + Len(seqs[n])
      /\ \A i \in 1 .. n : \A k \in 1 .. Len(seqs[i]) :
           FlattenSeq(seqs)[4 * (i - 1) + k] = seqs[i][k]
  <2>1. 4 \in {3, 4} /\ n # 0
    BY <1>1
  <2>2. InBlocks(seqs, Symbol, n, 4)
    BY <1>5, <1>7, <2>1, FlattenBlocks, ZenonT(30)
  <2>. QED
    BY <2>2 DEF InBlocks
<1>9. 4 * (n - 1) + 4 = 4 * n
  OBVIOUS
<1>10. /\ base64_encode_string(b) \in Seq(Symbol) /\ Len(base64_encode_string(b)) = 4 * n
  BY <1>3, <1>4, <1>6, <1>8, <1>9
<1>11. ASSUME NEW g \in 1 .. n, NEW k \in 1 .. 4
       PROVE  base64_encode_string(b)[4 * (g - 1) + k] = encodeblock(Part(b, g, 3))[k]
  BY <1>3, <1>4, <1>8
<1>. QED
  BY <1>1, <1>10, <1>11

\* What is counted of a text whose padding is at its end: r characters.
LEMMA CountedFacts ==
  ASSUME NEW s \in Seq(Symbol), NEW r \in Nat, r < Len(s),
         \A i \in 1 .. r : s[i] # Pad, \A i \in r + 1 .. Len(s) - 1 : s[i] = Pad
  PROVE  Counted(s) = SubSeq(s, 1, r)
<1>1. PICK l \in Nat : l = Len(s) /\ r < l
  OBVIOUS
<1>. DEFINE F(h) == [i \in 0 .. l |->
                      IF i = 0 THEN << >>
                      ELSE IF i = l \/ s[i] = Pad THEN h[i - 1]
                      ELSE Append(h[i - 1], s[i])]
            f == CHOOSE h : h = F(h)
            upto(i) == SubSeq(s, 1, IF i <= r THEN i ELSE r)
            h0 == [i \in 0 .. l |-> upto(i)]
<1>2. Counted(s) = f[l]
  BY <1>1 DEF Counted
<1>3. upto(0) = << >>
  <2>1. 0 <= r /\ 1 \in Int /\ 0 \in Int /\ 0 < 1
    OBVIOUS
  <2>2. SubSeq(s, 1, 0) = << >>
    BY <2>1, SubSeqEmpty
  <2>. QED
    BY <2>1, <2>2
<1>4. ASSUME NEW i \in 1 .. l
      PROVE  upto(i) = IF i = l \/ s[i] = Pad THEN upto(i - 1) ELSE Append(upto(i - 1), s[i])
  <2>1. CASE i <= r
    <3>1. i \in 1 .. r /\ i # l /\ i - 1 <= r /\ i - 1 \in Nat /\ i - 1 + 1 = i /\ i <= l /\ i - 1 <= l
      BY <1>1, <2>1
    <3>2. s[i] # Pad
      BY <3>1
    <3>3. SubSeq(s, 1, i) = Append(SubSeq(s, 1, i - 1), s[i])
      <4>1. PICK j \in Nat : j = i - 1 /\ j + 1 = i
        BY <3>1
      <4>2. /\ SubSeq(s, 1, i) \in Seq(Symbol) /\ Len(SubSeq(s, 1, i)) = i
            /\ \A k \in 1 .. i : SubSeq(s, 1, i)[k] = s[k]
        <5>1. i \in Nat /\ i <= Len(s)
          BY <1>1, <3>1
        <5>. QED
          BY <5>1, CutFront, ZenonT(30)
      <4>3. /\ SubSeq(s, 1, j) \in Seq(Symbol) /\ Len(SubSeq(s, 1, j)) = j
            /\ \A k \in 1 .. j : SubSeq(s, 1, j)[k] = s[k]
        <5>1. j <= Len(s)
          BY <1>1, <3>1, <4>1
        <5>. QED
          BY <5>1, CutFront, ZenonT(30)
      <4>5. PICK x, y : x = SubSeq(s, 1, i) /\ y = SubSeq(s, 1, j)
        OBVIOUS
      <4>6. /\ x \in Seq(Symbol) /\ y \in Seq(Symbol) /\ Len(x) = j + 1 /\ Len(y) = j
        BY <4>1, <4>2, <4>3, <4>5
      <4>7. (\A k \in 1 .. i : x[k] = s[k]) /\ (\A k \in 1 .. j : y[k] = s[k])
        BY <4>2, <4>3, <4>5
      <4>8. s[i] \in Symbol
        BY <1>1
      <4>9. /\ Append(y, s[i]) \in Seq(Symbol) /\ Len(Append(y, s[i])) = j + 1
            /\ Append(y, s[i])[j + 1] = s[i] /\ \A k \in 1 .. j : Append(y, s[i])[k] = y[k]
        BY <4>6, <4>8
      <4>10. ASSUME NEW k \in 1 .. j + 1 PROVE x[k] = Append(y, s[i])[k]
        BY <4>1, <4>7, <4>9
      <4>11. x = Append(y, s[i])
        BY <4>6, <4>9, <4>10, SeqEqual
      <4>. QED
        BY <4>1, <4>5, <4>11
    <3>. QED
      BY <2>1, <3>1, <3>2, <3>3
  <2>2. CASE ~(i <= r)
    <3>1. i = l \/ s[i] = Pad
      <4>1. i = l \/ i \in r + 1 .. Len(s) - 1
        BY <1>1, <2>2
      <4>. QED
        BY <4>1
    <3>2. (IF i - 1 <= r THEN i - 1 ELSE r) = r
      BY <2>2
    <3>. QED
      BY <2>2, <3>1, <3>2
  <2>. QED
    BY <2>1, <2>2
<1>. HIDE DEF upto
<1>5. h0 = F(h0)
  <2>1. ASSUME NEW i \in 0 .. l
        PROVE  h0[i] = IF i = 0 THEN << >>
                       ELSE IF i = l \/ s[i] = Pad THEN h0[i - 1]
                       ELSE Append(h0[i - 1], s[i])
    <3>1. CASE i = 0
      BY <1>3, <3>1
    <3>2. CASE i # 0
      <4>1. i \in 1 .. l /\ i - 1 \in 0 .. l
        BY <3>2
      <4>2. h0[i] = upto(i) /\ h0[i - 1] = upto(i - 1)
        BY <4>1
      <4>. QED
        BY <1>4, <3>2, <4>1, <4>2
    <3>. QED
      BY <3>1, <3>2
  <2>. QED
    BY <2>1
<1>6. f = F(f)
  BY <1>5
<1>. HIDE DEF f
<1>7. ASSUME NEW i \in 0 .. l
      PROVE  f[i] = IF i = 0 THEN << >> ELSE IF i = l \/ s[i] = Pad THEN f[i - 1] ELSE Append(f[i - 1], s[i])
  BY <1>6
<1>. DEFINE T == {i \in Nat : i > l \/ f[i] = upto(i)}
<1>8. 0 \in T
  BY <1>3, <1>7
<1>9. ASSUME NEW i \in Nat, i \in T PROVE i + 1 \in T
  <2>1. CASE i + 1 > l
    BY <2>1
  <2>2. CASE ~(i + 1 > l)
    <3>1. PICK j \in 1 .. l : j = i + 1
      BY <2>2
    <3>2. j \in 0 .. l /\ j # 0 /\ j - 1 = i /\ ~(i > l)
      BY <3>1
    <3>3. f[i] = upto(i)
      BY <1>9, <3>2
    <3>4. f[j] = IF j = l \/ s[j] = Pad THEN f[j - 1] ELSE Append(f[j - 1], s[j])
      BY <1>7, <3>2
    <3>5. f[j] = upto(j)
      BY <1>4, <3>2, <3>3, <3>4
    <3>. QED
      BY <3>1, <3>5
  <2>. QED
    BY <2>1, <2>2
<1>10. f[l] = upto(l)
  <2>1. Nat \subseteq T
    <3>. HIDE DEF T
    <3>. QED
      BY <1>8, <1>9, AllNumbers
  <2>2. ~(l > l)
    OBVIOUS
  <2>. QED
    BY <2>1, <2>2
<1>11. upto(l) = SubSeq(s, 1, r)
  BY <1>1 DEF upto
<1>. QED
  BY <1>2, <1>10, <1>11

\* The characters that count of what l bytes encode to.
Counting(l) == 4 * Quantity(l, 3) - (IF l % 3 = 1 THEN 2 ELSE 1)

\* n blocks of three, the last of which may be short, are n of four, the last of which
\* may be short.
Groups(l, n, r, last, back) ==
  /\ n = Quantity(l, 3) /\ n # 0 /\ r = Counting(l) /\ r < 4 * n /\ Quantity(r, 4) = n
  /\ l = 3 * (n - 1) + last /\ r = 4 * (n - 1) + back /\ back <= last + 1
  /\ (last = 1 /\ back = 2) \/ (last > 1 /\ back = 3)
  /\ 3 * (n - 1) + (back - 1) = IF l % 3 = 0 THEN l - 1 ELSE l
  /\ \A g \in 1 .. n : (IF 3 * g < l THEN 3 * g ELSE l) - 3 * (g - 1) = IF g < n THEN 3 ELSE last
  /\ \A g \in 1 .. n : (IF 4 * g < r THEN 4 * g ELSE r) - 4 * (g - 1) = IF g < n THEN 4 ELSE back

LEMMA GroupSizes ==
  ASSUME NEW l \in Nat, l # 0
  PROVE  \E n \in Nat, r \in Nat, last \in 1 .. 3, back \in 2 .. 3 : Groups(l, n, r, last, back)
<1>1. PICK m \in Nat, last \in 1 .. 3 : l = 3 * m + last
  <2>1. /\ (l - 1) \div 3 \in Nat /\ (l - 1) % 3 \in 0 .. 2
        /\ l - 1 = (3 * ((l - 1) \div 3)) + ((l - 1) % 3)
    OBVIOUS
  <2>2. PICK q \in Nat, e \in 0 .. 2 : l - 1 = (3 * q) + e
    BY <2>1
  <2>3. l = 3 * q + (e + 1) /\ e + 1 \in 1 .. 3
    BY <2>2
  <2>. QED
    BY <2>3
<1>2. PICK n \in Nat, back \in 2 .. 3, r \in Nat :
        /\ n = m + 1 /\ back = (IF last = 1 THEN 2 ELSE 3) /\ r = 4 * m + back
  OBVIOUS
<1>3. /\ n # 0 /\ n - 1 = m /\ back <= last + 1
      /\ (last = 1 /\ back = 2) \/ (last > 1 /\ back = 3)
  BY <1>2
<1>4. n = Quantity(l, 3)
  BY <1>1, <1>2 DEF Quantity
<1>5. l % 3 = IF last = 3 THEN 0 ELSE last
  BY <1>1
<1>6. r = Counting(l) /\ r < 4 * n
  <2>1. Counting(l) = 4 * n - (IF last = 1 THEN 2 ELSE 1)
    BY <1>4, <1>5 DEF Counting
  <2>. QED
    BY <1>2, <2>1
<1>7. Quantity(r, 4) = n
  BY <1>2 DEF Quantity
<1>8. 3 * (n - 1) + (back - 1) = IF l % 3 = 0 THEN l - 1 ELSE l
  BY <1>1, <1>2, <1>5
<1>9. \A g \in 1 .. n : (IF 3 * g < l THEN 3 * g ELSE l) - 3 * (g - 1) = IF g < n THEN 3 ELSE last
  BY <1>1, <1>2
<1>10. \A g \in 1 .. n : (IF 4 * g < r THEN 4 * g ELSE r) - 4 * (g - 1) = IF g < n THEN 4 ELSE back
  BY <1>2
<1>11. l = 3 * (n - 1) + last /\ r = 4 * (n - 1) + back
  BY <1>1, <1>2
<1>12. Groups(l, n, r, last, back)
  BY <1>3, <1>4, <1>6, <1>7, <1>8, <1>9, <1>10, <1>11, ZenonT(30) DEF Groups
<1>. QED
  BY <1>12

\* A position in blocks of three.
InPlace(n, last, i) == \E g \in 1 .. n, k \in 1 .. 3 : i = 3 * (g - 1) + k /\ (g = n => k <= last)

LEMMA InBlock ==
  ASSUME NEW n \in Nat, NEW last \in 1 .. 3, NEW i \in Nat, 0 < i, i <= 3 * (n - 1) + last
  PROVE  InPlace(n, last, i)
<1>1. /\ (i - 1) \div 3 \in Nat /\ (i - 1) % 3 \in 0 .. 2
      /\ i - 1 = (3 * ((i - 1) \div 3)) + ((i - 1) % 3)
  OBVIOUS
<1>2. PICK q \in Nat, e \in 0 .. 2 : i - 1 = (3 * q) + e
  BY <1>1
<1>3. PICK g \in Nat, k \in 1 .. 3 : g = q + 1 /\ k = e + 1
  OBVIOUS
<1>4. i = 3 * (g - 1) + k /\ g \in 1 .. n /\ (g = n => k <= last)
  BY <1>2, <1>3
<1>. QED
  BY <1>4 DEF InPlace

LEMMA InFour ==
  ASSUME NEW n \in Nat, NEW i \in Nat, 0 < i, i <= 4 * n
  PROVE  \E g \in 1 .. n, k \in 1 .. 4 : i = 4 * (g - 1) + k
<1>1. /\ (i - 1) \div 4 \in Nat /\ (i - 1) % 4 \in 0 .. 3
      /\ i - 1 = (4 * ((i - 1) \div 4)) + ((i - 1) % 4)
  OBVIOUS
<1>2. PICK q \in Nat, e \in 0 .. 3 : i - 1 = (4 * q) + e
  BY <1>1
<1>3. PICK g \in Nat, k \in 1 .. 4 : g = q + 1 /\ k = e + 1
  OBVIOUS
<1>4. i = 4 * (g - 1) + k /\ g \in 1 .. n
  BY <1>2, <1>3
<1>. QED
  BY <1>4

\* How long the blocks of both sides are.
Lengths(b, n, r, last, back) ==
  /\ \A g \in 1 .. n : Len(Part(b, g, 3)) = IF g < n THEN 3 ELSE last
  /\ \A c \in Seq(Sextet) : Len(c) = r =>
       \A g \in 1 .. n : Len(Part(c, g, 4)) = IF g < n THEN 4 ELSE back

LEMMA BlockLengths ==
  ASSUME NEW b \in Seq(Octet), NEW n \in Nat, NEW r \in Nat, NEW last \in 1 .. 3,
         NEW back \in 2 .. 3, Groups(Len(b), n, r, last, back)
  PROVE  Lengths(b, n, r, last, back)
<1>1. ASSUME NEW g \in 1 .. n
      PROVE  Len(Part(b, g, 3)) = IF g < n THEN 3 ELSE last
  <2>1. g \in 1 .. Quantity(Len(b), 3) /\ 3 \in {3, 4}
    BY DEF Groups
  <2>2. Len(Part(b, g, 3)) = (IF 3 * g < Len(b) THEN 3 * g ELSE Len(b)) - 3 * (g - 1)
    BY <2>1, PartFacts
  <2>. QED
    BY <2>2 DEF Groups
<1>2. ASSUME NEW c \in Seq(Sextet), Len(c) = r, NEW g \in 1 .. n
      PROVE  Len(Part(c, g, 4)) = IF g < n THEN 4 ELSE back
  <2>1. g \in 1 .. Quantity(Len(c), 4) /\ 4 \in {3, 4}
    BY <1>2 DEF Groups
  <2>2. Len(Part(c, g, 4)) = (IF 4 * g < r THEN 4 * g ELSE r) - 4 * (g - 1)
    BY <1>2, <2>1, PartFacts
  <2>. QED
    BY <2>2 DEF Groups
<1>. QED
  BY <1>1, <1>2, ZenonT(30) DEF Lengths

LEMMA BlockSizes ==
  ASSUME NEW n \in Nat, NEW g \in 1 .. n, NEW last \in 1 .. 3, NEW back \in 2 .. 3,
         back <= last + 1, NEW l, l = (IF g < n THEN 3 ELSE last),
         NEW m, m = (IF g < n THEN 4 ELSE back)
  PROVE  /\ l \in 1 .. 3 /\ m \in 2 .. 4 /\ m <= l + 1 /\ m - 1 = (IF g < n THEN 3 ELSE back - 1)
         /\ (g < n => l = 3) /\ (g < n \/ last > 1 => l > 1) /\ (g = n /\ last = 1 => l = 1)
         /\ \A k \in 1 .. m : k \in 1 .. 4 /\ 4 * (g - 1) + k \in 1 .. 4 * (n - 1) + back
         /\ \A k \in 1 .. m - 1 : k \in 1 .. l
OBVIOUS

\* The padding of what a text encodes to is at its end.
LEMMA PaddingLast ==
  ASSUME NEW b \in Seq(Octet), Len(b) # 0, NEW n \in Nat, NEW r \in Nat, NEW last \in 1 .. 3,
         NEW back \in 2 .. 3, Groups(Len(b), n, r, last, back)
  PROVE  /\ \A i \in 1 .. r : base64_encode_string(b)[i] \in Sextet
         /\ \A i \in r + 1 .. 4 * n - 1 : base64_encode_string(b)[i] = Pad
<1>. DEFINE E == base64_encode_string(b)
<1>1. ASSUME NEW g \in 1 .. n
      PROVE  /\ \A k \in 1 .. 4 : E[4 * (g - 1) + k] = encodeblock(Part(b, g, 3))[k]
             /\ encodeblock(Part(b, g, 3))[1] \in Sextet /\ encodeblock(Part(b, g, 3))[2] \in Sextet
             /\ g < n \/ last > 1 => encodeblock(Part(b, g, 3))[3] \in Sextet
             /\ g = n /\ last = 1 => encodeblock(Part(b, g, 3))[3] = Pad
             /\ g < n => encodeblock(Part(b, g, 3))[4] \in Sextet
  <2>1. g \in 1 .. Quantity(Len(b), 3) /\ 3 \in {3, 4}
    BY DEF Groups
  <2>2. Part(b, g, 3) \in Seq(Octet)
    BY <2>1, PartFacts
  <2>3. Len(Part(b, g, 3)) = IF g < n THEN 3 ELSE last
    <3>1. Lengths(b, n, r, last, back)
      BY BlockLengths, ZenonT(30)
    <3>. QED
      BY <3>1 DEF Lengths
  <2>4. PICK p \in Seq(Octet) : p = Part(b, g, 3) /\ Len(p) = (IF g < n THEN 3 ELSE last)
    BY <2>2, <2>3
  <2>5. /\ Len(p) \in 1 .. 3 /\ (g < n => Len(p) = 3) /\ (g < n \/ last > 1 => Len(p) > 1)
        /\ (g = n /\ last = 1 => Len(p) = 1)
    <3>1. PICK l : l = Len(p) /\ l = (IF g < n THEN 3 ELSE last)
      BY <2>4
    <3>2. PICK m : m = (IF g < n THEN 4 ELSE back)
      OBVIOUS
    <3>3. back <= last + 1
      BY DEF Groups
    <3>. QED
      BY <3>1, <3>2, <3>3, BlockSizes
  <2>6. /\ encodeblock(p)[1] \in Sextet /\ encodeblock(p)[2] \in Sextet
        /\ Len(p) = 1 => encodeblock(p)[3] = Pad
        /\ Len(p) > 1 => encodeblock(p)[3] \in Sextet
        /\ Len(p) = 3 => encodeblock(p)[4] \in Sextet
    BY <2>5, BlockEncoded
  <2>7. \A k \in 1 .. 4 : E[4 * (g - 1) + k] = encodeblock(Part(b, g, 3))[k]
    BY <2>1, Encoded
  <2>. QED
    BY <2>4, <2>5, <2>6, <2>7
<1>2. r = 4 * (n - 1) + back /\ r < 4 * n /\ ((last = 1 /\ back = 2) \/ (last > 1 /\ back = 3))
  BY DEF Groups
<1>. HIDE DEF E
<1>3. ASSUME NEW i \in 1 .. r PROVE E[i] \in Sextet
  <2>0. i \in Nat /\ 0 < i /\ i <= 4 * n
    BY <1>2
  <2>1. PICK g \in 1 .. n, k \in 1 .. 4 : i = 4 * (g - 1) + k
    BY <2>0, InFour
  <2>2. g < n \/ (g = n /\ k <= back)
    BY <1>2, <2>1
  <2>3. k = 1 \/ k = 2 \/ (k = 3 /\ (g < n \/ last > 1)) \/ (k = 4 /\ g < n)
    BY <1>2, <2>2
  <2>4. E[i] = encodeblock(Part(b, g, 3))[k]
    BY <1>1, <2>1
  <2>. QED
    BY <1>1, <2>3, <2>4
<1>4. ASSUME NEW i \in r + 1 .. 4 * n - 1 PROVE E[i] = Pad
  <2>0. i \in Nat /\ 0 < i /\ i <= 4 * n
    BY <1>2
  <2>1. PICK g \in 1 .. n, k \in 1 .. 4 : i = 4 * (g - 1) + k
    BY <2>0, InFour
  <2>2. g = n /\ k = 3 /\ last = 1
    BY <1>2, <2>1
  <2>4. E[i] = encodeblock(Part(b, g, 3))[k]
    BY <1>1, <2>1
  <2>. QED
    BY <1>1, <2>2, <2>4
<1>. QED
  BY <1>3, <1>4 DEF E

\* What is counted of it, and what each block of that decodes to.
LEMMA Counts ==
  ASSUME NEW b \in Seq(Octet), Len(b) # 0, NEW n \in Nat, NEW r \in Nat, NEW last \in 1 .. 3,
         NEW back \in 2 .. 3, Groups(Len(b), n, r, last, back)
  PROVE  \E c \in Seq(Sextet) :
           /\ Counted(base64_encode_string(b)) = c /\ Len(c) = r
           /\ \A i \in 1 .. r : c[i] = base64_encode_string(b)[i]
<1>. DEFINE E == base64_encode_string(b)
<1>1. E \in Seq(Symbol) /\ Len(E) = 4 * n /\ n # 0 /\ r < 4 * n
  BY Encoded DEF Groups
<1>2. /\ \A i \in 1 .. r : E[i] \in Sextet
      /\ \A i \in r + 1 .. 4 * n - 1 : E[i] = Pad
  BY PaddingLast
<1>. HIDE DEF E
<1>3. \A i \in 1 .. r : E[i] # Pad
  <2>1. \A x \in Sextet : x # Pad
    BY DEF Sextet, Pad
  <2>. QED
    BY <1>2, <2>1
<1>4. Counted(E) = SubSeq(E, 1, r)
  BY SMTT(30), <1>1, <1>2, <1>3, CountedFacts
<1>5. /\ SubSeq(E, 1, r) \in Seq(Symbol) /\ Len(SubSeq(E, 1, r)) = r
      /\ \A k \in 1 .. r : SubSeq(E, 1, r)[k] = E[k]
  <2>1. r <= Len(E)
    BY <1>1
  <2>. QED
    BY <1>1, <2>1, CutFront, ZenonT(30)
<1>6. PICK c \in Seq(Symbol) : c = SubSeq(E, 1, r) /\ Len(c) = r /\ \A k \in 1 .. r : c[k] = E[k]
  BY <1>5
<1>7. c \in Seq(Sextet)
  BY <1>2, <1>6, SeqDef
<1>. QED
  BY <1>4, <1>6, <1>7 DEF E

Restores(plain, b, n, back, g) ==
  /\ plain \in Seq(Octet) /\ Len(plain) = IF g < n THEN 3 ELSE back - 1
  /\ \A k \in 1 .. Len(plain) : plain[k] = b[3 * (g - 1) + k]

LEMMA BlockBack ==
  ASSUME NEW b \in Seq(Octet), Len(b) # 0, NEW n \in Nat, NEW r \in Nat, NEW last \in 1 .. 3,
         NEW back \in 2 .. 3, Groups(Len(b), n, r, last, back),
         NEW c \in Seq(Sextet), Len(c) = r,
         \A i \in 1 .. r : c[i] = base64_encode_string(b)[i],
         NEW g \in 1 .. n, NEW block, block = Part(c, g, 4),
         NEW plain, plain = SubSeq(decodeblock(block), 1, Len(block) - 1)
  PROVE  Restores(plain, b, n, back, g)
<1>1. g \in 1 .. Quantity(Len(b), 3) /\ g \in 1 .. Quantity(Len(c), 4) /\ 3 \in {3, 4} /\ 4 \in {3, 4}
  BY DEF Groups
<1>2. PICK p \in Seq(Octet) :
        /\ p = Part(b, g, 3) /\ Len(p) = (IF g < n THEN 3 ELSE last)
        /\ \A k \in 1 .. Len(p) : p[k] = b[3 * (g - 1) + k]
  <2>1. /\ Part(b, g, 3) \in Seq(Octet)
        /\ \A k \in 1 .. Len(Part(b, g, 3)) : Part(b, g, 3)[k] = b[3 * (g - 1) + k]
    BY <1>1, PartFacts
  <2>2. Len(Part(b, g, 3)) = IF g < n THEN 3 ELSE last
    <3>1. Lengths(b, n, r, last, back)
      BY BlockLengths, ZenonT(30)
    <3>. QED
      BY <3>1 DEF Lengths
  <2>. QED
    BY <2>1, <2>2
<1>3. /\ block \in Seq(Sextet) /\ Len(block) = (IF g < n THEN 4 ELSE back)
      /\ \A k \in 1 .. Len(block) : block[k] = c[4 * (g - 1) + k]
  <2>1. /\ Part(c, g, 4) \in Seq(Sextet)
        /\ \A k \in 1 .. Len(Part(c, g, 4)) : Part(c, g, 4)[k] = c[4 * (g - 1) + k]
    BY SMTT(30), <1>1, PartFacts
  <2>2. Len(Part(c, g, 4)) = IF g < n THEN 4 ELSE back
    <3>1. Lengths(b, n, r, last, back)
      BY BlockLengths, ZenonT(30)
    <3>. QED
      BY <3>1 DEF Lengths
  <2>. QED
    BY <2>1, <2>2
<1>4. r = 4 * (n - 1) + back /\ back <= last + 1
  BY DEF Groups
<1>5. /\ Len(p) \in 1 .. 3 /\ Len(block) \in 2 .. 4 /\ Len(block) <= Len(p) + 1
      /\ Len(block) - 1 = (IF g < n THEN 3 ELSE back - 1)
      /\ \A k \in 1 .. Len(block) : k \in 1 .. 4 /\ 4 * (g - 1) + k \in 1 .. r
      /\ \A k \in 1 .. Len(block) - 1 : k \in 1 .. Len(p)
  <2>1. PICK l, m : l = Len(p) /\ m = Len(block)
    OBVIOUS
  <2>2. l = (IF g < n THEN 3 ELSE last) /\ m = (IF g < n THEN 4 ELSE back)
    BY <1>2, <1>3, <2>1
  <2>3. /\ l \in 1 .. 3 /\ m \in 2 .. 4 /\ m <= l + 1 /\ m - 1 = (IF g < n THEN 3 ELSE back - 1)
        /\ \A k \in 1 .. m : k \in 1 .. 4 /\ 4 * (g - 1) + k \in 1 .. 4 * (n - 1) + back
        /\ \A k \in 1 .. m - 1 : k \in 1 .. l
    BY SMTT(60), <1>4, <2>2, BlockSizes
  <2>. QED
    BY <1>4, <2>1, <2>3, ZenonT(30)
<1>6. ASSUME NEW k \in 1 .. Len(block) PROVE block[k] = encodeblock(p)[k]
  <2>1. k \in 1 .. 4 /\ 4 * (g - 1) + k \in 1 .. r
    BY <1>5
  <2>2. c[4 * (g - 1) + k] = base64_encode_string(b)[4 * (g - 1) + k]
    BY <2>1
  <2>3. base64_encode_string(b)[4 * (g - 1) + k] = encodeblock(p)[k]
    BY <1>1, <1>2, <2>1, Encoded
  <2>. QED
    BY <1>3, <2>2, <2>3
<1>7. /\ plain \in Seq(Octet) /\ Len(plain) = Len(block) - 1
      /\ \A k \in 1 .. Len(block) - 1 : plain[k] = p[k]
  BY <1>3, <1>5, <1>6, BlockDecoded
<1>8. Len(plain) = IF g < n THEN 3 ELSE back - 1
  BY <1>5, <1>7
<1>9. ASSUME NEW k \in 1 .. Len(plain) PROVE plain[k] = b[3 * (g - 1) + k]
  <2>1. k \in 1 .. Len(block) - 1 /\ k \in 1 .. Len(p)
    BY <1>5, <1>7
  <2>. QED
    BY <1>2, <1>7, <2>1
<1>. QED
  BY <1>7, <1>8, <1>9 DEF Restores

\* What is left of a text of l bytes: without padding the last is lost.
Left(b) == IF Len(b) % 3 = 0 THEN SubSeq(b, 1, Len(b) - 1) ELSE b

LEMMA Decoded ==
  ASSUME NEW b \in Seq(Octet), Len(b) # 0, NEW n \in Nat, NEW r \in Nat, NEW last \in 1 .. 3,
         NEW back \in 2 .. 3, Groups(Len(b), n, r, last, back)
  PROVE  LET plain == base64_decode_string(base64_encode_string(b))
         IN  /\ plain \in Seq(Octet) /\ Len(plain) = 3 * (n - 1) + (back - 1)
             /\ \A i \in 1 .. Len(plain) : plain[i] = b[i]
<1>1. PICK c \in Seq(Sextet) :
        /\ Counted(base64_encode_string(b)) = c /\ Len(c) = r
        /\ \A i \in 1 .. r : c[i] = base64_encode_string(b)[i]
  BY Counts, ZenonT(30)
<1>. DEFINE seqs == [g \in 1 .. n |-> SubSeq(decodeblock(Part(c, g, 4)), 1, Len(Part(c, g, 4)) - 1)]
<1>2. n = Quantity(r, 4) /\ n # 0
  BY DEF Groups
<1>3. Parts(c, 4) = [g \in 1 .. n |-> Part(c, g, 4)] /\ DOMAIN Parts(c, 4) = 1 .. n
  BY <1>1, <1>2, PartsAre
<1>4. base64_decode_string(base64_encode_string(b)) = FlattenSeq(seqs)
  BY <1>1, <1>3 DEF base64_decode_string
<1>5. ASSUME NEW g \in 1 .. n
      PROVE  /\ seqs[g] \in Seq(Octet) /\ Len(seqs[g]) = (IF g < n THEN 3 ELSE back - 1)
             /\ \A k \in 1 .. Len(seqs[g]) : seqs[g][k] = b[3 * (g - 1) + k]
  <2>1. PICK block, plain : block = Part(c, g, 4) /\ plain = SubSeq(decodeblock(block), 1, Len(block) - 1)
    OBVIOUS
  <2>2. /\ plain \in Seq(Octet) /\ Len(plain) = (IF g < n THEN 3 ELSE back - 1)
        /\ \A k \in 1 .. Len(plain) : plain[k] = b[3 * (g - 1) + k]
    <3>1. Restores(plain, b, n, back, g)
      BY <1>1, <2>1, BlockBack, ZenonT(30)
    <3>. QED
      BY <3>1 DEF Restores
  <2>3. seqs[g] = plain
    BY <2>1
  <2>. QED
    BY <2>2, <2>3
<1>6. seqs \in [1 .. n -> Seq(Octet)]
  BY <1>5
<1>. HIDE DEF seqs
<1>7. (\A g \in 1 .. n - 1 : g \in 1 .. n /\ g < n) /\ n \in 1 .. n /\ ~(n < n)
  BY <1>2
<1>8. \A g \in 1 .. n - 1 : Len(seqs[g]) = 3
  BY <1>5, <1>7
<1>9. InBlocks(seqs, Octet, n, 3)
  <2>1. 3 \in {3, 4} /\ n # 0
    BY <1>2
  <2>. QED
    BY <1>6, <1>8, <2>1, FlattenBlocks, ZenonT(30)
<1>10. PICK plain : plain = FlattenSeq(seqs)
  OBVIOUS
<1>11. /\ plain \in Seq(Octet) /\ Len(plain) = 3 * (n - 1) + (back - 1)
  BY <1>5, <1>7, <1>9, <1>10 DEF InBlocks
<1>12. ASSUME NEW i \in 1 .. Len(plain) PROVE plain[i] = b[i]
  <2>1. back - 1 \in 1 .. 3 /\ i \in Nat /\ 0 < i /\ i <= 3 * (n - 1) + (back - 1)
    BY <1>11
  <2>0. PICK end \in 1 .. 3 : end = back - 1 /\ i <= 3 * (n - 1) + end
    BY <2>1
  <2>2. PICK g \in 1 .. n, k \in 1 .. 3 : i = 3 * (g - 1) + k /\ (g = n => k <= back - 1)
    <3>1. InPlace(n, end, i)
      BY <2>0, <2>1, InBlock, ZenonT(30)
    <3>. QED
      BY <2>0, <3>1 DEF InPlace
  <2>3. k \in 1 .. Len(seqs[g])
    <3>1. PICK l : l = Len(seqs[g]) /\ l = (IF g < n THEN 3 ELSE back - 1)
      BY <1>5
    <3>2. k \in 1 .. l
      BY <2>2, <3>1
    <3>. QED
      BY <3>1, <3>2
  <2>4. plain[i] = seqs[g][k]
    BY <1>9, <1>10, <2>2, <2>3 DEF InBlocks
  <2>5. seqs[g][k] = b[i]
    BY <1>5, <2>2, <2>3
  <2>. QED
    BY <2>4, <2>5
<1>. QED
  BY <1>4, <1>10, <1>11, <1>12

LEMMA NothingDecoded == base64_decode_string(base64_encode_string(<< >>)) = << >>
<1>1. Len(<< >>) = 0 /\ 1 .. Quantity(0, 3) = {} /\ 1 .. Quantity(0, 4) = {}
  BY DEF Quantity
<1>2. DOMAIN Parts(<< >>, 3) = {} /\ DOMAIN Parts(<< >>, 4) = {}
  BY <1>1, PartsAre
<1>3. ASSUME NEW f, DOMAIN f = {}, f = [g \in DOMAIN f |-> f[g]] PROVE FlattenSeq(f) = << >>
  <2>1. f = << >> /\ Len(f) = 0
    BY <1>3
  <2>. QED
    BY <2>1 DEF FlattenSeq
<1>4. base64_encode_string(<< >>) = << >>
  BY <1>2, <1>3 DEF base64_encode_string
<1>5. Counted(<< >>) = << >>
  <2>. DEFINE F(h) == [i \in 0 .. 0 |->
                         IF i = 0 THEN << >>
                         ELSE IF i = 0 \/ (<< >>)[i] = Pad THEN h[i - 1]
                         ELSE Append(h[i - 1], (<< >>)[i])]
              f == CHOOSE h : h = F(h)
              h0 == [i \in 0 .. 0 |-> << >>]
  <2>1. h0 = F(h0)
    <3>1. \A i \in 0 .. 0 : i = 0
      OBVIOUS
    <3>. QED
      BY <3>1
  <2>2. f = F(f)
    BY <2>1
  <2>3. f[0] = << >>
    <3>1. 0 \in 0 .. 0
      OBVIOUS
    <3>. HIDE DEF f
    <3>2. F(f)[0] = << >>
      BY <3>1
    <3>. QED
      BY <2>2, <3>2
  <2>4. Counted(<< >>) = f[0]
    BY <1>1 DEF Counted
  <2>. QED
    BY <2>3, <2>4
<1>. QED
  BY <1>2, <1>3, <1>4, <1>5 DEF base64_decode_string

(* What base64_encode_string makes of a text, base64_decode_string makes the text of     *)
(* again, but for one thing: if there is no padding, because the length is a multiple of *)
(* three, the last byte is lost.                                                         *)
THEOREM Base64RoundTrip ==
  \A b \in Seq(Octet) :
    base64_decode_string(base64_encode_string(b)) =
      IF Len(b) % 3 = 0 THEN SubSeq(b, 1, Len(b) - 1) ELSE b
<1>. SUFFICES ASSUME NEW b \in Seq(Octet)
              PROVE  base64_decode_string(base64_encode_string(b)) = Left(b)
  BY ZenonT(30) DEF Left
<1>1. CASE Len(b) = 0
  <2>1. b = << >> /\ Len(b) % 3 = 0
    BY <1>1
  <2>2. SubSeq(<< >>, 1, -1) = << >>
    BY SubSeqEmpty
  <2>3. Len(b) - 1 = -1
    BY <1>1
  <2>4. Left(b) = << >>
    BY <2>1, <2>2, <2>3 DEF Left
  <2>. QED
    BY <2>1, <2>4, NothingDecoded
<1>2. CASE Len(b) # 0
  <2>1. PICK l \in Nat : l = Len(b) /\ l # 0
    BY <1>2
  <2>2. PICK n \in Nat, r \in Nat, last \in 1 .. 3, back \in 2 .. 3 : Groups(Len(b), n, r, last, back)
    BY <2>1, GroupSizes, ZenonT(30)
  <2>3. PICK plain :
          /\ plain = base64_decode_string(base64_encode_string(b))
          /\ plain \in Seq(Octet) /\ Len(plain) = 3 * (n - 1) + (back - 1)
          /\ \A i \in 1 .. Len(plain) : plain[i] = b[i]
    BY <1>2, <2>2, Decoded, ZenonT(30)
  <2>4. Len(plain) = IF l % 3 = 0 THEN l - 1 ELSE l
    BY <2>1, <2>2, <2>3, ZenonT(30) DEF Groups
  <2>5. Left(b) \in Seq(Octet) /\ Len(Left(b)) = Len(plain) /\ \A i \in 1 .. Len(plain) : Left(b)[i] = b[i]
    <3>1. CASE l % 3 = 0
      <4>1. PICK m \in Nat : m = l - 1 /\ m <= Len(b)
        BY <2>1
      <4>2. Left(b) = SubSeq(b, 1, m) /\ Len(plain) = m
        BY <2>1, <2>4, <3>1, <4>1 DEF Left
      <4>. QED
        BY <4>1, <4>2, CutFront
    <3>2. CASE l % 3 # 0
      <4>1. Left(b) = b /\ Len(plain) = l
        BY <2>1, <2>4, <3>2 DEF Left
      <4>. QED
        BY <2>1, <4>1
    <3>. QED
      BY <3>1, <3>2
  <2>6. plain = Left(b)
    BY <2>3, <2>5, SeqEqual
  <2>. QED
    BY <2>3, <2>6
<1>. QED
  BY <1>1, <1>2

-----------------------------------------------------------------------------
\* The first pair of a name, however it is spelled.
FirstPair(h, name, i) ==
  /\ i \in 1 .. Len(h) /\ h[i].key.name = name
  /\ \A j \in 1 .. Len(h) : h[j].key.name = name => i <= j
NoPair(h, name) == \A i \in 1 .. Len(h) : h[i].key.name # name

LEMMA Lookup ==
  ASSUME NEW h, IsSeq(h), NEW name
  PROVE  /\ NoPair(h, name) => hpairnode_get_ignore_case(h, name) = Missing
         /\ \A i : FirstPair(h, name, i) => hpairnode_get_ignore_case(h, name) = h[i].value
         /\ NoPair(h, name) \/ \E i : FirstPair(h, name, i)
<1>. DEFINE T == {i \in 1 .. Len(h) : h[i].key.name = name}
<1>0. PICK l \in Nat : l = Len(h)
  BY DEF IsSeq
<1>1. T \subseteq Nat
  BY <1>0
<1>2. hpairnode_get_ignore_case(h, name) =
        LET i == IF T # {} THEN Min(T) ELSE 0 IN IF i = 0 THEN Missing ELSE h[i].value
  BY DEF hpairnode_get_ignore_case, Find, SelectInSeq
<1>3. ASSUME NoPair(h, name) PROVE T = {}
  BY <1>3 DEF NoPair
<1>4. ASSUME NEW i, FirstPair(h, name, i) PROVE Min(T) = i /\ T # {} /\ i # 0
  <2>1. i \in T /\ \A j \in T : i <= j
    BY <1>4 DEF FirstPair
  <2>2. i # 0
    BY <1>0, <1>4 DEF FirstPair
  <2>. HIDE DEF T
  <2>. QED
    BY <1>1, <2>1, <2>2, FirstNumber
<1>5. ASSUME T # {} PROVE \E i : FirstPair(h, name, i)
  <2>1. \E x \in T : \A y \in T : x <= y
    <3>. HIDE DEF T
    <3>. QED
      BY <1>1, <1>5, LeastNumber
  <2>. QED
    BY <2>1 DEF FirstPair
<1>. QED
  BY <1>2, <1>3, <1>4, <1>5 DEF NoPair

\* Pairs as nanoHTTP and the application make them: with the spelling of the documents.
Made(h) ==
  /\ IsSeq(h)
  /\ \A i \in 1 .. Len(h) : h[i] = [key |-> Named(h[i].key.name), value |-> h[i].value]

Looked(before, after, name, value) ==
  /\ Made(after) /\ hpairnode_get_ignore_case(after, name) = value
  /\ \A other : other # name =>
       hpairnode_get_ignore_case(after, other) = hpairnode_get_ignore_case(before, other)

LEMMA PairKept ==
  ASSUME NEW before, Made(before), NEW after, IsSeq(after), Len(after) = Len(before),
         NEW name, NEW value, NEW i, FirstPair(before, name, i),
         after[i] = [key |-> Named(name), value |-> value],
         \A j \in 1 .. Len(before) : j # i => after[j] = before[j]
  PROVE  Looked(before, after, name, value)
<1>1. i \in 1 .. Len(before) /\ before[i].key.name = name
  BY DEF FirstPair
<1>2. after[i].key.name = name /\ after[i].value = value
  BY DEF Named
<1>3. \A j \in 1 .. Len(before) : after[j].key.name = before[j].key.name
  BY <1>1, <1>2
<1>4. \A other, k : /\ FirstPair(after, other, k) <=> FirstPair(before, other, k)
                    /\ NoPair(after, other) <=> NoPair(before, other)
  BY <1>3 DEF FirstPair, NoPair
<1>5. Made(after)
  BY <1>2 DEF Made
<1>6. IsSeq(before)
  BY DEF Made
<1>7. hpairnode_get_ignore_case(after, name) = value
  BY <1>2, <1>4, Lookup
<1>8. ASSUME NEW other, other # name
      PROVE  hpairnode_get_ignore_case(after, other) = hpairnode_get_ignore_case(before, other)
  <2>1. CASE NoPair(before, other)
    BY <1>4, <1>6, <2>1, Lookup
  <2>2. CASE ~NoPair(before, other)
    <3>1. PICK k : FirstPair(before, other, k)
      BY <1>6, <2>2, Lookup
    <3>2. k \in 1 .. Len(before) /\ k # i
      BY <1>1, <1>8, <3>1 DEF FirstPair
    <3>3. /\ hpairnode_get_ignore_case(after, other) = after[k].value
          /\ hpairnode_get_ignore_case(before, other) = before[k].value
      BY <1>4, <1>6, <3>1, Lookup
    <3>. QED
      BY <3>2, <3>3
  <2>. QED
    BY <2>1, <2>2
<1>. QED
  BY <1>5, <1>7, <1>8 DEF Looked

LEMMA Prepended ==
  ASSUME NEW s, IsSeq(s), NEW x
  PROVE  /\ IsSeq(<<x>> \o s) /\ Len(<<x>> \o s) = Len(s) + 1 /\ (<<x>> \o s)[1] = x
         /\ \A k \in 1 .. Len(s) : (<<x>> \o s)[k + 1] = s[k]
<1>1. PICK S : s \in Seq(S)
  BY DEF IsSeq
<1>2. PICK U : U = S \cup {x}
  OBVIOUS
<1>3. s \in Seq(U) /\ x \in U
  BY <1>1, <1>2
<1>4. PICK a \in Seq(U) : a = <<x>> /\ Len(a) = 1 /\ a[1] = x
  <2>1. <<x>> \in Seq(U)
    BY <1>3
  <2>2. Len(<<x>>) = 1 /\ <<x>>[1] = x
    OBVIOUS
  <2>. QED
    BY <2>1, <2>2
<1>5. /\ a \o s \in Seq(U) /\ Len(a \o s) = 1 + Len(s)
      /\ \A k \in 1 .. 1 : (a \o s)[k] = a[k]
      /\ \A k \in 1 .. Len(s) : (a \o s)[1 + k] = s[k]
  BY <1>3, <1>4, ConcatFacts
<1>6. PICK l \in Nat : l = Len(s)
  BY <1>3
<1>7. \A k \in 1 .. l : 1 + k = k + 1
  OBVIOUS
<1>. QED
  BY <1>4, <1>5, <1>6, <1>7 DEF IsSeq

LEMMA PairAdded ==
  ASSUME NEW before, Made(before), NEW after, IsSeq(after), Len(after) = Len(before) + 1,
         NEW name, NEW value, NoPair(before, name),
         after[1] = [key |-> Named(name), value |-> value],
         \A j \in 1 .. Len(before) : after[j + 1] = before[j]
  PROVE  Looked(before, after, name, value)
<1>0. PICK l \in Nat : l = Len(before) /\ Len(after) = l + 1
  BY DEF Made, IsSeq
<1>1. after[1].key.name = name /\ after[1].value = value
  BY DEF Named
<1>2. ASSUME NEW j \in 1 .. l + 1 PROVE j = 1 \/ (j - 1 \in 1 .. l /\ after[j] = before[j - 1])
  <2>1. CASE j # 1
    <3>1. PICK k \in 1 .. l : j = k + 1 /\ k = j - 1
      BY <2>1
    <3>2. after[k + 1] = before[k]
      BY <1>0
    <3>. QED
      BY <3>1, <3>2
  <2>. QED
    BY <2>1
<1>3. Made(after)
  <2>1. ASSUME NEW j \in 1 .. l + 1
        PROVE  after[j] = [key |-> Named(after[j].key.name), value |-> after[j].value]
    <3>1. CASE j = 1
      BY <1>1, <3>1
    <3>2. CASE j # 1
      <4>1. j - 1 \in 1 .. l /\ after[j] = before[j - 1]
        BY <1>2, <3>2
      <4>. QED
        BY <1>0, <4>1 DEF Made
    <3>. QED
      BY <3>1, <3>2
  <2>. QED
    BY <1>0, <2>1 DEF Made
<1>4. hpairnode_get_ignore_case(after, name) = value
  <2>1. FirstPair(after, name, 1)
    BY <1>0, <1>1 DEF FirstPair
  <2>. QED
    BY <1>1, <2>1, Lookup
<1>5. IsSeq(before)
  BY DEF Made
<1>6. ASSUME NEW other, other # name
      PROVE  hpairnode_get_ignore_case(after, other) = hpairnode_get_ignore_case(before, other)
  <2>1. CASE NoPair(before, other)
    <3>1. NoPair(after, other)
      <4>1. ASSUME NEW j \in 1 .. l + 1 PROVE after[j].key.name # other
        <5>1. CASE j = 1
          BY <1>1, <1>6, <5>1
        <5>2. CASE j # 1
          <6>1. j - 1 \in 1 .. l /\ after[j] = before[j - 1]
            BY <1>2, <5>2
          <6>. QED
            BY <1>0, <2>1, <6>1 DEF NoPair
        <5>. QED
          BY <5>1, <5>2
      <4>. QED
        BY <1>0, <4>1 DEF NoPair
    <3>. QED
      BY <1>5, <2>1, <3>1, Lookup
  <2>2. CASE ~NoPair(before, other)
    <3>1. PICK k : FirstPair(before, other, k)
      BY <1>5, <2>2, Lookup
    <3>2. k \in 1 .. l /\ before[k].key.name = other
      BY <1>0, <3>1 DEF FirstPair
    <3>3. k + 1 \in 1 .. l + 1 /\ after[k + 1] = before[k]
      BY <1>0, <3>2
    <3>4. ASSUME NEW j \in 1 .. l + 1, after[j].key.name = other PROVE k + 1 <= j
      <4>1. j # 1
        BY <1>1, <1>6, <3>4
      <4>2. PICK m \in 1 .. l : m = j - 1 /\ before[m].key.name = other
        BY <1>2, <3>4, <4>1
      <4>3. k <= m
        BY <1>0, <3>1, <4>2 DEF FirstPair
      <4>. QED
        BY <3>2, <4>2, <4>3
    <3>5. FirstPair(after, other, k + 1)
      BY <1>0, <3>2, <3>3, <3>4 DEF FirstPair
    <3>6. /\ hpairnode_get_ignore_case(after, other) = after[k + 1].value
          /\ hpairnode_get_ignore_case(before, other) = before[k].value
      BY <1>5, <3>1, <3>5, Lookup
    <3>. QED
      BY <3>3, <3>6
  <2>. QED
    BY <2>1, <2>2
<1>. QED
  BY <1>3, <1>4, <1>6 DEF Looked

(* A header that is set is found with its value, whether there was one of its name or not, *)
(* and whatever is found under another name stays what it was.                             *)
LEMMA HeaderSet ==
  ASSUME NEW before, Made(before), NEW name, NEW value
  PROVE  Looked(before, httpc_set_header(before, name, value), name, value)
<1>. DEFINE T == {i \in 1 .. Len(before) : before[i].key = Named(name)}
            after == httpc_set_header(before, name, value)
<1>0. PICK l \in Nat : l = Len(before) /\ IsSeq(before)
  BY DEF Made, IsSeq
<1>1. after = LET i == IF T # {} THEN Min(T) ELSE 0
              IN  IF i # 0 THEN [before EXCEPT ![i].value = value]
                  ELSE hpairnode_new(Named(name), value, before)
  BY SMTT(30) DEF httpc_set_header, SelectInSeq
<1>2. T = {i \in 1 .. Len(before) : before[i].key.name = name}
  <2>1. ASSUME NEW i \in 1 .. Len(before)
        PROVE  before[i].key = Named(name) <=> before[i].key.name = name
    <3>1. before[i] = [key |-> Named(before[i].key.name), value |-> before[i].value]
      BY DEF Made
    <3>2. before[i].key = Named(before[i].key.name)
      BY <3>1
    <3>3. Named(name).name = name
      BY DEF Named
    <3>. QED
      BY <3>2, <3>3
  <2>. QED
    BY <2>1
<1>3. CASE NoPair(before, name)
  <2>1. T = {}
    BY <1>2, <1>3 DEF NoPair
  <2>2. after = << [key |-> Named(name), value |-> value] >> \o before
    BY <1>1, <2>1 DEF hpairnode_new
  <2>4. PICK x : x = [key |-> Named(name), value |-> value]
    OBVIOUS
  <2>7. PICK joined : joined = <<x>> \o before
    OBVIOUS
  <2>8. /\ IsSeq(joined) /\ Len(joined) = Len(before) + 1 /\ joined[1] = x
        /\ \A k \in 1 .. Len(before) : joined[k + 1] = before[k]
    BY <1>0, <2>7, Prepended
  <2>9. Looked(before, joined, name, value)
    BY <1>0, <1>3, <2>4, <2>8, PairAdded
  <2>. QED
    BY <2>2, <2>4, <2>7, <2>9
<1>4. CASE ~NoPair(before, name)
  <2>1. PICK i : FirstPair(before, name, i)
    BY <1>0, <1>4, Lookup
  <2>2. i \in T /\ (\A j \in T : i <= j) /\ i # 0 /\ T \subseteq Nat
    BY <1>0, <1>2, <2>1 DEF FirstPair
  <2>3. T # {} /\ Min(T) = i
    <3>. HIDE DEF T
    <3>. QED
      BY <2>2, FirstNumber
  <2>4. after = [before EXCEPT ![i].value = value]
    BY <1>1, <2>2, <2>3
  <2>5. PICK S : before \in Seq(S)
    BY <1>0 DEF IsSeq
  <2>6. i \in 1 .. l /\ before[i].key.name = name
    BY <1>0, <2>1 DEF FirstPair
  <2>7. before[i] = [key |-> Named(name), value |-> before[i].value]
    BY <1>0, <2>6 DEF Made
  <2>8. PICK x : x = [key |-> Named(name), value |-> value]
    OBVIOUS
  <2>9. [before[i] EXCEPT !.value = value] = x
    BY <2>7, <2>8
  <2>10. after = [before EXCEPT ![i] = x]
    BY <2>4, <2>9
  <2>11. PICK U : U = S \cup {x}
    OBVIOUS
  <2>12. after \in Seq(U) /\ Len(after) = l /\ after[i] = x /\ \A j \in 1 .. l : j # i => after[j] = before[j]
    <3>1. before \in Seq(U) /\ x \in U
      BY <2>5, <2>11
    <3>. HIDE DEF after
    <3>. QED
      BY <1>0, <2>6, <2>10, <3>1
  <2>13. IsSeq(after)
    BY <2>12 DEF IsSeq
  <2>. HIDE DEF after
  <2>14. Looked(before, after, name, value)
    BY <1>0, <2>1, <2>8, <2>12, <2>13, PairKept
  <2>. QED
    BY <2>14 DEF after
<1>. QED
  BY <1>3, <1>4

-----------------------------------------------------------------------------
(* The size of at most one block, and what the headers of a call say.      *)
LEMMA NoSize == Size(<< >>) = 0
<1>. DEFINE F(h) == [s \in SUBSET {} |->
                       IF s = {} THEN 0 ELSE h[s \ {Max(s)}] + (<< >>)[Max(s)].size]
            f == CHOOSE h : h = F(h)
            h0 == [s \in SUBSET {} |-> 0]
<1>1. h0 = F(h0)
  <2>1. \A s \in SUBSET {} : s = {}
    OBVIOUS
  <2>. QED
    BY <2>1
<1>2. f = F(f)
  BY <1>1
<1>3. DOMAIN << >> = {}
  OBVIOUS
<1>4. Size(<< >>) = f[{}]
  BY <1>3 DEF Size, FoldLeft, MapThenFoldSet
<1>5. F(f)[{}] = 0
  <2>1. {} \in SUBSET {}
    OBVIOUS
  <2>. HIDE DEF f
  <2>. QED
    BY <2>1
<1>. HIDE DEF f, F
<1>. QED
  BY <1>2, <1>4, <1>5

LEMMA OneSize == Size(<<Document>>) = 1
<1>. DEFINE F(h) == [s \in SUBSET {1} |->
                       IF s = {} THEN 0 ELSE h[s \ {Max(s)}] + <<Document>>[Max(s)].size]
            f == CHOOSE h : h = F(h)
            h0 == [s \in SUBSET {1} |-> IF s = {} THEN 0 ELSE 1]
<1>1. Max({1}) = 1 /\ {1} \ {1} = {} /\ <<Document>>[1].size = 1
  <2>1. \E x \in {1} : \A y \in {1} : x >= y
    OBVIOUS
  <2>2. Max({1}) = 1
    BY <2>1 DEF Max
  <2>. QED
    BY <2>2 DEF Document, Piece
<1>2. \A s \in SUBSET {1} : s = {} \/ s = {1}
  OBVIOUS
<1>3. h0 = F(h0)
  <2>1. ASSUME NEW s \in SUBSET {1}
        PROVE  h0[s] = IF s = {} THEN 0 ELSE h0[s \ {Max(s)}] + <<Document>>[Max(s)].size
    <3>1. CASE s = {}
      BY <3>1
    <3>2. CASE s = {1}
      <4>1. h0[{}] = 0 /\ h0[s] = 1 /\ s # {}
        BY <3>2
      <4>. HIDE DEF h0
      <4>. QED
        BY <1>1, <3>2, <4>1
    <3>. QED
      BY <1>2, <3>1, <3>2
  <2>. QED
    BY <2>1
<1>4. f = F(f)
  BY <1>3
<1>5. DOMAIN <<Document>> = {1}
  OBVIOUS
<1>6. Size(<<Document>>) = f[{1}]
  BY <1>5 DEF Size, FoldLeft, MapThenFoldSet
<1>. HIDE DEF f
<1>7. F(f)[{}] = 0 /\ F(f)[{1}] = f[{}] + 1
  BY <1>1
<1>. HIDE DEF F
<1>. QED
  BY <1>4, <1>6, <1>7

LEMMA OneNumeral == Numeral(1) = "1" /\ atoi("1") = 1
<1>1. Numeral(1) = "1"
  BY DEF Numeral, Numerals
<1>. DEFINE T == {i \in 1 .. Len(Numerals) : Numerals[i] = "1"}
<1>2. Len(Numerals) = 12 /\ Numerals[1] = "1"
  BY DEF Numerals
<1>3. 1 \in T /\ T \subseteq Nat /\ \A j \in T : 1 <= j
  BY <1>2
<1>4. atoi("1") = IF T # {} THEN Min(T) ELSE 0
  BY DEF atoi, SelectInSeq
<1>5. Min(T) = 1 /\ T # {}
  <2>. HIDE DEF T
  <2>. QED
    BY <1>3, FirstNumber
<1>. QED
  BY <1>1, <1>4, <1>5

LEMMA NoHeaders ==
  Made(<< >>) /\ \A name : hpairnode_get_ignore_case(<< >>, name) = Missing
<1>1. IsSeq(<< >>) /\ Len(<< >>) = 0
  BY DEF IsSeq
<1>2. \A name : NoPair(<< >>, name)
  BY <1>1 DEF NoPair
<1>. QED
  BY <1>1, <1>2, Lookup DEF Made

\* What nanoHTTP adds to the headers of a call changes none of the others.
LEMMA HeadersAdded ==
  ASSUME NEW own, Made(own), NEW host, NEW name, name \notin {"Date", "Host"}
  PROVE  hpairnode_get_ignore_case(
           httpc_set_header(httpc_set_header(own, "Date", <<"now">>), "Host", host), name)
         = hpairnode_get_ignore_case(own, name)
<1>1. PICK dated : dated = httpc_set_header(own, "Date", <<"now">>)
  OBVIOUS
<1>2. Looked(own, dated, "Date", <<"now">>)
  BY <1>1, HeaderSet
<1>3. Looked(dated, httpc_set_header(dated, "Host", host), "Host", host)
  BY <1>2, HeaderSet DEF Looked
<1>. QED
  BY <1>1, <1>2, <1>3 DEF Looked

LEMMA HeaderOf ==
  ASSUME NEW call \in Requested, NEW own,
         own = (IF call.method = "GET" THEN AuthHeaders(call) ELSE SoapHeaders(call)), Made(own),
         NEW name, name \notin {"Date", "Host"}
  PROVE  hpairnode_get_ignore_case(Header[call], name) = hpairnode_get_ignore_case(own, name)
<1>1. Header[call] = httpc_set_header(httpc_set_header(own, "Date", <<"now">>), "Host", hurl_parse(call.url).host)
  BY DEF Header, Headers
<1>. QED
  BY <1>1, HeadersAdded

LEMMA TransferOf ==
  ASSUME NEW header, NEW length, length = hpairnode_get_ignore_case(header, "Content-Length"),
         NEW coding, coding = hpairnode_get_ignore_case(header, "Transfer-Encoding")
  PROVE  /\ length = Missing /\ coding = Missing => Transfer(header).type = "close"
         /\ length = Missing /\ coding = <<"chunked">> => Transfer(header).type = "chunked"
         /\ length = <<"1">> => Transfer(header).type = "length" /\ Transfer(header).length = 1
<1>1. Missing # <<"chunked">> /\ Missing # <<"1">> /\ <<"1">>[1] = "1"
  BY DEF Missing
<1>. QED
  BY <1>1, OneNumeral DEF Transfer

\* A GET has no body, and with credentials their header.
LEMMA GetHeaders ==
  ASSUME NEW call \in Requested, call.method = "GET"
  PROVE  /\ Transfer(Header[call]).type = "close"
         /\ call.auth => hpairnode_get_ignore_case(Header[call], "Authorization")
                           = Basic(call.user, call.password)
<1>1. call.auth \in BOOLEAN
  BY RequestAssumption
<1>2. PICK own : own = AuthHeaders(call)
  OBVIOUS
<1>3. /\ Made(own) /\ hpairnode_get_ignore_case(own, "Content-Length") = Missing
      /\ hpairnode_get_ignore_case(own, "Transfer-Encoding") = Missing
      /\ call.auth => hpairnode_get_ignore_case(own, "Authorization") = Basic(call.user, call.password)
  <2>1. CASE call.auth
    <3>1. Looked(<< >>, own, "Authorization", Basic(call.user, call.password))
      BY <1>2, <2>1, NoHeaders, HeaderSet DEF AuthHeaders
    <3>. QED
      BY <3>1, NoHeaders DEF Looked
  <2>2. CASE ~call.auth
    BY <1>2, <2>2, NoHeaders DEF AuthHeaders
  <2>. QED
    BY <2>1, <2>2
<1>4. \A name \in {"Content-Length", "Transfer-Encoding", "Authorization"} :
        hpairnode_get_ignore_case(Header[call], name) = hpairnode_get_ignore_case(own, name)
  BY <1>2, <1>3, HeaderOf
<1>5. /\ hpairnode_get_ignore_case(Header[call], "Content-Length") = Missing
      /\ hpairnode_get_ignore_case(Header[call], "Transfer-Encoding") = Missing
  BY <1>3, <1>4
<1>6. Transfer(Header[call]).type = "close"
  BY <1>5, TransferOf
<1>7. ASSUME call.auth
      PROVE  hpairnode_get_ignore_case(Header[call], "Authorization") = Basic(call.user, call.password)
  BY <1>3, <1>4, <1>7
<1>. QED
  BY <1>6, <1>7

\* A document goes with its length; with files it is sent in chunks.
LEMMA PostHeaders ==
  ASSUME NEW call \in Requested, call.method = "POST"
  PROVE  /\ call.files = << >> => /\ Transfer(Header[call]).type = "length"
                                  /\ Transfer(Header[call]).length = 1
         /\ call.files # << >> => Transfer(Header[call]).type = "chunked"
<1>1. PICK own : own = SoapHeaders(call)
  OBVIOUS
<1>2. PICK acted, soap :
        /\ acted = httpc_set_header(<< >>, "SOAPAction", <<"action">>)
        /\ soap = httpc_set_header(acted, "Connection", <<"Close">>)
  OBVIOUS
<1>3. Looked(<< >>, acted, "SOAPAction", <<"action">>)
  BY <1>2, NoHeaders, HeaderSet
<1>4. Looked(acted, soap, "Connection", <<"Close">>)
  BY <1>2, <1>3, HeaderSet DEF Looked
<1>5. /\ Made(soap) /\ hpairnode_get_ignore_case(soap, "Content-Length") = Missing
      /\ hpairnode_get_ignore_case(soap, "Transfer-Encoding") = Missing
  BY <1>3, <1>4, NoHeaders DEF Looked
<1>6. ASSUME Made(own), NEW name \in {"Content-Length", "Transfer-Encoding"}
      PROVE  hpairnode_get_ignore_case(Header[call], name) = hpairnode_get_ignore_case(own, name)
  BY <1>1, <1>6, HeaderOf
<1>7. ASSUME call.files = << >>
      PROVE  Transfer(Header[call]).type = "length" /\ Transfer(Header[call]).length = 1
  <2>1. Body(call) = <<Document>>
    BY <1>7 DEF Body
  <2>2. <<Numeral(Size(Body(call)))>> = <<"1">>
    BY <2>1, OneSize, OneNumeral
  <2>3. PICK typed : typed = httpc_set_header(soap, "Content-Type", <<"text/xml">>)
    OBVIOUS
  <2>4. own = httpc_set_header(typed, "Content-Length", <<"1">>)
    BY <1>1, <1>2, <1>7, <2>2, <2>3 DEF SoapHeaders
  <2>5. Made(typed)
    BY <1>5, <2>3, HeaderSet DEF Looked
  <2>6. Made(own) /\ hpairnode_get_ignore_case(own, "Content-Length") = <<"1">>
    BY <2>4, <2>5, HeaderSet DEF Looked
  <2>7. hpairnode_get_ignore_case(Header[call], "Content-Length") = <<"1">>
    BY <1>6, <2>6
  <2>. QED
    BY <2>7, TransferOf
<1>8. ASSUME call.files # << >>
      PROVE  Transfer(Header[call]).type = "chunked"
  <2>1. PICK coded, type :
          /\ coded = httpc_set_header(soap, "Transfer-Encoding", <<"chunked">>)
          /\ type = MultipartRelated("start", << >>, "text/xml", "boundary")
    OBVIOUS
  <2>2. own = httpc_set_header(coded, "Content-Type", type)
    BY <1>1, <1>2, <1>8, <2>1 DEF SoapHeaders
  <2>3. Looked(soap, coded, "Transfer-Encoding", <<"chunked">>)
    BY <1>5, <2>1, HeaderSet
  <2>4. Looked(coded, own, "Content-Type", type)
    BY <2>2, <2>3, HeaderSet DEF Looked
  <2>5. /\ Made(own) /\ hpairnode_get_ignore_case(own, "Content-Length") = Missing
        /\ hpairnode_get_ignore_case(own, "Transfer-Encoding") = <<"chunked">>
    BY <1>5, <2>3, <2>4 DEF Looked
  <2>6. /\ hpairnode_get_ignore_case(Header[call], "Content-Length") = Missing
        /\ hpairnode_get_ignore_case(Header[call], "Transfer-Encoding") = <<"chunked">>
    BY <1>6, <2>5
  <2>. QED
    BY <2>6, TransferOf
<1>. QED
  BY <1>7, <1>8

-----------------------------------------------------------------------------
(* Credentials.                                                            *)
\* The facts of ConcatFacts and CutFront, by name.
Joined(s, a, b, S) ==
  /\ s \in Seq(S) /\ Len(s) = Len(a) + Len(b)
  /\ \A k \in 1 .. Len(a) : s[k] = a[k]
  /\ \A k \in 1 .. Len(b) : s[Len(a) + k] = b[k]

LEMMA JoinedFacts ==
  ASSUME NEW S, NEW a \in Seq(S), NEW b \in Seq(S)
  PROVE  Joined(a \o b, a, b, S)
BY ConcatFacts DEF Joined

Beginning(x, s, b, S) == x \in Seq(S) /\ Len(x) = b /\ \A k \in 1 .. b : x[k] = s[k]

LEMMA BeginningFacts ==
  ASSUME NEW S, NEW s \in Seq(S), NEW b \in Nat, b <= Len(s)
  PROVE  Beginning(SubSeq(s, 1, b), s, b, S)
BY CutFront DEF Beginning

Composed(plain, user, password) ==
  /\ plain \in Seq(Octet) /\ Len(plain) = Len(user) + 1 + Len(password)
  /\ \A k \in 1 .. Len(user) : plain[k] = user[k]
  /\ plain[Len(user) + 1] = Colon
  /\ \A k \in 1 .. Len(password) : plain[Len(user) + 1 + k] = password[k]

LEMMA Credible ==
  ASSUME NEW user \in Seq(Octet), NEW password \in Seq(Octet),
         NEW plain, plain = user \o <<Colon>> \o password
  PROVE  Composed(plain, user, password)
<1>1. Colon \in Octet
  BY DEF Colon, Octet
<1>2. PICK x \in Seq(Octet) :
        /\ x = user \o <<Colon>> /\ Len(x) = Len(user) + 1 /\ x[Len(user) + 1] = Colon
        /\ \A k \in 1 .. Len(user) : x[k] = user[k]
  <2>1. PICK c \in Seq(Octet) : c = <<Colon>> /\ Len(c) = 1 /\ c[1] = Colon
    <3>1. <<Colon>> \in Seq(Octet)
      BY <1>1
    <3>2. Len(<<Colon>>) = 1 /\ <<Colon>>[1] = Colon
      OBVIOUS
    <3>. QED
      BY <3>1, <3>2
  <2>2. Joined(user \o c, user, c, Octet)
    BY JoinedFacts, ZenonT(30)
  <2>3. 1 \in 1 .. Len(c)
    BY <2>1
  <2>. QED
    BY <2>1, <2>2, <2>3 DEF Joined
<1>3. /\ x \o password \in Seq(Octet) /\ Len(x \o password) = Len(x) + Len(password)
      /\ \A k \in 1 .. Len(x) : (x \o password)[k] = x[k]
      /\ \A k \in 1 .. Len(password) : (x \o password)[Len(x) + k] = password[k]
  <2>1. Joined(x \o password, x, password, Octet)
    BY JoinedFacts, ZenonT(30)
  <2>. QED
    BY <2>1 DEF Joined
<1>4. PICK l \in Nat, m \in Nat : l = Len(user) /\ m = Len(password)
  OBVIOUS
<1>5. (\A k \in 1 .. l : k \in 1 .. l + 1) /\ l + 1 \in 1 .. l + 1
  OBVIOUS
<1>6. \A k \in 1 .. l : plain[k] = user[k]
  BY <1>2, <1>3, <1>4, <1>5
<1>7. plain[l + 1] = Colon
  BY <1>2, <1>3, <1>4, <1>5
<1>8. \A k \in 1 .. m : plain[l + 1 + k] = password[k]
  BY <1>2, <1>3, <1>4
<1>9. plain \in Seq(Octet) /\ Len(plain) = l + 1 + m
  BY <1>2, <1>3, <1>4
<1>. QED
  BY <1>4, <1>6, <1>7, <1>8, <1>9 DEF Composed

\* A colon ends the user: one that has none comes back whole, and so does the password.
LEMMA CredentialsSplit ==
  ASSUME NEW user \in Seq(Octet), NEW password \in Seq(Octet), Colon \notin Range(user),
         NEW plain, plain = user \o <<Colon>> \o password,
         NEW text, base64_decode_string(text) = plain
  PROVE  _httpd_decode_authorization(text) = <<user, password>>
<1>1. PICK l \in Nat, m \in Nat : l = Len(user) /\ m = Len(password)
  OBVIOUS
<1>2. /\ plain \in Seq(Octet) /\ Len(plain) = l + 1 + m
      /\ \A k \in 1 .. l : plain[k] = user[k]
      /\ plain[l + 1] = Colon
      /\ \A k \in 1 .. m : plain[l + 1 + k] = password[k]
  <2>1. Composed(plain, user, password)
    BY Credible, ZenonT(30)
  <2>. QED
    BY <1>1, <2>1 DEF Composed
<1>. DEFINE T == {i \in 1 .. Len(plain) : plain[i] = Colon}
<1>3. l + 1 \in T /\ T \subseteq Nat
  BY <1>2
<1>4. ASSUME NEW j \in T PROVE l + 1 <= j
  <2>1. j \in 1 .. l + 1 + m /\ plain[j] = Colon
    BY <1>2
  <2>2. j \notin 1 .. l
    <3>1. ASSUME j \in 1 .. l PROVE FALSE
      <4>1. plain[j] = user[j] /\ j \in DOMAIN user
        BY <1>1, <1>2, <3>1
      <4>. QED
        BY <2>1, <4>1 DEF Range
    <3>. QED
      BY <3>1
  <2>. QED
    BY <2>1, <2>2
<1>5. Min(T) = l + 1 /\ T # {}
  <2>. HIDE DEF T
  <2>. QED
    BY <1>3, <1>4, FirstNumber
<1>6. _httpd_decode_authorization(text) =
        LET colon == IF T # {} THEN Min(T) ELSE 0
        IN  IF colon = 0 THEN <<plain, << >> >>
            ELSE <<SubSeq(plain, 1, colon - 1), SubSeq(plain, colon + 1, Len(plain))>>
  BY DEF _httpd_decode_authorization, SelectInSeq
<1>7. SubSeq(plain, 1, l) = user
  <2>1. l <= Len(plain)
    BY <1>2
  <2>2. PICK x : x = SubSeq(plain, 1, l) /\ Beginning(x, plain, l, Octet)
    BY <1>2, <2>1, BeginningFacts
  <2>. QED
    BY <1>1, <1>2, <2>2, SeqEqual DEF Beginning
<1>8. SubSeq(plain, l + 1 + 1, l + 1 + m) = password
  <2>1. PICK a \in Nat, b \in Nat : a = l + 1 /\ b = l + 1 + m /\ a <= b /\ b = Len(plain) /\ b - a = m
    BY <1>2
  <2>2. PICK x : x = SubSeq(plain, a + 1, b) /\ x \in Seq(Octet) /\ Len(x) = m /\ \A k \in 1 .. m : x[k] = plain[a + k]
    <3>1. a <= b /\ b <= Len(plain)
      BY <2>1
    <3>2. /\ SubSeq(plain, a + 1, b) \in Seq(Octet) /\ Len(SubSeq(plain, a + 1, b)) = b - a
          /\ \A k \in 1 .. b - a : SubSeq(plain, a + 1, b)[k] = plain[a + k]
      BY SMTT(30), <1>2, <3>1, Cut
    <3>. QED
      BY <2>1, <3>2
  <2>3. \A k \in 1 .. m : x[k] = password[k]
    BY <1>2, <2>1, <2>2
  <2>4. x = password
    BY <1>1, <2>2, <2>3, SeqEqual
  <2>. QED
    BY <2>1, <2>2, <2>4
<1>9. l + 1 # 0 /\ l + 1 - 1 = l
  OBVIOUS
<1>. HIDE DEF T
<1>10. PICK colon : colon = (IF T # {} THEN Min(T) ELSE 0)
  OBVIOUS
<1>11. colon = l + 1 /\ colon # 0
  BY <1>5, <1>9, <1>10
<1>12. _httpd_decode_authorization(text) =
         IF colon = 0 THEN <<plain, << >> >>
         ELSE <<SubSeq(plain, 1, colon - 1), SubSeq(plain, colon + 1, Len(plain))>>
  BY <1>6, <1>10
<1>13. SubSeq(plain, 1, colon - 1) = user
  BY <1>7, <1>9, <1>11
<1>14. SubSeq(plain, colon + 1, Len(plain)) = password
  BY <1>2, <1>8, <1>11
<1>. QED
  BY <1>11, <1>12, <1>13, <1>14, ZenonT(30)

LEMMA CredentialsBack ==
  ASSUME NEW user \in Seq(1 .. 255), NEW password \in Seq(1 .. 255), Colon \notin Range(user),
         (Len(user) + Len(password) + 1) % 3 # 0
  PROVE  _httpd_decode_authorization(Basic(user, password)) = <<user, password>>
<1>1. user \in Seq(Octet) /\ password \in Seq(Octet)
  BY DEF Octet
<1>2. PICK plain : plain = user \o <<Colon>> \o password
  OBVIOUS
<1>3. plain \in Seq(Octet) /\ Len(plain) = Len(user) + 1 + Len(password)
  <2>1. Composed(plain, user, password)
    BY <1>1, <1>2, Credible
  <2>. QED
    BY <2>1 DEF Composed
<1>4. Len(plain) % 3 # 0
  <2>1. PICK l \in Nat, m \in Nat : l = Len(user) /\ m = Len(password)
    OBVIOUS
  <2>2. l + 1 + m = l + m + 1
    OBVIOUS
  <2>. QED
    BY <1>3, <2>1, <2>2
<1>5. base64_decode_string(base64_encode_string(plain)) = plain
  BY <1>3, <1>4, Base64RoundTrip
<1>6. Basic(user, password) = base64_encode_string(plain)
  BY <1>2 DEF Basic
<1>. QED
  BY <1>1, <1>2, <1>5, <1>6, CredentialsSplit

-----------------------------------------------------------------------------
(* Bodies. Nothing that is written has size 0.                             *)
Units == [what : {"document", "part", "block", "end"}, size : Nat \ {0},
          file : FileRecord \cup {[there |-> TRUE]}]

Full(file) ==
  file \in FileRecord /\ \A k \in DOMAIN file.blocks : k < Len(file.blocks) => file.blocks[k] > 0

AsBlocks(blocks, file) ==
  /\ blocks \in Seq(Units) /\ \A k \in 1 .. Len(blocks) : blocks[k].what = "block"
  /\ file.blocks \in {[k \in 1 .. Len(blocks) |-> blocks[k].size],
                      Append([k \in 1 .. Len(blocks) |-> blocks[k].size], 0)}

LEMMA PieceUnit ==
  ASSUME NEW what \in {"document", "part", "block", "end"}, NEW size \in Nat \ {0}
  PROVE  Piece(what, size) \in Units /\ Piece(what, size).what = what /\ Piece(what, size).size = size
BY DEF Piece, Units

LEMMA BlocksOf ==
  ASSUME NEW file, Full(file) PROVE AsBlocks(FileBlocks(file), file)
<1>1. PICK blocks \in Seq(Nat) :
        blocks = file.blocks /\ \A k \in 1 .. Len(blocks) : k < Len(blocks) => blocks[k] > 0
  BY DEF Full, FileRecord
<1>2. PICK full : full = (IF blocks # << >> /\ Last(blocks) = 0 THEN Front(blocks) ELSE blocks)
  OBVIOUS
<1>3. /\ full \in Seq(Nat) /\ \A k \in 1 .. Len(full) : full[k] \in Nat \ {0}
      /\ blocks \in {full, Append(full, 0)}
  <2>1. CASE blocks # << >> /\ Last(blocks) = 0
    <3>1. PICK l \in Nat : l + 1 = Len(blocks)
      BY <1>2, <2>1
    <3>2. Len(blocks) - 1 = l /\ l <= Len(blocks) /\ blocks[l + 1] = 0
      BY <1>2, <2>1, <3>1 DEF Last
    <3>3. full = SubSeq(blocks, 1, l)
      BY <1>2, <2>1, <3>2 DEF Front
    <3>4. Beginning(full, blocks, l, Nat)
      BY <3>2, <3>3, BeginningFacts
    <3>5. full \in Seq(Nat) /\ Len(full) = l /\ \A k \in 1 .. l : full[k] = blocks[k]
      BY <3>4 DEF Beginning
    <3>6. ASSUME NEW k \in 1 .. l PROVE k \in 1 .. Len(blocks) /\ k < Len(blocks)
      <4>1. k \in 1 .. l + 1 /\ k < l + 1
        OBVIOUS
      <4>. QED
        BY <3>1, <4>1
    <3>7. \A k \in 1 .. l : full[k] \in Nat \ {0}
      <4>1. \A k \in 1 .. Len(blocks) : blocks[k] \in Nat
        OBVIOUS
      <4>2. ASSUME NEW k \in 1 .. l PROVE full[k] \in Nat \ {0}
        <5>1. full[k] = blocks[k] /\ blocks[k] > 0 /\ blocks[k] \in Nat
          BY <1>1, <3>5, <3>6, <4>1
        <5>. QED
          BY <5>1
      <4>. QED
        BY <4>2
    <3>8. Append(full, 0) = blocks
      <4>1. /\ Append(full, 0) \in Seq(Nat) /\ Len(Append(full, 0)) = l + 1
            /\ Append(full, 0)[l + 1] = 0 /\ \A k \in 1 .. l : Append(full, 0)[k] = full[k]
        BY <3>5
      <4>2. ASSUME NEW k \in 1 .. l + 1 PROVE Append(full, 0)[k] = blocks[k]
        <5>1. k = l + 1 \/ k \in 1 .. l
          OBVIOUS
        <5>. QED
          BY <3>2, <3>5, <4>1, <5>1
      <4>. QED
        BY <3>1, <4>1, <4>2, SeqEqual
    <3>. QED
      BY <3>5, <3>7, <3>8
  <2>2. CASE ~(blocks # << >> /\ Last(blocks) = 0)
    <3>1. full = blocks /\ (blocks = << >> \/ blocks[Len(blocks)] # 0)
      BY <1>2, <2>2 DEF Last
    <3>2. ASSUME NEW k \in 1 .. Len(blocks) PROVE blocks[k] \in Nat \ {0}
      <4>1. k < Len(blocks) \/ k = Len(blocks)
        OBVIOUS
      <4>2. blocks # << >> /\ blocks[k] \in Nat
        OBVIOUS
      <4>. QED
        BY <1>1, <3>1, <4>1, <4>2
    <3>. QED
      BY <3>1, <3>2
  <2>. QED
    BY <2>1, <2>2
<1>4. FileBlocks(file) = [i \in DOMAIN full |-> Piece("block", full[i])]
  BY <1>1, <1>2 DEF FileBlocks
<1>5. PICK l \in Nat : l = Len(full) /\ DOMAIN full = 1 .. l
  BY <1>3
<1>6. PICK pieces : pieces = [i \in 1 .. l |-> Piece("block", full[i])]
  OBVIOUS
<1>7. pieces \in Seq(Units) /\ Len(pieces) = l
  <2>1. \A i \in 1 .. l : Piece("block", full[i]) \in Units
    BY <1>3, <1>5, PieceUnit
  <2>2. pieces \in [1 .. l -> Units]
    BY <1>6, <2>1
  <2>. QED
    BY <1>6, <2>2
<1>8. \A i \in 1 .. l : pieces[i].what = "block" /\ pieces[i].size = full[i]
  BY <1>3, <1>5, <1>6, PieceUnit
<1>9. [k \in 1 .. Len(pieces) |-> pieces[k].size] = full
  <2>1. full = [k \in 1 .. l |-> full[k]]
    BY <1>3, <1>5
  <2>. QED
    BY <1>7, <1>8, <2>1
<1>10. FileBlocks(file) = pieces
  BY <1>4, <1>5, <1>6
<1>11. AsBlocks(pieces, file)
  BY <1>1, <1>3, <1>7, <1>8, <1>9 DEF AsBlocks
<1>. QED
  BY <1>10, <1>11

\* A part and its blocks.
AsPart(sent, file) ==
  /\ sent \in Seq(Units) /\ Len(sent) = Len(FileBlocks(file)) + 1
  /\ sent[1] = httpc_mime_next(file)
  /\ \A k \in 1 .. Len(FileBlocks(file)) : sent[k + 1] = FileBlocks(file)[k]

LEMMA PartOf ==
  ASSUME NEW file, Full(file) PROVE AsPart(httpc_mime_send_file(file), file)
<1>1. PICK blocks : blocks = FileBlocks(file) /\ blocks \in Seq(Units)
  BY BlocksOf DEF AsBlocks
<1>2. PICK part : part = httpc_mime_next(file)
  OBVIOUS
<1>3. part \in Units
  BY <1>2 DEF httpc_mime_next, Units, Full
<1>4. PICK first \in Seq(Units) : first = <<part>> /\ Len(first) = 1 /\ first[1] = part
  <2>1. <<part>> \in Seq(Units)
    BY <1>3
  <2>2. Len(<<part>>) = 1 /\ <<part>>[1] = part
    OBVIOUS
  <2>. QED
    BY <2>1, <2>2
<1>5. PICK sent : sent = first \o blocks /\ Joined(sent, first, blocks, Units)
  BY <1>1, JoinedFacts
<1>6. PICK l \in Nat : l = Len(blocks)
  BY <1>1
<1>7. 1 + l = l + 1 /\ \A k \in 1 .. l : 1 + k = k + 1
  OBVIOUS
<1>8. /\ sent \in Seq(Units) /\ Len(sent) = l + 1 /\ sent[1] = part
      /\ \A k \in 1 .. l : sent[k + 1] = blocks[k]
  BY <1>4, <1>5, <1>6, <1>7 DEF Joined
<1>9. httpc_mime_send_file(file) = sent
  BY <1>1, <1>2, <1>4, <1>5 DEF httpc_mime_send_file
<1>. QED
  BY <1>1, <1>2, <1>6, <1>8, <1>9 DEF AsPart

\* The document, then from at[i - 1] + 3 on the i-th file, then the closing boundary.
Laid(body, fs, at) ==
  /\ body \in Seq(Units) /\ at \in [0 .. Len(fs) -> Nat] /\ at[0] = 0
  /\ Len(body) = at[Len(fs)] + 3
  /\ body[1] = httpc_mime_next([there |-> TRUE]) /\ body[2] = Document
  /\ body[Len(body)].what = "end"
  /\ \A i \in 1 .. Len(fs) :
       /\ at[i] = at[i - 1] + Len(FileBlocks(fs[i])) + 1
       /\ body[at[i - 1] + 3] = httpc_mime_next(fs[i])
       /\ \A k \in 1 .. Len(FileBlocks(fs[i])) : body[at[i - 1] + 3 + k] = FileBlocks(fs[i])[k]

\* Two pieces before a sequence, and one behind it.
Framed(s, first, second, middle, last) ==
  /\ s \in Seq(Units) /\ Len(s) = Len(middle) + 3
  /\ s[1] = first /\ s[2] = second /\ s[Len(middle) + 3] = last
  /\ \A k \in 1 .. Len(middle) : s[k + 2] = middle[k]

LEMMA Framing ==
  ASSUME NEW first \in Units, NEW second \in Units, NEW last \in Units, NEW middle \in Seq(Units)
  PROVE  Framed(<<first, second>> \o middle \o <<last>>, first, second, middle, last)
<1>1. PICK a \in Seq(Units) : a = <<first, second>> /\ Len(a) = 2 /\ a[1] = first /\ a[2] = second
  <2>1. <<first, second>> \in Seq(Units)
    OBVIOUS
  <2>2. Len(<<first, second>>) = 2 /\ <<first, second>>[1] = first /\ <<first, second>>[2] = second
    OBVIOUS
  <2>. QED
    BY <2>1, <2>2
<1>2. PICK e \in Seq(Units) : e = <<last>> /\ Len(e) = 1 /\ e[1] = last
  <2>1. <<last>> \in Seq(Units)
    OBVIOUS
  <2>2. Len(<<last>>) = 1 /\ <<last>>[1] = last
    OBVIOUS
  <2>. QED
    BY <2>1, <2>2
<1>3. PICK b : b = a \o middle /\ Joined(b, a, middle, Units)
  BY JoinedFacts
<1>4. b \in Seq(Units)
  BY <1>3 DEF Joined
<1>5. PICK s : s = b \o e /\ Joined(s, b, e, Units)
  BY <1>4, JoinedFacts
<1>6. PICK l \in Nat : l = Len(middle)
  OBVIOUS
<1>7. /\ 1 \in 1 .. 2 /\ 2 \in 1 .. 2 /\ 1 \in 1 .. l + 2 /\ 2 \in 1 .. l + 2 /\ 2 + l = l + 2
      /\ l + 2 + 1 = l + 3 /\ 1 \in 1 .. 1
      /\ \A k \in 1 .. l : 2 + k = k + 2 /\ k + 2 \in 1 .. l + 2
  OBVIOUS
<1>8. Len(b) = l + 2 /\ b[1] = first /\ b[2] = second /\ \A k \in 1 .. l : b[k + 2] = middle[k]
  BY <1>1, <1>3, <1>6, <1>7 DEF Joined
<1>9. /\ s \in Seq(Units) /\ Len(s) = l + 3 /\ s[l + 3] = last
      /\ \A k \in 1 .. l + 2 : s[k] = b[k]
  BY <1>2, <1>5, <1>7, <1>8 DEF Joined
<1>10. s[1] = first /\ s[2] = second /\ \A k \in 1 .. l : s[k + 2] = middle[k]
  BY <1>7, <1>8, <1>9
<1>11. s = <<first, second>> \o middle \o <<last>>
  BY <1>1, <1>2, <1>3, <1>5
<1>12. Framed(s, first, second, middle, last)
  BY <1>6, <1>9, <1>10 DEF Framed
<1>. QED
  BY <1>11, <1>12

LEMMA FilesFull ==
  ASSUME NEW call \in Requested, call.method = "POST"
  PROVE  call.files \in Seq(FileRecord) /\ \A i \in 1 .. Len(call.files) : Full(call.files[i])
<1>1. /\ call.files \in Seq(FileRecord)
      /\ \A i \in DOMAIN call.files : \A k \in DOMAIN call.files[i].blocks :
           k < Len(call.files[i].blocks) => call.files[i].blocks[k] > 0
  BY RequestAssumption
<1>2. PICK fs \in Seq(FileRecord) : fs = call.files
  BY <1>1
<1>3. \A i \in 1 .. Len(fs) : fs[i] \in FileRecord /\ i \in DOMAIN fs
  OBVIOUS
<1>. QED
  BY <1>1, <1>2, <1>3 DEF Full

LEMMA MimeBody ==
  ASSUME NEW call \in Requested, call.method = "POST", call.files # << >>
  PROVE  \E at : Laid(Body(call), call.files, at)
<1>1. PICK fs \in Seq(FileRecord) : fs = call.files /\ fs # << >> /\ \A i \in 1 .. Len(fs) : Full(fs[i])
  BY FilesFull
<1>2. PICK n \in Nat : n = Len(fs) /\ DOMAIN fs = 1 .. n
  OBVIOUS
<1>3. PICK parts : parts = [i \in 1 .. n |-> httpc_mime_send_file(fs[i])]
  OBVIOUS
<1>4. \A i \in 1 .. n : AsPart(parts[i], fs[i])
  BY <1>1, <1>2, <1>3, PartOf
<1>5. parts \in [1 .. n -> Seq(Units)]
  <2>1. \A i \in 1 .. n : httpc_mime_send_file(fs[i]) \in Seq(Units)
    BY <1>3, <1>4 DEF AsPart
  <2>. QED
    BY <1>3, <2>1
<1>6. PICK at : Spread(at, parts, Units, n)
  BY <1>5, FlattenFacts
<1>7. PICK middle \in Seq(Units) : middle = FlattenSeq(parts) /\ Len(middle) = at[n]
  BY <1>6 DEF Spread
<1>8. PICK first \in Units, last \in Units :
        /\ first = httpc_mime_next([there |-> TRUE]) /\ last = Piece("end", 1) /\ last.what = "end"
        /\ Document \in Units
  <2>1. httpc_mime_next([there |-> TRUE]) \in Units
    BY DEF httpc_mime_next, Units
  <2>2. Piece("end", 1) \in Units /\ Piece("end", 1).what = "end" /\ Piece("document", 1) \in Units
    BY PieceUnit
  <2>. QED
    BY <2>1, <2>2 DEF Document
<1>9. PICK body : body = <<first, Document>> \o middle \o <<last>>
  OBVIOUS
<1>10. Framed(body, first, Document, middle, last)
  BY <1>8, <1>9, Framing
<1>11. Body(call) = body
  <2>1. FlattenSeq([i \in DOMAIN call.files |-> httpc_mime_send_file(call.files[i])]) = middle
    BY <1>1, <1>2, <1>3, <1>7
  <2>2. call.method # "GET" /\ call.files # << >>
    OBVIOUS
  <2>. QED
    BY <1>8, <1>9, <2>1, <2>2 DEF Body
<1>12. /\ at \in [0 .. n -> Nat] /\ at[0] = 0 /\ \A i \in 1 .. n : at[i] = at[i - 1] + Len(parts[i])
       /\ \A i \in 1 .. n : \A k \in 1 .. Len(parts[i]) :
            at[i - 1] + k \in 1 .. at[n] /\ middle[at[i - 1] + k] = parts[i][k]
  BY <1>6, <1>7 DEF Spread
<1>13. ASSUME NEW i \in 1 .. n
       PROVE  /\ at[i] = at[i - 1] + Len(FileBlocks(fs[i])) + 1
              /\ body[at[i - 1] + 3] = httpc_mime_next(fs[i])
              /\ \A k \in 1 .. Len(FileBlocks(fs[i])) : body[at[i - 1] + 3 + k] = FileBlocks(fs[i])[k]
  <2>1. PICK a \in Nat, top \in Nat : a = at[i - 1] /\ top = at[n]
    <3>1. i - 1 \in 0 .. n /\ n \in 0 .. n
      OBVIOUS
    <3>. QED
      BY <1>12, <3>1
  <2>2. PICK blocks : \E l \in Nat : blocks = FileBlocks(fs[i]) /\ l = Len(blocks)
    <3>1. AsBlocks(FileBlocks(fs[i]), fs[i])
      BY <1>1, <1>2, BlocksOf
    <3>. QED
      BY <3>1 DEF AsBlocks
  <2>0. PICK l \in Nat : blocks = FileBlocks(fs[i]) /\ l = Len(blocks)
    BY <2>2
  <2>3. Len(parts[i]) = l + 1 /\ parts[i][1] = httpc_mime_next(fs[i]) /\ \A k \in 1 .. l : parts[i][k + 1] = blocks[k]
    BY <1>4, <2>0 DEF AsPart
  <2>4. \A k \in 1 .. l + 1 : a + k \in 1 .. top /\ middle[a + k] = parts[i][k]
    BY <1>12, <2>1, <2>3
  <2>5. \A k \in 1 .. top : body[k + 2] = middle[k]
    BY <1>7, <1>10, <2>1 DEF Framed
  <2>6. \A k \in 1 .. l + 1 : a + k \in 1 .. top /\ a + k + 2 = a + 2 + k /\ body[a + k + 2] = parts[i][k]
    <3>1. \A k \in 1 .. l + 1 : a + k + 2 = a + 2 + k
      OBVIOUS
    <3>. QED
      BY <2>4, <2>5, <3>1
  <2>7. body[a + 3] = parts[i][1]
    <3>1. 1 \in 1 .. l + 1 /\ a + 1 + 2 = a + 3
      OBVIOUS
    <3>. QED
      BY <2>6, <3>1
  <2>8. ASSUME NEW k \in 1 .. l PROVE body[a + 3 + k] = blocks[k]
    <3>1. k + 1 \in 1 .. l + 1 /\ a + (k + 1) + 2 = a + 3 + k
      OBVIOUS
    <3>2. body[a + (k + 1) + 2] = parts[i][k + 1]
      BY <2>6, <3>1
    <3>. QED
      BY <2>3, <3>1, <3>2
  <2>9. at[i] = a + (l + 1) /\ a + (l + 1) = a + l + 1
    BY <1>12, <2>1, <2>3
  <2>. QED
    BY <2>0, <2>1, <2>3, <2>7, <2>8, <2>9
<1>14. body \in Seq(Units) /\ Len(body) = at[n] + 3 /\ body[1] = first /\ body[2] = Document /\ body[Len(body)] = last
  BY <1>7, <1>10 DEF Framed
<1>15. Laid(body, fs, at)
  BY <1>2, <1>8, <1>12, <1>13, <1>14 DEF Laid
<1>. QED
  BY <1>1, <1>11, <1>15

LEMMA BodyOf ==
  ASSUME NEW call \in Requested
  PROVE  /\ Body(call) \in Seq(Units)
         /\ call.method = "GET" => Body(call) = << >>
         /\ call.method = "POST" /\ call.files = << >> => Body(call) = <<Document>>
<1>1. call.method \in {"GET", "POST"}
  BY RequestAssumption
<1>2. CASE call.method = "GET"
  <2>1. Body(call) = << >>
    BY <1>2 DEF Body
  <2>2. << >> \in Seq(Units)
    OBVIOUS
  <2>. QED
    BY <1>2, <2>1, <2>2
<1>3. CASE call.method = "POST" /\ call.files = << >>
  <2>1. Body(call) = <<Document>>
    BY <1>3 DEF Body
  <2>2. Document \in Units
    BY PieceUnit DEF Document
  <2>3. <<Document>> \in Seq(Units)
    BY <2>2
  <2>. QED
    BY <1>3, <2>1, <2>3
<1>4. CASE call.method = "POST" /\ call.files # << >>
  <2>1. PICK at : Laid(Body(call), call.files, at)
    BY <1>4, MimeBody
  <2>. QED
    BY <1>4, <2>1 DEF Laid
<1>. QED
  BY <1>1, <1>2, <1>3, <1>4

LEMMA FileThere ==
  ASSUME NEW body, NEW file, Full(file), NEW from \in Nat, NEW to \in Nat,
         to = from + Len(FileBlocks(file)) + 1, file.there,
         body[from] = httpc_mime_next(file),
         \A k \in 1 .. Len(FileBlocks(file)) : body[from + k] = FileBlocks(file)[k]
  PROVE  FileArrived(file, body, from, to)
<1>0. PICK blocks : blocks = FileBlocks(file) /\ AsBlocks(blocks, file)
  BY BlocksOf
<1>1. PICK l \in Nat :
        /\ blocks = FileBlocks(file) /\ l = Len(blocks) /\ (\A k \in 1 .. l : blocks[k].what = "block")
        /\ file.blocks \in {[k \in 1 .. l |-> blocks[k].size], Append([k \in 1 .. l |-> blocks[k].size], 0)}
  <2>1. PICK l : l = Len(blocks) /\ l \in Nat
    BY <1>0 DEF AsBlocks
  <2>. QED
    BY <1>0, <2>1, ZenonT(30) DEF AsBlocks
<1>2. to = from + l + 1 /\ from < to /\ to - from - 1 = l
  BY <1>1
<1>3. PICK sizes : sizes = [k \in 1 .. l |-> blocks[k].size]
  OBVIOUS
<1>4. [k \in 1 .. to - from - 1 |-> body[from + k].size] = sizes
  <2>1. \A k \in 1 .. l : body[from + k].size = blocks[k].size
    BY <1>1
  <2>. QED
    BY <1>2, <1>3, <2>1
<1>5. ASSUME NEW k \in from + 1 .. to - 1 PROVE body[k].what = "block"
  <2>1. PICK j \in 1 .. l : k = from + j
    <3>1. k - from \in 1 .. l /\ k = from + (k - from)
      BY <1>2
    <3>. QED
      BY <3>1
  <2>. QED
    BY <1>1, <2>1
<1>6. file.blocks \in {sizes, Append(sizes, 0)}
  BY <1>1, <1>3
<1>. QED
  BY <1>2, <1>4, <1>5, <1>6 DEF FileArrived

\* A body all of whose files could be read is what a server has to get.
LEMMA BodyArrives ==
  ASSUME NEW call \in Requested,
         \A i \in 1 .. Len(Body(call)) : Body(call)[i].file.there
  PROVE  Arrived(call, Body(call))
<1>1. call.method \in {"GET", "POST"}
  BY RequestAssumption
<1>2. CASE call.method = "GET" \/ (call.method = "POST" /\ call.files = << >>)
  BY <1>2, BodyOf DEF Arrived
<1>3. CASE call.method = "POST" /\ call.files # << >>
  <2>1. PICK fs \in Seq(FileRecord) : fs = call.files /\ \A i \in 1 .. Len(fs) : Full(fs[i])
    BY <1>3, FilesFull
  <2>2. PICK body : body = Body(call)
    OBVIOUS
  <2>3. PICK n \in Nat : n = Len(fs) /\ DOMAIN fs = 1 .. n
    OBVIOUS
  <2>4. PICK at : Laid(body, fs, at)
    BY <1>3, <2>1, <2>2, MimeBody
  <2>5. /\ body \in Seq(Units) /\ at \in [0 .. n -> Nat] /\ at[0] = 0 /\ Len(body) = at[n] + 3
        /\ body[1] = httpc_mime_next([there |-> TRUE]) /\ body[2] = Document /\ body[Len(body)].what = "end"
        /\ \A i \in 1 .. n :
             /\ at[i] = at[i - 1] + Len(FileBlocks(fs[i])) + 1
             /\ body[at[i - 1] + 3] = httpc_mime_next(fs[i])
             /\ \A k \in 1 .. Len(FileBlocks(fs[i])) : body[at[i - 1] + 3 + k] = FileBlocks(fs[i])[k]
    BY <2>3, <2>4 DEF Laid
  <2>6. PICK top \in Nat : top = at[n] /\ Len(body) = top + 3
    BY <2>5
  \* Where the parts begin grows.
  <2>7. ASSUME NEW i \in 1 .. n PROVE at[i - 1] \in Nat /\ at[i] \in Nat /\ at[i - 1] <= at[i]
    <3>1. i - 1 \in 0 .. n /\ i \in 0 .. n
      OBVIOUS
    <3>2. PICK a \in Nat, b \in Nat : a = at[i - 1] /\ b = at[i]
      BY <2>5, <3>1
    <3>3. PICK l \in Nat : l = Len(FileBlocks(fs[i]))
      <4>1. AsBlocks(FileBlocks(fs[i]), fs[i])
        BY <2>1, <2>3, BlocksOf
      <4>. QED
        BY <4>1 DEF AsBlocks
    <3>4. b = a + l + 1
      BY <2>5, <3>2, <3>3
    <3>5. a <= b
      BY <3>4
    <3>. QED
      BY <3>2, <3>5
  <2>8. \A i \in 0 .. n : at[i] <= top
    <3>. DEFINE T == {m \in Nat : m > n \/ at[n - m] <= top}
    <3>1. 0 \in T
      <4>1. n - 0 = n /\ top <= top
        OBVIOUS
      <4>. QED
        BY <2>6, <4>1
    <3>2. ASSUME NEW m \in Nat, m \in T PROVE m + 1 \in T
      <4>1. CASE m + 1 > n
        BY <4>1
      <4>2. CASE ~(m + 1 > n)
        <5>1. PICK i \in 1 .. n : i = n - m /\ i - 1 = n - (m + 1)
          BY <4>2
        <5>2. at[i] <= top
          BY <3>2, <4>2, <5>1
        <5>3. PICK a \in Nat, b \in Nat : a = at[i - 1] /\ b = at[i] /\ a <= b
          BY <2>7
        <5>4. a <= top
          BY <5>2, <5>3
        <5>. QED
          BY <5>1, <5>3, <5>4
      <4>. QED
        BY <4>1, <4>2
    <3>3. Nat \subseteq T
      <4>. HIDE DEF T
      <4>. QED
        BY <3>1, <3>2, AllNumbers
    <3>4. ASSUME NEW i \in 0 .. n PROVE at[i] <= top
      <4>1. n - i \in Nat /\ ~(n - i > n) /\ n - (n - i) = i
        OBVIOUS
      <4>. QED
        BY <3>3, <4>1
    <3>. QED
      BY <3>4
  <2>9. PICK begin : begin = [i \in 1 .. n + 1 |-> at[i - 1] + 3]
    OBVIOUS
  <2>10. begin \in [1 .. n + 1 -> 3 .. Len(body)]
    <3>1. ASSUME NEW i \in 1 .. n + 1 PROVE at[i - 1] + 3 \in 3 .. top + 3
      <4>1. i - 1 \in 0 .. n
        OBVIOUS
      <4>2. PICK a \in Nat : a = at[i - 1] /\ a <= top
        BY <2>5, <2>8, <4>1
      <4>3. a + 3 \in 3 .. top + 3
        BY <4>2
      <4>. QED
        BY <4>2, <4>3
    <3>. QED
      BY <2>6, <2>9, <3>1
  <2>11. begin[1] = 3 /\ begin[n + 1] = Len(body)
    <3>1. 1 \in 1 .. n + 1 /\ n + 1 \in 1 .. n + 1 /\ n + 1 - 1 = n /\ 1 - 1 = 0 /\ 0 + 3 = 3
      OBVIOUS
    <3>. QED
      BY <2>5, <2>9, <3>1
  <2>12. ASSUME NEW i \in DOMAIN fs PROVE FileArrived(fs[i], body, begin[i], begin[i + 1])
    <3>1. i \in 1 .. n /\ i \in 1 .. n + 1 /\ i + 1 \in 1 .. n + 1 /\ i + 1 - 1 = i
      BY <2>3
    <3>2. PICK a \in Nat, b \in Nat : a = at[i - 1] /\ b = at[i]
      BY <2>7, <3>1
    <3>3. PICK file : file = fs[i] /\ Full(file)
      BY <2>1, <2>3, <3>1
    <3>4. PICK l \in Nat : l = Len(FileBlocks(file))
      <4>1. AsBlocks(FileBlocks(file), file)
        BY <3>3, BlocksOf
      <4>. QED
        BY <4>1 DEF AsBlocks
    <3>5. /\ b = a + l + 1 /\ body[a + 3] = httpc_mime_next(file)
          /\ \A k \in 1 .. l : body[a + 3 + k] = FileBlocks(file)[k]
      BY <2>5, <3>1, <3>2, <3>3, <3>4
    <3>6. PICK from \in Nat, to \in Nat : from = a + 3 /\ to = b + 3 /\ to = from + l + 1
      BY <3>5
    <3>7. begin[i] = from /\ begin[i + 1] = to
      <4>1. begin[i] = at[i - 1] + 3
        BY <2>9, <3>1
      <4>2. begin[i + 1] = at[i + 1 - 1] + 3
        BY <2>9, <3>1
      <4>. QED
        BY <3>1, <3>2, <3>6, <4>1, <4>2
    <3>8. file.there
      <4>1. from \in 1 .. top + 3
        <5>1. a <= top
          <6>1. i - 1 \in 0 .. n
            BY <3>1
          <6>. QED
            BY <2>8, <3>2, <6>1
        <5>. QED
          BY <3>6, <5>1
      <4>2. body[from].file.there
        BY <2>2, <2>6, <4>1
      <4>3. body[from].file = file
        BY <3>5, <3>6 DEF httpc_mime_next
      <4>. QED
        BY <4>2, <4>3
    <3>9. \A k \in 1 .. l : body[from + k] = FileBlocks(file)[k]
      BY <3>5, <3>6
    <3>10. FileArrived(file, body, from, to)
      BY <3>3, <3>4, <3>5, <3>6, <3>8, <3>9, FileThere
    <3>. QED
      BY <3>3, <3>7, <3>10
  <2>13. SubSeq(body, 1, 2) = <<httpc_mime_next([there |-> TRUE]), Document>>
    <3>1. 2 \in Nat /\ 2 <= Len(body)
      BY <2>6
    <3>2. PICK x : x = SubSeq(body, 1, 2) /\ Beginning(x, body, 2, Units)
      BY <2>5, <3>1, BeginningFacts
    <3>3. x \in Seq(Units) /\ Len(x) = 2 /\ x[1] = httpc_mime_next([there |-> TRUE]) /\ x[2] = Document
      BY <2>5, <3>2 DEF Beginning
    <3>4. x = <<x[1], x[2]>>
      BY <3>3
    <3>. QED
      BY <3>2, <3>3, <3>4
  <2>14. \E at1 \in [1 .. Len(fs) + 1 -> 3 .. Len(body)] :
           /\ at1[1] = 3 /\ at1[Len(fs) + 1] = Len(body)
           /\ \A i \in DOMAIN fs : FileArrived(fs[i], body, at1[i], at1[i + 1])
    BY <2>3, <2>10, <2>11, <2>12
  <2>. QED
    BY <1>3, <2>1, <2>2, <2>5, <2>13, <2>14 DEF Arrived
<1>. QED
  BY <1>1, <1>2, <1>3

-----------------------------------------------------------------------------
(* What of a request is on its connection: the head, the first k writes,   *)
(* and behind the last of them what ends a chunked body.                   *)
Begun(s, call, k) ==
  /\ IsSeq(s) /\ k \in 0 .. Len(Body(call)) /\ Len(s) >= k + 1 /\ s[1].header = Header[call]
  /\ \A i \in 1 .. k : s[i + 1] = Body(call)[i] /\ Body(call)[i].file.there

Carries(s, call, k) == Begun(s, call, k) /\ Len(s) = k + 1

Flushed(s, call) ==
  /\ Begun(s, call, Len(Body(call))) /\ call.method = "POST" /\ call.files # << >>
  /\ Len(s) = Len(Body(call)) + 2 /\ s[Len(Body(call)) + 2] = Piece("flush", 0)

OnWay(s, call) == Flushed(s, call) \/ \E k \in Nat : Carries(s, call, k)

\* What a thread has still to write is what is missing.
Writing(s, call, writes) ==
  \E k \in Nat :
    /\ Carries(s, call, k) /\ IsSeq(writes) /\ Len(writes) + k = Len(Body(call))
    /\ \A i \in 1 .. Len(writes) : writes[i] = Body(call)[k + i]

Longer(r, s, x) ==
  /\ IsSeq(r) /\ Len(r) = Len(s) + 1 /\ r[Len(s) + 1] = x
  /\ \A k \in 1 .. Len(s) : r[k] = s[k]

LEMMA Lengthened ==
  ASSUME NEW s, IsSeq(s), NEW x PROVE Longer(s \o <<x>>, s, x)
<1>1. PICK S : s \in Seq(S)
  BY DEF IsSeq
<1>2. PICK U : U = S \cup {x}
  OBVIOUS
<1>3. s \in Seq(U) /\ x \in U
  BY <1>1, <1>2
<1>4. /\ Append(s, x) \in Seq(U) /\ s \o <<x>> = Append(s, x) /\ Len(Append(s, x)) = Len(s) + 1
      /\ Append(s, x)[Len(s) + 1] = x /\ Len(s) \in Nat
      /\ \A k \in 1 .. Len(s) : Append(s, x)[k] = s[k]
  BY <1>3
<1>. QED
  BY <1>4 DEF IsSeq, Longer

LEMMA BodyLength ==
  ASSUME NEW call \in Requested PROVE Len(Body(call)) \in Nat /\ IsSeq(Body(call))
<1>1. PICK b \in Seq(Units) : b = Body(call)
  BY BodyOf
<1>. QED
  BY <1>1 DEF IsSeq

LEMMA HeadCarried ==
  ASSUME NEW call \in Requested, NEW x, x.header = Header[call]
  PROVE  /\ << >> \o <<x>> # << >> /\ Carries(<< >> \o <<x>>, call, 0)
         /\ Writing(<< >> \o <<x>>, call, Body(call))
<1>1. IsSeq(<< >>) /\ Len(<< >>) = 0
  <2>1. << >> \in Seq({})
    OBVIOUS
  <2>. QED
    BY <2>1 DEF IsSeq
<1>2. PICK s : s = << >> \o <<x>> /\ IsSeq(s) /\ Len(s) = 1 /\ s[1] = x
  <2>1. Longer(<< >> \o <<x>>, << >>, x)
    BY <1>1, Lengthened
  <2>. QED
    BY <1>1, <2>1 DEF Longer
<1>3. PICK n \in Nat : n = Len(Body(call)) /\ IsSeq(Body(call))
  BY BodyLength
<1>4. Carries(s, call, 0)
  <2>1. 0 \in 0 .. n /\ 1 >= 0 + 1 /\ 0 + 1 = 1 /\ \A i \in 1 .. 0 : FALSE
    BY <1>3
  <2>. QED
    BY <1>2, <1>3, <2>1 DEF Carries, Begun
<1>5. Writing(s, call, Body(call))
  <2>1. n + 0 = n /\ \A i \in 1 .. n : 0 + i = i
    OBVIOUS
  <2>2. \A i \in 1 .. n : Body(call)[i] = Body(call)[0 + i]
    BY <2>1
  <2>. QED
    BY <1>3, <1>4, <2>1, <2>2 DEF Writing
<1>6. s # << >>
  BY <1>1, <1>2
<1>. QED
  BY <1>2, <1>4, <1>5, <1>6

LEMMA WriteCarried ==
  ASSUME NEW call \in Requested, NEW s, NEW writes, Writing(s, call, writes), writes # << >>,
         writes[1].file.there
  PROVE  Writing(s \o <<writes[1]>>, call, Tail(writes))
<1>1. PICK k \in Nat :
        /\ Carries(s, call, k) /\ IsSeq(writes) /\ Len(writes) + k = Len(Body(call))
        /\ \A i \in 1 .. Len(writes) : writes[i] = Body(call)[k + i]
  BY DEF Writing
<1>2. PICK n \in Nat : n = Len(Body(call))
  BY BodyLength
<1>3. PICK l \in Nat :
        /\ l + 1 = Len(writes) /\ IsSeq(Tail(writes)) /\ Len(Tail(writes)) = l
        /\ \A i \in 1 .. l : Tail(writes)[i] = writes[i + 1]
  <2>1. PICK S : writes \in Seq(S)
    BY <1>1 DEF IsSeq
  <2>2. PICK l \in Nat : l + 1 = Len(writes)
    BY <2>1
  <2>3. Tail(writes) \in Seq(S) /\ Len(Tail(writes)) = l /\ \A i \in 1 .. l : Tail(writes)[i] = writes[i + 1]
    BY <2>1, <2>2
  <2>. QED
    BY <2>2, <2>3 DEF IsSeq
<1>4. k + 1 \in 0 .. n /\ l + (k + 1) = n /\ 1 \in 1 .. l + 1
  BY <1>1, <1>2, <1>3
<1>5. writes[1] = Body(call)[k + 1]
  BY <1>1, <1>3, <1>4
<1>6. /\ IsSeq(s) /\ Len(s) = k + 1 /\ s[1].header = Header[call]
      /\ \A i \in 1 .. k : s[i + 1] = Body(call)[i] /\ Body(call)[i].file.there
  BY <1>1 DEF Carries, Begun
<1>7. PICK r : /\ r = s \o <<writes[1]>> /\ IsSeq(r) /\ Len(r) = k + 2 /\ r[k + 2] = writes[1]
               /\ \A i \in 1 .. k + 1 : r[i] = s[i]
  <2>1. PICK x : x = writes[1]
    OBVIOUS
  <2>2. PICK r : r = s \o <<x>>
    OBVIOUS
  <2>3. Longer(r, s, x)
    BY <1>6, <2>2, Lengthened
  <2>4. k + 1 + 1 = k + 2
    OBVIOUS
  <2>5. /\ IsSeq(r) /\ Len(r) = k + 2 /\ r[k + 2] = x
        /\ \A i \in 1 .. k + 1 : r[i] = s[i]
    BY <1>6, <2>3, <2>4 DEF Longer
  <2>. QED
    BY <2>1, <2>2, <2>5
<1>8. \A i \in 1 .. k + 1 : r[i + 1] = Body(call)[i] /\ Body(call)[i].file.there
  <2>1. ASSUME NEW i \in 1 .. k PROVE r[i + 1] = Body(call)[i] /\ Body(call)[i].file.there
    <3>1. i + 1 \in 1 .. k + 1
      OBVIOUS
    <3>. QED
      BY <1>6, <1>7, <3>1
  <2>2. r[k + 1 + 1] = Body(call)[k + 1] /\ Body(call)[k + 1].file.there
    <3>1. k + 1 + 1 = k + 2
      OBVIOUS
    <3>. QED
      BY <1>5, <1>7, <3>1
  <2>3. \A i \in 1 .. k + 1 : i \in 1 .. k \/ i = k + 1
    OBVIOUS
  <2>. QED
    BY <2>1, <2>2, <2>3
<1>9. r[1] = s[1]
  <2>1. 1 \in 1 .. k + 1
    OBVIOUS
  <2>. QED
    BY <1>7, <2>1
<1>10. Carries(r, call, k + 1)
  <2>1. k + 2 >= k + 1 + 1 /\ k + 2 = k + 1 + 1
    OBVIOUS
  <2>. QED
    BY <1>2, <1>4, <1>6, <1>7, <1>8, <1>9, <2>1 DEF Carries, Begun
<1>11. \A i \in 1 .. l : Tail(writes)[i] = Body(call)[k + 1 + i]
  <2>1. ASSUME NEW i \in 1 .. l PROVE Tail(writes)[i] = Body(call)[k + 1 + i]
    <3>1. i + 1 \in 1 .. l + 1 /\ k + (i + 1) = k + 1 + i
      OBVIOUS
    <3>2. writes[i + 1] = Body(call)[k + (i + 1)]
      BY <1>1, <1>3, <3>1
    <3>. QED
      BY <1>3, <3>1, <3>2
  <2>. QED
    BY <2>1
<1>12. PICK m \in Nat : m = k + 1
  OBVIOUS
<1>13. Writing(r, call, Tail(writes))
  BY <1>2, <1>3, <1>4, <1>10, <1>11, <1>12 DEF Writing
<1>. QED
  BY <1>7, <1>13

LEMMA FlushCarried ==
  ASSUME NEW call \in Requested, call.method = "POST", NEW s, NEW writes, Writing(s, call, writes), writes = << >>
  PROVE  OnWay(s \o (IF Transfer(Header[call]).type = "chunked" THEN <<Piece("flush", 0)>> ELSE << >>), call)
<1>1. PICK k \in Nat : Carries(s, call, k) /\ Len(writes) + k = Len(Body(call))
  BY DEF Writing
<1>2. Len(Body(call)) = k
  BY <1>1
<1>3. IsSeq(s) /\ Len(s) = k + 1
  BY <1>1 DEF Carries, Begun
<1>4. CASE Transfer(Header[call]).type = "chunked"
  <2>1. call.files # << >>
    BY <1>4, PostHeaders
  <2>2. PICK x : x = Piece("flush", 0)
    OBVIOUS
  <2>3. PICK r : /\ r = s \o <<x>> /\ IsSeq(r) /\ Len(r) = k + 1 + 1 /\ r[k + 1 + 1] = x
                 /\ \A i \in 1 .. k + 1 : r[i] = s[i]
    <3>1. PICK r : r = s \o <<x>>
      OBVIOUS
    <3>2. Longer(r, s, x)
      BY <1>3, <3>1, Lengthened
    <3>. QED
      BY <1>3, <3>1, <3>2 DEF Longer
  <2>4. k + 1 + 1 = k + 2 /\ k + 2 >= k + 1 /\ 1 \in 1 .. k + 1 /\ \A i \in 1 .. k : i + 1 \in 1 .. k + 1
    OBVIOUS
  <2>5. Begun(r, call, k)
    BY <1>1, <2>3, <2>4 DEF Carries, Begun
  <2>6. Flushed(r, call)
    BY <1>2, <2>1, <2>2, <2>3, <2>4, <2>5 DEF Flushed
  <2>. QED
    BY <1>4, <2>2, <2>3, <2>6 DEF OnWay
<1>5. CASE Transfer(Header[call]).type # "chunked"
  <2>1. s \o << >> = s
    <3>1. PICK S : s \in Seq(S)
      BY <1>3 DEF IsSeq
    <3>. QED
      BY <3>1
  <2>. QED
    BY <1>1, <1>5, <2>1 DEF OnWay
<1>. QED
  BY <1>4, <1>5

\* What is behind the head.
Behind(sent, s, l) ==
  IsSeq(sent) /\ Len(sent) = l /\ DOMAIN sent = 1 .. l /\ \A i \in 1 .. l : sent[i] = s[i + 1]

LEMMA BehindHead ==
  ASSUME NEW s, IsSeq(s), NEW l \in Nat, Len(s) = l + 1 PROVE Behind(Tail(s), s, l)
<1>1. PICK S : s \in Seq(S)
  BY DEF IsSeq
<1>2. s # << >> /\ Len(s) - 1 = l
  BY <1>1
<1>3. Tail(s) \in Seq(S) /\ Len(Tail(s)) = l /\ DOMAIN Tail(s) = 1 .. l
  BY <1>1, <1>2
<1>4. \A i \in 1 .. l : Tail(s)[i] = s[i + 1]
  BY <1>1, <1>2, <1>3
<1>. QED
  BY <1>3, <1>4 DEF IsSeq, Behind

LEMMA SameSeq ==
  ASSUME NEW a, IsSeq(a), NEW b, IsSeq(b), Len(a) = Len(b), \A i \in 1 .. Len(a) : a[i] = b[i]
  PROVE  a = b
<1>1. PICK A, B : a \in Seq(A) /\ b \in Seq(B)
  BY DEF IsSeq
<1>2. PICK S : S = A \cup B
  OBVIOUS
<1>3. a \in Seq(S) /\ b \in Seq(S)
  BY <1>1, <1>2
<1>. QED
  BY <1>3, SeqEqual

Prefix(x, s, b) == IsSeq(x) /\ Len(x) = b /\ \A k \in 1 .. b : x[k] = s[k]

LEMMA PrefixFacts ==
  ASSUME NEW s, IsSeq(s), NEW b \in Nat, b <= Len(s) PROVE Prefix(SubSeq(s, 1, b), s, b)
<1>1. PICK S : s \in Seq(S)
  BY DEF IsSeq
<1>2. Beginning(SubSeq(s, 1, b), s, b, S)
  BY <1>1, BeginningFacts
<1>. QED
  BY <1>2 DEF Beginning, Prefix, IsSeq

\* A server has the request to its end by what the head says: all of it has arrived.
Reached(transfer, sent, ends) ==
  CASE transfer.type = "length" -> Size(sent) >= transfer.length
    [] transfer.type = "chunked" -> ends # {}
    [] transfer.type = "close" -> TRUE

Whole(sent, ends) == IF ends = {} THEN sent ELSE SubSeq(sent, 1, Least(ends) - 1)

LEMMA CarriedWhole ==
  ASSUME NEW call \in Requested, NEW s, NEW k \in Nat, Carries(s, call, k),
         NEW sent, sent = Tail(s), NEW ends, ends = {i \in DOMAIN sent : sent[i].size = 0},
         Reached(Transfer(s[1].header), sent, ends)
  PROVE  Arrived(call, Whole(sent, ends))
<1>1. PICK body \in Seq(Units) :
        /\ body = Body(call) /\ (call.method = "GET" => body = << >>)
        /\ (call.method = "POST" /\ call.files = << >> => body = <<Document>>)
  BY BodyOf
<1>2. /\ IsSeq(s) /\ Len(s) = k + 1 /\ s[1].header = Header[call] /\ k \in 0 .. Len(body)
      /\ \A i \in 1 .. k : s[i + 1] = body[i]
  BY <1>1 DEF Carries, Begun
<1>3. Behind(sent, s, k)
  BY <1>2, BehindHead
<1>4. IsSeq(sent) /\ Len(sent) = k /\ DOMAIN sent = 1 .. k /\ \A i \in 1 .. k : sent[i] = body[i]
  BY <1>2, <1>3 DEF Behind
<1>5. ends = {}
  <2>1. ASSUME NEW i \in 1 .. k PROVE body[i].size # 0
    <3>1. i \in 1 .. Len(body)
      BY <1>2
    <3>2. body[i] \in Units
      BY <3>1
    <3>. QED
      BY <3>2 DEF Units
  <2>. QED
    BY <1>4, <2>1
<1>6. Whole(sent, ends) = sent
  BY <1>5 DEF Whole
<1>7. Reached(Transfer(Header[call]), sent, {})
  BY <1>2, <1>5
<1>8. CASE call.method = "GET"
  <2>1. k = 0
    BY <1>1, <1>2, <1>8
  <2>2. IsSeq(<< >>) /\ Len(<< >>) = 0
    <3>1. << >> \in Seq({})
      OBVIOUS
    <3>. QED
      BY <3>1 DEF IsSeq
  <2>3. sent = << >>
    BY <1>4, <2>1, <2>2, SameSeq
  <2>. QED
    BY <1>6, <1>8, <2>3 DEF Arrived
<1>9. CASE call.method = "POST" /\ call.files = << >>
  <2>1. body = <<Document>> /\ k \in 0 .. 1
    BY <1>1, <1>2, <1>9
  <2>2. Size(sent) >= 1
    <3>1. Transfer(Header[call]).type = "length" /\ Transfer(Header[call]).length = 1
      BY <1>9, PostHeaders
    <3>. QED
      BY <1>7, <3>1 DEF Reached
  <2>3. k = 1
    <3>1. ASSUME k = 0 PROVE FALSE
      <4>1. IsSeq(<< >>) /\ Len(<< >>) = 0
        <5>1. << >> \in Seq({})
          OBVIOUS
        <5>. QED
          BY <5>1 DEF IsSeq
      <4>2. sent = << >>
        BY <1>4, <3>1, <4>1, SameSeq
      <4>3. Size(sent) = 0
        BY <4>2, NoSize
      <4>. QED
        BY <2>2, <4>3
    <3>. QED
      BY <2>1, <3>1
  <2>4. sent = <<Document>>
    <3>1. IsSeq(body) /\ Len(body) = 1
      BY <2>1 DEF IsSeq
    <3>2. sent = body
      BY <1>4, <2>3, <3>1, SameSeq
    <3>. QED
      BY <2>1, <3>2
  <2>5. call.method # "GET"
    BY <1>9
  <2>. QED
    BY <1>6, <1>9, <2>4, <2>5 DEF Arrived
<1>10. CASE call.method = "POST" /\ call.files # << >>
  <2>1. Transfer(Header[call]).type = "chunked"
    BY <1>10, PostHeaders
  <2>. QED
    BY <1>7, <2>1 DEF Reached
<1>11. call.method \in {"GET", "POST"}
  BY RequestAssumption
<1>. QED
  BY <1>8, <1>9, <1>10, <1>11

LEMMA FlushedWhole ==
  ASSUME NEW call \in Requested, NEW s, Flushed(s, call),
         NEW sent, sent = Tail(s), NEW ends, ends = {i \in DOMAIN sent : sent[i].size = 0}
  PROVE  Arrived(call, Whole(sent, ends))
<1>1. PICK body \in Seq(Units), n \in Nat : body = Body(call) /\ n = Len(body) /\ IsSeq(body)
  <2>1. Body(call) \in Seq(Units) /\ Len(Body(call)) \in Nat
    BY BodyOf
  <2>. QED
    BY <2>1 DEF IsSeq
<1>2. /\ IsSeq(s) /\ Len(s) = n + 2 /\ s[n + 2] = Piece("flush", 0)
      /\ \A i \in 1 .. n : s[i + 1] = body[i] /\ body[i].file.there
  BY <1>1 DEF Flushed, Begun
<1>3. PICK l \in Nat : l = n + 1 /\ n + 2 = l + 1 /\ 1 .. l = 1 .. n \cup {l} /\ l - 1 = n /\ n <= l
  OBVIOUS
<1>4. Behind(sent, s, l)
  BY <1>2, <1>3, BehindHead
<1>5. /\ IsSeq(sent) /\ Len(sent) = l /\ DOMAIN sent = 1 .. l /\ sent[l] = Piece("flush", 0)
      /\ \A i \in 1 .. n : sent[i] = body[i]
  BY <1>2, <1>3, <1>4 DEF Behind
<1>6. ends = {l}
  <2>1. sent[l].size = 0
    <3>1. Piece("flush", 0).size = 0
      BY DEF Piece
    <3>. QED
      BY <1>5, <3>1
  <2>2. ASSUME NEW i \in 1 .. n PROVE sent[i].size # 0
    <3>1. body[i] \in Units
      BY <1>1
    <3>. QED
      BY <1>5, <3>1 DEF Units
  <2>. QED
    BY <1>3, <1>5, <2>1, <2>2
<1>7. Least(ends) - 1 = n
  <2>1. Least(ends) = l
    BY <1>6, LeastNumber
  <2>. QED
    BY <1>3, <2>1
<1>8. Whole(sent, ends) = body
  <2>1. Prefix(SubSeq(sent, 1, n), sent, n)
    BY <1>3, <1>5, PrefixFacts
  <2>2. PICK x : x = SubSeq(sent, 1, n) /\ IsSeq(x) /\ Len(x) = n /\ \A k \in 1 .. n : x[k] = sent[k]
    BY <2>1 DEF Prefix
  <2>3. \A k \in 1 .. n : x[k] = body[k]
    BY <1>5, <2>2
  <2>4. x = body
    BY <1>1, <2>2, <2>3, SameSeq
  <2>. QED
    BY <1>6, <1>7, <2>2, <2>4 DEF Whole
<1>9. Arrived(call, Body(call))
  BY <1>1, <1>2, BodyArrives
<1>. QED
  BY <1>1, <1>8, <1>9

LEMMA AllArrived ==
  ASSUME NEW call \in Requested, NEW s, OnWay(s, call),
         NEW sent, sent = Tail(s), NEW ends, ends = {i \in DOMAIN sent : sent[i].size = 0},
         Reached(Transfer(s[1].header), sent, ends)
  PROVE  Arrived(call, Whole(sent, ends))
BY CarriedWhole, FlushedWhole DEF OnWay

-----------------------------------------------------------------------------
(* While every head is sent, what is on a connection is a request of the   *)
(* application as far as it is written.                                    *)
ConnSent(c) ==
  conns[c].sent # << >> => conns[c].ask \in Requested /\ OnWay(conns[c].sent, conns[c].ask)

ToSend(t) ==
  /\ \A i \in DOMAIN threads[t].todo : threads[t].todo[i] \in Requested
  /\ \A m \in 1 .. MaxCalls : m > threads[t].n => conns[<<t, m>>].sent = << >>
  /\ threads[t].pc = "head" =>
       conns[Current(t)].sent = << >> /\ conns[Current(t)].ask = Asked(t)
  /\ threads[t].pc = "write" =>
       /\ conns[Current(t)].ask = Asked(t) /\ Asked(t).method = "POST"
       /\ Writing(conns[Current(t)].sent, Asked(t), threads[t].writes)

Requests == (\A c \in Calls : ConnSent(c)) /\ (\A t \in Threads : ToSend(t))

RequestInv == Undisturbed => Requests

LEMMA InitRequests == ASSUME Init PROVE RequestInv
<1>1. PICK s \in Scenarios : threads = [t \in Threads |-> [Idle EXCEPT !.todo = s[t]]]
  BY DEF Init
<1>2. \A c \in Calls : conns[c].sent = << >>
  BY DEF Init
<1>3. \A c \in Calls : ConnSent(c)
  BY <1>2 DEF ConnSent
<1>4. ASSUME NEW t \in Threads PROVE ToSend(t)
  <2>1. threads[t].pc = "idle" /\ threads[t].todo = s[t]
    BY <1>1 DEF Idle
  <2>2. \A i \in DOMAIN s[t] : s[t][i] \in Requested
    <3>1. Range(s[t]) \subseteq Requested
      BY DEF Requested
    <3>2. ASSUME NEW i \in DOMAIN s[t] PROVE s[t][i] \in Range(s[t])
      BY DEF Range
    <3>. QED
      BY <3>1, <3>2
  <2>3. \A m \in 1 .. MaxCalls : conns[<<t, m>>].sent = << >>
    BY <1>2 DEF Calls
  <2>. QED
    BY <2>1, <2>2, <2>3 DEF ToSend
<1>. QED
  BY <1>3, <1>4 DEF RequestInv, Requests

LEMMA ConnSentStays ==
  ASSUME NEW c \in Calls, ConnSent(c), conns'[c].sent = conns[c].sent,
         conns'[c].ask = conns[c].ask \/ conns[c].sent = << >>
  PROVE  ConnSent(c)'
BY DEF ConnSent

LEMMA ToSendStays ==
  ASSUME Inv, NEW u \in Threads, ToSend(u), threads'[u] = threads[u],
         \A m \in 1 .. MaxCalls : /\ conns'[<<u, m>>].sent = conns[<<u, m>>].sent
                                  /\ conns'[<<u, m>>].ask = conns[<<u, m>>].ask
  PROVE  ToSend(u)'
<1>1. Current(u)' = Current(u) /\ Asked(u)' = Asked(u)
  BY DEF Current, Asked
<1>2. threads[u].pc # "idle" => Current(u) \in Calls
  BY CountedCalls
<1>3. threads[u].pc # "idle" =>
        /\ conns'[Current(u)].sent = conns[Current(u)].sent
        /\ conns'[Current(u)].ask = conns[Current(u)].ask
  BY <1>2 DEF Current, Calls
<1>4. \A i \in DOMAIN threads'[u].todo : threads'[u].todo[i] \in Requested
  BY DEF ToSend
<1>5. \A m \in 1 .. MaxCalls : m > threads'[u].n => conns'[<<u, m>>].sent = << >>
  BY DEF ToSend
<1>6. threads'[u].pc = "head" => conns'[Current(u)].sent = << >> /\ conns'[Current(u)].ask = Asked(u)
  BY <1>3 DEF ToSend
<1>7. threads'[u].pc = "write" =>
        /\ conns'[Current(u)].ask = Asked(u) /\ Asked(u).method = "POST"
        /\ Writing(conns'[Current(u)].sent, Asked(u), threads'[u].writes)
  BY <1>3 DEF ToSend
<1>. QED
  BY <1>1, <1>4, <1>5, <1>6, <1>7 DEF ToSend

\* A step of one thread on its own connections.
LEMMA ThreadStepSends ==
  ASSUME Inv, Requests, NEW t \in Threads,
         \A u \in Threads : u # t => threads'[u] = threads[u],
         \A u \in Threads, m \in 1 .. MaxCalls : u # t =>
           conns'[<<u, m>>].sent = conns[<<u, m>>].sent /\ conns'[<<u, m>>].ask = conns[<<u, m>>].ask,
         \A c \in Calls : ConnSent(c)', ToSend(t)'
  PROVE  Requests'
<1>1. ASSUME NEW u \in Threads, u # t PROVE ToSend(u)'
  <2>1. ToSend(u) /\ threads'[u] = threads[u]
    BY <1>1 DEF Requests
  <2>2. \A m \in 1 .. MaxCalls : /\ conns'[<<u, m>>].sent = conns[<<u, m>>].sent
                                 /\ conns'[<<u, m>>].ask = conns[<<u, m>>].ask
    BY <1>1
  <2>. QED
    BY <2>1, <2>2, ToSendStays
<1>2. \A u \in Threads : ToSend(u)'
  BY <1>1
<1>. QED
  BY <1>2 DEF Requests

\* What a thread does without sending.
LEMMA QuietRequests ==
  ASSUME Inv, RequestInv, NEW t \in Threads, NEW q, Step(t, q), q.pc \notin {"head", "write"},
         q.n = threads[t].n \/ q.n = threads[t].n + 1,
         q.todo = threads[t].todo \/ (threads[t].todo # << >> /\ q.todo = Tail(threads[t].todo)),
         \A c \in Calls : /\ conns'[c].sent = conns[c].sent /\ conns'[c].unsent = conns[c].unsent
                          /\ conns'[c].ask = conns[c].ask
  PROVE  RequestInv'
<1>. SUFFICES ASSUME Undisturbed' PROVE Requests'
  BY DEF RequestInv
<1>1. Undisturbed /\ Requests
  BY DEF Undisturbed, RequestInv
<1>2. threads'[t] = q /\ \A u \in Threads : u # t => threads'[u] = threads[u]
  BY DEF Step, Inv, ThreadInv
<1>3. \A c \in Calls : ConnSent(c)'
  BY <1>1, ConnSentStays DEF Requests
<1>4. \A u \in Threads, m \in 1 .. MaxCalls :
        conns'[<<u, m>>].sent = conns[<<u, m>>].sent /\ conns'[<<u, m>>].ask = conns[<<u, m>>].ask
  BY DEF Calls
<1>5. PICK todo : /\ todo = threads[t].todo /\ IsSeq(todo) /\ \A i \in DOMAIN todo : todo[i] \in Requested
  <2>1. \E S : threads[t].todo \in Seq(S)
    BY DEF Inv, ThreadInv, ThreadFine
  <2>2. \A i \in DOMAIN threads[t].todo : threads[t].todo[i] \in Requested
    BY <1>1 DEF Requests, ToSend
  <2>. QED
    BY <2>1, <2>2 DEF IsSeq
<1>6. \A i \in DOMAIN q.todo : q.todo[i] \in Requested
  <2>1. CASE q.todo = todo
    BY <1>5, <2>1
  <2>2. CASE todo # << >> /\ q.todo = Tail(todo)
    BY <1>5, <2>2, TailFacts
  <2>. QED
    BY <1>5, <2>1, <2>2
<1>7. \A m \in 1 .. MaxCalls : m > q.n => conns'[<<t, m>>].sent = << >>
  <2>1. \A m \in 1 .. MaxCalls : m > threads[t].n => conns[<<t, m>>].sent = << >>
    BY <1>1 DEF Requests, ToSend
  <2>2. threads[t].n \in Nat
    BY DEF Inv, ThreadInv, ThreadFine
  <2>3. ASSUME NEW m \in 1 .. MaxCalls, m > q.n PROVE m > threads[t].n
    BY <2>2, <2>3
  <2>. QED
    BY <1>4, <2>1, <2>3
<1>8. ToSend(t)'
  BY <1>2, <1>6, <1>7 DEF ToSend
<1>. QED
  BY <1>1, <1>2, <1>3, <1>4, <1>8, ThreadStepSends

LEMMA TakesRequests ==
  ASSUME Inv, RequestInv, NEW t \in Threads, NEW q, Keeps(threads[t], q), q.pc \notin {"head", "write"},
         Takes(t, q) \/ (Step(t, q) /\ UNCHANGED conns)
  PROVE  RequestInv'
<1>1. DOMAIN conns = Calls /\ \A c \in Calls : DOMAIN conns[c] = ConnFields
  BY DEF Inv, ConnInv
<1>2. Step(t, q) /\ (UNCHANGED conns \/ \E c, x : conns' = [conns EXCEPT ![c].back = x])
  <2>1. CASE Takes(t, q)
    <3>1. PICK c, x : c = ConnOf(t) /\ x = Tail(conns[c].back)
      OBVIOUS
    <3>2. Step(t, q) /\ conns' = [conns EXCEPT ![c].back = x]
      BY <2>1, <3>1 DEF Takes
    <3>. QED
      BY <3>2
  <2>. QED
    BY <2>1
<1>3. \A c \in Calls : /\ conns'[c].sent = conns[c].sent /\ conns'[c].unsent = conns[c].unsent
                       /\ conns'[c].ask = conns[c].ask
  <2>1. CASE UNCHANGED conns
    BY <2>1
  <2>2. ASSUME NEW d, NEW x, conns' = [conns EXCEPT ![d].back = x], NEW c \in Calls
        PROVE  /\ conns'[c].sent = conns[c].sent /\ conns'[c].unsent = conns[c].unsent
               /\ conns'[c].ask = conns[c].ask
    BY <1>1, <2>2 DEF ConnFields
  <2>. QED
    BY <1>2, <2>1, <2>2
<1>4. q.n = threads[t].n /\ q.todo = threads[t].todo
  BY DEF Keeps
<1>. QED
  BY <1>2, <1>3, <1>4, QuietRequests

\* Failures, the answer and its end.
LEMMA ReceiveRequests ==
  ASSUME Inv, RequestInv, NEW t \in Threads,
         \/ WriteFails(t) \/ hresponse_new_from_socket(t) \/ HeadMissing(t)
         \/ MimeParsed(t) \/ OpenRoot(t) \/ ReadRoot(t) \/ BodyMissing(t) \/ ReadBody(t) \/ Finish(t)
  PROVE  RequestInv'
<1>1. /\ threads[t].pc # "idle" /\ DOMAIN threads[t] = ThreadFields
      /\ threads[t].pc \in Running /\ threads[t].status \in Statuses
  BY DEF WriteFails, hresponse_new_from_socket, HeadMissing, MimeParsed, OpenRoot, ReadRoot, BodyMissing,
         ReadBody, Finish, Inv, ThreadInv, ThreadFine
<1>2. ASSUME NEW status \in Statuses,
             Takes(t, Failing(t, status)) \/ (Step(t, Failing(t, status)) /\ UNCHANGED conns)
      PROVE  RequestInv'
  <2>1. PICK q : q = Failing(t, status) /\ Keeps(threads[t], q) /\ q.pc = "release"
    BY <1>1, KeptFailing
  <2>. QED
    BY <1>2, <2>1, TakesRequests
<1>3. ASSUME threads[t].pc \in {"mime", "read"}, NEW body,
             \/ Takes(t, Answered(t, body)) \/ Takes(t, [Answered(t, body) EXCEPT !.pc = "parts"])
             \/ Step(t, Answered(t, body)) /\ UNCHANGED conns
      PROVE  RequestInv'
  <2>1. PICK q : /\ Keeps(threads[t], q) /\ q.pc \in {"result", "parts"}
                 /\ Takes(t, q) \/ (Step(t, q) /\ UNCHANGED conns)
    BY <1>3, AnsweredFacts, PartsFacts
  <2>. QED
    BY <1>3, <2>1, TakesRequests
<1>4. CASE WriteFails(t) \/ HeadMissing(t)
  <2>1. Step(t, Failing(t, "error")) /\ UNCHANGED conns
    BY <1>4 DEF WriteFails, HeadMissing, NothingComes, Gives
  <2>. QED
    BY <1>2, <2>1 DEF Statuses
<1>5. CASE Finish(t)
  <2>1. \E status \in {"ok", "error"} : Step(t, Failing(t, status)) /\ UNCHANGED conns
    BY <1>5 DEF Finish, Refused
  <2>. QED
    BY <1>2, <2>1 DEF Statuses
<1>6. CASE MimeParsed(t) \/ BodyMissing(t) \/ ReadBody(t)
  <2>1. threads[t].pc \in {"mime", "read"}
    BY <1>6 DEF MimeParsed, BodyMissing, ReadBody
  <2>2. \/ \E status \in {"error", "dangling"} :
             (Step(t, Failing(t, status)) /\ UNCHANGED conns) \/ Takes(t, Failing(t, status))
        \/ \E body : \/ Step(t, Answered(t, body)) /\ UNCHANGED conns
                     \/ Takes(t, Answered(t, body)) \/ Takes(t, [Answered(t, body) EXCEPT !.pc = "parts"])
    <3>1. CASE MimeParsed(t)
      BY <3>1 DEF MimeParsed
    <3>2. CASE BodyMissing(t)
      BY <3>2 DEF BodyMissing, NothingComes, BodyError, Gives
    <3>3. CASE ReadBody(t)
      BY <3>3 DEF ReadBody
    <3>. QED
      BY <1>6, <3>1, <3>2, <3>3
  <2>. QED
    BY <1>2, <1>3, <2>1, <2>2 DEF Statuses
<1>7. CASE hresponse_new_from_socket(t)
  <2>1. /\ threads[t].pc = "receive"
        /\ \/ Takes(t, Failing(t, "error"))
           \/ Takes(t, threads[t])
           \/ \E h : Takes(t, [[threads[t] EXCEPT !.head = h] EXCEPT !.pc = "read"])
           \/ \E h, b : Takes(t, [[threads[t] EXCEPT !.head = h] EXCEPT !.pc = "mime", !.block = b])
    <3>1. PICK unit, head : /\ unit = Back(t)[1]
                            /\ head = IF unit.kind = "head" THEN Parsed[unit.head] ELSE [ok |-> FALSE]
      OBVIOUS
    <3>2. PICK h : h = [parsed |-> head, of |-> unit.of, fits |-> Fits(unit.head)]
      OBVIOUS
    <3>3. /\ threads[t].pc = "receive"
          /\ \/ Takes(t, Failing(t, "error"))
             \/ Takes(t, threads[t])
             \/ Takes(t, [[threads[t] EXCEPT !.head = h] EXCEPT !.pc = "read"])
             \/ \E b : Takes(t, [[threads[t] EXCEPT !.head = h] EXCEPT !.pc = "mime", !.block = b])
      BY <1>7, <3>1, <3>2 DEF hresponse_new_from_socket
    <3>. QED
      BY <3>3
  <2>2. CASE Takes(t, Failing(t, "error"))
    BY <1>2, <2>2 DEF Statuses
  <2>3. CASE Takes(t, threads[t])
    BY <1>1, <2>1, <2>3, Kept, TakesRequests DEF Running
  <2>4. ASSUME NEW h, Takes(t, [[threads[t] EXCEPT !.head = h] EXCEPT !.pc = "read"]) PROVE RequestInv'
    <3>1. PICK q : q = [[threads[t] EXCEPT !.head = h] EXCEPT !.pc = "read"]
      OBVIOUS
    <3>2. Keeps(threads[t], q) /\ q.pc = "read" /\ Takes(t, q)
      BY <1>1, <2>4, <3>1 DEF Keeps, Running, ThreadFields
    <3>. QED
      BY <3>2, TakesRequests
  <2>5. ASSUME NEW h, NEW b, Takes(t, [[threads[t] EXCEPT !.head = h] EXCEPT !.pc = "mime", !.block = b])
        PROVE  RequestInv'
    <3>1. PICK q : q = [[threads[t] EXCEPT !.head = h] EXCEPT !.pc = "mime", !.block = b]
      OBVIOUS
    <3>2. Keeps(threads[t], q) /\ q.pc = "mime" /\ Takes(t, q)
      BY <1>1, <2>5, <3>1 DEF Keeps, Running, ThreadFields
    <3>. QED
      BY <3>2, TakesRequests
  <2>. QED
    BY <2>1, <2>2, <2>3, <2>4, <2>5
<1>8. CASE OpenRoot(t) \/ ReadRoot(t)
  <2>1. UNCHANGED conns
    BY <1>8 DEF OpenRoot, ReadRoot, Gives
  <2>2. PICK q : Keeps(threads[t], q) /\ Step(t, q) /\ q.pc \in {"release", "root", "result"}
    BY <1>8, OpenRootMoves, ReadRootMoves
  <2>. QED
    BY <2>1, <2>2, TakesRequests
<1>. QED
  BY <1>4, <1>5, <1>6, <1>7, <1>8

LEMMA CloseRequests ==
  ASSUME Inv, RequestInv, NEW t \in Threads, httpc_close_free(t) PROVE RequestInv'
<1>1. PICK q : Step(t, q) /\ q = [Idle EXCEPT !.n = threads[t].n, !.todo = Tail(threads[t].todo)]
  BY DEF httpc_close_free
<1>2. q.pc = "idle" /\ q.n = threads[t].n /\ q.todo = Tail(threads[t].todo)
  BY <1>1 DEF Idle
<1>3. threads[t].todo # << >>
  BY DEF httpc_close_free, Inv, ThreadInv, ThreadFine
<1>4. DOMAIN conns = Calls /\ \A c \in Calls : DOMAIN conns[c] = ConnFields
  BY DEF Inv, ConnInv
<1>5. \A c \in Calls : /\ conns'[c].sent = conns[c].sent /\ conns'[c].unsent = conns[c].unsent
                       /\ conns'[c].ask = conns[c].ask
  <2>1. UNCHANGED conns \/ \E c : conns' = [conns EXCEPT ![c].state = "closed", ![c].back = << >>]
    BY DEF httpc_close_free, Closed
  <2>2. ASSUME NEW c, conns' = [conns EXCEPT ![c].state = "closed", ![c].back = << >>], NEW d \in Calls
        PROVE  /\ conns'[d].sent = conns[d].sent /\ conns'[d].unsent = conns[d].unsent
               /\ conns'[d].ask = conns[d].ask
    BY <1>4, <2>2 DEF ConnFields
  <2>. QED
    BY <2>1, <2>2
<1>. QED
  BY <1>1, <1>2, <1>3, <1>5, QuietRequests

LEMMA PeerRequests ==
  ASSUME Inv, RequestInv, NEW c \in Calls, Continue(c) \/ Reply(c) \/ End(c) \/ Reset(c) \/ Stall(c)
  PROVE  RequestInv'
<1>1. DOMAIN conns[c] = ConnFields /\ DOMAIN conns = Calls
  BY DEF Inv, ConnInv
<1>2. UNCHANGED threads /\ \E conn : conns' = [conns EXCEPT ![c] = conn]
  BY DEF Continue, Reply, End, Reset, Stall, Peer
<1>3. conns'[c].sent = conns[c].sent /\ conns'[c].unsent = conns[c].unsent /\ conns'[c].ask = conns[c].ask
  <2>1. CASE Continue(c)
    BY <1>1, <2>1 DEF Continue, Peer, ConnFields
  <2>2. CASE Reply(c)
    <3>1. PICK x : Peer(c, [conns[c] EXCEPT !.answered = TRUE, !.back = x])
      BY <2>2 DEF Reply
    <3>. QED
      BY <1>1, <3>1 DEF Peer, ConnFields
  <2>3. CASE End(c) \/ Reset(c) \/ Stall(c)
    <3>1. \/ Peer(c, [conns[c] EXCEPT !.state = "fin"])
          \/ Peer(c, [conns[c] EXCEPT !.state = "reset", !.back = << >>])
          \/ Peer(c, [conns[c] EXCEPT !.state = "full"])
      BY <2>3 DEF End, Reset, Stall
    <3>. QED
      BY <1>1, <3>1 DEF Peer, ConnFields
  <2>. QED
    BY <2>1, <2>2, <2>3
<1>4. \A d \in Calls : /\ conns'[d].sent = conns[d].sent /\ conns'[d].unsent = conns[d].unsent
                       /\ conns'[d].ask = conns[d].ask
  BY <1>1, <1>2, <1>3
<1>. SUFFICES ASSUME Undisturbed' PROVE Requests'
  BY DEF RequestInv
<1>5. Undisturbed /\ Requests
  BY <1>4 DEF Undisturbed, RequestInv
<1>6. \A d \in Calls : ConnSent(d)'
  BY <1>4, <1>5, ConnSentStays DEF Requests
<1>7. ASSUME NEW t \in Threads PROVE ToSend(t)'
  <2>1. ToSend(t)
    BY <1>5 DEF Requests
  <2>2. \A m \in 1 .. MaxCalls : conns'[<<t, m>>].sent = conns[<<t, m>>].sent /\ conns'[<<t, m>>].ask = conns[<<t, m>>].ask
    BY <1>4 DEF Calls
  <2>. QED
    BY <1>2, <2>1, <2>2, ToSendStays
<1>. QED
  BY <1>6, <1>7 DEF Requests

\* What is to hold of a connection once more has been sent.
SentOn(t, s, q) ==
  /\ Asked(t) \in Requested /\ conns[Current(t)].ask = Asked(t) /\ OnWay(s, Asked(t))
  /\ q.pc # "head"
  /\ q.pc = "write" => Asked(t).method = "POST" /\ Writing(s, Asked(t), q.writes)

LEMMA SendsRequests ==
  ASSUME Inv, RequestInv, NEW t \in Threads, NEW units, NEW q, Keeps(threads[t], q), Sends(t, units, q),
         Undisturbed /\ Requests => SentOn(t, conns[Current(t)].sent \o units, q)
  PROVE  RequestInv'
<1>1. /\ ConnOf(t) # None /\ Step(t, q)
      /\ conns' = [conns EXCEPT ![ConnOf(t)].sent = @ \o units]
  BY DEF Sends, CanSend
<1>2. DOMAIN conns = Calls /\ \A c \in Calls : DOMAIN conns[c] = ConnFields
  BY DEF Inv, ConnInv
<1>. SUFFICES ASSUME Undisturbed' PROVE Requests'
  BY DEF RequestInv
<1>3. Undisturbed /\ Requests
  <2>1. PICK c, x : c = ConnOf(t) /\ x = conns[c].sent \o units
    OBVIOUS
  <2>2. conns' = [conns EXCEPT ![c].sent = x]
    BY <1>1, <2>1
  <2>3. Undisturbed
    BY <1>2, <2>2 DEF Undisturbed, ConnFields
  <2>. QED
    BY <2>3 DEF RequestInv
<1>4. PICK c \in Calls : c = Current(t) /\ c = ConnOf(t) /\ threads[t].pc # "idle"
  BY <1>1, <1>3, OwnConn
<1>5. PICK s : s = conns[c].sent \o units /\ SentOn(t, s, q)
  BY <1>3, <1>4
<1>6. /\ conns'[c].sent = s /\ conns'[c].ask = conns[c].ask
      /\ \A d \in Calls : d # c => conns'[d] = conns[d]
  BY <1>1, <1>2, <1>4, <1>5 DEF ConnFields
<1>7. /\ threads'[t] = q /\ \A u \in Threads : u # t => threads'[u] = threads[u]
  BY <1>1, <1>4, ThreadGoesOn DEF Inv
<1>8. \A d \in Calls : ConnSent(d)'
  <2>1. ConnSent(c)'
    BY <1>4, <1>5, <1>6 DEF ConnSent, SentOn
  <2>2. ASSUME NEW d \in Calls, d # c PROVE ConnSent(d)'
    BY <1>3, <1>6, <2>2, ConnSentStays DEF Requests
  <2>. QED
    BY <2>1, <2>2
<1>9. PICK n : n = threads[t].n /\ c = <<t, n>> /\ q.n = n /\ q.todo = threads[t].todo /\ n \in Nat
  BY <1>4 DEF Current, Keeps, Inv, ThreadInv, ThreadFine
<1>10. \A u \in Threads, m \in 1 .. MaxCalls : <<u, m>> # c => conns'[<<u, m>>] = conns[<<u, m>>]
  BY <1>6 DEF Calls
<1>11. Current(t)' = c /\ Asked(t)' = Asked(t)
  BY <1>7, <1>9 DEF Current, Asked
<1>12. ToSend(t)
  BY <1>3 DEF Requests
<1>13. ToSend(t)'
  <2>1. \A i \in DOMAIN threads'[t].todo : threads'[t].todo[i] \in Requested
    BY <1>7, <1>9, <1>12 DEF ToSend
  <2>2. ASSUME NEW m \in 1 .. MaxCalls, m > threads'[t].n PROVE conns'[<<t, m>>].sent = << >>
    <3>1. m > n /\ m # n
      BY <1>7, <1>9, <2>2
    <3>2. <<t, m>> # c
      BY <1>9, <3>1
    <3>3. conns[<<t, m>>].sent = << >>
      BY <1>9, <1>12, <3>1 DEF ToSend
    <3>. QED
      BY <1>10, <3>2, <3>3
  <2>3. threads'[t].pc # "head"
    BY <1>5, <1>7 DEF SentOn
  <2>4. threads'[t].pc = "write" =>
          /\ conns'[c].ask = Asked(t) /\ Asked(t).method = "POST"
          /\ Writing(conns'[c].sent, Asked(t), threads'[t].writes)
    BY <1>4, <1>5, <1>6, <1>7 DEF SentOn
  <2>. QED
    BY <1>11, <2>1, <2>2, <2>3, <2>4 DEF ToSend
<1>14. \A u \in Threads, m \in 1 .. MaxCalls : u # t =>
         conns'[<<u, m>>].sent = conns[<<u, m>>].sent /\ conns'[<<u, m>>].ask = conns[<<u, m>>].ask
  BY <1>9, <1>10
<1>. QED
  BY <1>3, <1>7, <1>8, <1>13, <1>14, ThreadStepSends

\* What a running thread has been asked is a call of the application.
LEMMA AskedRequested ==
  ASSUME Inv, Requests, NEW t \in Threads, threads[t].todo # << >>
  PROVE  Asked(t) \in Requested
<1>1. IsSeq(threads[t].todo)
  BY DEF Inv, ThreadInv, ThreadFine, IsSeq
<1>2. 1 \in DOMAIN threads[t].todo
  BY <1>1, TailFacts
<1>. QED
  BY <1>2 DEF Requests, ToSend, Asked

LEMMA HeadRequests == ASSUME Inv, RequestInv, NEW t \in Threads, SendHead(t) PROVE RequestInv'
<1>1. PICK x : x = [what |-> "head", size |-> 1, of |-> Current(t), header |-> Header[Asked(t)]]
  OBVIOUS
<1>2. PICK q : q = IF Asked(t).method = "GET" THEN [threads[t] EXCEPT !.pc = "receive"]
                   ELSE [threads[t] EXCEPT !.pc = "write", !.writes = Body(Asked(t))]
  OBVIOUS
<1>3. threads[t].pc = "head" /\ Sends(t, <<x>>, q)
  BY <1>1, <1>2 DEF SendHead
<1>4. /\ DOMAIN threads[t] = ThreadFields /\ threads[t].todo # << >>
      /\ "receive" \in Running /\ "write" \in Running
  BY <1>3 DEF Inv, ThreadInv, ThreadFine, Running
<1>5. Keeps(threads[t], q) /\ q.pc # "head"
  BY <1>2, <1>3, <1>4, Kept DEF ThreadFields
<1>6. q.pc = "write" => Asked(t).method # "GET" /\ q.writes = Body(Asked(t))
  BY <1>2, <1>4 DEF ThreadFields
<1>7. ASSUME Undisturbed, Requests PROVE SentOn(t, conns[Current(t)].sent \o <<x>>, q)
  <2>1. PICK call \in Requested : call = Asked(t)
    BY <1>4, <1>7, AskedRequested
  <2>2. conns[Current(t)].sent = << >> /\ conns[Current(t)].ask = call
    BY <1>3, <1>7, <2>1 DEF Requests, ToSend
  <2>3. x.header = Header[call]
    BY <1>1, <2>1
  <2>4. PICK s : s = << >> \o <<x>>
    OBVIOUS
  <2>5. Carries(s, call, 0) /\ Writing(s, call, Body(call))
    BY <2>3, <2>4, HeadCarried
  <2>6. OnWay(s, call)
    BY <2>5 DEF OnWay
  <2>7. call.method \in {"GET", "POST"}
    BY RequestAssumption
  <2>8. SentOn(t, s, q)
    BY <1>5, <1>6, <2>1, <2>2, <2>5, <2>6, <2>7 DEF SentOn
  <2>. QED
    BY <2>2, <2>4, <2>8
<1>. QED
  BY <1>3, <1>5, <1>7, SendsRequests

\* What a thread that writes has on its connection.
LEMMA WritingNow ==
  ASSUME Inv, Requests, NEW t \in Threads, threads[t].pc = "write"
  PROVE  /\ Asked(t) \in Requested /\ conns[Current(t)].ask = Asked(t) /\ Asked(t).method = "POST"
         /\ Writing(conns[Current(t)].sent, Asked(t), threads[t].writes)
<1>1. threads[t].todo # << >>
  BY DEF Inv, ThreadInv, ThreadFine
<1>. QED
  BY <1>1, AskedRequested DEF Requests, ToSend

LEMMA WriteRequests == ASSUME Inv, RequestInv, NEW t \in Threads, Write(t) PROVE RequestInv'
<1>1. PICK writes : writes = threads[t].writes /\ writes # << >> /\ writes[1].file.there
  BY DEF Write
<1>2. PICK q : q = [threads[t] EXCEPT !.writes = Tail(writes)]
  OBVIOUS
<1>3. threads[t].pc = "write" /\ Sends(t, <<writes[1]>>, q)
  BY <1>1, <1>2 DEF Write
<1>4. DOMAIN threads[t] = ThreadFields /\ "write" \in Running
  BY DEF Inv, ThreadInv, ThreadFine, Running
<1>5. Keeps(threads[t], q) /\ q.pc = "write" /\ q.writes = Tail(writes)
  BY <1>2, <1>3, <1>4, Kept DEF ThreadFields
<1>6. ASSUME Undisturbed, Requests PROVE SentOn(t, conns[Current(t)].sent \o <<writes[1]>>, q)
  <2>1. PICK call \in Requested :
          /\ call = Asked(t) /\ conns[Current(t)].ask = call /\ call.method = "POST"
          /\ Writing(conns[Current(t)].sent, call, writes)
    BY <1>1, <1>3, <1>6, WritingNow
  <2>2. PICK s : s = conns[Current(t)].sent \o <<writes[1]>>
    OBVIOUS
  <2>3. Writing(s, call, Tail(writes))
    BY <1>1, <2>1, <2>2, WriteCarried
  <2>4. OnWay(s, call)
    BY <2>3 DEF Writing, OnWay
  <2>5. SentOn(t, s, q)
    BY <1>5, <2>1, <2>3, <2>4 DEF SentOn
  <2>. QED
    BY <2>2, <2>5
<1>. QED
  BY <1>3, <1>5, <1>6, SendsRequests

LEMMA FlushRequests == ASSUME Inv, RequestInv, NEW t \in Threads, http_output_stream_flush(t) PROVE RequestInv'
<1>1. PICK units : units = IF Transfer(Header[Asked(t)]).type = "chunked" THEN <<Piece("flush", 0)>> ELSE << >>
  OBVIOUS
<1>2. PICK q : q = [threads[t] EXCEPT !.pc = "receive"]
  OBVIOUS
<1>3. threads[t].pc = "write" /\ threads[t].writes = << >> /\ Sends(t, units, q)
  BY <1>1, <1>2 DEF http_output_stream_flush
<1>4. DOMAIN threads[t] = ThreadFields /\ "receive" \in Running
  BY DEF Inv, ThreadInv, ThreadFine, Running
<1>5. Keeps(threads[t], q) /\ q.pc = "receive"
  BY <1>2, <1>3, <1>4, Kept DEF ThreadFields
<1>6. ASSUME Undisturbed, Requests PROVE SentOn(t, conns[Current(t)].sent \o units, q)
  <2>1. PICK call \in Requested :
          /\ call = Asked(t) /\ conns[Current(t)].ask = call /\ call.method = "POST"
          /\ Writing(conns[Current(t)].sent, call, << >>)
    BY <1>3, <1>6, WritingNow
  <2>2. PICK s : s = conns[Current(t)].sent
    OBVIOUS
  <2>3. OnWay(s \o (IF Transfer(Header[call]).type = "chunked" THEN <<Piece("flush", 0)>> ELSE << >>), call)
    BY <2>1, <2>2, FlushCarried
  <2>4. OnWay(s \o units, call)
    BY <1>1, <2>1, <2>3
  <2>5. SentOn(t, s \o units, q)
    BY <1>5, <2>1, <2>4 DEF SentOn
  <2>. QED
    BY <2>2, <2>5
<1>. QED
  BY <1>3, <1>5, <1>6, SendsRequests

LEMMA BeginRequests == ASSUME Inv, RequestInv, NEW t \in Threads, Begin(t) PROVE RequestInv'
<1>1. PICK new : new = [Idle EXCEPT !.n = threads[t].n + 1, !.todo = threads[t].todo]
  OBVIOUS
<1>2. DOMAIN new = ThreadFields /\ new.n = threads[t].n + 1 /\ new.todo = threads[t].todo
  BY <1>1 DEF Idle, ThreadFields
<1>3. PICK c, call : c = <<t, threads[t].n + 1>> /\ call = Asked(t)
  OBVIOUS
<1>4. threads[t].pc = "idle" /\ threads[t].todo # << >> /\ threads[t].n \in Nat
  BY DEF Begin, Inv, ThreadInv, ThreadFine
<1>5. c \in Calls
  BY <1>3, <1>4, CountedCalls
<1>6. \/ /\ UNCHANGED conns
         /\ \E w : Step(t, [new EXCEPT !.pc = "release", !.status = "error", !.wild = w])
      \/ \E state, ssl, sock, pc, status :
           /\ conns' = [conns EXCEPT ![c].state = state, ![c].ask = call, ![c].ssl = ssl]
           /\ Step(t, [new EXCEPT !.sock = sock, !.pc = pc, !.status = status])
           /\ pc \in {"head", "release"}
  <2>1. PICK ssl, sock : /\ ssl = (Url[Asked(t)].protocol = "https")
                         /\ sock = Least({fd \in DOMAIN fds : fds[fd] = None})
    OBVIOUS
  <2>2. \/ /\ UNCHANGED conns
           /\ \E w : Step(t, [new EXCEPT !.pc = "release", !.status = "error", !.wild = w])
        \/ \E state \in {"none", "up"} :
             /\ conns' = [conns EXCEPT ![c].state = state, ![c].ask = call, ![c].ssl = ssl]
             /\ Step(t, [new EXCEPT !.sock = sock, !.pc = IF state = "up" THEN "head" ELSE "release",
                                    !.status = IF state = "up" THEN "none" ELSE "error"])
    BY <1>1, <1>3, <2>1 DEF Begin
  <2>3. ASSUME NEW state,
               conns' = [conns EXCEPT ![c].state = state, ![c].ask = call, ![c].ssl = ssl],
               Step(t, [new EXCEPT !.sock = sock, !.pc = IF state = "up" THEN "head" ELSE "release",
                                   !.status = IF state = "up" THEN "none" ELSE "error"])
        PROVE  \E pc, status :
                 /\ Step(t, [new EXCEPT !.sock = sock, !.pc = pc, !.status = status])
                 /\ pc \in {"head", "release"}
    <3>1. PICK pc, status : /\ pc = IF state = "up" THEN "head" ELSE "release"
                            /\ status = IF state = "up" THEN "none" ELSE "error"
      OBVIOUS
    <3>. QED
      BY <2>3, <3>1
  <2>. QED
    BY <2>2, <2>3
<1>7. ASSUME UNCHANGED conns, NEW w, Step(t, [new EXCEPT !.pc = "release", !.status = "error", !.wild = w])
      PROVE  RequestInv'
  <2>1. PICK q : q = [new EXCEPT !.pc = "release", !.status = "error", !.wild = w]
    OBVIOUS
  <2>2. q.pc = "release" /\ q.n = threads[t].n + 1 /\ q.todo = threads[t].todo
    BY <1>2, <2>1 DEF ThreadFields
  <2>. QED
    BY <1>7, <2>1, <2>2, QuietRequests
<1>8. ASSUME NEW state, NEW ssl, NEW sock, NEW pc \in {"head", "release"}, NEW status,
             conns' = [conns EXCEPT ![c].state = state, ![c].ask = call, ![c].ssl = ssl],
             Step(t, [new EXCEPT !.sock = sock, !.pc = pc, !.status = status])
      PROVE  RequestInv'
  <2>1. PICK q : q = [new EXCEPT !.sock = sock, !.pc = pc, !.status = status]
    OBVIOUS
  <2>2. q.pc = pc /\ q.n = threads[t].n + 1 /\ q.todo = threads[t].todo
    BY <1>2, <2>1 DEF ThreadFields
  <2>3. threads'[t] = q /\ \A u \in Threads : u # t => threads'[u] = threads[u]
    BY <1>8, <2>1 DEF Step, Inv, ThreadInv
  <2>4. DOMAIN conns = Calls /\ \A d \in Calls : DOMAIN conns[d] = ConnFields
    BY DEF Inv, ConnInv
  <2>5. /\ \A d \in Calls : conns'[d].sent = conns[d].sent /\ conns'[d].unsent = conns[d].unsent
        /\ \A d \in Calls : d # c => conns'[d].ask = conns[d].ask
        /\ conns'[c].ask = call
    BY <1>5, <1>8, <2>4 DEF ConnFields
  <2>. SUFFICES ASSUME Undisturbed' PROVE Requests'
    BY DEF RequestInv
  <2>6. Undisturbed /\ Requests
    BY <2>5 DEF Undisturbed, RequestInv
  <2>7. PICK n \in Nat : n = threads[t].n /\ c = <<t, n + 1>>
    BY <1>3, <1>4
  <2>8. \A m \in 1 .. MaxCalls : m > n => conns'[<<t, m>>].sent = << >>
    <3>1. \A m \in 1 .. MaxCalls : m > n => conns[<<t, m>>].sent = << >>
      BY <2>6, <2>7 DEF Requests, ToSend
    <3>. QED
      BY <2>5, <3>1 DEF Calls
  <2>9. conns'[c].sent = << >> /\ conns[c].sent = << >>
    <3>1. n + 1 \in 1 .. MaxCalls /\ n + 1 > n
      BY <1>5, <2>7 DEF Calls
    <3>2. conns'[c].sent = << >>
      BY <2>7, <2>8, <3>1
    <3>. QED
      BY <1>5, <2>5, <3>2
  <2>10. \A d \in Calls : ConnSent(d)'
    <3>1. ASSUME NEW d \in Calls PROVE ConnSent(d)'
      BY <2>5, <2>6, <2>9, ConnSentStays DEF Requests
    <3>. QED
      BY <3>1
  <2>11. ToSend(t)'
    <3>1. \A i \in DOMAIN q.todo : q.todo[i] \in Requested
      BY <2>2, <2>6 DEF Requests, ToSend
    <3>2. \A m \in 1 .. MaxCalls : m > q.n => conns'[<<t, m>>].sent = << >>
      <4>1. \A m \in 1 .. MaxCalls : m > n + 1 => m > n
        OBVIOUS
      <4>. QED
        BY <2>2, <2>7, <2>8, <4>1
    <3>3. Current(t)' = c /\ Asked(t)' = call
      BY <1>3, <2>2, <2>3, <2>7 DEF Current, Asked
    <3>4. q.pc # "write"
      BY <2>2
    <3>. QED
      BY <2>3, <2>5, <2>9, <3>1, <3>2, <3>3, <3>4 DEF ToSend
  <2>12. \A u \in Threads, m \in 1 .. MaxCalls : u # t =>
           conns'[<<u, m>>].sent = conns[<<u, m>>].sent /\ conns'[<<u, m>>].ask = conns[<<u, m>>].ask
    BY <2>5, <2>7 DEF Calls
  <2>. QED
    BY <2>3, <2>6, <2>10, <2>11, <2>12, ThreadStepSends
<1>. QED
  BY <1>6, <1>7, <1>8

LEMMA HeadFailsRequests == ASSUME Inv, NEW t \in Threads, HeadFails(t) PROVE RequestInv'
<1>1. PICK cs, c : c = Current(t) /\ cs = Closed(threads[t].sock) /\ conns' = [cs EXCEPT ![c].unsent = TRUE]
  BY DEF HeadFails
<1>2. c \in Calls
  BY <1>1, CountedCalls DEF HeadFails
<1>3. DOMAIN cs = Calls /\ "unsent" \in DOMAIN cs[c]
  BY <1>1, <1>2 DEF Closed, Inv, ConnInv, ConnFields
<1>4. conns'[c].unsent
  BY <1>1, <1>2, <1>3
<1>. QED
  BY <1>2, <1>4 DEF RequestInv, Undisturbed

LEMMA NextRequests == ASSUME Inv, RequestInv, [Next]_vars PROVE RequestInv'
<1>2. ASSUME UNCHANGED <<threads, conns>> PROVE RequestInv'
  BY <1>2 DEF RequestInv, Undisturbed, Requests, ConnSent, ToSend, Current, Asked
<1>6. ASSUME NEW t \in Threads, CredentialsOverrun(t) PROVE RequestInv'
  BY <1>2, <1>6 DEF CredentialsOverrun
<1>1. ASSUME NEW t \in Threads, Thread(t) PROVE RequestInv'
  BY <1>1, <1>6, BeginRequests, HeadRequests, HeadFailsRequests, WriteRequests, FlushRequests,
     ReceiveRequests, CloseRequests DEF Thread
<1>3. ASSUME NEW t \in Threads, Killed(t) PROVE RequestInv'
  BY <1>2, <1>3 DEF Killed
<1>4. ASSUME NEW c \in Calls, Continue(c) \/ Reply(c) \/ End(c) \/ Reset(c) \/ Stall(c) PROVE RequestInv'
  BY <1>4, PeerRequests
<1>5. CASE UNCHANGED vars
  BY <1>2, <1>5 DEF vars
<1>. QED
  BY <1>1, <1>3, <1>4, <1>5 DEF Next

-----------------------------------------------------------------------------
LEMMA BodyComplete ==
  ASSUME Requests, NEW c \in Calls, Ended(c) PROVE Arrived(conns[c].ask, Delivered(c))
<1>1. PICK s : s = conns[c].sent /\ s # << >>
  BY DEF Ended
<1>2. PICK call \in Requested : call = conns[c].ask /\ OnWay(s, call)
  BY <1>1 DEF Requests, ConnSent
<1>3. PICK sent : sent = Tail(s) /\ sent = Sent(c)
  BY <1>1 DEF Sent
<1>4. PICK ends : ends = {i \in DOMAIN sent : sent[i].size = 0} /\ ends = Ends(c)
  BY <1>3 DEF Ends
<1>5. Reached(Transfer(s[1].header), sent, ends)
  BY <1>1, <1>3, <1>4 DEF Ended, Reached
<1>6. Arrived(call, Whole(sent, ends))
  BY <1>2, <1>3, <1>4, <1>5, AllArrived
<1>7. Delivered(c) = Whole(sent, ends)
  BY <1>3, <1>4 DEF Delivered, Whole
<1>. QED
  BY <1>2, <1>6, <1>7

LEMMA CredentialsComplete ==
  ASSUME Requests, NEW c \in Calls, Authorized(c), Colon \notin Range(conns[c].ask.user),
         (Len(conns[c].ask.user) + Len(conns[c].ask.password) + 1) % 3 # 0
  PROVE  Arrive(c)
<1>1. PICK s : s = conns[c].sent /\ s # << >>
  BY DEF Authorized
<1>2. PICK call \in Requested : call = conns[c].ask /\ OnWay(s, call)
  BY <1>1 DEF Requests, ConnSent
<1>3. s[1].header = Header[call]
  BY <1>2 DEF OnWay, Carries, Flushed, Begun
<1>4. call.method = "GET" /\ call.auth
  BY <1>2 DEF Authorized
<1>5. call.user \in Seq(1 .. 255) /\ call.password \in Seq(1 .. 255)
  BY <1>4, RequestAssumption
<1>6. _httpd_decode_authorization(Basic(call.user, call.password)) = <<call.user, call.password>>
  BY <1>2, <1>5, CredentialsBack
<1>7. hpairnode_get_ignore_case(Header[call], "Authorization") = Basic(call.user, call.password)
  BY <1>4, GetHeaders
<1>8. Header[call] \in {Header[x] : x \in Requested}
  OBVIOUS
<1>9. Credentials[Header[call]]
        = _httpd_decode_authorization(hpairnode_get_ignore_case(Header[call], "Authorization"))
  BY <1>8 DEF Credentials
<1>. QED
  BY <1>1, <1>2, <1>3, <1>6, <1>7, <1>9 DEF Arrive

(* When a server has a request to its end it has all of it, whatever the   *)
(* other threads and the peers do, as long as every head could be sent;    *)
(* credentials arrive where base64 pads them, the user has no colon and    *)
(* they do not overrun their array.                                        *)
THEOREM RequestsComplete == Spec => []RequestComplete
<1>1. Init => Inv /\ RequestInv
  BY InitInv, InitRequests
<1>2. Inv /\ RequestInv /\ [Next]_vars => Inv' /\ RequestInv'
  BY NextInv, NextRequests
<1>3. RequestInv => RequestComplete
  BY BodyComplete, CredentialsComplete DEF RequestInv, RequestComplete
<1>. QED
  BY <1>1, <1>2, <1>3, PTL DEF Spec

=============================================================================
