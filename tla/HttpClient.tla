----------------------------- MODULE HttpClient -----------------------------
(***************************************************************************)
(* Threads of one process that make HTTP calls: httpc_get, and             *)
(* _soap_nhttp_client_invoke with httpc_post_begin, httpc_mime_* and       *)
(* httpc_post_end (nanohttp-client.c, soap-nhttp.c), the answer they read  *)
(* (nanohttp-response.c) and the files of its parts (nanohttp-mime.c).     *)
(*                                                                         *)
(* What the threads share is the table of descriptors, the heap and the    *)
(* directory of part files. A call is named <<thread, n>>, and so is the   *)
(* connection that is opened for it. The peer is any HTTP server; how a    *)
(* body is cut into chunks and read is the subject of HttpStream.          *)
(***************************************************************************)
EXTENDS Codec, FiniteSets

CONSTANTS Threads,
          Scenarios,    \* what the application calls: a sequence for each thread
          Answers,      \* heads of the final answers a server may give: a set for each URL
          MaxCalls,     \* calls of a thread at most
          MaxSockets,   \* descriptors
          Blocks,       \* addresses malloc may return for mime_callback_data_t
          AuthSize,     \* of in[] and out[] in _httpc_set_basic_authorization_header
          HeadPairs,    \* MAX_HEADER_SIZE, in header pairs
          MaxFaults     \* interim answers, early ends, resets and stalls

ASSUME ClientAssumption ==
  /\ MaxCalls \in Nat /\ MaxSockets \in Nat /\ MaxFaults \in Nat
  /\ AuthSize \in Nat /\ HeadPairs \in Nat
  /\ Threads # {} /\ 0 \notin Blocks
  /\ \A s \in Scenarios, t \in Threads : s[t] \in Seq(Range(s[t])) /\ Len(s[t]) <= MaxCalls

\* What is asked for in the calls. Text has no NUL, and of the blocks that fread gives
\* of a file only the last, which comes with its end, may be empty.
Requested == UNION {Range(s[t]) : s \in Scenarios, t \in Threads}
FileRecord == [there : BOOLEAN, blocks : Seq(Nat)]

ASSUME RequestAssumption ==
  \A call \in Requested :
    /\ call.method \in {"GET", "POST"}
    /\ call.method = "GET" => /\ call.auth \in BOOLEAN
                             /\ call.user \in Seq(1 .. 255) /\ call.password \in Seq(1 .. 255)
    /\ call.method = "POST" =>
         /\ call.files \in Seq(FileRecord)
         /\ \A i \in DOMAIN call.files :
              LET blocks == call.files[i].blocks
              IN  \A k \in DOMAIN blocks : k < Len(blocks) => blocks[k] > 0

VARIABLES
  threads,   \* each thread's call: where it is, its httpc_conn_t, its result
  fds,       \* the connection a descriptor stands for
  conns,     \* each connection: what is on it in both directions, and as history
             \* what was asked over it and whether its head could not be sent
  heap,      \* blocks in use
  files,     \* named after a block: whose parts they hold, whether the root's is
             \* there and, as history, whether the block was given again too early
  kept,      \* the block a returned context's files are named after, or 0
  process,   \* "alive", "dead" or "wild": out of bounds, where the model ends
  spent      \* of MaxFaults

vars == <<threads, fds, conns, heap, files, kept, process, spent>>

Calls == Threads \X (1 .. MaxCalls)
None == <<"none", 0>>
Free == 0                                            \* HSOCKET_FREE
Idle == [pc |-> "idle", n |-> 0, todo |-> << >>, sock |-> Free,
         writes |-> << >>, wild |-> FALSE, block |-> 0,
         head |-> << >>, status |-> "none", answer |-> << >>]

Current(t) == <<t, threads[t].n>>
Asked(t) == threads[t].todo[1]
ConnOf(t) == IF threads[t].sock = Free THEN None ELSE fds[threads[t].sock]

Step(t, thread) == threads' = [threads EXCEPT ![t] = thread]
Closes(sock) == fds' = IF sock = Free THEN fds ELSE [fds EXCEPT ![sock] = None]
Closed(sock) ==
  IF sock = Free \/ fds[sock] = None THEN conns
  ELSE [conns EXCEPT ![fds[sock]].state = "closed", ![fds[sock]].back = << >>]
Failing(t, status) == [threads[t] EXCEPT !.pc = "release", !.status = status]
Alive == process = "alive"

-----------------------------------------------------------------------------
(* The request.                                                            *)
Size(writes) == FoldLeft(LAMBDA sum, w : sum + w.size, 0, writes)
Piece(what, size) == [what |-> what, size |-> size, file |-> [there |-> TRUE]]
Document == Piece("document", 1)
httpc_mime_next(file) == [what |-> "part", size |-> 1, file |-> file]

\* Fault: an empty block is written like any other.
FileBlocksAll(file) == [i \in DOMAIN file.blocks |-> Piece("block", file.blocks[i])]

\* fread comes to the end with an empty block if the file fills the last one.
FileBlocks(file) ==
  LET empty == file.blocks # << >> /\ Last(file.blocks) = 0
      full == IF empty THEN Front(file.blocks) ELSE file.blocks
  IN  [i \in DOMAIN full |-> Piece("block", full[i])]

httpc_mime_send_file(file) == <<httpc_mime_next(file)>> \o FileBlocks(file)

Body(call) ==
  IF call.method = "GET" THEN << >>
  ELSE IF call.files = << >> THEN <<Document>>
  ELSE <<httpc_mime_next([there |-> TRUE]), Document>>
       \o FlattenSeq([i \in DOMAIN call.files |-> httpc_mime_send_file(call.files[i])])
       \o <<Piece("end", 1)>>

\* The headers of the application or of _soap_nhttp_client_invoke, then those of
\* _httpc_talk_to_server.
AuthHeaders(call) ==
  IF call.auth THEN httpc_set_header(<< >>, "Authorization", Basic(call.user, call.password))
  ELSE << >>

SoapHeaders(call) ==
  LET soap == httpc_set_header(httpc_set_header(<< >>, "SOAPAction", <<"action">>),
                               "Connection", <<"Close">>)
  IN  IF call.files = << >>
        THEN httpc_set_header(httpc_set_header(soap, "Content-Type", <<"text/xml">>),
                              "Content-Length", <<Numeral(Size(Body(call)))>>)
      ELSE httpc_set_header(httpc_set_header(soap, "Transfer-Encoding", <<"chunked">>),
                            "Content-Type", MultipartRelated("start", << >>, "text/xml", "boundary"))

Headers(call) ==
  LET own == IF call.method = "GET" THEN AuthHeaders(call) ELSE SoapHeaders(call)
  IN  httpc_set_header(httpc_set_header(own, "Date", <<"now">>), "Host", hurl_parse(call.url).host)

\* What is made of each call the application may make.
Url == [call \in Requested |-> hurl_parse(call.url)]
Header == [call \in Requested |-> Headers(call)]

\* in[] has to hold "Basic ", the text of the credentials and its end.
Overrun(call) ==
  /\ call.method = "GET" /\ call.auth
  /\ 6 + Len(Basic(call.user, call.password)) + 1 > AuthSize

\* Nobody looks at the length. From here on the process may do anything.
CredentialsOverrun(t) ==
  /\ Alive /\ threads[t].pc = "idle" /\ threads[t].todo # << >>
  /\ Overrun(Asked(t))
  /\ process' = "wild"
  /\ UNCHANGED <<threads, fds, conns, heap, files, kept, spent>>

\* httpc_new to hsocket_open. An URL that is not parsed leaves conn->url as malloc gave it.
Begin(t) ==
  LET old == threads[t]
      call == Asked(t)
      url == Url[call]
      unused == {fd \in DOMAIN fds : fds[fd] = None}
      new == [Idle EXCEPT !.n = old.n + 1, !.todo = old.todo]
      c == <<t, old.n + 1>>
  IN  /\ Alive /\ old.pc = "idle" /\ old.todo # << >> /\ ~Overrun(call)
      /\ IF ~url.ok \/ unused = {}
           THEN /\ Step(t, [new EXCEPT !.pc = "release", !.status = "error", !.wild = ~url.ok])
                /\ UNCHANGED <<fds, conns>>
         ELSE \E state \in {"none", "up"} :
           /\ state = "up" => url.host # << >> /\ url.port # << >>
           /\ fds' = [fds EXCEPT ![Least(unused)] = c]
           /\ conns' = [conns EXCEPT ![c].state = state, ![c].ask = call,
                                    ![c].ssl = url.protocol = "https"]
           /\ Step(t, [new EXCEPT !.sock = Least(unused),
                         !.pc = IF state = "up" THEN "head" ELSE "release",
                         !.status = IF state = "up" THEN "none" ELSE "error"])
      /\ UNCHANGED <<heap, files, kept, process, spent>>

-----------------------------------------------------------------------------
(* Sending. A send on a descriptor that is closed, or whose peer has reset,*)
(* fails; in the second case SIGPIPE may come instead.                     *)
CanSend(t) == ConnOf(t) # None /\ conns[ConnOf(t)].state \in {"up", "fin"}
SendFails(t) == ConnOf(t) # None => conns[ConnOf(t)].state = "reset"

Sends(t, units, thread) ==
  /\ Alive /\ CanSend(t)
  /\ conns' = [conns EXCEPT ![ConnOf(t)].sent = @ \o units]
  /\ Step(t, thread)
  /\ UNCHANGED <<fds, heap, files, kept, process, spent>>

SendHead(t) ==
  /\ threads[t].pc = "head"
  /\ Sends(t, << [what |-> "head", size |-> 1, of |-> Current(t), header |-> Header[Asked(t)]] >>,
       IF Asked(t).method = "GET" THEN [threads[t] EXCEPT !.pc = "receive"]
       ELSE [threads[t] EXCEPT !.pc = "write", !.writes = Body(Asked(t))])

\* _httpc_talk_to_server closes, and httpc_close_free will again: the descriptor is kept.
HeadFails(t) ==
  /\ Alive /\ threads[t].pc = "head" /\ SendFails(t)
  /\ Closes(threads[t].sock)
  /\ Step(t, Failing(t, "error"))
  /\ conns' = [Closed(threads[t].sock) EXCEPT ![Current(t)].unsent = TRUE]
  /\ UNCHANGED <<heap, files, kept, process, spent>>

\* http_output_stream_write. A block of size 0 would end a chunked body.
Write(t) ==
  /\ threads[t].pc = "write" /\ threads[t].writes # << >>
  /\ threads[t].writes[1].file.there
  /\ Sends(t, <<threads[t].writes[1]>>, [threads[t] EXCEPT !.writes = Tail(@)])

http_output_stream_flush(t) ==
  /\ threads[t].pc = "write" /\ threads[t].writes = << >>
  /\ Sends(t, IF Transfer(Header[Asked(t)]).type = "chunked" THEN <<Piece("flush", 0)>> ELSE << >>,
       [threads[t] EXCEPT !.pc = "receive"])

\* fopen fails, or a send does.
WriteFails(t) ==
  /\ Alive /\ threads[t].pc = "write"
  /\ \/ SendFails(t)
     \/ threads[t].writes # << >> /\ ~threads[t].writes[1].file.there
  /\ Step(t, Failing(t, "error"))
  /\ UNCHANGED <<fds, conns, heap, files, kept, process, spent>>

\* Nobody ignores SIGPIPE.
Killed(t) ==
  /\ Alive /\ threads[t].pc \in {"head", "write"}
  /\ ConnOf(t) # None /\ conns[ConnOf(t)].state = "reset"
  /\ process' = "dead"
  /\ UNCHANGED <<threads, fds, conns, heap, files, kept, spent>>

-----------------------------------------------------------------------------
(* Receiving.                                                              *)
Back(t) == IF ConnOf(t) = None THEN << >> ELSE conns[ConnOf(t)].back

Takes(t, thread) ==
  /\ conns' = [conns EXCEPT ![ConnOf(t)].back = Tail(@)]
  /\ Step(t, thread)
  /\ UNCHANGED <<fds, kept, process, spent>>

AtEnd(t) == ConnOf(t) # None /\ conns[ConnOf(t)].state = "fin" /\ Back(t) = << >>
Ssl(t) == conns[Current(t)].ssl

\* At the end of the stream a forced read goes round and round. SSL_read tells the
\* end, but waits without a limit: only hssl_server_ssl has reads go through select().
Waits(t) ==
  IF Ssl(t) THEN ConnOf(t) # None /\ conns[ConnOf(t)].state \in {"up", "full"} ELSE AtEnd(t)

Gives(t, thread) == Step(t, thread) /\ UNCHANGED <<fds, conns, heap, files, kept, process, spent>>

\* Fault: select() waits for ever.
NothingComesUntimed(t, error) ==
  /\ ~Waits(t) /\ (AtEnd(t) \/ SendFails(t))
  /\ Gives(t, error)

\* select() gives up in time.
NothingComes(t, error) ==
  ~Waits(t) /\ Gives(t, error)

Interim == [code |-> 100, reason |-> TRUE, eol |-> "crlf", pairs |-> << >>]

\* A head is cut where the buffer is full, and the rest of it is left to the body.
Fits(head) == Len(head.pairs) <= HeadPairs
Received(head) == IF Fits(head) THEN head ELSE [head EXCEPT !.pairs = SubSeq(@, 1, HeadPairs)]
Parsed ==
  [head \in UNION Range(Answers) \cup {Interim} |-> _hresponse_parse_header(Received(head))]

\* Fault: 100 is an answer like any other.
GoesOnNot(head) == FALSE

GoesOn(head) == head.errcode = 100

\* Fault: the block is given back when parsing begins.
mime_blockFreed(b) == heap

mime_block(b) == heap \cup {b}

\* A call goes on with its files when its block is free already.
StillUsed(b) == \E u \in Threads : threads[u].pc \in {"parts", "root"} /\ threads[u].block = b

hresponse_new_from_socket(t) ==
  /\ Alive /\ threads[t].pc = "receive" /\ Back(t) # << >>
  /\ LET unit == Back(t)[1]
         head == IF unit.kind = "head" THEN Parsed[unit.head] ELSE [ok |-> FALSE]
         Seen == [threads[t] EXCEPT !.head = [parsed |-> head, of |-> unit.of, fits |-> Fits(unit.head)]]
         Only(thread) == Takes(t, thread) /\ UNCHANGED <<heap, files>>
     IN  IF ~head.ok THEN Only(Failing(t, "error"))
         ELSE IF GoesOn(head) THEN Only(threads[t])
         ELSE \E related \in MayBeRelated(head.content_type) :
           IF ~related THEN Only([Seen EXCEPT !.pc = "read"])
           ELSE IF Missing \in {Param(head.content_type, "boundary"), Param(head.content_type, "start")}
             THEN Only(Failing(t, "error"))
           ELSE
             \/ Only(Failing(t, "error"))                            \* malloc fails
             \/ \E b \in Blocks \ heap :
                  /\ Takes(t, [Seen EXCEPT !.pc = "mime", !.block = b])
                  /\ heap' = mime_block(b)
                  /\ files' = [files EXCEPT ![b] =
                       [of |-> Current(t), there |-> TRUE, reused |-> StillUsed(b)]]

HeadMissing(t) ==
  /\ Alive /\ threads[t].pc = "receive" /\ Back(t) = << >>
  /\ NothingComes(t, Failing(t, "error"))

\* How a body arrives that is delimited as its head says, when it is read as parsed.
Arrives(t) ==
  LET parsed == threads[t].head.parsed.transfer
      sent == Back(t)[1].transfer
  IN  IF /\ threads[t].head.fits
         /\ parsed = sent \/ (parsed.type = "close" /\ sent.type = "length")
        THEN "whole" ELSE "cut"

\* A body that nothing else ends goes up to the end of the connection, an error to SSL_read.
ToEnd(t) == threads[t].head.parsed.transfer.type = "close" /\ ~Ssl(t)

BodyThere(t) ==
  /\ Back(t) # << >> /\ Back(t)[1].kind = "body"
  /\ threads[t].head.parsed.transfer.type = "close"
       => ToEnd(t) /\ conns[ConnOf(t)].state = "fin"

Answered(t, body) ==
  [threads[t] EXCEPT !.pc = "result",
     !.answer = [of |-> threads[t].head.of, code |-> threads[t].head.parsed.errcode,
                 body |-> body, parts |-> None, reused |-> FALSE]]

\* mime_message_parse to its end: the block is free, the names made from it stay. What
\* arrives cut may still have its boundaries; one that fails never gives its block back.
MimeParsed(t) ==
  /\ Alive /\ threads[t].pc = "mime" /\ BodyThere(t)
  /\ \/ /\ Takes(t, [Answered(t, Arrives(t)) EXCEPT !.pc = "parts"])
        /\ heap' = heap \ {threads[t].block}
     \/ Takes(t, Failing(t, "error")) /\ UNCHANGED heap
  /\ UNCHANGED files

\* attachments_free removes files by their names, whose they may be by now.
Removed(t) ==
  IF threads[t].block \in Blocks THEN [files EXCEPT ![threads[t].block].there = FALSE] ELSE files

\* The part the head calls the start is looked for, and its file opened again.
OpenRoot(t) ==
  /\ Alive /\ threads[t].pc = "parts"
  /\ \/ Step(t, Failing(t, "error")) /\ files' = Removed(t)            \* No root part
     \/ files[threads[t].block].there /\ Step(t, [threads[t] EXCEPT !.pc = "root"]) /\ UNCHANGED files
     \/ /\ ~files[threads[t].block].there
        /\ Step(t, [threads[t] EXCEPT !.pc = "result", !.answer.body = "none"])
        /\ UNCHANGED files
  /\ UNCHANGED <<fds, conns, heap, kept, process, spent>>

\* Where two calls have written files of the same names, either's may be read.
ReadRoot(t) ==
  /\ Alive /\ threads[t].pc = "root"
  /\ LET file == files[threads[t].block]
     IN  \E c \in {Current(t), file.of} :
           Gives(t, [threads[t] EXCEPT !.pc = "result",
                       !.answer.parts = c, !.answer.reused = file.reused])

\* hresponse_free releases the error that is returned as the result of a SOAP call.
BodyError(t) ==
  IF threads[t].pc = "read" /\ Asked(t).method = "POST" THEN Failing(t, "dangling")
  ELSE Failing(t, "error")

BodyMissing(t) ==
  /\ Alive /\ threads[t].pc \in {"mime", "read"} /\ ~BodyThere(t)
  /\ IF AtEnd(t) /\ ToEnd(t)
       THEN Gives(t, IF threads[t].pc = "mime" THEN Failing(t, "error")
                     ELSE Answered(t, "cut"))
     ELSE NothingComes(t, BodyError(t))

ReadBody(t) ==
  /\ Alive /\ threads[t].pc = "read" /\ BodyThere(t)
  /\ Takes(t, Answered(t, Arrives(t)))
  /\ UNCHANGED <<heap, files>>

\* Fault: the connection is forgotten where the answer is not taken.
RefusedUnclosed(t) == [threads[t] EXCEPT !.pc = "idle", !.todo = Tail(@), !.status = "error"]

\* _soap_nhttp_client_build_result: only 200, and only what is XML.
Refused(t) == Failing(t, "error")

Accepted(t) ==
  \/ Asked(t).method = "GET"
  \/ threads[t].answer.code = 200 /\ threads[t].answer.body = "whole"

\* A context keeps the names of the files; hresponse_free removes the root's, or all.
Finish(t) ==
  /\ Alive /\ threads[t].pc = "result"
  /\ IF Accepted(t)
       THEN /\ Step(t, Failing(t, "ok"))
            /\ kept' = IF Asked(t).method = "GET" THEN kept
                       ELSE [kept EXCEPT ![Current(t)] = threads[t].block]
       ELSE Step(t, Refused(t)) /\ UNCHANGED kept
  /\ files' = Removed(t)
  /\ UNCHANGED <<fds, conns, heap, process, spent>>

\* The descriptor number is closed, whatever connection it stands for by now. To
\* free pointers never set, or for the caller to use a released error, is undefined.
httpc_close_free(t) ==
  /\ Alive /\ threads[t].pc = "release"
  /\ Step(t, [Idle EXCEPT !.n = threads[t].n, !.todo = Tail(threads[t].todo)])
  /\ Closes(threads[t].sock) /\ conns' = Closed(threads[t].sock)
  /\ process' \in IF threads[t].wild \/ threads[t].status = "dangling" THEN {"alive", "dead"} ELSE {"alive"}
  /\ UNCHANGED <<heap, files, kept, spent>>

-----------------------------------------------------------------------------
(* The peer: it answers when it has read a head, at once or later, and may *)
(* stop reading, end or reset.                                             *)
Faulty == spent < MaxFaults /\ spent' = spent + 1

Peer(c, conn) ==
  /\ conns[c].state \in {"up", "full"}
  /\ conns' = [conns EXCEPT ![c] = conn]
  /\ UNCHANGED <<threads, fds, heap, files, kept, process>>

Heads(c) == {i \in DOMAIN conns[c].sent : conns[c].sent[i].what = "head"}
Open(c) == Heads(c) # {} /\ ~conns[c].answered
HeadUnit(c, head) == [kind |-> "head", of |-> conns[c].sent[Least(Heads(c))].of, head |-> head]

Continue(c) ==
  /\ Open(c) /\ Faulty
  /\ Peer(c, [conns[c] EXCEPT !.back = Append(@, HeadUnit(c, Interim))])

Reply(c) ==
  /\ Open(c) /\ UNCHANGED spent
  /\ \E head \in Answers[conns[c].ask.url] :
       Peer(c, [conns[c] EXCEPT !.answered = TRUE, !.back = @ \o
         << HeadUnit(c, head),
            [kind |-> "body", transfer |-> Transfer(head.pairs)] >>])

End(c) ==
  /\ IF conns[c].answered THEN UNCHANGED spent ELSE Faulty
  /\ Peer(c, [conns[c] EXCEPT !.state = "fin"])

Reset(c) == Faulty /\ Peer(c, [conns[c] EXCEPT !.state = "reset", !.back = << >>])
Stall(c) == Faulty /\ conns[c].state = "up" /\ Peer(c, [conns[c] EXCEPT !.state = "full"])

-----------------------------------------------------------------------------
Init ==
  /\ \E s \in Scenarios : threads = [t \in Threads |-> [Idle EXCEPT !.todo = s[t]]]
  /\ fds = [fd \in 1 .. MaxSockets |-> None]
  /\ conns = [c \in Calls |-> [state |-> "none", ssl |-> FALSE, sent |-> << >>,
                               back |-> << >>, answered |-> FALSE,
                               unsent |-> FALSE, ask |-> [method |-> "none"]]]
  /\ heap = {} /\ files = [b \in Blocks |-> [of |-> None, there |-> FALSE, reused |-> FALSE]]
  /\ kept = [c \in Calls |-> 0]
  /\ process = "alive" /\ spent = 0

Thread(t) ==
  \/ CredentialsOverrun(t) \/ Begin(t) \/ SendHead(t) \/ HeadFails(t)
  \/ Write(t) \/ http_output_stream_flush(t) \/ WriteFails(t)
  \/ hresponse_new_from_socket(t) \/ HeadMissing(t)
  \/ MimeParsed(t) \/ OpenRoot(t) \/ ReadRoot(t) \/ BodyMissing(t) \/ ReadBody(t)
  \/ Finish(t) \/ httpc_close_free(t)

Next == \/ \E t \in Threads : Thread(t) \/ Killed(t)
        \/ \E c \in Calls : Continue(c) \/ Reply(c) \/ End(c) \/ Reset(c) \/ Stall(c)

Spec == Init /\ [][Next]_vars

\* Threads go on, and select() does give up; nothing is assumed of the peer.
FairSpec == Spec /\ \A t \in Threads : WF_vars(Thread(t))

-----------------------------------------------------------------------------
TypeOK ==
  /\ \A t \in Threads :
       /\ threads[t].pc \in {"idle", "head", "write", "receive", "mime", "parts",
                            "root", "read", "result", "release"}
       /\ threads[t].n \in 0 .. MaxCalls /\ threads[t].sock \in 0 .. MaxSockets
       /\ threads[t].status \in {"none", "ok", "error", "dangling"}
       /\ threads[t].pc = "mime" => threads[t].block \in heap
  /\ \A fd \in DOMAIN fds : fds[fd] \in Calls \cup {None}
  /\ heap \subseteq Blocks
  /\ \A c \in Calls : conns[c].state \in {"none", "up", "full", "fin", "reset", "closed"}
  /\ process \in {"alive", "dead", "wild"} /\ spent \in 0 .. MaxFaults

\* No head failed to be sent: after that a descriptor is closed twice, and
\* other connections of the process may be closed or mistaken.
Undisturbed == \A c \in Calls : ~conns[c].unsent

(* What a call returns is the final answer to the request of this call,    *)
(* whatever other threads do and however many interim answers come before; *)
(* a SOAP call returns an answer that is whole. What is read of its parts  *)
(* is its own, unless their names were given to another call after its own *)
(* parser had ended and before its root was read.                          *)
AnswerIsMine ==
  Undisturbed => \A t \in Threads :
    threads[t].pc = "release" /\ threads[t].status = "ok" =>
      /\ threads[t].answer.of = Current(t) /\ threads[t].answer.code # 100
      /\ threads[t].answer.parts \in {None, Current(t)} \/ threads[t].answer.reused
      /\ Asked(t).method = "POST" => threads[t].answer.code = 200 /\ threads[t].answer.body = "whole"

(* When a server has a request to its end it has all of it: the document,  *)
(* each file with its bytes in order and the closing boundary; a request   *)
(* whose files could not be read never ends. Credentials arrive where      *)
(* base64 pads them, the user has no colon and they fit.                   *)
Sent(c) == Tail(conns[c].sent)
Ends(c) == {i \in DOMAIN Sent(c) : Sent(c)[i].size = 0}
Delivered(c) == IF Ends(c) = {} THEN Sent(c) ELSE SubSeq(Sent(c), 1, Least(Ends(c)) - 1)

Ended(c) ==
  /\ conns[c].sent # << >>
  /\ LET transfer == Transfer(conns[c].sent[1].header)
     IN  CASE transfer.type = "length" -> Size(Sent(c)) >= transfer.length
           [] transfer.type = "chunked" -> Ends(c) # {}
           [] transfer.type = "close" -> TRUE

\* Between the part of a file and what comes next are its blocks, in order, but for
\* an empty one at the end.
FileArrived(file, body, from, to) ==
  LET sizes == [k \in 1 .. to - from - 1 |-> body[from + k].size]
  IN  /\ file.there /\ from < to /\ body[from] = httpc_mime_next(file)
      /\ \A k \in from + 1 .. to - 1 : body[k].what = "block"
      /\ file.blocks \in {sizes, Append(sizes, 0)}

Arrived(call, body) ==
  CASE call.method = "GET" -> body = << >>
    [] call.method = "POST" /\ call.files = << >> -> body = <<Document>>
    [] OTHER ->
         /\ SubSeq(body, 1, 2) = <<httpc_mime_next([there |-> TRUE]), Document>>
         /\ body[Len(body)].what = "end"
         /\ \E at \in [1 .. Len(call.files) + 1 -> 3 .. Len(body)] :
              /\ at[1] = 3 /\ at[Len(call.files) + 1] = Len(body)
              /\ \A i \in DOMAIN call.files : FileArrived(call.files[i], body, at[i], at[i + 1])

Credentials ==
  [header \in {Header[call] : call \in Requested} |->
     _httpd_decode_authorization(hpairnode_get_ignore_case(header, "Authorization"))]

Arrive(c) == Credentials[conns[c].sent[1].header] = <<conns[c].ask.user, conns[c].ask.password>>

Authorized(c) == conns[c].sent # << >> /\ conns[c].ask.method = "GET" /\ conns[c].ask.auth

RequestComplete ==
  Undisturbed => \A c \in Calls :
    /\ Ended(c) => Arrived(conns[c].ask, Delivered(c))
    /\ /\ Authorized(c) /\ Colon \notin Range(conns[c].ask.user)
       /\ (Len(conns[c].ask.user) + Len(conns[c].ask.password) + 1) % 3 # 0
       => Arrive(c)

(* A descriptor in use is that of a call that runs: whatever fails, it is  *)
(* closed, once and by its own thread.                                     *)
DescriptorsOwned ==
  Undisturbed =>
    /\ \A fd \in DOMAIN fds : fds[fd] # None =>
         \E t \in Threads : /\ threads[t].pc # "idle" /\ threads[t].sock = fd
                            /\ fds[fd] = Current(t)
    /\ \A t \in Threads : threads[t].sock # Free => fds[threads[t].sock] = Current(t)

(* A call comes back, unless the process dies or from some time on the     *)
(* peer does not read, it has ended the connection without what is waited  *)
(* for or, over SSL, it neither sends nor ends.                            *)
CallExcused(t) ==
  \/ ~Alive
  \/ threads[t].pc \in {"receive", "mime", "read"} /\ Waits(t) /\ Back(t) = << >>
  \/ (ConnOf(t) # None /\ conns[ConnOf(t)].state = "full")

CallEnds ==
  \A t \in Threads : []<>(threads[t].pc = "idle") \/ <>[]CallExcused(t)

-----------------------------------------------------------------------------
(* nanohttp-base64.h: Base64 decodes what Base64 encodes.                  *)
CredentialsArrive == \A c \in Calls : Authorized(c) => Arrive(c)
=============================================================================
