# TLA+ models of cSOAP

cSOAP is a C library for SOAP over HTTP: *nanohttp*, an embedded HTTP client and
server with threads, SSL and MIME attachments; *libcsoap*, the SOAP layer above
it, with addressing, XML security and a UDP transport; and two code generators,
*xsd2c* and *wsdl2c*. This directory models them in TLA+, checks the models with
TLC on small instances, and proves the main results about the slots of the
server, the streams, the sessions, the SOAP calls, the HTTP client, the MIME
parser and the code generators with TLAPS, for every number of connections,
bytes, calls and threads and for every document. The reference is always the
code under `src/`; every definition that stands for code is listed with its
lines in `PROJECT.json` (`map`).

## 1. The system

| Part | State | Operations | Interacts with |
|---|---|---|---|
| Server main loop (`nanohttp-server.c`) | `_httpd_run`, array of `conndata_t` (flag, socket), listening socket | `httpd_init`, `httpd_run`, `_httpd_wait_for_empty_conn`, `_httpd_start_thread`, `_httpd_term` (signal handler), `httpd_destroy` | starts one detached thread per connection; shares the slots with the threads, frees them in `httpd_destroy` |
| Session threads (`nanohttp-server.c`) | `httpd_conn_t` (header list, output stream), the request | `httpd_session_main`, `httpd_send_header`, the `httpd_send_*` answers | sockets, streams, service functions; releases its slot by a plain store |
| Services and statistics (`nanohttp-server.c`) | list of `hservice_t` (context, status, functions), `service_statistics` under a rwlock | `httpd_register*`, `httpd_find_service`, `httpd_enable_service`, `httpd_disable_service` | written by the sessions, read and switched by the admin page |
| Admin page (`nanohttp-admin.c`) | none of its own | statistics, activate, passivate, log level | runs inside a session, on other sessions' services |
| Sockets, SSL (`nanohttp-socket.c`, `nanohttp-ssl.c`) | descriptor, SSL object, byte counters, the timeout | open, accept, send, `hsocket_recv` (with and without *force*), close | the kernel, OpenSSL |
| Streams (`nanohttp-stream.c`) | transfer style, content length, chunk size, bytes received, error | `http_input_stream_is_ready`, `_read`, `http_output_stream_write`, `_flush` | sockets below; MIME parser, XML parser and services above |
| Requests, responses (`nanohttp-request.c`, `nanohttp-response.c`) | header pairs, path, query, input stream, attachments | parse from a socket, free | streams, MIME parser |
| HTTP client (`nanohttp-client.c`) | `httpc_conn_t`, a global connection counter | get, post, MIME requests | sockets, streams, responses |
| MIME (`nanohttp-mime.c`) | a reader with a moving marker, the part being received, attachment files | parse, callbacks, send | streams, files in a temporary directory |
| Pairs, content types, base64, URLs (`nanohttp-common.c`, `-base64.c`, `-url.c`) | none | pure functions on strings | everybody |
| SOAP server, routers, services, contexts (`soap-server.c`, `soap-router.c`, `soap-service.c`, `soap-ctx.c`) | list of routers, each with its services and a default one | find a router, find a service, process, faults, destroy | transports above, application functions below |
| Transports (`soap-transport.c`, `soap-nhttp.c`, `soap-nudp.c`) | lists of transports, the UDP socket and `_soap_nudp_running` | add, run, invoke, destroy | the HTTP server and client; a thread of its own for UDP |
| SOAP client (`soap-client.c`) | contexts the application keeps and uses again | `soap_client_invoke` | transports |
| Envelopes, addressing, faults, XML security (`soap-env.c`, `soap-addressing.c`, `soap-fault.c`, `soap-xmlsec.c`) | a libxml2 tree and a cursor in it | build, inspect, set a header, sign, encrypt, verify, decrypt | libxml2, xmlsec |
| xsd2c (`src/xsd2c`) | the registry of type names (`tr.c`), the list of complex types (`obj.c`) | read a schema, write a header and a source file per type | libxml2; used by wsdl2c schema by schema |
| wsdl2c (`src/wsdl2c`) | the list of calls | services → bindings → port types → messages, write stubs | the engine of xsd2c; its own `Call*.c` are files xsd2c has generated |
| SOAP admin and WSIL pages, errors and logging, utils | – | – | – |

What is hard here: the main thread and any number of sessions share the slots
without a common lock; failures between two steps of the main loop (a failed
accept, a thread that cannot be created) leave a slot behind; the signal and
SIGPIPE can arrive anywhere; a TCP peer may stop, close or reset between any
two calls; three transfer styles have to agree on both sides about where a body
ends, or a kept connection loses step; the state of a connection (header list,
output stream, credentials) outlives a request; statistics are shared by
sessions; `httpd_destroy` frees what detached threads use; datagrams are lost,
doubled and late; a context that is used again carries what an earlier call and
the server put into it; threads of a client share descriptor numbers that are
closed twice on one error path; and what the generators write for one type
depends on types that are read later.

The properties that make each part correct: *slots*: no two threads in one slot,
no slot lost but to a listed failure, never more connections than slots, closed
before released; *main loop*: the signal ends it from everywhere, waiting
clients are served; *sessions*: they end, answers stay in step with requests,
secured functions need credentials, connections go on only where the client can
tell where the answer ended; *statistics*: no lost update, no torn read, no
deadlock; *streams*: bytes in order and complete, and "no data left" only when
that is so; *MIME*: the parts are what was sent; *SOAP*: a call gets the answer
that was made for it, is executed no oftener than its request arrives, by the
service its path, urn and method name, and hears what happened; *HTTP client*:
the same for its answers, a request that has its end is whole, a descriptor has
one owner; *generators*: what is written compiles and links, a program reads
back what it wrote, and a stub has the parts of its operation.

Arrays of a fixed size that the peer or the application fills are a part of
this: where the code looks at the end of one (the heads of requests and
answers) the models cut what does not fit, as the code does; where it does not
(the boundary and the header of a MIME part, credentials) an overflow is a step
of the model to a state `wild`, of which nothing is said any more.

## 2. Modules

| Module | Models | Notes |
|---|---|---|
| `ConnectionPool` | what the server promises about connections: a bounded number open, none opened after it was told to stop | abstract; implemented by `HttpServer` |
| `HttpServer` | slots, main thread, session threads, signal, SIGPIPE, destroy, exit | one action per step of `httpd_run` and of a session between two points where another thread can interfere |
| `HttpServerProofs` | theorems about `HttpServer` | TLAPS |
| `ByteChannel` | what a stream promises: bytes in order, none lost, "complete" only with all of them | abstract; implemented by `HttpStream` |
| `HttpStream` | one body from an output stream to an input stream, three transfer styles, plain and SSL, or the root part from its file | reader and writer step by step over a wire of tokens |
| `HttpStreamProofs` | theorems about `HttpStream` | TLAPS |
| `HttpSession` | the request loop, dispatch, authentication, statistics under the rwlock, SOAP and admin functions | several connections, pipelined requests |
| `HttpSessionProofs` | theorems about `HttpSession` | TLAPS |
| `MimeParser` | a multipart message from the stream to the files of its parts | reader, `MIME_parse` and its callbacks, one action per thing done with a byte |
| `MimeParserProofs` | theorems about `MimeParser` | TLAPS |
| `SoapEnvelope` | a SOAP message: envelope, addressing headers, faults, the security operations | operators on one record |
| `SoapCall` | SOAP calls from end to end: clients, both transports, server, routers, services, the network between | uses `SoapEnvelope` |
| `SoapCallProofs` | theorems about `SoapCall` | TLAPS |
| `Codec` | base64, URLs, header pairs, content types, heads of answers | functions of their input |
| `HttpClient` | threads of a process that make HTTP calls, with attachments, over plain and SSL connections | uses `Codec` |
| `HttpClientProofs` | theorems about `HttpClient` | TLAPS |
| `Xsd2c` | reading a schema: one action per pending call of an `xsdProc` function, over the registries | |
| `Formatter` | the files written per type, as the names they declare, need, define and use | extends `Xsd2c` |
| `Wsdl2c` | both main programs; services, bindings, port types, messages and stubs | extends `Formatter` |
| `GeneratedCode` | what the generated functions do, and a program that uses them once the generators are through | extends `Wsdl2c` |
| `Wsdl2cProofs` | theorems about `Wsdl2c` | TLAPS |
| `SequenceLemmas` | facts about numbers and sequences that the proofs about sessions, MIME, SOAP calls, the client and the generators share | TLAPS |
| `MCHttpServer`, `MCHttpStream`, `MCHttpSession`, `MCMimeParser`, `MCSoapCall`, `MCHttpClient`, `MCWsdl2c` | instances for TLC | |

The detailed modules look at one program at different depths. A session
in `HttpServer` is six program counters and does not know what a request is;
`HttpSession` refines what happens between them and leaves out slots and
failing peers; `HttpStream` is one read or write of a body inside either, and
`MimeParser` is a reader of such a body: it assumes of the stream what
`ByteChannel` promises (the next bytes, an end, or an error, in pieces of any
size). `SoapCall` is what happens above a session's SOAP function and above the
HTTP client: to it a connection carries a request and its answer, or breaks.
`HttpClient` is the client's side of such a connection, against any server.
Operators named `…Unmarked`, `…Forgotten`, `…Late` and the like under a
comment "Fault:" are deliberate mistakes, not part of any specification:
replacing the definition below them by one shows that a property notices.

### HttpServer

A slot `s` is `_httpd_connection[s]`: `flag[s]` and `sock[s]`. `mpc` is the main
thread: `scan` (with `scan` = `i`) is `_httpd_wait_for_empty_conn`, `got`,
`select`, `ready`, `accept`, `start` are the stretches of `httpd_run` between its
tests of `_httpd_run`, `select`, `accept` and `pthread_create`. `spc[c]` is the
thread started for connection `c`; it only knows `slot[c]`, its argument, and
works on whatever descriptor the slot holds. `net` and `peer` are the two ends
of the connection. Abstractions: the mutex `_httpd_connection_lock` is left out
because only the main thread takes it; memory allocation does not fail; `accept`
on a connection that `select` reported does not block; an SSL handshake, done in
the main thread and bounded by the read timeout, is part of `accept`; a client
hangs up or stalls once its connection is accepted (what it did before shows at
the first read); bodies are finite; after `close` the remains of the peer are
reset to a fixed value. After `httpd_destroy` a session's next step is undefined
behaviour and ends in the state `wild`, of which nothing is said. `failures` is
a history variable: accepts and thread starts that have failed.

### HttpStream

Byte *k* of a body is the number *k*. The wire holds a token per body byte, per
chunk-size line, per CRLF after a chunk, and one for the next message. `script`
says where in the body the application's writes end; a write of no bytes is left
out in the chunked style only, where it is the end of the body. `Break` ends or
resets the connection at any point and inside a send, `Garble` is a peer that
breaks the chunk syntax. The reader follows `_http_input_stream_chunked_read`:
`skip` the line end, `line` (the size), `recv`. A forced receive that is
incomplete leaves its bytes on the wire, which differs from the code only in
that a failed call would have thrown them away. The reading application asks
`is_ready` before each read and stops at the first error. In mode `file` the
wire is the file that the MIME parser has left of the root part, all of it there
when it is opened (`OpenFile`). One that is missing is a stream that is never
ready; after `DiskFails` every `fread` returns 0. Over SSL the two ends differ:
a server's reads go through `select()` and time out, a client's wait as long as
its peer is silent (`Stuck`), as does a plain forced read at the end of its
connection. A size line that spells a negative number is a result of its own
(`AfterSize`): libxml2 stops at any, `mime_streamreader_function` only at -1,
and takes another one for a length (`wild`).

### HttpSession

The input of a connection is a sequence of units: request heads, what a head has
beyond `MAX_HEADER_SIZE`, and bodies. A head that fits is read byte by byte and so
ends exactly where it ends; a longer one is cut without an error, in one of the
ways `Cuts` lists, and its rest is ahead of the body. A body stays until a service
reads it; one that nobody read, or a rest, is parsed as a request head
(`Misread`: any of `Strays`, up to any later unit). A unit is taken whole by
whoever reads of it. That the path of a cut head may be longer than its own array
(`REQUEST_MAX_PATH_SIZE`) is left out. The header list is reduced to
its Content-Length, identified by the body it belongs to, and `out` is the type
of `rconn->out`. `requests++` is a load and a store under the write lock, reading
the statistics two loads under the read lock. What is added to the sums of bytes
and of time are the running totals of the connection and of its session, which
nothing sets back between two requests (`nanohttp-server.c:733`, `795-799`): a sum
is the sequence of what was added, and `Total` names a total by the connection
and how many requests it had answered. `log` is the history of the answers.
Of the service functions, the SOAP one reads an XML body to its end, a broken
one possibly not; routers with a WSDL description are left out. Peers that
vanish in the middle of an answer are in `HttpServer`.

### MimeParser

A message is a sequence of tokens: CR, LF, `-`, and words that stand for what is
never cut by the parser's comparisons (the text of the boundary behind its LF,
the line that names the root part, data). `reader` is `MIME_reader`, whose
`size` is the length of its buffer, `buf` is `MIME_buffer`, and `pc` and `n` say
where between two bytes `MIME_parse` is. `Refill` takes what the stream gives,
any number of tokens that fits, behind what the marker keeps. `search` and
`header` of a part are `header_search` and `header` of the callback data, which
`_mime_part_begin` resets; `raw` is a history of what the part was given,
`written` what was written to its file, which `fopen` may have refused (`none`).
`file = "open"` for a part that is not the last is a `FILE` nobody will close.
The pairs of a header are reduced to whether it names the root part; allocation
does not fail. `Begin` is the copy of boundary and start parameter to their
arrays, `HeaderFits` the array of a part's header, neither of which is checked:
a boundary that is too long, or a header, leads to `wild`. The shorter arrays
that a header is then split into (keys and values, the id, type and location of
a part) are left out: a single pair may overflow them before. A read of the
stream returns bytes, ends, fails, gives a negative number that is taken for a
length (`ReadNegative`), or does not come back (`ReadHangs`). `FalseDelimiter`
follows `MIME_buffer_add_bytes`, which writes to the front of the buffer; bytes
it leaves undefined are the token `Stale`. Such messages, and those whose
delimiters overlap, are in the instance but `Clean` excludes them from the
statements about content, as a boundary may not occur in the data. On a parse
error the files stay (the code's own "Free objects" note).

### SoapEnvelope and SoapCall

A message is a record of three lists: the addressing entries and signatures of
the Header in document order, the elements below the Envelope with their depths,
and the number of `EncryptedData` layers around the method; `cur` is the depth
of the cursor `env->cur`. Setting a header, finding the method and the fault,
and the operations of `soap-xmlsec.c` are operators on it, in the order of the
code's own look-ups, so that `soap_env_get_fault` finds what it finds. The
cryptography is a decision (`cfg`, part of an instance's scenarios): whether
encrypting and signing succeed on this command line.

In `SoapCall` every client is a process with one call at a time and, at will, a
context it uses again; a call is named `<<client, n>>`, which stands for the
message id. The server's main thread registers routers and services as an
instance's `program` says, runs, is stopped, and destroys in the order of
`soap_server_destroy`; `FreeRouters` is the moment from which `head` names freed
routers. `Crash` is undefined behaviour that ends the process: a look-up after
that moment, a router freed twice because it has two contexts, a stranger's
datagram without a To (`soap-nudp.c:297`), and an answer that has to be given a
MessageID on a host whose library has no `uuid_create` (`soap-addressing.c:140`
prints into a literal; `configure.ac:73` looks for the function in libc only).
On such a host a client's process ends at its first call (`dead`); `cfg.uuid`
says which hosts have it. A `uuid_create` or `malloc` that fails is left out.
`udp` is the thread of `soap_nudp_server_run`: `test` is the loop's condition,
`receive` is `recvfrom`. `jobs` are the calls of `soap_server_process` that run,
in three steps: up to the service function (`Route`), the function
(`CallService`, whose outcome is any of a response, a fault, no envelope, an
error), and the answer. `net` is the set of datagrams on their way or in a
socket; `Lose`, `Double` and `Oversize` are the network, each counted in
`spent`. An HTTP call is a job whose answer finds its client if the connection
still stands. `served` is a history.

### Codec and HttpClient

A text is a sequence of tokens, punctuation or words; base64 is about numbers:
bytes on one side, sextets on the other. Header keys carry a flag for how they
are spelt, because one look-up ignores case and another does not. `Codec` has no
state and no run of its own; `HttpClient` uses every part of it, on the URLs,
credentials and heads of its instance, and `RequestComplete` compares what the
decoder of the server makes of what the encoder sent.

In `HttpClient`, `threads[t]` is a thread's call with its `httpc_conn_t`; `fds`
is the descriptor table, `heap` the blocks of `mime_callback_data_t`, from whose
addresses the part files get their names (`files`), and `conns` the connections
with what is on them in both directions. Numbers of descriptors and addresses
are reused, lowest first and in any order. The peer is any HTTP server: it
answers with a head of `Answers` for the URL, before that any interim answers,
and ends, resets or stalls (`MaxFaults` bounds these). A head longer than
`MAX_HEADER_SIZE` (`HeadPairs`) is cut, and its rest is read with the body. The
block of a parser is free when its message is parsed, before the root part is
looked for (`OpenRoot`) and read (`ReadRoot`): another call may be given the
address, and with it the names, in between, and write or remove the files.
`reused` records that this has happened. Credentials that do not fit `in[64]` and
`out[64]` (`AuthSize`) overrun them, and the model ends (`CredentialsOverrun`). The
other arrays that texts of a peer are copied to (key, value and type of
`content_type_new`, protocol and port of `hurl_parse`) are left out, and so is a
cut body for whose rest a call waits. A send is one action; how
a body is cut into chunks and read is `HttpStream`'s subject, so here a body
arrives whole if it was parsed the way it was sent, and cut otherwise. Reading
over SSL waits without a limit, because only the server's SSL has its reads go
through `select()`. `httpc_close_free` closes a descriptor *number*; after
`HeadFails`, which has closed it already, that number may belong to another
thread. The properties but `CallEnds` are stated for runs in which no head
failed to be sent (`Undisturbed`): what happens after that step is the known
disagreement listed below, and within the proviso the descriptors and the
answers of all threads are right.

### Xsd2c, Formatter, Wsdl2c, GeneratedCode

Of a schema the model keeps the constructs that reach an `xsdProc` function,
with the attributes that function reads. The recursion of those functions is a
stack of pending calls, one action each, over `types`/`lists` (`tr.c`) and
`objs` (`obj.c`). Of a file it keeps names: what a header includes, declares and
needs, what a source file defines and uses, in the order in which the compiler
meets them; a name that is declared or defined more than once, as a member, a
prototype or a function, is in `twice`. `Compiles` is what a compiler checks of a
source: nothing is defined twice, every name that is used is declared by an
included header, and no struct is needed before it is complete; `Links` what a
linker checks: each function a source uses is defined by exactly one of the
sources. `SourcesCompile` excepts only sources that
include, directly or through other headers, the header of a type whose code never
compiles (`Unsupported`; see the list in section 3), one with two fields of a name
among them. Names that the generators put together of
different parts are taken to differ, and which names C does not have
is a parameter (`NotInC`). Two types of one name take
their files from each other, and even then what is left compiles.
A SOAP port without a binding makes `handleBinding` look for a name in a
buffer that nobody wrote: any binding, none, or the end of the process.
`GeneratedCode` says what `Create`, `Set`, `Add`, `Sax_Serialize` and
`Deserialize` do for a field of each kind, and runs a program that fills in an
object in any way up to `MaxSets` changes, writes it and reads it back. The
layout of the text, the lengths of name buffers, `codeWriteStubSource` and the
Writer callbacks (nothing calls them) and the generated `Free` functions are
left out.

## 3. Runs

| Run | Instance | Properties |
|---|---|---|
| `server_safety` | 4 connections (symmetric), 2 slots, 1 request each, plain and SSL; 424,238 states | `SlotExclusive`, `SlotAccounting`, `ReleasedAfterClose`, refinement of `ConnectionPool` |
| `server_liveness` | 2 connections, 2 slots, 2 requests; 233,906 states | `SignalStops`, `SessionEnds`, `PendingServed` |
| `stream` | bodies of up to 5 bytes in up to 4 writes or in a file, reads of 1, 2 or 4; 98,531 states | `NextIntact`, `ReaderEnds`, refinement of `ByteChannel` |
| `session` | 2 connections, 4 services, two of 15 requests, or one with an overlong head and a call, against a call or a passivation, with and without a default service; 359,534 states | `StatisticsExact`, `SnapshotConsistent`, `Authorised`, `InStep`, `SessionsEnd` |
| `session_length` | same | **violated**: Content-Length of an earlier answer |
| `mime` | 68 messages of 0 to 3 parts, reader of 6, buffer of 8, header of 10 tokens; 55,007 states | `BuffersSuffice`, `PartsExact`, `FilesInOrder`, `ParserEnds` |
| `mime_remaining` | same | **violated**: a single remaining byte is not written |
| `soap` | 2 clients, up to 3 calls each in 17 scenarios, routers one of which is hidden behind the other's context or has two, hosts with and without `uuid_create`, 1 fault, 2 UDP sockets per client; 193,687 states | `AnswerIsMine`, `ExecutedOnce`, `ServedAsAsked`, `ResultMatchesCall`, `HeadersUnique`, `OneMoreDatagram`, `CallReturns` |
| `soap_fault_found` | same | **violated**: `soap_env_get_fault` finds no fault |
| `client` | 2 threads, up to 2 calls each in 6 scenarios, 2 descriptors, 3 blocks, 2 faults, arrays of 15 bytes for credentials, heads of 2 pairs; 217,652 states | `AnswerIsMine`, `RequestComplete`, `DescriptorsOwned`, `CallEnds` |
| `client_credentials` | same | **violated**: credentials that base64 does not pad lose a byte |
| `generators` | 20 documents, any file of which may fail to open, programs of up to 2 changes; 8,499 states | `SourcesCompile`, `RoundTrip`, `StubComplete` |

Each passing run also checks its module's `TypeOK`. The violated properties
state what a comment or document of the repository says; `PROJECT.json`
(`findings`) quotes it and tells the trace.

**Bounds.** Four connections on two slots make every slot contended, reused and
reserved by the main thread while the other is held; a third slot adds only
symmetric copies of the scan. One request per connection suffices for safety
because a session between two requests is in the state in which it began; the
liveness run has two. Liveness is checked without symmetry, with two
connections; contention for slots arises because failures strand one. In
`stream`, bodies of up to five bytes with chunks of 0 to 3 and reads of 1, 2 and
4 put the ends of reads before, at and after the ends of chunks, twice in one
body. The buffer of `httpd_mime_send_file` is scaled from 4256 to 2. In
`session`, two pipelined requests are what it takes for one request to disturb
the next, and two connections for one session to disturb another; each ends with
the input or earlier, so statistics stay small. `mime` has the sizes of the code
scaled down and kept as tight as they are there: the boundary has one token less
than `Slack` (149 of 150 bytes), so `buf` and a boundary together reach
`BufferSize` exactly, and the reader holds just what lies between the marker and
the last byte that is looked at. `BuffersSuffice` is about a boundary that fits
its array of 150 bytes: that the other two buffers then have room for it too is
the relation of four sizes in the code. The data of the parts has every length
around that of a buffer. `FilesInOrder` is the strongest statement that the code
meets: a part that fills its last buffer exactly is not closed, and one byte can
be lost at either end of its data. It speaks of headers in which a CR is
followed by LF (`PlainHeader`): behind another CR the scan begins anew at the
byte after the one that did not match and may pass over the empty line, which
one of the messages does. In `soap`, two calls on one context are what it takes
for the first to leave something behind, two clients for an answer to go astray,
one fault for every kind of loss, duplicate or break to happen at every moment,
and two sockets of three calls for the descriptors to run out. The proofs have
no such bounds. In `client`, two descriptors and two threads make every number
that is closed one that the other thread may get; the blocks of attachments are
reused in the same way, between the end of a parser and the reading of its root
part too; credentials and heads are of lengths on both sides of their arrays;
the files hold no block, one, and a last block that is empty, the three ways in
which `httpd_mime_send_file`'s loop ends. In `generators`, the documents hold
every construct an `xsdProc` function looks at, types that refer forward, within
a schema and across schemas, types that share a name with each other or with a
built-in one, and every kind of field, one that may not occur included; two
changes to an object fill a list twice or two fields.

**Fairness.** `HttpServer`: weak fairness of the main thread and of each session
thread, since the scheduler runs them and `select` and the read timeout return;
none of the clients, the signal, a full send buffer or `httpd_destroy`. So
`SessionEnds` excepts a client that closed a plain connection in order (its
session spins) or stalls while it is answered (no send timeout), and
`PendingServed` excepts slots so held. `HttpStream`: weak fairness of the reader
only, whose receives return or time out; nothing makes the writer go on.
`ReaderEnds` excepts a plain connection that ends in the middle of a message
with a length, a client's SSL connection to a peer that stays silent (`Stuck`),
and a file that cannot be read. `HttpSession`: weak fairness of each session,
which also means that a rwlock that stays free is got; requests are finite, so
no session is overtaken for ever. `MimeParser`: weak fairness of the parser and
of the stream; a read that does not come back, as `ReaderEnds` has it, is a step
of its own (`ReadHangs`), after which `ParserEnds` asks for nothing. `SoapCall`:
weak fairness of every thread of the server and of a client that has an answer;
nothing is assumed of the applications' calls, the signal, the network or a
service being stopped, so `CallReturns` excepts calls from which something was
lost, a request too big for a datagram, a server that is not there to receive,
and a client without `uuid_create`. `HttpClient`: weak fairness of each thread,
whose reads on plain connections return or time out; nothing is assumed of the
peer, so `CallEnds` excepts a peer that stops reading, an orderly end of a plain
connection while a head or a body is waited for, and an SSL peer that keeps
silent.

### What is known to go wrong

The following behaviours of the code were met while it was modelled. They are in
the models, as steps or as the exceptions of properties, but no document or
comment says otherwise clearly enough to call them violations, or they are
outside what a run could state:

- an accept that fails (`nanohttp-server.c:1096`) or a thread that cannot be
  created (`:1025`) leaves its slot in use for ever: after `-NHTTPmaxconn` of
  them an idle server accepts nothing (`SlotAccounting` counts them);
- at the orderly end of a plain connection a forced read goes round for ever,
  whatever the timeout (`nanohttp-socket.c:498`; exceptions of `SessionEnds` and
  `CallEnds`); a client's reads over SSL have no timeout at all;
- a root part whose file cannot be opened (`nanohttp-request.c:324-325`) has no
  stream, and to `http_input_stream_is_ready` (`nanohttp-stream.c:427`) no stream
  is the end of the data: the reader takes it for an empty body. A file that
  cannot be read is never at its end, because `fread` is compared with -1
  (`nanohttp-stream.c:409`); `ChanSpec` and `ReaderEnds` except the two;
- `httpd_destroy` frees slots and services that detached sessions still use
  (`UseAfterFree`), and `soap_server_destroy` routers that jobs still look up, or
  one router twice that was registered under two contexts (`Crash`);
- the statistics add the byte counters of the connection and the time since the
  session began for every answer (`nanohttp-server.c:795-799`): on a kept
  connection earlier requests are added again (`StatisticsExact` says what is
  added, each total once);
- a request or answer head longer than `MAX_HEADER_SIZE` is cut without an error,
  and its rest is read as something else (`InStep` excepts it; `Arrives`);
- nothing checks the length of a peer's boundary (`nanohttp-mime.c:284`, `298`)
  or of a part's header (`:795`), of credentials (`nanohttp-client.c:259-263`,
  from 43 bytes with the colon on), or that a negative count other than -1 is no
  length (`nanohttp-mime.c:538`): in the models these steps lead to `wild`;
- `soap_addressing` without `uuid_create` prints into a string literal
  (`soap-addressing.c:140`), and a UDP server dereferences a To that a datagram
  does not have (`soap-nudp.c:297`);
- SIGPIPE is not ignored: a peer that resets its connection at the right moment
  ends the process (`BrokenPipe`, `Killed`);
- `httpd_mime_send_file` (`nanohttp-server.c:1296-1311`) also writes the last,
  empty block of a file that fills its buffers exactly, and an empty chunk ends a
  chunked body: the rest of the message is lost (`HttpStream`; the client's
  `httpc_mime_send_file` skips empty blocks);
- `_httpc_talk_to_server` closes the connection when its head cannot be sent, and
  `httpc_close_free` closes the same number again (`nanohttp-client.c:430`, `438`;
  `Undisturbed`); it also frees pointers of an URL that was not parsed (`wild`);
- `_soap_nhttp_client_invoke` returns an error object that `hresponse_free` has
  released (`soap-nhttp.c:137`; `dangling`);
- `-CSOAPsign`, which is to make a client fail that cannot sign
  (`soap-client.h:149`), has no effect, because the status of `soap_xmlsec_sign`
  is always `H_OK`;
- a head without a reason phrase, or with bare line feeds, is read differently
  from what it says (`Shortened`);
- part files are named after an address that is free before they are read
  (`nanohttp-mime.c:862`, `nanohttp-response.c:223`), so the file of a part can be
  overwritten or removed while its message is still in use (`reused`), that of a
  context an application keeps by any later call; `tutorial.xml:431-432`
  hands them out as "the physical file on the filesystem" (hazard at
  `nanohttp-mime.c:606`);
- wsdl2c crashes on a one-way operation (`codewriter.c:21`) although `wsdl2c.c`
  says "one way operation is ok", xsd2c on a schema without a target namespace
  (the examples ex1 to ex4 and `call.xsd` are such); a WSDL file whose WSDL
  namespace is the default one yields no service; the examples include
  `*_xsd.h` files that are not written any more; a SOAP port without a binding is
  looked up by what is in an uninitialised buffer (`wsdl2c.c:478-484`);
- code that never compiles: derived types (the base is called by its prefixed
  name), restricted simple types, types written inside an element
  (`xsd2c.c:342`), attributes of type float, an element with `maxOccurs="0"` (it
  has no setter in its header, `formatter.c:454`, but is deserialised with one),
  a list of a type that was given the name of a built-in one, a type with two
  fields of one name (`obj.c:101-108`) and names that are none in C
  (`Unsupported`); `objFreeModule` reads the link of a type it has freed
  (`obj.c:70`).

## 4. Proofs

The proofs hold for every value of the constants that satisfies the module's
named assumption: any number of clients, slots, requests, connections, services,
calls, faults, any body and any reads, any boundary and any buffer size, any
schema and WSDL document.

| Module | Theorem | Statement |
|---|---|---|
| `HttpServerProofs` | `TypeCorrect` | `Spec => []TypeOK` |
| | `SlotExclusivity` | `Spec => []SlotExclusive` |
| | `Capacity` | `Spec => []WithinCapacity` |
| | `ReleaseOrder` | `Spec => ReleasedAfterClose` |
| | `Refinement` | `Spec => ImplementsPool` |
| | `Accounting` | `Spec => []SlotAccounting` |
| `HttpStreamProofs` | `TypeCorrect` | `Spec => []TypeOK` |
| | `NextLeftIntact` | `Spec => []NextIntact` |
| | `Refinement` | `Spec => ImplementsChannel` |
| `HttpSessionProofs` | `Authorisation` | `Spec => []Authorised` |
| | `Snapshots` | `Spec => []SnapshotConsistent` |
| | `AnswersInStep` | `Spec => []InStep` |
| | `TypeCorrect` | `Spec => []TypeOK` |
| | `NoLostUpdate` | `Spec => []StatisticsExact` |
| `MimeParserProofs` | `SizesSuffice` | `Spec => []BuffersSuffice` |
| | `TypeCorrect` | `Spec => []TypeOK` |
| | `PartsAreExact` | `Spec => []PartsExact` |
| | `FilesAreInOrder` | `Spec => []FilesInOrder` |
| `SoapCallProofs` | `AnswersMatch` | `Spec => []AnswerIsMine` |
| | `UdpStops` | `Spec => []OneMoreDatagram` |
| | `AtMostOnce` | `Spec => []ExecutedOnce` |
| | `HeadersOnce` | `Spec => []HeadersUnique` |
| | `TypeCorrect` | `Spec => []TypeOK` |
| | `ResultsMatch` | `Spec => []ResultMatchesCall` |
| | `AskedIsServed` | `Spec => []ServedAsAsked` |
| `HttpClientProofs` | `Descriptors` | `Spec => []DescriptorsOwned` |
| | `OwnAnswers` | `Spec => []AnswerIsMine` |
| | `RequestsComplete` | `Spec => []RequestComplete` |
| | `Base64RoundTrip` | `base64_decode_string(base64_encode_string(b))` is `b`, without its last byte if their number is a multiple of 3 |
| | `TypeCorrect` | `Spec => []TypeOK` |
| `Wsdl2cProofs` | `TypeCorrect` | `Spec => []TypeOK` |
| | `AlwaysCompiles` | `Spec => []SourcesCompile` |
| | `StubsComplete` | `Spec => []StubComplete` |

**Slots.** All of `HttpServerProofs` rests on `Invariance` (`Spec => []IInv`).
`SlotExclusive` is not inductive: it says nothing of the slot between
reservation and thread start, nor of the descriptors in slots whose thread has
not begun. `IInv` adds three parts. `MainInv`: the reserved slot is marked, no
live session has it, and it holds an open connection exactly while the thread is
to be started. `SessionInv`: a live session's slot holds its own connection.
`SocketInv`: an open connection is in exactly one slot, and that slot is in use,
whoever, or nobody, owns it. `Capacity` follows because choosing the slot of an
open connection is an injection into the slots. `Refinement` shows each action
to be a step of the pool or a stutter; the bound of the pool's `Accept` comes
from the free slot that the main thread found, which no open connection is in.
`Accounting` adds `StrandInv`: the slots in use that are nobody's are as many as
the failures counted, because only a failed accept or thread start leaves one
behind and nothing takes it up again. The slots in use are then three disjoint
sets, and the occupied ones correspond one to one to the live sessions.

**Streams.** What is on the wire decides what the reader will see, so `Inv` of
`HttpStreamProofs` speaks of the structure of a sequence of tokens of any
length: `WireInv` says that there is a function from the positions of the wire
to places in the message (within a chunk, before a size, behind the last one,
behind the message) such that each token leads from its place to the next
(`Fits`), the first is where the reader is (`ReaderAt`) and the last where the
writer is (`WriterAt`). A writer's step extends the function (`AppendOne`,
`AppendBytes`), a reader's drops its beginning (`TakeTokens`), a broken
connection its end (`CutWire`). The third conjunct of `Layout`, the places along
a chunk, follows from the second by induction; stated outright and kept by each
step, it needs none. `ChunkBytes` then says that a read within a chunk takes the
bytes that are due, and `BytesOnly` that a body without a frame has nothing
after it.

**Sessions.** `Inv` of `HttpSessionProofs` has six parts. `AuthInv`: whoever
runs a function was accepted with the credentials of the request in hand.
`LockInv`: who changes statistics has their lock, and a lock has one writer or
some readers. `CopyInv`: what a session has loaded under a lock is still there,
so that `requests++` loses nothing. `TimeInv` and `BookInv`: what was added to
bytes and to time of a service differs only while a session is between the two
stores, under the lock, and a request is counted before its totals are added.
`InStep` says what is ahead of a session that is about to read; `StepFine` says
it of every place of a request (`Remaining`): as long as no answer has left a
body or the rest of a cut head behind, the request in hand is what is read of
the first without an answer, and what that one has left and the later requests
are still to be read. `LastIsMine` keeps `done` together with what the request
asked for and the output stream together with the length its head declared,
which is why a connection goes on only behind a delimited answer. What a client
sends, `UnitsFrom`, is a recursive function of the position; that it exists, and
is a sequence, is shown from a least position at which it would not
(`UnitsExist`, `UnitsFromFacts`). `NoLostUpdate` relates the statistics to the
history of answers: for each service the answers it gave and the sessions at
each place of a request are finite sets, and `CountInv` says how their sizes
make up the number of requests; `AddedOnce` that the totals in its sums are
those of the answers of its function, none twice, which `LastAnswer` carries
over the answer still to be added.

**SOAP calls.** `AnswerIsMine` holds because every datagram, job and result of a
call carries the call's name into the place where its client waits (`CallsFine`).
For `AtMostOnce`, the weight of a call is the number of its executions, of its
jobs that have not yet reached a function and of its requests in the network;
`OnceInv` bounds the weight by one plus the times the network doubled the call's
request, and a call that was
not yet made has none. Each action moves weight, or drops it; only `Double`,
which counts itself, adds some. `UdpStops` rests on where in its loop the UDP
thread can be after `_soap_nudp_running` was cleared.
`HeadersUnique` rests on lemmas about the operators of `SoapEnvelope` on headers of
any length (`EntryReplaced`, `ContentSet`, `AddressedKeeps`): a setter leaves each
name at most once, and encryption, signature and the copy of a context keep it
(`MessagesFine`). `TypeOK` needs what the program has still to register
(`RegisterInv`: a router is named only behind the `soap_router_new` that made it)
and that the UDP thread never has two jobs.
`ResultMatchesCall` and `ServedAsAsked` follow one call through the system.
`CallInv` says of the call a client is at: every datagram to the server holds its
request `q`, up to the address the UDP thread rewrites; every job is at `q`, at
`Plain(q)` with the service that `q` meets, or at an answer; every answer, in a
job, on its way back or returned, `Says` what was done; and what services were
given is what is in `q`. The request is that of the client's context, whose body
is the method asked for, below one layer of encryption at most (`ContextInv`). A
new call starts from nothing, as nobody has heard of it (`FutureInv`), and the
registrations that decide about `q` are over before the first job (`SetupInv`).

**HTTP client.** `DescriptorsOwned` says what holds of calls that run; `Inv`
adds that an idle thread has no descriptor and that a thread's calls are counted
from 1 on, so that no call is mistaken for the mark of a free descriptor
(`ThreadInv`, `CountedCalls`), and that two parsers never share a block
(`BlockInv`). Most steps leave the table of descriptors alone and are instances
of one lemma (`CallGoesOn`); `BeginOpensStep` gives out a descriptor that was
nobody's and `CloseStep` takes back the thread's own. `HeadFailsStep`, which
closes a descriptor that its thread will close again, is where the proviso
`Undisturbed` ends.
`AnswerIsMine` follows the request: `MineInv` says that the first thing on a
connection is the head of the call it was opened for (a thread writes a body only
where something was sent before, and a descriptor is its own by
`DescriptorsOwned`), that heads which come back are for that call, that what a
thread has read of an answer is from such a head and not an interim one, and that
the files of a parser's block are those of its call, which is what `BlockInv` is
needed for a second time. Behind the parser, when the block is free, they are
those of the call or marked as given again (`FileMine`), which `FilesKeep` carries
over the steps of other threads.
`RequestComplete` compares what is on a connection with the call. `RequestInv`
says that a connection on which anything was sent carries the head of a call of
the application and behind it a beginning of that call's body, all of whose files
could be read so far (`Begun`, `Carries`), or all of it and the empty chunk
(`Flushed`); that what a thread has still to write is exactly what is missing
(`Writing`); and that on the connections of later calls there is nothing yet.
`AllArrived` then goes through the three ways a head can say where its request
ends: what `Transfer` reads from the head is found by following each
`httpc_set_header` (`HeaderSet`, `GetHeaders`, `PostHeaders`), a piece of size 0
is never a part of the body, only its end (`BodyOf`), and the places of the files
in a concatenation of any length exist (`FlattenFacts`, `MimeBody`,
`BodyArrives`). The credentials are `Base64RoundTrip` and the search for the first
colon (`CredentialsBack`); those that overrun their array are never sent, because the
model ends there. `Base64RoundTrip` goes by groups of three bytes and
four characters (`BlockEncoded`, `BlockDecoded`, `BlockBack`); how many of the
characters `base64_decode_string` counts before it decodes is `CountedFacts`. The
texts of the code end at their first NUL; they are those of the theorem without
a byte 0. Of the calls `RequestAssumption` says what the code makes of any: texts
have no NUL, and of the blocks that `fread` gives of a file only the last may be
empty. It says nothing of colons; that the user has none is a condition of
`RequestComplete`, because the server takes the first for the separator.

**MIME.** `BuffersSuffice` is not inductive: that the marker keeps little
follows from how far behind the reader it is, which `Lookahead` states for each
place of the parser (one CR, the matched part of the boundary, the one or two
bytes after it), and that `buf` has room from its being passed on whenever it is
full (`PassLeavesRoom`). That the boundary is shorter than `Slack` is not assumed
of the peer; it is what `Begin` leaves where it did not overflow.
`TypeOK` needs the type of what the scan of a header returns, a fold over the
bytes (`HeaderScanType`): the function the library's fold is defined by exists
(`IndexScanExists`), and it goes through the bytes one by one (`ScanFunction`).
`PartsExact` rests on `ExactInv`. The reader's buffer holds the last bytes read
(`Buffered`), so the place of the marker in the message is known (`Marked`);
behind it the parser has seen as much of a delimiter as `pc` and `n` say (`Seen`),
and a CR that is to be ignored begins none. `SplitUpTo` then says of the parts
that as many began as delimiters lie before the marker, that all but the last are
those of the reference, and that the last one, with what `buf` still holds, is
the message from its delimiter to the marker. A byte, a full buffer and a
delimiter each keep it (`AddByte`, `PassOn`, `AtOpening`, `AtClosing`), and
`BacktrackExact` shows that what did not match is no delimiter of the reference,
which finds them by position.
`FilesInOrder` compares what the scan, a fold over pieces, has written with the
data behind the first empty line, found by position. `ScanAt` says where the scan
is behind so many bytes of a part: how much of an empty line they end in, or that
one is behind it; `ScanOne` and `ScanMany` carry it over a byte and a buffer, and
`WrittenOn` says what the file then has. A part that is being read was given whole
buffers only (`WholeBuffers`), of two bytes at least, and so lacks a byte at the
front at most (`InProgress`); a byte at the end is lost in the last buffer alone
(`Finished`). That a clean message never reaches `FalseDelimiter`, which passes
on bytes that are not of the part, comes from `ExactInv` (`NoFalseDelimiter`).

**Generators.** The constants are any set of documents: `NodesAssumption` and
`RootsAssumption` say that an element has a sequence of children and a document
a sequence of schemas, `WsdlAssumption` that its ports, bindings, operations and
parts come in sequences. Nothing is said of names, types or how often something
may occur, nor that a schema makes sense.
`TypeOK` is not inductive. That a pending call fills in a type that exists needs
that the calls were made from the nodes of the document and that only
`xsdProcComplexType` is called without a type (`TodoInv`); that no source is
without its header needs what was written so far. `IInv` says it outright:
`HeadersUpTo(n)` and `SourcesUpTo(n)` give the content of the files of the first
`n` types, where the last type of a name counts (`Latest`). `RegistryInv` says
that a registered type is built in or that of a complex type of the same name,
which also has a list. The actions that read a schema let `objs`, `types` and
`lists` only grow, or fill in one type (`Grows`, `ReadStep`, `FillStep`,
`AddFieldStep`); the files depend on a type and the registry alone (`SameHeader`,
`SameSource`), so that the actions that touch neither keep them (`QuietStep`).
`SourcesCompile` follows from `IInv` without a further invariant. The headers a
source includes are what the rounds of `Included` end with, a least fixed point
that is closed because the headers are finitely many (`ReachFunction`,
`IncludedFacts`). None of them is unsupported, so each field's type is registered
and each included name is that of a type with a header (`FieldFacts`,
`HeaderFacts`); every name the source uses is then declared by its own header or
by that of a field's type (`FieldUses`, `UsesFacts`). Its fields have different
names and so have the functions made from them (`Unsupported` again), so none is
defined twice (`NothingTwice`), and a function that is used is that of one type,
whose last source is its only one (`SupportedLinks`). It is here that the whole of
`HeadersUpTo(Len(objs))` is needed: a type may be used in a schema before the one
that has it, and only the headers written after the last schema know it.
`StubComplete` follows the calls from the services on: `Between` says that the
operations found and those that pending calls lead to (`Leads`) are together the
operations of the document, `AtInput` and `AtOutput` what the last entry of the
list has while its messages are read. What the stubs include rests on
`RegistryInv`: the struct a part has is that of a complex type with a header.
The theorems are about `Spec` of `Wsdl2c`. The run's `Program` adds the steps of a
program that uses the generated code; they leave every variable of `Wsdl2c` as it
is, so that each of its behaviours is one of `Spec`.

**Lemmas.** `SequenceLemmas` has what several of these proofs rest on: a least
number exists in every set of numbers that is not empty (`SomeLeast`, from
well-foundedness), induction over numbers as a fact about sets (`AllNumbers`),
and what `Append`, `Tail`, `\o` and `FlattenSeq` make of sequences of any length.

**Only model-checked.** `RoundTrip`: what a generated reader makes of what a
generated writer wrote is defined by recursion over the types of a schema, and
`GeneratedCode` declares RECURSIVE operators for it, which the prover cannot use.
Liveness under fairness (`SignalStops`, `SessionEnds`, `PendingServed`,
`ReaderEnds`, `SessionsEnd`, `ParserEnds`, `CallReturns`, `CallEnds`) and `ENABLED`
are out of the prover's reach, and so is induction over data: its induction
theorems take an operator as a parameter. Where an induction was needed it
was done by hand from a least counterexample (`UnitsExist`, `ScanFunction`,
`AllNumbers`).

## 5. What is left

Not modelled, and why:

- error objects and logging, the log level: no state that a property is about;
- the SOAP admin and WSIL pages: they read the lists of routers and services and
  change nothing; their answers have the form of `AdminPage` in `HttpSession`;
- what libxml2, xmlsec and OpenSSL do inside: the models have their outcomes;
- Windows variants of system calls; `src/utils`, which no target builds;
- MIME messages in files (`mime_message_parse_from_file`): the library itself
  does not call it;
- router WSDL descriptions; copying and freeing of lists;
- of the generators, the layout of the text, the lengths of name buffers,
  `codeWriteStubSource`, the Writer callbacks and the generated `Free` functions.
