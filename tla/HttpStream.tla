----------------------------- MODULE HttpStream -----------------------------
(***************************************************************************)
(* One message body between an http_output_stream_t and an                 *)
(* http_input_stream_t (nanohttp/nanohttp-stream.c) over a TCP connection  *)
(* that may be closed or reset between any two sends. The application      *)
(* behind the output stream makes the writes of a script and flushes; the  *)
(* one behind the input stream asks http_input_stream_is_ready before each *)
(* http_input_stream_read, for as many bytes as it likes, and stops at the *)
(* first error, as the MIME and the XML readers do.                        *)
(*                                                                         *)
(* Byte k of the body is the number k. The wire holds one token per body   *)
(* byte, one per chunk-size line (with its line end), one per CRLF after a *)
(* chunk, and one for the message that follows on the same connection.     *)
(*                                                                         *)
(* In mode "file" the input stream reads the root part of a multipart      *)
(* message from the file the MIME parser has left.                         *)
(***************************************************************************)
EXTENDS Integers, Sequences

CONSTANTS Scripts,    \* where in its body an application's writes end
          ReadSizes   \* the sizes the reading application asks for

ASSUME StreamAssumption ==
  /\ Scripts \subseteq Seq(Nat)
  /\ \A s \in Scripts : \A i, j \in 1 .. Len(s) : i <= j => s[i] <= s[j]
  /\ ReadSizes \subseteq Nat \ {0}

VARIABLES
  \* ------------------------------------------------ the message
  mode,        \* http_transfer_type_t of both streams
  ssl,         \* "none", or SSL, read by the "server" or the "client"
  total,       \* bytes of the body; Content-Length in mode "length"
  \* ------------------------------------------------ the writing side
  script,      \* where the writes still to be made end
  wpc,         \* where http_output_stream_write or the application is
  handed,      \* body bytes given to the socket
  \* ------------------------------------------------ the connection
  wire,        \* what has been sent and not yet received
  link,        \* "up", closed by the writer in order ("eof"), or "reset";
               \* of a file: readable ("disk"), failing ("bad"), "missing"
  \* ------------------------------------------------ the reading side
  rpc,         \* where http_input_stream_read or the application is
  want,        \* size, what is left of the current call
  chunk_size,
  received,
  closed,      \* connection_closed
  got          \* the bytes the application has been given

message == <<mode, ssl, total>>
writer == <<script, wpc, handed>>
reader == <<rpc, want, chunk_size, received, closed, got>>
vars == <<message, writer, wire, link, reader>>

Token(k, size) == [kind |-> k, n |-> size]
Line(size) == Token("line", size)
Crlf == Token("crlf", 0)
NextStart == Token("next", 0)
Overlong == Token("overlong", 0)   \* bytes without a line end

\* To a chunked stream a write of no bytes is the end of the body.
NoEmptyWrite(s) == \A i \in 1 .. Len(s) : (IF i = 1 THEN 0 ELSE s[i - 1]) < s[i]

-----------------------------------------------------------------------------
(* http_input_stream_new and http_output_stream_new on the same header.    *)
Init ==
  /\ mode \in {"length", "chunked", "close", "file"}
  /\ ssl \in (IF mode = "file" THEN {"none"} ELSE {"none", "server", "client"})
  /\ script \in Scripts
  /\ mode = "chunked" => NoEmptyWrite(script)
  /\ total = IF script = << >> THEN 0 ELSE script[Len(script)]
  /\ wpc = "idle" /\ handed = 0
  /\ wire = << >>
  /\ link \in (IF mode = "file" THEN {"disk", "missing"} ELSE {"up"})
  /\ rpc = "ask" /\ want = 0
  /\ chunk_size = -1
  /\ received = IF mode = "chunked" THEN -1 ELSE 0
  /\ closed = FALSE
  /\ got = << >>

-----------------------------------------------------------------------------
(*                            The writing side                             *)

\* The next `size` body bytes, as they are on the wire.
Body(size) == [i \in 1 .. size |-> Token("data", handed + i)]

\* What http_output_stream_write is called for.
Size == Head(script) - handed

\* http_output_stream_write: "%x\r\n" ...
SendChunkSize ==
  /\ link = "up" /\ wpc = "idle" /\ script # << >> /\ mode = "chunked"
  /\ wire' = Append(wire, Line(Size))
  /\ wpc' = "body"
  /\ UNCHANGED <<message, script, handed, link, reader>>

\* The hsocket_send of the bytes is next.
BodyNext == wpc = "body" \/ (wpc = "idle" /\ script # << >> /\ mode # "chunked")

\* ... the bytes, if there are any ...
SendBody ==
  /\ link = "up" /\ BodyNext
  /\ wire' = wire \o Body(Size)
  /\ handed' = Head(script)
  /\ script' = Tail(script)
  /\ wpc' = IF mode = "chunked" THEN "crlf" ELSE "idle"
  /\ UNCHANGED <<message, link, reader>>

\* ... and the line end.
SendChunkEnd ==
  /\ link = "up" /\ wpc = "crlf"
  /\ wire' = Append(wire, Crlf)
  /\ wpc' = "idle"
  /\ UNCHANGED <<message, script, handed, link, reader>>

\* http_output_stream_flush, the application's last call.
Flush ==
  /\ link = "up" /\ wpc = "idle" /\ script = << >>
  /\ wire' = IF mode = "chunked" THEN wire \o <<Line(0), Crlf>> ELSE wire
  /\ wpc' = "done"
  /\ UNCHANGED <<message, script, handed, link, reader>>

\* Keep-alive: another message follows on the connection.
NextMessage ==
  /\ link = "up" /\ wpc = "done" /\ mode # "close"
  /\ wire' = Append(wire, NextStart)
  /\ wpc' = "next"
  /\ UNCHANGED <<message, script, handed, link, reader>>

\* hsocket_close once the body has been sent.
Close ==
  /\ link = "up" /\ wpc = "done"
  /\ link' = "eof"
  /\ UNCHANGED <<message, writer, wire, reader>>

(* The writing process ends or the connection breaks: some bytes of a send *)
(* under way are on the wire, and a reset discards what was not received.  *)
Break ==
  /\ link = "up"
  /\ link' \in {"eof", "reset"}
  /\ \E k \in 0 .. (IF BodyNext THEN Size ELSE 0) :
       LET sent == wire \o Body(k)
       IN  /\ handed' = handed + k
           /\ \E cut \in 0 .. Len(sent) :
                /\ link' = "eof" => cut = Len(sent)
                /\ wire' = SubSeq(sent, 1, cut)
  /\ wpc' = "failed"
  /\ UNCHANGED <<message, script, reader>>

(* A peer that is not this library breaks the chunk syntax: a size that is *)
(* negative to strtol, or no line end where there has to be one.           *)
Garble ==
  /\ link = "up" /\ mode = "chunked" /\ wpc \in {"idle", "crlf"}
  /\ \/ wire' = Append(wire, Overlong)
     \/ wpc = "idle" /\ \E size \in {-1, -2} : wire' = Append(wire, Line(size))
  /\ wpc' = "failed"
  /\ UNCHANGED <<message, script, handed, link, reader>>

Writer == SendChunkSize \/ SendBody \/ SendChunkEnd \/ Flush

-----------------------------------------------------------------------------
(*                            The reading side                             *)

Smaller(a, b) == IF a <= b THEN a ELSE b

\* http_input_stream_is_ready
Ready ==
  CASE link = "missing" -> FALSE
    [] mode = "length"  -> total > received
    [] mode = "chunked" -> chunk_size # 0
    [] OTHER            -> ~closed

\* The head of the loop of _http_input_stream_chunked_read, `w` bytes short
\* and `remain` bytes before the end of the chunk.
Turn(w, remain) ==
  IF w = 0 THEN "ask"
  ELSE IF remain # 0 THEN "recv"
  ELSE IF chunk_size = -1 THEN "line" ELSE "skip"

(* http_input_stream_new_from_file, when mime_get_attachments is done: a    *)
(* file that cannot be opened is no stream, which is never ready.          *)
OpenFile ==
  /\ mode = "file" /\ wpc = "idle"
  /\ wire' = IF link = "missing" THEN << >> ELSE Body(total)
  /\ handed' = total
  /\ script' = << >>
  /\ wpc' = "done"
  /\ UNCHANGED <<message, link, reader>>

Opened == mode = "file" => wpc = "done"

\* Fault: the length is not a limit to what is asked of the socket.
ReadUnlimited(size) ==
  /\ rpc = "ask" /\ Opened /\ Ready
  /\ want' = size
  /\ rpc' = IF mode = "chunked" THEN Turn(size, chunk_size - received) ELSE "recv"
  /\ UNCHANGED <<message, writer, wire, link, chunk_size, received, closed, got>>

\* http_input_stream_read(stream, dest, size)
Read(size) ==
  /\ rpc = "ask" /\ Opened /\ Ready
  /\ want' = IF mode = "length" THEN Smaller(size, total - received) ELSE size
  /\ rpc' = IF mode = "chunked" THEN Turn(size, chunk_size - received) ELSE "recv"
  /\ UNCHANGED <<message, writer, wire, link, chunk_size, received, closed, got>>

\* is_ready is 0: the application is done with the body.
EndOfStream ==
  /\ rpc = "ask" /\ Opened /\ ~Ready
  /\ rpc' = "complete"
  /\ UNCHANGED <<message, writer, wire, link, want, chunk_size, received, closed, got>>

\* Skipping the line end after a chunk, which has to come within 100 bytes.
SkipLineEnd ==
  /\ rpc = "skip" /\ wire # << >>
  /\ wire' = Tail(wire)
  /\ rpc' = CASE Head(wire).kind \in {"crlf", "line"} -> "line"
              [] Head(wire).kind = "overlong"         -> "error"
              [] OTHER                                -> "skip"
  /\ UNCHANGED <<message, writer, link, want, chunk_size, received, closed, got>>

(* What comes after the line of a chunk of `size` bytes. A size of 0 ends  *)
(* the call with what it has read. A negative one is the call's result: an *)
(* error to the XML reader, but mime_streamreader_function knows only -1   *)
(* for one, and the MIME reader goes on with any other as a length.        *)
AfterSize(size) ==
  CASE size = 0  -> {"ask"}
    [] size > 0  -> {"recv"}
    [] size = -1 -> {"error"}
    [] OTHER     -> {"error", "wild"}

\* Fault: the count of received bytes is reset for the first chunk only.
ReadChunkSizeKeepsCount ==
  /\ rpc = "line" /\ wire # << >>
  /\ Head(wire).kind \in {"line", "crlf"}
  /\ wire' = Tail(wire)
  /\ chunk_size' = Head(wire).n
  /\ received' = IF chunk_size = -1 THEN 0 ELSE received
  /\ rpc' \in AfterSize(chunk_size')
  /\ UNCHANGED <<message, writer, link, want, closed, got>>

\* A chunk-size line; a line that is no number is 0 to strtol.
ReadChunkSize ==
  /\ rpc = "line" /\ wire # << >>
  /\ Head(wire).kind \in {"line", "crlf"}
  /\ wire' = Tail(wire)
  /\ chunk_size' = Head(wire).n
  /\ received' = 0
  /\ rpc' \in AfterSize(chunk_size')
  /\ UNCHANGED <<message, writer, link, want, closed, got>>

\* Anything else makes a line longer than its buffer.
NoChunkSize ==
  /\ rpc = "line" /\ wire # << >>
  /\ Head(wire).kind \notin {"line", "crlf"}
  /\ chunk_size' = -1
  /\ received' = 0
  /\ rpc' = "error"
  /\ UNCHANGED <<message, writer, wire, link, want, closed, got>>

\* Fault: a chunked read may go past the end of the chunk.
ForcedUnclipped == want

\* The bytes hsocket_recv has to collect before it returns.
Forced == IF mode = "chunked" THEN Smaller(want, chunk_size - received) ELSE want

Deliver(k) ==
  /\ got' = got \o [i \in 1 .. k |-> IF wire[i].kind = "data" THEN wire[i].n ELSE 0]
  /\ wire' = SubSeq(wire, k + 1, Len(wire))
  /\ received' = received + k

\* hsocket_recv with force: all of the bytes.
RecvForced ==
  /\ rpc = "recv" /\ mode \in {"length", "chunked"}
  /\ Len(wire) >= Forced
  /\ Deliver(Forced)
  /\ want' = want - Forced
  /\ rpc' = IF mode = "chunked" THEN Turn(want', chunk_size - received') ELSE "ask"
  /\ UNCHANGED <<message, writer, link, chunk_size, closed>>

\* hsocket_recv without: whatever has arrived.
RecvSome ==
  /\ rpc = "recv" /\ mode = "close" /\ wire # << >>
  /\ \E k \in 1 .. Smaller(want, Len(wire)) : Deliver(k)
  /\ want' = 0
  /\ rpc' = "ask"
  /\ UNCHANGED <<message, writer, link, chunk_size, closed>>

\* Fault: the end of the stream is not remembered.
RecvEndForgotten ==
  /\ rpc = "recv" /\ mode = "close" /\ wire = << >>
  /\ link = "eof" /\ ssl = "none"
  /\ want' = 0
  /\ rpc' = "ask"
  /\ UNCHANGED <<message, writer, wire, link, chunk_size, received, closed, got>>

\* recv() returned 0.
RecvEnd ==
  /\ rpc = "recv" /\ mode = "close" /\ wire = << >>
  /\ link = "eof" /\ ssl = "none"
  /\ closed' = TRUE
  /\ want' = 0
  /\ rpc' = "ask"
  /\ UNCHANGED <<message, writer, wire, link, chunk_size, received, got>>

\* hsocket_recv waits for bytes that have not arrived.
Starved ==
  \/ rpc \in {"skip", "line"} /\ wire = << >>
  \/ rpc = "recv" /\ mode # "file" /\ Len(wire) < (IF mode = "close" THEN 1 ELSE Forced)

(* hsocket_recv does not come back: at the end of a plain stream recv()    *)
(* returns 0, and the force loop repeats for ever; and the SSL_read of a   *)
(* client waits for the peer without the time-out that the server's has.   *)
Stuck ==
  /\ Starved
  /\ \/ link = "eof" /\ ssl = "none" /\ mode # "close"
     \/ link = "up" /\ ssl = "client"

(* The wait times out, recv() reports the reset, or SSL_read reports even  *)
(* an orderly end as an error. The call returns -1; a chunk size that was  *)
(* being read is set to -1 as well.                                        *)
RecvFails ==
  /\ Starved /\ ~Stuck
  /\ ~(link = "eof" /\ ssl = "none")
  /\ rpc' = "error"
  /\ IF rpc = "line" THEN chunk_size' = -1 /\ received' = 0
                     ELSE UNCHANGED <<chunk_size, received>>
  /\ UNCHANGED <<message, writer, wire, link, want, closed, got>>

(* fread: less than what was asked for is the end of the file. A file that  *)
(* cannot be read has no end either: fread returns 0, never -1.            *)
ReadFile ==
  /\ rpc = "recv" /\ mode = "file"
  /\ Deliver(IF link = "disk" THEN Smaller(want, Len(wire)) ELSE 0)
  /\ closed' = (link = "disk" /\ Len(wire) < want)
  /\ want' = 0
  /\ rpc' = "ask"
  /\ UNCHANGED <<message, writer, link, chunk_size>>

DiskFails ==
  /\ link = "disk"
  /\ link' = "bad"
  /\ UNCHANGED <<message, writer, wire, reader>>

Reader ==
  \/ OpenFile \/ ReadFile
  \/ \E size \in ReadSizes : Read(size)
  \/ EndOfStream
  \/ SkipLineEnd \/ ReadChunkSize \/ NoChunkSize
  \/ RecvForced \/ RecvSome \/ RecvEnd \/ RecvFails

Next == Writer \/ Garble \/ NextMessage \/ Close \/ Break \/ DiskFails \/ Reader

Spec == Init /\ [][Next]_vars

(* The reading thread is scheduled and its select returns; nothing makes   *)
(* the writer go on.                                                       *)
FairSpec == Spec /\ WF_vars(Reader)

-----------------------------------------------------------------------------
(*                                Properties                               *)

Tokens == [kind : {"line", "crlf", "data", "next", "overlong"}, n : -2 .. total]

(* Types and ranges; above all no call of hsocket_recv is made for fewer   *)
(* than one byte or for more than the caller's buffer has room for: its    *)
(* count is an int that the library converts to a size_t.                  *)
TypeOK ==
  /\ mode \in {"length", "chunked", "close", "file"} /\ ssl \in {"none", "server", "client"}
  /\ wpc \in {"idle", "body", "crlf", "done", "next", "failed"}
  /\ handed \in 0 .. total
  /\ wire \in Seq(Tokens)
  /\ link \in {"up", "eof", "reset", "disk", "bad", "missing"}
  /\ rpc \in {"ask", "skip", "line", "recv", "complete", "error", "wild"}
  /\ want \in Nat
  /\ chunk_size \in -2 .. total
  /\ received \in -1 .. total
  /\ got \in Seq(0 .. total)
  /\ rpc = "recv" => Forced \in 1 .. want

(* A reader that is done has left the next message of the connection where *)
(* its parser expects it: at once, or, after a chunked body, behind the    *)
(* line end of the last chunk, which hrequest_new_from_socket skips.       *)
NextIntact ==
  rpc = "complete" /\ wpc = "next" /\ link # "reset" =>
    wire = IF mode = "chunked" THEN <<Crlf, NextStart>> ELSE <<NextStart>>

(* The reader does not wait for ever, whenever the writer stops: but for a *)
(* plain connection closed in the middle of a message with a length, for a *)
(* client's SSL connection to a peer that stays silent, and for a file     *)
(* that cannot be read, which is never at its end.                         *)
ReaderEnds ==
  \/ <>(rpc \in {"complete", "error", "wild"})
  \/ <>[](Stuck \/ link = "bad")

-----------------------------------------------------------------------------
Channel == INSTANCE ByteChannel WITH
  framed <- mode # "close" /\ link # "missing",
  delivered <- got,
  verdict <- CASE rpc = "complete"          -> "complete"
               [] rpc \in {"error", "wild"} -> "failed"
               [] OTHER                     -> "open"

\* The streams of either side implement the byte channel.
ImplementsChannel == Channel!ChanSpec

=============================================================================
