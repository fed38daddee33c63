----------------------------- MODULE MimeParser -----------------------------
(***************************************************************************)
(* A multipart/related message read from an http_input_stream_t            *)
(* (nanohttp/nanohttp-mime.c): the reader with its marker, MIME_parse and  *)
(* the callbacks that make a list of parts of it, each with its file.      *)
(*                                                                         *)
(* A message is a sequence of tokens. CR, LF and Dash are single bytes;    *)
(* the other tokens stand for words none of which is a part of another.    *)
(* RootId is the header line that names the root part, Stale any byte the  *)
(* parser finds in its buffer but did not put there.                       *)
(***************************************************************************)
EXTENDS Integers, Sequences, FiniteSets, SequencesExt

CONSTANTS Messages,    \* the bodies peers send
          Words,       \* the tokens that are none of those named below
          Boundary,    \* what MIME_parse looks for after a CR: "\n--boundary"
          ReaderSize,  \* MIME_READER_MAX_BUFFER_SIZE
          BufferSize,  \* MIME_PARSER_BUFFER_SIZE
          Slack,       \* what MIME_buffer_is_full leaves free: 150, which is
                       \* also the size of MIME_parse's array `boundary`
          HeaderSize   \* the size of cbdata->header, 4064

CR == "CR"
LF == "LF"
Dash == "Dash"
RootId == "root"
Stale == "stale"
Token == Words \cup {CR, LF, Dash, RootId, Stale}

(* Of the boundary, which the peer chooses, nothing is assumed but what    *)
(* sprintf puts before it. The buffers of reader and parser have 1054 bytes.*)
ASSUME ParserAssumption ==
  /\ Messages \subseteq Seq(Token)
  /\ Boundary \in Seq(Token) /\ Boundary # << >> /\ Boundary[1] = LF
  /\ Slack \in Nat /\ HeaderSize \in Nat
  /\ ReaderSize \in Nat /\ Slack + 2 < ReaderSize
  /\ BufferSize \in Nat /\ Slack + 1 < BufferSize

VARIABLES
  body,    \* the message
  pos,     \* tokens of it that http_input_stream_read has returned
  reader,  \* MIME_reader; its size is the length of its buffer
  pc,      \* where MIME_parse is, or how it returned
  n,       \* tokens of the boundary that were matched
  ignore,
  buf,     \* MIME_buffer; its size is the length of the sequence
  parts    \* message->parts, the last of which is cbdata->current_part

vars == <<body, pos, reader, pc, n, ignore, buf, parts>>

Reading == {"scan", "match", "delimiter", "return", "dash"}
Failed == {"incomplete", "readError"}

\* Where nothing more is known: an array has overflowed. And a read of the
\* stream that does not come back.
Lost == {"wild", "hangs"}

-----------------------------------------------------------------------------
(* _mime_received_bytes: a scan for the empty line that ends the header of *)
(* the part, which holds back what may become that line; then what is left *)
(* of the bytes goes to the part's file, if it is more than one byte.      *)
EmptyLine == <<CR, LF, CR, LF>>

HeaderByte(scan, b) ==
  IF scan.search = 4 THEN scan
  ELSE IF b = EmptyLine[scan.search + 1]
  THEN [search |-> scan.search + 1, used |-> scan.used + 1,
        header |-> scan.header \o (IF scan.search = 3 THEN <<CR, LF>> ELSE << >>)]
  ELSE [search |-> 0, used |-> scan.used + 1,
        header |-> scan.header \o SubSeq(EmptyLine, 1, scan.search) \o <<b>>]

HeaderScan(part, bytes) ==
  FoldLeft(HeaderByte,
           [search |-> part.search, header |-> part.header, used |-> 0], bytes)

\* Fault: the index of the for loop is not moved on when it breaks.
RestFromBreak(bytes, used) == SubSeq(bytes, Max({used, 1}), Len(bytes))

Rest(bytes, used) ==
  IF used >= Len(bytes) - 1 THEN << >> ELSE SubSeq(bytes, used + 1, Len(bytes))

Received(ps, bytes) ==
  IF ps = << >> THEN ps
  ELSE LET part == Last(ps)
           scan == HeaderScan(part, bytes)
       IN  [ps EXCEPT ![Len(ps)] =
              [part EXCEPT !.raw = part.raw \o bytes,
                           !.search = scan.search,
                           !.header = scan.header,
                           !.written = IF part.file = "open"
                                         THEN part.written \o Rest(bytes, scan.used)
                                         ELSE part.written]]

\* The header array with its '\0' is not checked; where the parser goes on
\* after a callback.
HeaderFits(part) == Len(part.header) + (IF part.search = 4 THEN 1 ELSE 0) <= HeaderSize
Onward(place) == IF \A i \in DOMAIN parts' : HeaderFits(parts'[i]) THEN place ELSE "wild"

\* _mime_part_end closes the file, which brings its bytes to the disk.
PartEnd(ps) ==
  IF ps # << >> /\ Last(ps).file = "open"
    THEN [ps EXCEPT ![Len(ps)].file = "closed"] ELSE ps

\* _mime_part_begin; fopen may fail, and `raw` records what the part is given.
PartBegin(ps, file) ==
  Append(ps, [search |-> 0, header |-> << >>, raw |-> << >>,
              written |-> << >>, file |-> file])

\* At a delimiter: the callbacks are called only if the buffer has something.
EndOfPart == IF buf = << >> THEN parts ELSE PartEnd(Received(parts, buf))

\* Fault: full is what has no room for another byte.
IsFullNoSlack(b) == Len(b) >= BufferSize

\* MIME_buffer_is_full, after which the buffer goes to the callback.
IsFull(b) == Len(b) + Slack >= BufferSize

Pass(b) ==
  /\ buf' = IF IsFull(b) THEN << >> ELSE b
  /\ parts' = IF IsFull(b) THEN Received(parts, b) ELSE parts

-----------------------------------------------------------------------------
(* MIME_reader_read. When the buffer is used up, what is behind the marker *)
(* moves to its front and the stream fills the rest with as much as it has.*)
Init ==
  /\ body \in Messages
  /\ pos = 0
  /\ reader = [buffer |-> << >>, marker |-> 0, current |-> 0]
  /\ pc = "begin" /\ n = 0 /\ ignore = FALSE
  /\ buf = << >> /\ parts = << >>

\* Boundary and start parameter are copied to arrays of 150 and 256 bytes
\* unchecked.
Begin ==
  /\ pc = "begin"
  /\ pc' \in IF Len(Boundary) < Slack THEN {"scan", "wild"} ELSE {"wild"}
  /\ UNCHANGED <<body, pos, reader, n, ignore, buf, parts>>

UsedUp == pc \in Reading /\ reader.current = Len(reader.buffer)
MarkerError == reader.marker = 0 /\ reader.current = ReaderSize - 1

\* Fault: the marker stays where it was when the bytes move.
RefillKeepsMarker ==
  /\ UsedUp /\ ~MarkerError /\ pos < Len(body)
  /\ LET kept == SubSeq(reader.buffer, reader.marker + 1, Len(reader.buffer))
     IN  \E k \in 1 .. ReaderSize - 1 - Len(kept) :
           /\ pos + k <= Len(body)
           /\ pos' = pos + k
           /\ reader' = [buffer |-> kept \o SubSeq(body, pos + 1, pos + k),
                         marker |-> reader.marker, current |-> Len(kept)]
  /\ UNCHANGED <<body, pc, n, ignore, buf, parts>>

Refill ==
  /\ UsedUp /\ ~MarkerError /\ pos < Len(body)
  /\ LET kept == SubSeq(reader.buffer, reader.marker + 1, Len(reader.buffer))
     IN  \E k \in 1 .. ReaderSize - 1 - Len(kept) :
           /\ pos + k <= Len(body)
           /\ pos' = pos + k
           /\ reader' = [buffer |-> kept \o SubSeq(body, pos + 1, pos + k),
                         marker |-> 0, current |-> Len(kept)]
  /\ UNCHANGED <<body, pc, n, ignore, buf, parts>>

\* The stream has no more: http_input_stream_is_ready is false.
Incomplete ==
  /\ UsedUp /\ ~MarkerError /\ pos = Len(body)
  /\ pc' = "incomplete"
  /\ UNCHANGED <<body, pos, reader, n, ignore, buf, parts>>

\* http_input_stream_read returns -1, or the marker has all of the buffer.
ReadError ==
  /\ UsedUp /\ (MarkerError \/ pos < Len(body))
  /\ pc' = "readError"
  /\ UNCHANGED <<body, pos, reader, n, ignore, buf, parts>>

\* Only -1 is an error: any other negative result, of a chunk's size, is
\* taken for a length and given to memcpy.
ReadNegative ==
  /\ UsedUp /\ ~MarkerError /\ pos < Len(body)
  /\ pc' = "wild"
  /\ UNCHANGED <<body, pos, reader, n, ignore, buf, parts>>

\* hsocket_recv spins at the end of a plain connection, and waits for ever
\* for an SSL server that is silent.
ReadHangs ==
  /\ UsedUp /\ ~MarkerError /\ pos < Len(body)
  /\ pc' = "hangs"
  /\ UNCHANGED <<body, pos, reader, n, ignore, buf, parts>>

-----------------------------------------------------------------------------
(* MIME_parse, one action for each thing it does with a byte it has read.  *)
At(place) == pc = place /\ reader.current < Len(reader.buffer)
Byte == reader.buffer[reader.current + 1]

Take == reader' = [reader EXCEPT !.current = @ + 1]

\* The byte is read and the loop goes round: MIME_reader_set_marker.
TakeAndMark ==
  reader' = [reader EXCEPT !.current = @ + 1, !.marker = reader.current + 1]

\* A byte of a part.
ScanByte ==
  /\ At("scan") /\ (Byte # CR \/ ignore)
  /\ TakeAndMark /\ Pass(Append(buf, Byte))
  /\ pc' = Onward("scan") /\ ignore' = FALSE
  /\ UNCHANGED <<body, pos, n>>

\* A CR that may begin a delimiter.
ScanReturn ==
  /\ At("scan") /\ Byte = CR /\ ~ignore
  /\ Take /\ pc' = "match" /\ n' = 0
  /\ UNCHANGED <<body, pos, ignore, buf, parts>>

MatchByte ==
  /\ At("match") /\ Byte = Boundary[n + 1]
  /\ Take /\ n' = n + 1
  /\ pc' = IF n + 1 = Len(Boundary) THEN "delimiter" ELSE "match"
  /\ UNCHANGED <<body, pos, ignore, buf, parts>>

\* The byte after the boundary says whether a part or nothing follows.
AfterBoundary ==
  /\ At("delimiter") /\ Byte \in {CR, Dash}
  /\ Take /\ pc' = IF Byte = CR THEN "return" ELSE "dash"
  /\ UNCHANGED <<body, pos, n, ignore, buf, parts>>

\* Faults: the scan goes on behind the bytes that did not match, or from
\* the CR as if it had not been seen.
BacktrackForward ==
  /\ \/ At("match") /\ Byte # Boundary[n + 1]
     \/ At("delimiter") /\ Byte \notin {CR, Dash}
     \/ At("dash") /\ Byte # Dash
  /\ pc' = "scan" /\ ignore' = TRUE
  /\ UNCHANGED <<body, pos, reader, n, buf, parts>>

BacktrackAgain ==
  /\ \/ At("match") /\ Byte # Boundary[n + 1]
     \/ At("delimiter") /\ Byte \notin {CR, Dash}
     \/ At("dash") /\ Byte # Dash
  /\ reader' = [reader EXCEPT !.current = reader.marker]
  /\ pc' = "scan" /\ ignore' = FALSE
  /\ UNCHANGED <<body, pos, n, buf, parts>>

\* It is no delimiter: back to the CR, which is taken for a byte of the part.
Backtrack ==
  /\ \/ At("match") /\ Byte # Boundary[n + 1]
     \/ At("delimiter") /\ Byte \notin {CR, Dash}
     \/ At("dash") /\ Byte # Dash
  /\ reader' = [reader EXCEPT !.current = reader.marker]
  /\ pc' = "scan" /\ ignore' = TRUE
  /\ UNCHANGED <<body, pos, n, buf, parts>>

NextPart ==
  /\ At("return") /\ Byte = LF
  /\ TakeAndMark
  /\ buf' = << >>
  /\ \E file \in {"open", "none"} : parts' = PartBegin(EndOfPart, file)
  /\ pc' = Onward("scan")
  /\ UNCHANGED <<body, pos, n, ignore>>

(* The boundary and a CR without LF: MIME_buffer_add_bytes writes them to  *)
(* the front of the buffer, whatever is there, and adds to its size.       *)
FalseDelimiter ==
  /\ At("return") /\ Byte # LF
  /\ reader' = [reader EXCEPT !.marker = reader.current]
  /\ LET bytes == <<CR>> \o Boundary \o <<CR>>
         front == bytes \o SubSeq(buf, Len(bytes) + 1, Len(buf))
     IN  Pass([i \in 1 .. Len(buf) + Len(bytes) |->
                 IF i <= Len(front) THEN front[i] ELSE Stale])
  /\ pc' = Onward("scan")
  /\ UNCHANGED <<body, pos, n, ignore>>

Finish ==
  /\ At("dash") /\ Byte = Dash
  /\ Take
  /\ buf' = << >> /\ parts' = EndOfPart
  /\ pc' = Onward("parsed")
  /\ UNCHANGED <<body, pos, n, ignore>>

-----------------------------------------------------------------------------
(* mime_get_attachments: the root part leaves the list, or the message     *)
(* without a root part goes with its files.                                *)
IsRoot(part) == part.search = 4 /\ RootId \in ToSet(part.header)
Roots == {i \in DOMAIN parts : IsRoot(parts[i])}

GetAttachments ==
  /\ pc = "parsed" /\ Roots # {}
  /\ pc' = "done"
  /\ UNCHANGED <<body, pos, reader, n, ignore, buf, parts>>

NoRootPart ==
  /\ pc = "parsed" /\ Roots = {}
  /\ pc' = "noRoot"
  /\ parts' = [i \in DOMAIN parts |-> [parts[i] EXCEPT !.file = "removed"]]
  /\ UNCHANGED <<body, pos, reader, n, ignore, buf>>

Next ==
  \/ Begin
  \/ Refill \/ Incomplete \/ ReadError \/ ReadNegative \/ ReadHangs
  \/ ScanByte \/ ScanReturn \/ MatchByte \/ AfterBoundary \/ Backtrack
  \/ NextPart \/ FalseDelimiter \/ Finish
  \/ GetAttachments \/ NoRootPart

Spec == Init /\ [][Next]_vars /\ WF_vars(Next)

-----------------------------------------------------------------------------
(* Reference: a message is split at its delimiters, which are found by     *)
(* position and not by reading.                                            *)
DelimiterAt(m, i, tail) ==
  LET d == <<CR>> \o Boundary \o tail
  IN  i + Len(d) - 1 <= Len(m) /\ SubSeq(m, i, i + Len(d) - 1) = d

Opens(m) == {i \in DOMAIN m : DelimiterAt(m, i, <<CR, LF>>)}
Closes(m) == {i \in DOMAIN m : DelimiterAt(m, i, <<Dash, Dash>>)}

\* The delimiters do not overlap, and no boundary is followed by a CR that
\* has no LF behind it.
IsClean(m) ==
  /\ \A i \in Opens(m), j \in Opens(m) \cup Closes(m) :
       i < j => i + Len(Boundary) + 3 <= j
  /\ \A i \in DOMAIN m :
       DelimiterAt(m, i, <<CR>>) /\ i + Len(Boundary) + 2 <= Len(m)
         => i \in Opens(m)

\* The parts begin before the first delimiter that closes the message, the
\* k-th at the delimiter with k - 1 before it; a part is what is between its
\* delimiter and the next.
EndOf(m) == IF Closes(m) = {} THEN Len(m) + 1 ELSE Min(Closes(m))
Begins(m) == {i \in Opens(m) : i < EndOf(m)}
UpTo(m, p) == {i \in Begins(m) : i <= p}
Nth(m, k) == CHOOSE i \in Begins(m) : Cardinality(UpTo(m, i)) = k

Split(m) ==
  LET count == Cardinality(Begins(m))
  IN  [k \in 1 .. count |->
         SubSeq(m, Nth(m, k) + Len(Boundary) + 3,
                (IF k < count THEN Nth(m, k + 1) ELSE EndOf(m)) - 1)]

Reference == [m \in Messages |-> Split(m)]
CleanOnes == {m \in Messages : IsClean(m)}
ClosedOnes == {m \in Messages : Closes(m) # {}}

Content == Reference[body]
Clean == body \in CleanOnes
Closed == body \in ClosedOnes

\* Where a header with its empty line ends, and what follows. In a plain
\* header a CR is followed by LF; the scan, which begins anew behind a byte
\* that did not match, may pass over an empty line behind another CR.
HeaderEnds(s) == {i \in 4 .. Len(s) : SubSeq(s, i - 3, i) = EmptyLine}
Data(s) == IF HeaderEnds(s) = {} THEN << >>
           ELSE SubSeq(s, Min(HeaderEnds(s)) + 1, Len(s))

PlainHeader(s) ==
  \A i \in 1 .. Len(s) - 1 :
    s[i] = CR /\ (\A e \in HeaderEnds(s) : i < e) => s[i + 1] = LF

Parsed == pc \in {"parsed", "done", "noRoot"}

-----------------------------------------------------------------------------
(* Every variable has its type, and the reader's marker is at or before the*)
(* next byte, which is in its buffer or just behind it.                    *)
TypeOK ==
  /\ body \in Messages /\ pos \in 0 .. Len(body)
  /\ reader.marker \in 0 .. reader.current
  /\ reader.current \in 0 .. Len(reader.buffer)
  /\ pc \in {"begin"} \cup Reading \cup Failed \cup Lost \cup {"parsed", "done", "noRoot"}
  /\ n \in 0 .. Len(Boundary) /\ ignore \in BOOLEAN
  /\ \A i \in DOMAIN parts :
       /\ parts[i].search \in 0 .. 4
       /\ parts[i].file \in {"open", "closed", "none", "removed"}

(* While MIME_parse reads, that is from a boundary it could copy on, its   *)
(* two buffers are large enough however the message arrives: the reader    *)
(* never gives up because the marker holds all of its buffer, and the      *)
(* buffer of the parser has room for a boundary when one is added to it.   *)
BuffersSuffice ==
  pc \in Reading =>
    /\ ~(UsedUp /\ MarkerError)
    /\ Len(reader.buffer) < ReaderSize
    /\ Len(buf) + Len(Boundary) + 2 <= BufferSize

(* However the reads of the stream cut the message, and wherever a read    *)
(* ends in a half-recognised delimiter, the callbacks are given, part by   *)
(* part, exactly the bytes between the delimiters: a prefix of them while  *)
(* MIME_parse runs, all of them when it returns MIME_PARSER_OK. The parts  *)
(* that MIME_parse began are those of the message before its end. That is  *)
(* so until an array overflows.                                            *)
PartsExact ==
  Clean /\ pc # "wild" =>
    /\ Len(parts) <= Len(Content)
    /\ \A i \in DOMAIN parts : IsPrefix(parts[i].raw, Content[i])
    /\ \A i \in 1 .. Len(parts) - 1 : parts[i].raw = Content[i]
    /\ Parsed => /\ Len(parts) = Len(Content)
                 /\ \A i \in DOMAIN parts : parts[i].raw = Content[i]

(* When the parser has returned, a part's file is still open, its bytes    *)
(* not on the disk, only if the last buffer of the part had been passed on *)
(* when the delimiter came.                                                *)
OpenOnlyIfFull(part) ==
  Parsed /\ part.file = "open" => Len(part.raw) % (BufferSize - Slack) = 0

(* A part's file holds the data behind its header, whole and in order, but *)
(* for one byte at either end: the first one where the header ended just   *)
(* before the end of a buffer, the last one where it was alone in the last *)
(* buffer of the part. It is closed in the end.                            *)
FilesInOrder ==
  Clean /\ pc # "wild" => \A i \in DOMAIN parts :
    LET part == parts[i]
        data == Data(part.raw)
    IN  /\ OpenOnlyIfFull(part)
        /\ PlainHeader(part.raw) /\ part.file \in {"open", "closed"} =>
             \E first \in 0 .. 1, last \in 0 .. 1 :
               part.written = SubSeq(data, first + 1, Len(data) - last)

(* mime_get_attachments comes back, with parts or with an error, for every *)
(* message and every way it arrives, unless a read of the stream does not, *)
(* or an array overflows: the parser never goes round for ever by itself.  *)
ParserEnds == <>(pc \in Failed \cup Lost \cup {"done", "noRoot"})

(* "Write remaining bytes into the file" (nanohttp-mime.c:803): a part     *)
(* whose file was opened and closed has its data in it.                    *)
RemainingWritten ==
  Parsed /\ Clean => \A i \in DOMAIN parts :
    parts[i].file = "closed" /\ parts[i].search = 4
      => parts[i].written = Data(parts[i].raw)
=============================================================================
