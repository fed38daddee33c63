-------------------------- MODULE MimeParserProofs --------------------------
(* Theorems about MimeParser: that the fixed sizes of its reader and parser*)
(* are enough for every boundary the code admits, and that what the parts  *)
(* are given is what stands between the delimiters, for every message and  *)
(* every way it is cut.                                                    *)
EXTENDS MimeParser, SequenceLemmas, FiniteSetTheorems

(* What the reader has to keep, from the marker on, is what MIME_parse has *)
(* seen of a delimiter; outside of one it is nothing.                      *)
Lookahead ==
  /\ pc \in {"begin", "scan"} => reader.current = reader.marker
  /\ pc = "match" => n < Len(Boundary) /\ reader.current = reader.marker + 1 + n
  /\ pc = "delimiter" => reader.current = reader.marker + 1 + Len(Boundary)
  /\ pc \in {"return", "dash"} =>
       reader.current = reader.marker + 2 + Len(Boundary)

ReaderInv ==
  /\ reader \in [buffer : Seq(Token), marker : Nat, current : Nat]
  /\ reader.marker <= reader.current
  /\ reader.current <= Len(reader.buffer)
  /\ Len(reader.buffer) < ReaderSize

ParserInv ==
  /\ body \in Seq(Token) /\ pos \in 0 .. Len(body)
  /\ pc \in {"begin"} \cup Reading \cup Failed \cup Lost \cup {"parsed", "done", "noRoot"}
  /\ pc \in Reading => Len(Boundary) < Slack
  /\ n \in 0 .. Len(Boundary)
  /\ buf \in Seq(Token) /\ Len(buf) + Slack < BufferSize

IInv == ReaderInv /\ ParserInv /\ Lookahead

-----------------------------------------------------------------------------
LEMMA OnwardOrWild == ASSUME NEW place PROVE Onward(place) \in {place, "wild"}
BY DEF Onward

LEMMA BeginStep == ASSUME IInv, Begin PROVE IInv'
<1>1. UNCHANGED <<body, pos, reader, n, buf>> /\ pc = "begin"
  BY DEF Begin
<1>2. pc' \in {"scan", "wild"} /\ (pc' = "scan" => Len(Boundary) < Slack)
  BY DEF Begin
<1>3. ReaderInv'
  BY <1>1 DEF IInv, ReaderInv
<1>4. ParserInv'
  BY <1>1, <1>2 DEF IInv, ParserInv, Reading, Lost
<1>5. Lookahead'
  BY <1>1, <1>2 DEF IInv, Lookahead
<1>. QED
  BY <1>3, <1>4, <1>5 DEF IInv

LEMMA Piece ==
  ASSUME NEW S, NEW s \in Seq(S), NEW i \in Nat, NEW k \in Nat, i + k <= Len(s)
  PROVE  /\ SubSeq(s, i + 1, i + k) \in Seq(S)
         /\ Len(SubSeq(s, i + 1, i + k)) = k
<1>1. \A j \in i + 1 .. i + k : s[j] \in S
  OBVIOUS
<1>2. i + 1 \in Int /\ i + k \in Int
  OBVIOUS
<1>3. Len(SubSeq(s, i + 1, i + k)) = IF i + 1 <= i + k THEN i + k - (i + 1) + 1 ELSE 0
  BY <1>1, <1>2, SubSeqProperties
<1>4. SubSeq(s, i + 1, i + k) \in Seq(S)
  BY <1>1, <1>2, SubSeqProperties
<1>5. QED
  BY <1>3, <1>4

(* What is behind the marker and what the stream adds fit the buffer.      *)
LEMMA RefillStep == ASSUME IInv, Refill PROVE IInv'
<1> DEFINE kept == SubSeq(reader.buffer, reader.marker + 1, Len(reader.buffer))
<1>1. /\ kept \in Seq(Token)
      /\ Len(kept) = reader.current - reader.marker
      /\ Len(kept) \in Nat
  <2>1. /\ reader.marker \in Nat /\ reader.current - reader.marker \in Nat
        /\ reader.marker + (reader.current - reader.marker) = Len(reader.buffer)
        /\ reader.buffer \in Seq(Token)
    <3>1. reader.current = Len(reader.buffer)
      BY DEF Refill, UsedUp
    <3>2. QED
      BY <3>1 DEF IInv, ReaderInv
  <2>2. QED
    BY <2>1, Piece
<1>2. PICK k \in 1 .. ReaderSize - 1 - Len(kept) :
        /\ pos + k <= Len(body)
        /\ pos' = pos + k
        /\ reader' = [buffer |-> kept \o SubSeq(body, pos + 1, pos + k),
                      marker |-> 0, current |-> Len(kept)]
  BY DEF Refill
<1> DEFINE more == SubSeq(body, pos + 1, pos + k)
<1>3. more \in Seq(Token) /\ Len(more) = k
  <2>1. body \in Seq(Token) /\ pos \in Nat /\ k \in Nat /\ pos + k <= Len(body)
    BY <1>1, <1>2, ParserAssumption DEF IInv, ParserInv
  <2>2. QED
    BY <2>1, Piece
<1>4. kept \o more \in Seq(Token) /\ Len(kept \o more) = Len(kept) + k
  BY <1>1, <1>3
<1> HIDE DEF kept, more
<1>5. ReaderInv'
  BY <1>1, <1>2, <1>4, ParserAssumption, SMTT(30) DEF ReaderInv, more
<1>6. ParserInv'
  BY <1>2, <1>1, ParserAssumption DEF IInv, ParserInv, Refill
<1>7. Lookahead'
  <2>1. reader'.current = reader.current - reader.marker /\ reader'.marker = 0
    BY <1>1, <1>2
  <2>2. /\ reader'.current \in Nat /\ reader'.marker \in Nat
        /\ reader.current \in Nat /\ reader.marker \in Nat
    BY <1>5 DEF IInv, ReaderInv
  <2>3. Len(Boundary) \in Nat /\ n \in Nat
    BY ParserAssumption DEF IInv, ParserInv
  <2>4. pc' = pc /\ n' = n
    BY DEF Refill
  <2>5. Lookahead
    BY DEF IInv
  <2>6. CASE pc \in {"begin", "scan"}
    BY <2>1, <2>2, <2>4, <2>5, <2>6 DEF Lookahead
  <2>7. CASE pc = "match"
    BY <2>1, <2>2, <2>3, <2>4, <2>5, <2>7 DEF Lookahead
  <2>8. CASE pc \notin {"begin", "scan", "match"}
    BY <2>1, <2>2, <2>3, <2>4, <2>5, <2>8 DEF Lookahead
  <2>9. QED
    BY <2>6, <2>7, <2>8
<1>8. QED
  BY <1>5, <1>6, <1>7 DEF IInv

(* Pass leaves a buffer that is not full.                                  *)
LEMMA PassLeavesRoom ==
  ASSUME NEW b \in Seq(Token), Pass(b)
  PROVE  buf' \in Seq(Token) /\ Len(buf') + Slack < BufferSize
<1>1. CASE IsFull(b)
  <2>1. buf' = << >>
    BY <1>1 DEF Pass
  <2>2. QED
    BY <2>1, ParserAssumption
<1>2. CASE ~IsFull(b)
  <2>1. buf' = b
    BY <1>2 DEF Pass
  <2>2. QED
    BY <2>1, <1>2, ParserAssumption DEF IsFull
<1>3. QED
  BY <1>1, <1>2

LEMMA ByteInBuffer ==
  ASSUME IInv, reader.current < Len(reader.buffer)
  PROVE  Byte \in Token
BY DEF IInv, ReaderInv, Byte

LEMMA TakeAndMarkStep ==
  ASSUME ReaderInv, reader.current < Len(reader.buffer), TakeAndMark
  PROVE  ReaderInv' /\ reader'.current = reader'.marker
<1>1. /\ reader \in [buffer : Seq(Token), marker : Nat, current : Nat]
      /\ Len(reader.buffer) \in Nat
  BY DEF ReaderInv
<1>2. /\ reader'.buffer = reader.buffer
      /\ reader'.current = reader.current + 1
      /\ reader'.marker = reader.current + 1
  BY <1>1 DEF TakeAndMark
<1>3. reader' \in [buffer : Seq(Token), marker : Nat, current : Nat]
  <2>1. reader.current + 1 \in Nat /\ reader.buffer \in Seq(Token)
    BY <1>1
  <2>2. reader' = [buffer |-> reader.buffer, marker |-> reader.current + 1,
                   current |-> reader.current + 1]
    BY <1>1 DEF TakeAndMark
  <2>3. QED
    BY <2>1, <2>2
<1>4. QED
  BY <1>1, <1>2, <1>3 DEF ReaderInv

LEMMA ScanByteStep == ASSUME IInv, ScanByte PROVE IInv'
<1>1. Append(buf, Byte) \in Seq(Token)
  BY ByteInBuffer DEF IInv, ParserInv, ScanByte, At
<1>2. buf' \in Seq(Token) /\ Len(buf') + Slack < BufferSize
  BY <1>1, PassLeavesRoom DEF ScanByte
<1>3. QED
  <2>1. ReaderInv' /\ reader'.current = reader'.marker
    BY TakeAndMarkStep DEF IInv, ScanByte, At
  <2>4. pc = "scan" /\ pc' \in {"scan", "wild"}
    BY OnwardOrWild DEF ScanByte, At
  <2>2. ParserInv'
    BY <1>2, <2>4 DEF IInv, ParserInv, ScanByte, Reading, Lost
  <2>3. QED
    BY <2>1, <2>2, <2>4 DEF IInv, Lookahead

LEMMA MatchSteps ==
  ASSUME IInv, ScanReturn \/ MatchByte \/ AfterBoundary
  PROVE  IInv'
<1>1. CASE ScanReturn
  <2>1. ReaderInv'
    BY <1>1 DEF IInv, ReaderInv, ScanReturn, Take, At
  <2>2. ParserInv'
    BY <1>1, ParserAssumption
    DEF IInv, ReaderInv, ParserInv, Lookahead, ScanReturn, Reading, At
  <2>3. Lookahead'
    BY <1>1, ParserAssumption, SMTT(30)
    DEF IInv, ReaderInv, ParserInv, Lookahead, ScanReturn, Take, At
  <2>4. QED
    BY <2>1, <2>2, <2>3 DEF IInv
<1>2. CASE MatchByte
  <2>1. ReaderInv'
    BY <1>2 DEF IInv, ReaderInv, MatchByte, Take, At
  <2>2. ParserInv'
    BY <1>2, ParserAssumption
    DEF IInv, ReaderInv, ParserInv, Lookahead, MatchByte, Reading, At
  <2>3. Lookahead'
    <3>1. /\ reader'.current = reader.current + 1 /\ reader'.marker = reader.marker
          /\ reader.current \in Nat /\ reader.marker \in Nat
      BY <1>2 DEF IInv, ReaderInv, MatchByte, Take
    <3>2. /\ n < Len(Boundary) /\ reader.current = reader.marker + 1 + n
          /\ n \in Nat /\ Len(Boundary) \in Nat
      BY <1>2, ParserAssumption DEF IInv, ParserInv, Lookahead, MatchByte, At
    <3>3. /\ n' = n + 1
          /\ pc' = IF n + 1 = Len(Boundary) THEN "delimiter" ELSE "match"
      BY <1>2 DEF MatchByte
    <3>4. QED
      BY <3>1, <3>2, <3>3, SMTT(30) DEF Lookahead
  <2>4. QED
    BY <2>1, <2>2, <2>3 DEF IInv
<1>3. CASE AfterBoundary
  <2>1. ReaderInv'
    BY <1>3 DEF IInv, ReaderInv, AfterBoundary, Take, At
  <2>2. ParserInv'
    BY <1>3, ParserAssumption
    DEF IInv, ReaderInv, ParserInv, Lookahead, AfterBoundary, Reading, At
  <2>3. Lookahead'
    BY <1>3, ParserAssumption, SMTT(30)
    DEF IInv, ReaderInv, ParserInv, Lookahead, AfterBoundary, Take, At
  <2>4. QED
    BY <2>1, <2>2, <2>3 DEF IInv
<1>4. QED
  BY <1>1, <1>2, <1>3

LEMMA BacktrackStep == ASSUME IInv, Backtrack PROVE IInv'
<1>1. /\ pc \in Reading /\ pc' = "scan" /\ UNCHANGED <<body, pos, n, buf>>
      /\ reader' = [reader EXCEPT !.current = reader.marker]
  BY DEF Backtrack, At, Reading
<1>2. ReaderInv' /\ Lookahead'
  BY <1>1 DEF IInv, ReaderInv, Lookahead
<1>3. ParserInv'
  BY <1>1 DEF IInv, ParserInv, Reading
<1>. QED
  BY <1>2, <1>3 DEF IInv

LEMMA NextPartStep == ASSUME IInv, NextPart PROVE IInv'
<1>1. ReaderInv' /\ reader'.current = reader'.marker
  BY TakeAndMarkStep DEF IInv, NextPart, At
<1>2. pc = "return" /\ pc' \in {"scan", "wild"}
  BY OnwardOrWild DEF NextPart, At
<1>3. buf' = << >> /\ UNCHANGED <<body, pos, n>>
  BY DEF NextPart
<1>4. ParserInv'
  BY <1>2, <1>3, ParserAssumption DEF IInv, ParserInv, Reading, Lost
<1>5. QED
  BY <1>1, <1>2, <1>4 DEF IInv, Lookahead

(* The buffer with a boundary written over its front is a sequence of its  *)
(* length and the boundary's.                                              *)
LEMMA FalseDelimiterBytes ==
  ASSUME IInv, FalseDelimiter
  PROVE  \E b \in Seq(Token) : Pass(b)
<1> DEFINE bytes == <<CR>> \o Boundary \o <<CR>>
           front == bytes \o SubSeq(buf, Len(bytes) + 1, Len(buf))
           b == [i \in 1 .. Len(buf) + Len(bytes) |->
                   IF i <= Len(front) THEN front[i] ELSE Stale]
<1>1. bytes \in Seq(Token) /\ Len(bytes) \in Nat
  <2>1. <<CR>> \in Seq(Token)
    BY DEF CR, Token
  <2>2. QED
    BY <2>1, ParserAssumption, ConcatProperties
<1>2. SubSeq(buf, Len(bytes) + 1, Len(buf)) \in Seq(Token)
  BY <1>1 DEF IInv, ParserInv
<1> HIDE DEF bytes
<1>3. front \in Seq(Token)
  BY <1>1, <1>2
<1> HIDE DEF front
<1>4. \A i \in 1 .. Len(front) : front[i] \in Token
  BY <1>3
<1>5. b \in [1 .. Len(buf) + Len(bytes) -> Token]
  <2>1. Stale \in Token
    BY DEF Stale, Token
  <2>2. Len(front) \in Nat
    BY <1>3
  <2>3. \A i \in 1 .. Len(buf) + Len(bytes) :
          (IF i <= Len(front) THEN front[i] ELSE Stale) \in Token
    BY <1>4, <2>1, <2>2 DEF IInv, ParserInv
  <2>4. QED
    BY <2>3
<1>6. Len(buf) + Len(bytes) \in Nat
  BY <1>1 DEF IInv, ParserInv
<1>7. b \in Seq(Token)
  BY <1>5, <1>6
<1>8. Pass(b)
  BY DEF FalseDelimiter, bytes, front
<1> HIDE DEF b
<1>9. QED
  BY <1>7, <1>8

LEMMA FalseDelimiterStep == ASSUME IInv, FalseDelimiter PROVE IInv'
<1>1. buf' \in Seq(Token) /\ Len(buf') + Slack < BufferSize
  BY FalseDelimiterBytes, PassLeavesRoom
<1>2. pc = "return" /\ pc' \in {"scan", "wild"}
  BY OnwardOrWild DEF FalseDelimiter, At
<1>3. UNCHANGED <<body, pos, n>> /\ reader' = [reader EXCEPT !.marker = reader.current]
  BY DEF FalseDelimiter
<1>4. ReaderInv' /\ Lookahead'
  BY <1>2, <1>3 DEF IInv, ReaderInv, Lookahead
<1>5. ParserInv'
  BY <1>1, <1>2, <1>3 DEF IInv, ParserInv, Reading, Lost
<1>6. QED
  BY <1>4, <1>5 DEF IInv

LEMMA ReturnSteps ==
  ASSUME IInv, Incomplete \/ ReadError \/ ReadNegative \/ ReadHangs
               \/ GetAttachments \/ NoRootPart
  PROVE  IInv'
<1>1. UNCHANGED <<body, pos, reader, n, buf>>
  BY DEF Incomplete, ReadError, ReadNegative, ReadHangs, GetAttachments, NoRootPart
<1>2. pc' \in Failed \cup Lost \cup {"done", "noRoot"}
  BY DEF Incomplete, ReadError, ReadNegative, ReadHangs, GetAttachments, NoRootPart, Failed, Lost
<1>. QED
  BY <1>1, <1>2 DEF IInv, ReaderInv, ParserInv, Lookahead, Reading, Failed, Lost

LEMMA FinishStep == ASSUME IInv, Finish PROVE IInv'
<1>1. pc = "dash" /\ pc' \in {"parsed", "wild"} /\ reader.current < Len(reader.buffer)
  BY OnwardOrWild DEF Finish, At
<1>2. UNCHANGED <<body, pos, n>> /\ buf' = << >> /\ Take
  BY DEF Finish
<1>3. ReaderInv' /\ Lookahead'
  BY <1>1, <1>2 DEF IInv, ReaderInv, Lookahead, Take
<1>4. ParserInv'
  BY <1>1, <1>2, ParserAssumption DEF IInv, ParserInv, Reading, Lost
<1>5. QED
  BY <1>3, <1>4 DEF IInv

-----------------------------------------------------------------------------
(* The invariant: the marker trails the reader by what has been seen of a  *)
(* delimiter, and the parser's buffer is never full between two bytes.     *)
THEOREM Invariance == Spec => []IInv
<1>1. Init => IInv
  <2> SUFFICES ASSUME Init PROVE IInv
    OBVIOUS
  <2>1. ReaderInv
    BY ParserAssumption DEF Init, ReaderInv
  <2>2. ParserInv
    BY ParserAssumption DEF Init, ParserInv, Reading
  <2>3. Lookahead
    BY DEF Init, Lookahead
  <2>4. QED
    BY <2>1, <2>2, <2>3 DEF IInv
<1>2. IInv /\ [Next]_vars => IInv'
  <2> SUFFICES ASSUME IInv, [Next]_vars PROVE IInv'
    OBVIOUS
  <2>1. CASE UNCHANGED vars
    BY <2>1 DEF IInv, ReaderInv, ParserInv, Lookahead, vars
  <2>2. CASE Next
    BY <2>2, BeginStep, RefillStep, ScanByteStep, MatchSteps, BacktrackStep, NextPartStep,
       FalseDelimiterStep, FinishStep, ReturnSteps DEF Next
  <2>3. QED
    BY <2>1, <2>2
<1>3. QED
  BY <1>1, <1>2, PTL DEF Spec

(* Whatever boundary the peer chose, once MIME_parse has copied it to its  *)
(* array without overflow, and whatever the message and its cuts: the      *)
(* reader's marker error is never reached, and the buffers of reader and   *)
(* parser hold what is put into them.                                      *)
THEOREM SizesSuffice == Spec => []BuffersSuffice
<1>1. IInv => BuffersSuffice
  <2> SUFFICES ASSUME IInv, pc \in Reading
               PROVE  /\ ~(UsedUp /\ MarkerError)
                      /\ Len(reader.buffer) < ReaderSize
                      /\ Len(buf) + Len(Boundary) + 2 <= BufferSize
    BY DEF BuffersSuffice
  <2>0. Len(Boundary) < Slack /\ Len(Boundary) \in Nat
    BY ParserAssumption DEF IInv, ParserInv
  <2>1. ASSUME UsedUp, MarkerError PROVE FALSE
    BY <2>0, <2>1, ParserAssumption
    DEF IInv, ReaderInv, ParserInv, Lookahead, UsedUp, MarkerError, Reading
  <2>2. Len(reader.buffer) < ReaderSize
    BY DEF IInv, ReaderInv
  <2>3. Len(buf) + Len(Boundary) + 2 <= BufferSize
    BY <2>0, ParserAssumption DEF IInv, ParserInv
  <2>4. QED
    BY <2>1, <2>2, <2>3
<1>2. QED
  BY <1>1, Invariance, PTL

-----------------------------------------------------------------------------
(* What the scan for the empty line has seen keeps its type, whatever the  *)
(* bytes: the fold of HeaderScan, which the library defines by recursion   *)
(* on sets of indices, exists, and a least set on which it had another     *)
(* type would have a smaller one.                                          *)
Scan == [search : 0 .. 4, header : Seq(Token), used : Nat]

LEMMA LeastNumber ==
  ASSUME NEW T, T \subseteq Nat, T # {}
  PROVE  Min(T) \in T /\ \A y \in T : Min(T) <= y
<1>1. \E x \in T : \A y \in T : x <= y
  BY SomeLeast
<1>. QED
  BY <1>1 DEF Min

LEMMA GreatestNumber ==
  ASSUME NEW k \in Nat, NEW T, T \subseteq 0 .. k, T # {}
  PROVE  Max(T) \in T /\ \A y \in T : y <= Max(T)
<1>. DEFINE U == {j \in 0 .. k : k - j \in T}
<1>1. U \subseteq Nat
  OBVIOUS
<1>2. U # {}
  <2>1. PICK x : x \in T
    OBVIOUS
  <2>2. x \in 0 .. k /\ k - x \in 0 .. k /\ k - (k - x) = x
    BY <2>1
  <2>. QED
    BY <2>1, <2>2
<1>3. Min(U) \in U /\ \A j \in U : Min(U) <= j
  <2>. HIDE DEF U
  <2>. QED
    BY <1>1, <1>2, LeastNumber
<1>4. PICK m : m \in U /\ \A j \in U : m <= j
  BY <1>3
<1>5. k - m \in T /\ m \in 0 .. k
  BY <1>4
<1>6. ASSUME NEW y \in T PROVE k - m >= y
  <2>1. y \in 0 .. k /\ k - y \in 0 .. k /\ k - (k - y) = y
    OBVIOUS
  <2>2. k - y \in U
    BY <2>1
  <2>. QED
    BY <1>4, <1>5, <2>1, <2>2
<1>7. Max(T) \in T /\ \A y \in T : Max(T) >= y
  BY <1>5, <1>6 DEF Max
<1>. QED
  <2>1. \A y \in T : y \in Int
    OBVIOUS
  <2>. QED
    BY <1>7, <2>1

LEMMA EmptyLineFacts ==
  /\ EmptyLine \in Seq(Token) /\ Len(EmptyLine) = 4
  /\ \A i \in 1 .. 4 : EmptyLine[i] \in {CR, LF}
  /\ CR \in Token /\ LF \in Token
BY DEF EmptyLine, CR, LF, Token

LEMMA HeaderByteType ==
  ASSUME NEW scan \in Scan, NEW b \in Token
  PROVE  HeaderByte(scan, b) \in Scan
<1>1. /\ scan.search \in 0 .. 4 /\ scan.header \in Seq(Token) /\ scan.used \in Nat
  BY DEF Scan
<1>2. SubSeq(EmptyLine, 1, scan.search) \in Seq(Token)
  <2>1. 0 + scan.search <= Len(EmptyLine) /\ scan.search \in Nat
    BY <1>1, EmptyLineFacts
  <2>. QED
    BY <2>1, Piece, EmptyLineFacts
<1>3. <<CR, LF>> \in Seq(Token) /\ << >> \in Seq(Token) /\ <<b>> \in Seq(Token)
  BY EmptyLineFacts
<1>4. scan.header \o (IF scan.search = 3 THEN <<CR, LF>> ELSE << >>) \in Seq(Token)
  BY <1>1, <1>3
<1>5. scan.header \o SubSeq(EmptyLine, 1, scan.search) \o <<b>> \in Seq(Token)
  BY <1>1, <1>2, <1>3
<1>. QED
  BY <1>1, <1>4, <1>5 DEF HeaderByte, Scan

Indices(bytes, k) == {s \in SUBSET DOMAIN bytes : Cardinality(s) <= k}

NextScan(f, base, bytes, s) ==
  IF s = {} THEN base ELSE HeaderByte(f[s \ {Max(s)}], bytes[Max(s)])

IndexScan(f, base, bytes, k) ==
  f = [s \in Indices(bytes, k) |-> NextScan(f, base, bytes, s)]

LEMMA IndexFacts ==
  ASSUME NEW bytes \in Seq(Token), NEW s \in SUBSET DOMAIN bytes
  PROVE  /\ IsFiniteSet(s) /\ Cardinality(s) \in Nat /\ Cardinality(s) <= Len(bytes)
         /\ (s = {} <=> Cardinality(s) = 0)
         /\ s # {} => /\ Max(s) \in s /\ bytes[Max(s)] \in Token
                      /\ s \ {Max(s)} \in SUBSET DOMAIN bytes
                      /\ Cardinality(s \ {Max(s)}) = Cardinality(s) - 1
<1>1. PICK k \in Nat : k = Len(bytes) /\ DOMAIN bytes = 1 .. k
  OBVIOUS
<1>2. IsFiniteSet(1 .. k) /\ Cardinality(1 .. k) = k
  <2>1. 1 \in Int /\ k \in Int
    OBVIOUS
  <2>. QED
    BY <2>1, FS_Interval
<1>3. IsFiniteSet(s) /\ Cardinality(s) <= k
  BY <1>1, <1>2, FS_Subset
<1>4. Cardinality(s) \in Nat
  BY <1>3, FS_CardinalityType
<1>5. s = {} <=> Cardinality(s) = 0
  BY <1>3, FS_EmptySet
<1>6. ASSUME s # {} PROVE Max(s) \in s
  <2>1. s \subseteq 0 .. k
    BY <1>1
  <2>. QED
    BY <1>6, <2>1, GreatestNumber
<1>7. \A i \in s : bytes[i] \in Token
  OBVIOUS
<1>8. s # {} => Cardinality(s \ {Max(s)}) = Cardinality(s) - 1
  BY <1>3, <1>6, FS_RemoveElement
<1>. QED
  BY <1>1, <1>3, <1>4, <1>5, <1>6, <1>7, <1>8

LEMMA IndexScanExists ==
  ASSUME NEW bytes \in Seq(Token), NEW base, NEW k \in 0 .. Len(bytes)
  PROVE  \E f : IndexScan(f, base, bytes, k)
<1>. DEFINE Without == {j \in 0 .. Len(bytes) : ~ \E f : IndexScan(f, base, bytes, j)}
<1>. SUFFICES ASSUME Without # {} PROVE FALSE
  OBVIOUS
<1>1. PICK j \in Without : \A l \in Without : j <= l
  <2>1. Without \subseteq Nat
    OBVIOUS
  <2>. HIDE DEF Without
  <2>. QED
    BY <2>1, LeastNumber
<1>2. j \in 0 .. Len(bytes) /\ ~ \E f : IndexScan(f, base, bytes, j)
  OBVIOUS
<1>. HIDE DEF Without
<1>3. CASE j = 0
  <2>. DEFINE f == [s \in Indices(bytes, 0) |-> base]
  <2>1. ASSUME NEW s \in Indices(bytes, 0) PROVE s = {}
    <3>1. s \in SUBSET DOMAIN bytes /\ Cardinality(s) <= 0
      BY DEF Indices
    <3>2. (s = {} <=> Cardinality(s) = 0) /\ Cardinality(s) \in Nat
      BY <3>1, IndexFacts
    <3>. QED
      BY <3>1, <3>2
  <2>2. \A s \in Indices(bytes, 0) : NextScan(f, base, bytes, s) = base
    BY <2>1 DEF NextScan
  <2>3. IndexScan(f, base, bytes, 0)
    BY <2>2 DEF IndexScan
  <2>. QED
    BY <1>2, <1>3, <2>3
<1>4. CASE j > 0
  <2>1. j - 1 \in 0 .. Len(bytes) /\ ~(j <= j - 1)
    BY <1>2, <1>4
  <2>2. PICK f : IndexScan(f, base, bytes, j - 1)
    BY <1>1, <2>1 DEF Without
  <2>. DEFINE h == [s \in Indices(bytes, j) |-> NextScan(f, base, bytes, s)]
  <2>3. \A s \in Indices(bytes, j - 1) : f[s] = NextScan(f, base, bytes, s)
    BY <2>2 DEF IndexScan
  <2>4. Indices(bytes, j - 1) \subseteq Indices(bytes, j)
    <3>1. ASSUME NEW s \in Indices(bytes, j - 1) PROVE s \in Indices(bytes, j)
      <4>1. s \in SUBSET DOMAIN bytes /\ Cardinality(s) <= j - 1
        BY DEF Indices
      <4>2. Cardinality(s) \in Nat
        BY <4>1, IndexFacts
      <4>. QED
        BY <1>2, <4>1, <4>2 DEF Indices
    <3>. QED
      BY <3>1
  <2>5. \A s \in Indices(bytes, j - 1) : h[s] = f[s]
    BY <2>3, <2>4
  <2>6. ASSUME NEW s \in Indices(bytes, j), s # {}
        PROVE  s \ {Max(s)} \in Indices(bytes, j - 1)
    <3>1. s \in SUBSET DOMAIN bytes /\ Cardinality(s) <= j
      BY DEF Indices
    <3>2. /\ s \ {Max(s)} \in SUBSET DOMAIN bytes
          /\ Cardinality(s \ {Max(s)}) = Cardinality(s) - 1
          /\ Cardinality(s) \in Nat
      BY <2>6, <3>1, IndexFacts
    <3>. QED
      BY <1>2, <3>1, <3>2 DEF Indices
  <2>. HIDE DEF h
  <2>7. \A s \in Indices(bytes, j) : NextScan(h, base, bytes, s) = NextScan(f, base, bytes, s)
    BY <2>5, <2>6 DEF NextScan
  <2>8. IndexScan(h, base, bytes, j)
    BY <2>7 DEF IndexScan, h
  <2>. QED
    BY <1>2, <2>8
<1>. QED
  BY <1>2, <1>3, <1>4

(* The fold goes through the bytes one by one.                             *)
LEMMA ScanFunction ==
  ASSUME NEW part, part.search \in 0 .. 4, part.header \in Seq(Token),
         NEW bytes \in Seq(Token)
  PROVE  \E g :
           /\ g[0] = [search |-> part.search, header |-> part.header, used |-> 0]
           /\ \A k \in 1 .. Len(bytes) : g[k] = HeaderByte(g[k - 1], bytes[k])
           /\ \A k \in 0 .. Len(bytes) : g[k] \in Scan
           /\ HeaderScan(part, bytes) = g[Len(bytes)]
<1>. DEFINE base == [search |-> part.search, header |-> part.header, used |-> 0]
            D == DOMAIN bytes
            F(h) == [s \in SUBSET D |->
                       IF s = {} THEN base
                       ELSE HeaderByte(h[s \ {Max(s)}], bytes[Max(s)])]
            f == CHOOSE h : h = F(h)
            g == [k \in 0 .. Len(bytes) |-> f[1 .. k]]
<1>1. base \in Scan
  BY DEF Scan
<1>2. Len(bytes) \in 0 .. Len(bytes) /\ Len(bytes) \in Nat /\ D = 1 .. Len(bytes)
  OBVIOUS
<1>3. Indices(bytes, Len(bytes)) = SUBSET D
  <2>1. ASSUME NEW s \in SUBSET D PROVE Cardinality(s) <= Len(bytes)
    BY IndexFacts
  <2>. QED
    BY <2>1 DEF Indices
<1>4. PICK h : IndexScan(h, base, bytes, Len(bytes))
  BY <1>2, IndexScanExists
<1>5. h = F(h)
  BY <1>3, <1>4 DEF IndexScan, NextScan
<1>6. f = F(f)
  BY <1>5
<1>7. HeaderScan(part, bytes) = f[D]
  BY DEF HeaderScan, FoldLeft, MapThenFoldSet
<1>. HIDE DEF f, base
<1>8. \A k \in 0 .. Len(bytes) : g[k] = f[1 .. k]
  OBVIOUS
<1>. HIDE DEF g
<1>9. g[0] = base
  <2>1. 1 .. 0 = {} /\ {} \in SUBSET D /\ 0 \in 0 .. Len(bytes)
    BY <1>2
  <2>. QED
    BY <1>6, <1>8, <2>1
<1>10. ASSUME NEW k \in 1 .. Len(bytes)
       PROVE  g[k] = HeaderByte(g[k - 1], bytes[k])
  <2>1. /\ 1 .. k \in SUBSET D /\ 1 .. k # {} /\ k \in Nat /\ k - 1 \in 0 .. Len(bytes)
        /\ k \in 0 .. Len(bytes) /\ 1 .. k \subseteq 0 .. k /\ k \in 1 .. k
    <3>1. PICK l \in Nat : l = Len(bytes) /\ D = 1 .. l
      BY <1>2
    <3>2. k \in 1 .. l
      BY <3>1
    <3>3. k \in Nat /\ k - 1 \in 0 .. l /\ k \in 0 .. l /\ k \in 1 .. k
      BY <3>2
    <3>4. 1 .. k \subseteq 1 .. l /\ 1 .. k \subseteq 0 .. k
      BY <3>2
    <3>. QED
      BY <3>1, <3>3, <3>4
  <2>2. Max(1 .. k) \in 1 .. k /\ \A y \in 1 .. k : y <= Max(1 .. k)
    <3>. DEFINE I == 1 .. k
    <3>1. I \subseteq 0 .. k /\ I # {}
      BY <2>1
    <3>. HIDE DEF I
    <3>2. Max(I) \in I /\ \A y \in I : y <= Max(I)
      BY <2>1, <3>1, GreatestNumber
    <3>. QED
      BY <3>2 DEF I
  <2>3. Max(1 .. k) = k /\ (1 .. k) \ {k} = 1 .. k - 1
    BY <2>1, <2>2
  <2>4. f[1 .. k] = HeaderByte(f[(1 .. k) \ {Max(1 .. k)}], bytes[Max(1 .. k)])
    BY <1>6, <2>1
  <2>. QED
    BY <1>8, <2>1, <2>3, <2>4
<1>11. \A k \in 0 .. Len(bytes) : g[k] \in Scan
  <2>. DEFINE Untyped == {k \in 0 .. Len(bytes) : g[k] \notin Scan}
  <2>. SUFFICES ASSUME Untyped # {} PROVE FALSE
    OBVIOUS
  <2>1. PICK k \in Untyped : \A l \in Untyped : k <= l
    <3>1. Untyped \subseteq Nat
      OBVIOUS
    <3>. HIDE DEF Untyped
    <3>. QED
      BY <3>1, LeastNumber
  <2>2. k \in 0 .. Len(bytes) /\ g[k] \notin Scan
    OBVIOUS
  <2>3. k # 0
    BY <1>1, <1>9, <2>2
  <2>4. k - 1 \in 0 .. Len(bytes) /\ ~(k <= k - 1) /\ k \in 1 .. Len(bytes)
    BY <1>2, <2>2, <2>3
  <2>5. g[k - 1] \in Scan
    BY <2>1, <2>4
  <2>6. bytes[k] \in Token
    BY <2>4
  <2>. QED
    BY <1>10, <2>2, <2>4, <2>5, <2>6, HeaderByteType
<1>12. HeaderScan(part, bytes) = g[Len(bytes)]
  BY <1>2, <1>7, <1>8
<1>. QED
  BY <1>9, <1>10, <1>11, <1>12 DEF base

LEMMA HeaderScanType ==
  ASSUME NEW part, part.search \in 0 .. 4, part.header \in Seq(Token),
         NEW bytes \in Seq(Token)
  PROVE  HeaderScan(part, bytes) \in Scan
<1>1. PICK g : /\ \A k \in 0 .. Len(bytes) : g[k] \in Scan
               /\ HeaderScan(part, bytes) = g[Len(bytes)]
  BY ScanFunction
<1>2. Len(bytes) \in 0 .. Len(bytes)
  OBVIOUS
<1>. QED
  BY <1>1, <1>2

-----------------------------------------------------------------------------
(* What the callbacks do to the list of parts: each part keeps its type,   *)
(* and only the last one is given bytes.                                   *)
PartRecord == [search : 0 .. 4, header : Seq(Token), raw : Seq(Token),
               written : Seq(Token), file : {"open", "closed", "none", "removed"}]

SameButLast(qs, ps) ==
  /\ qs \in Seq(PartRecord) /\ Len(qs) = Len(ps)
  /\ \A i \in 1 .. Len(ps) - 1 : qs[i] = ps[i]

LEMMA RestType ==
  ASSUME NEW bytes \in Seq(Token), NEW used \in Nat
  PROVE  Rest(bytes, used) \in Seq(Token)
<1>1. CASE used >= Len(bytes) - 1
  BY <1>1 DEF Rest
<1>2. CASE ~(used >= Len(bytes) - 1)
  <2>1. PICK k \in Nat : used + k = Len(bytes)
    <3>1. Len(bytes) \in Nat
      OBVIOUS
    <3>2. Len(bytes) - used \in Nat /\ used + (Len(bytes) - used) = Len(bytes)
      BY <1>2, <3>1
    <3>. QED
      BY <3>2
  <2>2. SubSeq(bytes, used + 1, used + k) \in Seq(Token)
    BY <2>1, Piece
  <2>. QED
    BY <1>2, <2>1, <2>2 DEF Rest
<1>. QED
  BY <1>1, <1>2

LEMMA ReplaceLast ==
  ASSUME NEW ps \in Seq(PartRecord), ps # << >>, NEW part \in PartRecord
  PROVE  LET qs == [ps EXCEPT ![Len(ps)] = part]
         IN  SameButLast(qs, ps) /\ qs[Len(ps)] = part
<1>1. PICK k \in Nat : k = Len(ps) /\ k # 0 /\ DOMAIN ps = 1 .. k
  BY EmptySeq
<1>2. k \in 1 .. k
  BY <1>1
<1>. DEFINE qs == [ps EXCEPT ![k] = part]
<1>3. /\ DOMAIN qs = 1 .. k /\ qs[k] = part
      /\ \A i \in 1 .. k : i # k => qs[i] = ps[i]
  BY <1>1, <1>2
<1>4. \A i \in 1 .. k : ps[i] \in PartRecord
  BY <1>1
<1>5. qs \in Seq(PartRecord)
  <2>1. qs \in [1 .. k -> PartRecord]
    BY <1>1, <1>4
  <2>. QED
    BY <1>1, <2>1
<1>6. Len(qs) = k
  BY <1>1, <1>3, <1>5
<1>7. \A i \in 1 .. k - 1 : qs[i] = ps[i]
  BY <1>1, <1>3
<1>. QED
  BY <1>1, <1>3, <1>5, <1>6, <1>7 DEF SameButLast

LEMMA LastPart ==
  ASSUME NEW ps \in Seq(PartRecord), ps # << >>
  PROVE  Last(ps) = ps[Len(ps)] /\ Last(ps) \in PartRecord /\ Len(ps) \in Nat \ {0}
BY EmptySeq DEF Last

LEMMA ReceivedFacts ==
  ASSUME NEW ps \in Seq(PartRecord), ps # << >>, NEW bytes \in Seq(Token)
  PROVE  /\ SameButLast(Received(ps, bytes), ps)
         /\ Received(ps, bytes)[Len(ps)].raw = Last(ps).raw \o bytes
         /\ Received(ps, bytes)[Len(ps)].file = Last(ps).file
<1>. DEFINE part == Last(ps)
            scan == HeaderScan(part, bytes)
            new == [part EXCEPT !.raw = part.raw \o bytes,
                                !.search = scan.search,
                                !.header = scan.header,
                                !.written = IF part.file = "open"
                                              THEN part.written \o Rest(bytes, scan.used)
                                              ELSE part.written]
<1>1. part \in PartRecord /\ part = ps[Len(ps)] /\ Len(ps) \in Nat \ {0}
  BY LastPart
<1>2. scan \in Scan
  BY <1>1, HeaderScanType DEF PartRecord
<1>3. Rest(bytes, scan.used) \in Seq(Token)
  BY <1>2, RestType DEF Scan
<1>4. Received(ps, bytes) = [ps EXCEPT ![Len(ps)] = new]
  BY DEF Received
<1>. HIDE DEF part, scan
<1>5. part.raw \o bytes \in Seq(Token) /\ part.written \o Rest(bytes, scan.used) \in Seq(Token)
  BY <1>1, <1>3 DEF PartRecord
<1>6. new \in PartRecord
  BY <1>1, <1>2, <1>5 DEF PartRecord, Scan
<1>7. new.raw = part.raw \o bytes /\ new.file = part.file
  BY <1>1 DEF PartRecord
<1>. HIDE DEF new
<1>8. LET qs == [ps EXCEPT ![Len(ps)] = new]
      IN  SameButLast(qs, ps) /\ qs[Len(ps)] = new
  BY <1>6, ReplaceLast
<1>. QED
  BY <1>4, <1>7, <1>8 DEF part

LEMMA PartEndFacts ==
  ASSUME NEW ps \in Seq(PartRecord), ps # << >>
  PROVE  /\ SameButLast(PartEnd(ps), ps)
         /\ PartEnd(ps)[Len(ps)].raw = Last(ps).raw
<1>1. Last(ps) \in PartRecord /\ Last(ps) = ps[Len(ps)] /\ Len(ps) \in Nat \ {0}
  BY LastPart
<1>. DEFINE new == [Last(ps) EXCEPT !.file = "closed"]
<1>2. new \in PartRecord /\ new.raw = Last(ps).raw
  BY <1>1 DEF PartRecord
<1>3. CASE Last(ps).file = "open"
  <2>1. PartEnd(ps) = [ps EXCEPT ![Len(ps)] = new]
    BY <1>1, <1>3 DEF PartEnd
  <2>. HIDE DEF new
  <2>2. LET qs == [ps EXCEPT ![Len(ps)] = new]
        IN  SameButLast(qs, ps) /\ qs[Len(ps)] = new
    BY <1>2, ReplaceLast
  <2>. QED
    BY <1>2, <2>1, <2>2
<1>4. CASE Last(ps).file # "open"
  BY <1>1, <1>4 DEF PartEnd, SameButLast
<1>. QED
  BY <1>3, <1>4

LEMMA SeqOfParts ==
  ASSUME NEW ps \in Seq(PartRecord), NEW bytes \in Seq(Token)
  PROVE  /\ Received(ps, bytes) \in Seq(PartRecord)
         /\ PartEnd(ps) \in Seq(PartRecord)
         /\ Len(Received(ps, bytes)) = Len(ps) /\ Len(PartEnd(ps)) = Len(ps)
<1>1. CASE ps = << >>
  BY <1>1 DEF Received, PartEnd
<1>2. CASE ps # << >>
  BY <1>2, ReceivedFacts, PartEndFacts DEF SameButLast
<1>. QED
  BY <1>1, <1>2

(* EndOfPart: all of the buffer goes to the last part, which is closed.    *)
LEMMA EndOfPartFacts ==
  ASSUME parts \in Seq(PartRecord), buf \in Seq(Token)
  PROVE  /\ EndOfPart \in Seq(PartRecord) /\ Len(EndOfPart) = Len(parts)
         /\ \A i \in 1 .. Len(parts) - 1 : EndOfPart[i] = parts[i]
         /\ parts # << >> => EndOfPart[Len(parts)].raw = parts[Len(parts)].raw \o buf
<1>1. CASE parts = << >>
  BY <1>1 DEF EndOfPart, Received, PartEnd
<1>2. CASE parts # << >> /\ buf = << >>
  <2>1. parts[Len(parts)].raw \in Seq(Token)
    BY <1>2, LastPart DEF PartRecord
  <2>2. parts[Len(parts)].raw \o << >> = parts[Len(parts)].raw
    BY <2>1, ConcatEmptySeq
  <2>. QED
    BY <1>2, <2>2 DEF EndOfPart
<1>3. CASE parts # << >> /\ buf # << >>
  <2>. DEFINE ps == Received(parts, buf)
  <2>1. /\ SameButLast(ps, parts) /\ ps[Len(parts)].raw = parts[Len(parts)].raw \o buf
        /\ Len(parts) \in Nat \ {0}
    BY <1>3, ReceivedFacts, LastPart
  <2>. HIDE DEF ps
  <2>2. ps # << >> /\ ps \in Seq(PartRecord) /\ Len(ps) = Len(parts)
    BY <2>1 DEF SameButLast
  <2>3. SameButLast(PartEnd(ps), ps) /\ PartEnd(ps)[Len(ps)].raw = Last(ps).raw
    BY <2>2, PartEndFacts
  <2>4. Last(ps) = ps[Len(ps)]
    BY <2>2, LastPart
  <2>5. EndOfPart = PartEnd(ps)
    BY <1>3 DEF EndOfPart, ps
  <2>. QED
    BY <2>1, <2>2, <2>3, <2>4, <2>5 DEF SameButLast
<1>. QED
  BY <1>1, <1>2, <1>3

LEMMA PartBeginFacts ==
  ASSUME NEW ps \in Seq(PartRecord), NEW file \in {"open", "none"}
  PROVE  /\ PartBegin(ps, file) \in Seq(PartRecord)
         /\ Len(PartBegin(ps, file)) = Len(ps) + 1
         /\ \A i \in 1 .. Len(ps) : PartBegin(ps, file)[i] = ps[i]
         /\ PartBegin(ps, file)[Len(ps) + 1].raw = << >>
<1>. DEFINE new == [search |-> 0, header |-> << >>, raw |-> << >>,
                    written |-> << >>, file |-> file]
<1>1. new \in PartRecord /\ new.raw = << >>
  BY DEF PartRecord
<1>. HIDE DEF new
<1>2. /\ Append(ps, new) \in Seq(PartRecord) /\ Len(Append(ps, new)) = Len(ps) + 1
      /\ \A i \in 1 .. Len(ps) : Append(ps, new)[i] = ps[i]
      /\ Append(ps, new)[Len(ps) + 1] = new
  BY <1>1, AppendProperties
<1>. QED
  BY <1>1, <1>2 DEF PartBegin, new

-----------------------------------------------------------------------------
TypeInv == body \in Messages /\ ignore \in BOOLEAN /\ parts \in Seq(PartRecord)

LEMMA TypeStep == ASSUME IInv, TypeInv, [Next]_vars PROVE TypeInv'
<1>1. buf \in Seq(Token)
  BY DEF IInv, ParserInv
<1>2. ASSUME NEW b \in Seq(Token), Pass(b) PROVE parts' \in Seq(PartRecord)
  BY <1>2, SeqOfParts DEF Pass, TypeInv
<1>3. EndOfPart \in Seq(PartRecord)
  BY <1>1, EndOfPartFacts DEF TypeInv
<1>4. CASE UNCHANGED vars
  BY <1>4 DEF TypeInv, vars
<1>5. CASE Begin \/ Refill \/ Incomplete \/ ReadError \/ ReadNegative \/ ReadHangs
             \/ ScanReturn \/ MatchByte \/ AfterBoundary \/ Backtrack \/ GetAttachments
  BY <1>5 DEF TypeInv, Begin, Refill, Incomplete, ReadError, ReadNegative, ReadHangs,
     ScanReturn, MatchByte, AfterBoundary, Backtrack, GetAttachments
<1>6. CASE ScanByte
  <2>1. Append(buf, Byte) \in Seq(Token)
    BY <1>1, <1>6, ByteInBuffer DEF ScanByte, At
  <2>2. parts' \in Seq(PartRecord)
    BY <1>2, <1>6, <2>1 DEF ScanByte
  <2>. QED
    BY <1>6, <2>2 DEF TypeInv, ScanByte
<1>7. CASE NextPart
  <2>1. PICK file \in {"open", "none"} : parts' = PartBegin(EndOfPart, file)
    BY <1>7 DEF NextPart
  <2>2. PartBegin(EndOfPart, file) \in Seq(PartRecord)
    BY <1>3, PartBeginFacts
  <2>. QED
    BY <1>7, <2>1, <2>2 DEF TypeInv, NextPart
<1>8. CASE FalseDelimiter
  <2>1. parts' \in Seq(PartRecord)
    BY <1>2, <1>8, FalseDelimiterBytes
  <2>. QED
    BY <1>8, <2>1 DEF TypeInv, FalseDelimiter
<1>9. CASE Finish
  BY <1>3, <1>9 DEF TypeInv, Finish
<1>10. CASE NoRootPart
  <2>1. ASSUME NEW i \in DOMAIN parts
        PROVE  [parts[i] EXCEPT !.file = "removed"] \in PartRecord
    <3>1. parts[i] \in PartRecord
      BY DEF TypeInv
    <3>. QED
      BY <3>1 DEF PartRecord
  <2>2. DOMAIN parts = 1 .. Len(parts) /\ Len(parts) \in Nat
    BY DEF TypeInv
  <2>3. parts' \in [1 .. Len(parts) -> PartRecord]
    BY <1>10, <2>1, <2>2 DEF NoRootPart
  <2>4. parts' \in Seq(PartRecord)
    BY <2>2, <2>3
  <2>. QED
    BY <1>10, <2>4 DEF TypeInv, NoRootPart
<1>. QED
  BY <1>4, <1>5, <1>6, <1>7, <1>8, <1>9, <1>10 DEF Next

(* What MIME_parse and its callbacks keep about a message has its type:    *)
(* however the header of a part is cut, the scan for its empty line stays  *)
(* within the four states the switch of _mime_received_bytes knows.        *)
THEOREM TypeCorrect == Spec => []TypeOK
<1>1. Init => TypeInv
  <2>1. << >> \in Seq(PartRecord)
    OBVIOUS
  <2>. QED
    BY <2>1 DEF Init, TypeInv
<1>2. TypeInv /\ IInv /\ [Next]_vars => TypeInv'
  BY TypeStep
<1>3. TypeInv /\ IInv => TypeOK
  <2>. SUFFICES ASSUME TypeInv, IInv PROVE TypeOK
    OBVIOUS
  <2>1. ASSUME NEW i \in DOMAIN parts
        PROVE  /\ parts[i].search \in 0 .. 4
               /\ parts[i].file \in {"open", "closed", "none", "removed"}
    <3>1. parts[i] \in PartRecord
      BY DEF TypeInv
    <3>. QED
      BY <3>1 DEF PartRecord
  <2>2. reader.marker \in 0 .. reader.current /\ reader.current \in 0 .. Len(reader.buffer)
    BY DEF IInv, ReaderInv
  <2>. QED
    BY <2>1, <2>2 DEF TypeOK, TypeInv, IInv, ParserInv
<1>. QED
  BY <1>1, <1>2, <1>3, Invariance, PTL DEF Spec

-----------------------------------------------------------------------------
(* The reference, position by position: a piece of a message, a delimiter  *)
(* at a position, and the parts that begin up to one.                      *)
LEMMA Slice ==
  ASSUME NEW m \in Seq(Token), NEW a \in Nat, NEW b \in Nat, a <= b, b <= Len(m)
  PROVE  /\ SubSeq(m, a + 1, b) \in Seq(Token) /\ Len(SubSeq(m, a + 1, b)) = b - a
         /\ \A j \in 1 .. b - a : SubSeq(m, a + 1, b)[j] = m[a + j]
<1>1. \A j \in a + 1 .. b : m[j] \in Token
  OBVIOUS
<1>2. a + 1 \in Int /\ b \in Int
  OBVIOUS
<1>3. /\ SubSeq(m, a + 1, b) \in Seq(Token)
      /\ Len(SubSeq(m, a + 1, b)) = IF a + 1 <= b THEN b - (a + 1) + 1 ELSE 0
      /\ \A i \in 1 .. b - (a + 1) + 1 : SubSeq(m, a + 1, b)[i] = m[(a + 1) + i - 1]
  BY <1>1, <1>2, SubSeqProperties
<1>4. Len(SubSeq(m, a + 1, b)) = b - a
  BY <1>3
<1>5. ASSUME NEW j \in 1 .. b - a PROVE SubSeq(m, a + 1, b)[j] = m[a + j]
  <2>1. j \in 1 .. b - (a + 1) + 1 /\ (a + 1) + j - 1 = a + j
    OBVIOUS
  <2>. QED
    BY <1>3, <2>1
<1>. QED
  BY <1>3, <1>4, <1>5

LEMMA SlicePrefix ==
  ASSUME NEW m \in Seq(Token), NEW a \in Nat, NEW q \in Nat, NEW e \in Nat,
         a <= q, q <= e, e <= Len(m), NEW r \in Seq(Token), NEW b \in Seq(Token),
         r \o b = SubSeq(m, a + 1, q)
  PROVE  IsPrefix(r, SubSeq(m, a + 1, e))
<1>. DEFINE s == SubSeq(m, a + 1, q)
            t == SubSeq(m, a + 1, e)
<1>1. /\ s \in Seq(Token) /\ Len(s) = q - a /\ \A j \in 1 .. q - a : s[j] = m[a + j]
      /\ t \in Seq(Token) /\ Len(t) = e - a /\ \A j \in 1 .. e - a : t[j] = m[a + j]
  <2>1. q <= Len(m) /\ a <= e
    OBVIOUS
  <2>2. /\ s \in Seq(Token) /\ Len(s) = q - a
        /\ \A j \in 1 .. q - a : s[j] = m[a + j]
    BY <2>1, Slice
  <2>3. /\ t \in Seq(Token) /\ Len(t) = e - a
        /\ \A j \in 1 .. e - a : t[j] = m[a + j]
    BY <2>1, Slice
  <2>. QED
    BY <2>2, <2>3
<1>2. /\ Len(r) \in Nat /\ Len(b) \in Nat /\ Len(r) + Len(b) = Len(s)
      /\ \A j \in 1 .. Len(r) : s[j] = r[j]
  <2>1. /\ Len(r \o b) = Len(r) + Len(b)
        /\ \A i \in 1 .. Len(r) + Len(b) : (r \o b)[i] = IF i <= Len(r) THEN r[i] ELSE b[i - Len(r)]
    BY ConcatProperties
  <2>2. Len(r) \in Nat /\ Len(b) \in Nat
    OBVIOUS
  <2>. QED
    BY <2>1, <2>2
<1>3. r \o b = s
  OBVIOUS
<1>. HIDE DEF s, t
<1>4. Len(r) <= Len(t)
  BY <1>1, <1>2
<1>5. \A j \in 1 .. Len(r) : r[j] = t[j]
  BY <1>1, <1>2
<1>6. SubSeq(r, 1, Len(r)) = r
  BY SubSeqFull
<1>7. /\ SubSeq(t, 0 + 1, Len(r)) \in Seq(Token) /\ Len(SubSeq(t, 0 + 1, Len(r))) = Len(r) - 0
      /\ \A j \in 1 .. Len(r) - 0 : SubSeq(t, 0 + 1, Len(r))[j] = t[0 + j]
  <2>1. 0 \in Nat /\ 0 <= Len(r) /\ Len(r) \in Nat
    BY <1>2
  <2>. QED
    BY <1>1, <1>4, <2>1, Slice
<1>8. /\ SubSeq(t, 1, Len(r)) \in Seq(Token) /\ Len(SubSeq(t, 1, Len(r))) = Len(r)
      /\ \A j \in 1 .. Len(r) : r[j] = SubSeq(t, 1, Len(r))[j]
  BY <1>2, <1>5, <1>7
<1>9. r = SubSeq(t, 1, Len(r))
  <2>. DEFINE u == SubSeq(t, 1, Len(r))
  <2>1. u \in Seq(Token) /\ Len(r) = Len(u) /\ \A j \in 1 .. Len(r) : r[j] = u[j]
    BY <1>8
  <2>. HIDE DEF u
  <2>2. r = u
    BY <2>1, SeqEqual
  <2>. QED
    BY <2>2 DEF u
<1>. QED
  BY <1>4, <1>6, <1>9 DEF IsPrefix, t

HasDelimiter(m, i, tail) ==
  /\ i + Len(Boundary) + Len(tail) <= Len(m) /\ m[i] = CR
  /\ \A j \in 1 .. Len(Boundary) : m[i + j] = Boundary[j]
  /\ \A j \in 1 .. Len(tail) : m[i + Len(Boundary) + j] = tail[j]

LEMMA DelimiterFacts ==
  ASSUME NEW m \in Seq(Token), NEW p \in Nat, NEW tail \in Seq(Token)
  PROVE  DelimiterAt(m, p + 1, tail) <=> HasDelimiter(m, p + 1, tail)
<1>. DEFINE d == <<CR>> \o Boundary \o tail
<1>1. PICK l \in Nat : l = Len(Boundary)
  BY ParserAssumption
<1>2. PICK k \in Nat : k = Len(tail)
  OBVIOUS
<1>3. /\ d \in Seq(Token) /\ Len(d) = 1 + l + k /\ d[1] = CR
      /\ \A j \in 1 .. l : d[1 + j] = Boundary[j]
      /\ \A j \in 1 .. k : d[1 + l + j] = tail[j]
  <2>. DEFINE c == <<CR>> \o Boundary
  <2>1. <<CR>> \in Seq(Token) /\ Len(<<CR>>) = 1 /\ <<CR>>[1] = CR /\ Boundary \in Seq(Token)
    BY ParserAssumption DEF Token
  <2>2. /\ c \in Seq(Token) /\ Len(c) = 1 + l
        /\ \A i \in 1 .. 1 + l : c[i] = IF i <= 1 THEN <<CR>>[i] ELSE Boundary[i - 1]
    BY <1>1, <2>1, ConcatProperties
  <2>3. c[1] = CR /\ \A j \in 1 .. l : c[1 + j] = Boundary[j]
    <3>1. 1 \in 1 .. 1 + l /\ 1 <= 1
      BY <1>1
    <3>2. ASSUME NEW j \in 1 .. l PROVE c[1 + j] = Boundary[j]
      <4>1. 1 + j \in 1 .. 1 + l /\ ~(1 + j <= 1) /\ 1 + j - 1 = j
        BY <1>1
      <4>. QED
        BY <2>2, <4>1
    <3>. QED
      BY <2>1, <2>2, <3>1, <3>2
  <2>. HIDE DEF c
  <2>4. /\ c \o tail \in Seq(Token) /\ Len(c \o tail) = 1 + l + k
        /\ \A i \in 1 .. 1 + l + k :
             (c \o tail)[i] = IF i <= 1 + l THEN c[i] ELSE tail[i - (1 + l)]
    <3>1. /\ c \o tail \in Seq(Token) /\ Len(c \o tail) = Len(c) + Len(tail)
          /\ \A i \in 1 .. Len(c) + Len(tail) :
               (c \o tail)[i] = IF i <= Len(c) THEN c[i] ELSE tail[i - Len(c)]
      BY <2>2, ConcatProperties
    <3>2. Len(c) = 1 + l /\ Len(tail) = k
      BY <1>2, <2>2
    <3>. QED
      BY <3>1, <3>2
  <2>5. ASSUME NEW j \in 1 .. k PROVE (c \o tail)[1 + l + j] = tail[j]
    <3>1. PICK i \in 1 .. 1 + l + k : i = 1 + l + j /\ ~(i <= 1 + l) /\ i - (1 + l) = j
      <4>1. 1 + l + j \in 1 .. 1 + l + k /\ ~(1 + l + j <= 1 + l) /\ 1 + l + j - (1 + l) = j
        BY <1>1, <1>2
      <4>. QED
        BY <4>1
    <3>2. (c \o tail)[i] = IF i <= 1 + l THEN c[i] ELSE tail[i - (1 + l)]
      BY <2>4
    <3>. QED
      BY <3>1, <3>2
  <2>6. \A j \in 1 .. 1 + l : (c \o tail)[j] = c[j]
    BY <1>1, <1>2, <2>4
  <2>7. (c \o tail)[1] = CR /\ \A j \in 1 .. l : (c \o tail)[1 + j] = Boundary[j]
    <3>1. 1 \in 1 .. 1 + l
      BY <1>1
    <3>2. ASSUME NEW j \in 1 .. l PROVE (c \o tail)[1 + j] = Boundary[j]
      <4>1. 1 + j \in 1 .. 1 + l
        BY <1>1
      <4>. QED
        BY <2>3, <2>6, <4>1
    <3>. QED
      BY <2>3, <2>6, <3>1, <3>2
  <2>8. d = c \o tail
    BY DEF c
  <2>. HIDE DEF d
  <2>. QED
    BY <2>4, <2>5, <2>7, <2>8
<1>4. DelimiterAt(m, p + 1, tail) <=> (p + (1 + l + k) <= Len(m) /\ SubSeq(m, p + 1, p + (1 + l + k)) = d)
  <2>1. Len(m) \in Nat /\ (p + 1) + Len(d) - 1 = p + (1 + l + k)
    BY <1>1, <1>2, <1>3
  <2>. QED
    BY <2>1 DEF DelimiterAt
<1>. HIDE DEF d
<1>5. CASE ~(p + (1 + l + k) <= Len(m))
  BY <1>1, <1>2, <1>4, <1>5 DEF HasDelimiter
<1>6. CASE p + (1 + l + k) <= Len(m)
  <2>. DEFINE s == SubSeq(m, p + 1, p + (1 + l + k))
  <2>1. s \in Seq(Token) /\ Len(s) = 1 + l + k /\ \A j \in 1 .. 1 + l + k : s[j] = m[p + j]
    <3>1. p + (1 + l + k) \in Nat /\ p <= p + (1 + l + k) /\ p + (1 + l + k) - p = 1 + l + k
      BY <1>1, <1>2
    <3>. QED
      BY <1>6, <3>1, Slice
  <2>. HIDE DEF s
  <2>2. s = d <=> \A j \in 1 .. 1 + l + k : s[j] = d[j]
    <3>1. Len(s) = Len(d) /\ Len(s) = 1 + l + k
      BY <1>3, <2>1
    <3>2. (\A j \in 1 .. Len(s) : s[j] = d[j]) => s = d
      BY <1>3, <2>1, <3>1, SeqEqual
    <3>. QED
      BY <3>1, <3>2
  <2>3. ASSUME s = d PROVE HasDelimiter(m, p + 1, tail)
    <3>1. \A j \in 1 .. 1 + l + k : m[p + j] = d[j]
      BY <2>1, <2>3
    <3>2. m[p + 1] = CR
      BY <1>1, <1>2, <1>3, <3>1
    <3>3. ASSUME NEW j \in 1 .. l PROVE m[p + 1 + j] = Boundary[j]
      <4>1. 1 + j \in 1 .. 1 + l + k /\ p + (1 + j) = p + 1 + j
        BY <1>1, <1>2
      <4>. QED
        BY <1>3, <3>1, <4>1
    <3>4. ASSUME NEW j \in 1 .. k PROVE m[p + 1 + l + j] = tail[j]
      <4>1. 1 + l + j \in 1 .. 1 + l + k /\ p + (1 + l + j) = p + 1 + l + j
        BY <1>1, <1>2
      <4>. QED
        BY <1>3, <3>1, <4>1
    <3>5. p + 1 + l + k <= Len(m)
      BY <1>1, <1>2, <1>6
    <3>. QED
      BY <1>1, <1>2, <3>2, <3>3, <3>4, <3>5 DEF HasDelimiter
  <2>4. ASSUME HasDelimiter(m, p + 1, tail) PROVE s = d
    <3>1. ASSUME NEW j \in 1 .. 1 + l + k PROVE m[p + j] = d[j]
      <4>1. CASE j = 1
        BY <1>3, <2>4, <4>1 DEF HasDelimiter
      <4>2. CASE j > 1 /\ j <= 1 + l
        <5>1. PICK i \in 1 .. l : j = 1 + i /\ p + j = p + 1 + i
          <6>1. j - 1 \in 1 .. l /\ j = 1 + (j - 1) /\ p + j = p + 1 + (j - 1)
            BY <1>1, <1>2, <4>2
          <6>. QED
            BY <6>1
        <5>2. m[p + 1 + i] = Boundary[i] /\ d[1 + i] = Boundary[i]
          BY <1>1, <1>3, <2>4 DEF HasDelimiter
        <5>. QED
          BY <5>1, <5>2
      <4>3. CASE j > 1 + l
        <5>1. PICK i \in 1 .. k : j = 1 + l + i /\ p + j = p + 1 + l + i
          <6>1. j - (1 + l) \in 1 .. k /\ j = 1 + l + (j - (1 + l)) /\ p + j = p + 1 + l + (j - (1 + l))
            BY <1>1, <1>2, <4>3
          <6>. QED
            BY <6>1
        <5>2. m[p + 1 + l + i] = tail[i] /\ d[1 + l + i] = tail[i]
          BY <1>1, <1>2, <1>3, <2>4 DEF HasDelimiter
        <5>. QED
          BY <5>1, <5>2
      <4>. QED
        BY <1>1, <1>2, <4>1, <4>2, <4>3
    <3>. QED
      BY <2>1, <2>2, <3>1
  <2>. QED
    BY <1>4, <1>6, <2>3, <2>4 DEF s
<1>. QED
  BY <1>5, <1>6

-----------------------------------------------------------------------------
\* m has a CR, the boundary, and the bytes x and y from position i on.
Delimits(m, i, x, y) ==
  /\ i + Len(Boundary) + 2 <= Len(m) /\ m[i] = CR
  /\ \A j \in 1 .. Len(Boundary) : m[i + j] = Boundary[j]
  /\ m[i + Len(Boundary) + 1] = x /\ m[i + Len(Boundary) + 2] = y

LEMMA TwoByteTail ==
  ASSUME NEW m \in Seq(Token), NEW i \in Nat \ {0}, NEW x \in Token, NEW y \in Token
  PROVE  DelimiterAt(m, i, <<x, y>>) <=> Delimits(m, i, x, y)
<1>1. PICK p \in Nat : i = p + 1
  <2>1. i - 1 \in Nat /\ i = (i - 1) + 1
    OBVIOUS
  <2>. QED
    BY <2>1
<1>. DEFINE tail == <<x, y>>
<1>2. tail \in Seq(Token) /\ Len(tail) = 2 /\ tail[1] = x /\ tail[2] = y
  OBVIOUS
<1>. HIDE DEF tail
<1>3. (\A j \in 1 .. Len(tail) : m[i + Len(Boundary) + j] = tail[j])
        <=> m[i + Len(Boundary) + 1] = x /\ m[i + Len(Boundary) + 2] = y
  <2>1. \A j \in 1 .. Len(tail) : j = 1 \/ j = 2
    BY <1>2
  <2>2. 1 \in 1 .. Len(tail) /\ 2 \in 1 .. Len(tail)
    BY <1>2
  <2>. QED
    BY <1>2, <2>1, <2>2
<1>4. DelimiterAt(m, i, tail) <=> HasDelimiter(m, i, tail)
  BY <1>1, <1>2, DelimiterFacts
<1>. QED
  BY <1>2, <1>3, <1>4 DEF HasDelimiter, Delimits, tail

LEMMA OpensAndCloses ==
  ASSUME NEW m \in Seq(Token), NEW i \in Nat \ {0}
  PROVE  /\ i \in Opens(m) <=> Delimits(m, i, CR, LF)
         /\ i \in Closes(m) <=> Delimits(m, i, Dash, Dash)
<1>1. CR \in Token /\ LF \in Token /\ Dash \in Token
  BY DEF Token
<1>2. /\ DelimiterAt(m, i, <<CR, LF>>) <=> Delimits(m, i, CR, LF)
      /\ DelimiterAt(m, i, <<Dash, Dash>>) <=> Delimits(m, i, Dash, Dash)
  BY <1>1, TwoByteTail
<1>3. \A x, y : Delimits(m, i, x, y) => i \in DOMAIN m
  <2>1. Len(m) \in Nat /\ DOMAIN m = 1 .. Len(m) /\ Len(Boundary) \in Nat
    BY ParserAssumption
  <2>. QED
    BY <2>1 DEF Delimits
<1>. QED
  BY <1>2, <1>3 DEF Opens, Closes

LEMMA BytesDiffer == CR # LF /\ CR # Dash /\ LF # Dash
BY DEF CR, LF, Dash

LEMMA EndFacts ==
  ASSUME NEW m \in Seq(Token)
  PROVE  /\ EndOf(m) \in 1 .. Len(m) + 1
         /\ EndOf(m) \in Closes(m) \/ EndOf(m) = Len(m) + 1
         /\ \A i \in Closes(m) : EndOf(m) <= i
<1>1. Closes(m) \subseteq 1 .. Len(m) /\ Len(m) \in Nat
  BY DEF Closes
<1>2. CASE Closes(m) = {}
  BY <1>1, <1>2 DEF EndOf
<1>3. CASE Closes(m) # {}
  <2>1. Closes(m) \subseteq Nat
    BY <1>1
  <2>2. Min(Closes(m)) \in Closes(m) /\ \A y \in Closes(m) : Min(Closes(m)) <= y
    BY <1>3, <2>1, LeastNumber
  <2>3. EndOf(m) = Min(Closes(m))
    BY <1>3 DEF EndOf
  <2>4. EndOf(m) \in 1 .. Len(m)
    BY <1>1, <2>2, <2>3
  <2>5. EndOf(m) \in 1 .. Len(m) + 1
    BY <1>1, <2>4
  <2>. QED
    BY <2>2, <2>3, <2>5
<1>. QED
  BY <1>2, <1>3

LEMMA BeginsFacts ==
  ASSUME NEW m \in Seq(Token)
  PROVE  /\ Begins(m) \subseteq Opens(m) /\ Begins(m) \subseteq 1 .. Len(m)
         /\ \A i \in Begins(m) : i < EndOf(m)
         /\ IsFiniteSet(Begins(m)) /\ Cardinality(Begins(m)) \in Nat
         /\ \A p : /\ UpTo(m, p) \subseteq Begins(m)
                   /\ IsFiniteSet(UpTo(m, p)) /\ Cardinality(UpTo(m, p)) \in Nat
                   /\ Cardinality(UpTo(m, p)) <= Cardinality(Begins(m))
<1>1. /\ Begins(m) \subseteq Opens(m) /\ Begins(m) \subseteq 1 .. Len(m)
      /\ \A i \in Begins(m) : i < EndOf(m)
  BY DEF Begins, Opens
<1>2. IsFiniteSet(1 .. Len(m))
  <2>1. 1 \in Int /\ Len(m) \in Int
    OBVIOUS
  <2>. QED
    BY <2>1, FS_Interval
<1>3. IsFiniteSet(Begins(m))
  BY <1>1, <1>2, FS_Subset
<1>4. ASSUME NEW p
      PROVE  /\ UpTo(m, p) \subseteq Begins(m)
             /\ IsFiniteSet(UpTo(m, p)) /\ Cardinality(UpTo(m, p)) \in Nat
             /\ Cardinality(UpTo(m, p)) <= Cardinality(Begins(m))
  <2>1. UpTo(m, p) \subseteq Begins(m)
    BY DEF UpTo
  <2>. QED
    BY <1>3, <2>1, FS_Subset, FS_CardinalityType
<1>. QED
  BY <1>1, <1>3, <1>4, FS_CardinalityType

(* The k-th beginning is the one with k beginnings up to it.               *)
LEMMA NthIs ==
  ASSUME NEW m \in Seq(Token), NEW s \in Begins(m)
  PROVE  Nth(m, Cardinality(UpTo(m, s))) = s
<1>1. Begins(m) \subseteq Int /\ s \in Int
  BY BeginsFacts
<1>2. ASSUME NEW t \in Begins(m), NEW u \in Begins(m), t < u
      PROVE  Cardinality(UpTo(m, t)) # Cardinality(UpTo(m, u))
  <2>1. UpTo(m, t) \subseteq UpTo(m, u) /\ u \in UpTo(m, u) /\ u \notin UpTo(m, t)
    BY <1>1, <1>2 DEF UpTo
  <2>2. IsFiniteSet(UpTo(m, u))
    BY BeginsFacts
  <2>. QED
    BY <2>1, <2>2, FS_Subset
<1>3. \A t \in Begins(m) : Cardinality(UpTo(m, t)) = Cardinality(UpTo(m, s)) => t = s
  BY <1>1, <1>2
<1>. QED
  BY <1>3 DEF Nth

\* The part that begins at s ends where the next one begins ...
LEMMA PartBeforeNext ==
  ASSUME NEW m \in Seq(Token), NEW s \in Begins(m), NEW t \in Begins(m),
         UpTo(m, t) = UpTo(m, s) \cup {t}, t \notin UpTo(m, s)
  PROVE  /\ Cardinality(UpTo(m, s)) \in 1 .. Len(Split(m))
         /\ Cardinality(UpTo(m, t)) = Cardinality(UpTo(m, s)) + 1
         /\ Split(m)[Cardinality(UpTo(m, s))] = SubSeq(m, s + Len(Boundary) + 3, t - 1)
<1>1. PICK k \in Nat : k = Cardinality(UpTo(m, s)) /\ IsFiniteSet(UpTo(m, s))
  BY BeginsFacts
<1>2. PICK c \in Nat : c = Cardinality(Begins(m)) /\ IsFiniteSet(Begins(m))
  BY BeginsFacts
<1>3. Cardinality(UpTo(m, t)) = k + 1
  BY <1>1, FS_AddElement
<1>4. k + 1 <= c
  BY <1>2, <1>3, BeginsFacts
<1>5. k # 0
  <2>1. s \in UpTo(m, s)
    BY BeginsFacts DEF UpTo
  <2>. QED
    BY <1>1, <2>1, FS_EmptySet
<1>6. Nth(m, k) = s /\ Nth(m, k + 1) = t
  BY <1>1, <1>3, NthIs
<1>7. k \in 1 .. c /\ k < c
  BY <1>4, <1>5
<1>8. Len(Split(m)) = c /\ Split(m)[k] = SubSeq(m, s + Len(Boundary) + 3, t - 1)
  <2>. DEFINE f == [j \in 1 .. c |->
           SubSeq(m, Nth(m, j) + Len(Boundary) + 3,
                  (IF j < c THEN Nth(m, j + 1) ELSE EndOf(m)) - 1)]
  <2>1. Split(m) = f
    BY <1>2 DEF Split
  <2>2. Len(f) = c
    OBVIOUS
  <2>3. f[k] = SubSeq(m, s + Len(Boundary) + 3, t - 1)
    BY <1>6, <1>7
  <2>. QED
    BY <2>1, <2>2, <2>3
<1>. QED
  BY <1>1, <1>3, <1>7, <1>8

\* ... and the last one where the message does.
LEMMA PartBeforeEnd ==
  ASSUME NEW m \in Seq(Token), NEW s \in Begins(m), UpTo(m, s) = Begins(m)
  PROVE  /\ Cardinality(UpTo(m, s)) = Len(Split(m))
         /\ Len(Split(m)) \in Nat \ {0}
         /\ Split(m)[Cardinality(UpTo(m, s))] = SubSeq(m, s + Len(Boundary) + 3, EndOf(m) - 1)
<1>1. PICK c \in Nat : c = Cardinality(Begins(m)) /\ IsFiniteSet(Begins(m))
  BY BeginsFacts
<1>2. c # 0
  BY <1>1, FS_EmptySet
<1>3. Nth(m, c) = s
  BY <1>1, NthIs
<1>4. c \in 1 .. c /\ ~(c < c)
  BY <1>2
<1>5. Len(Split(m)) = c /\ Split(m)[c] = SubSeq(m, s + Len(Boundary) + 3, EndOf(m) - 1)
  <2>. DEFINE f == [j \in 1 .. c |->
           SubSeq(m, Nth(m, j) + Len(Boundary) + 3,
                  (IF j < c THEN Nth(m, j + 1) ELSE EndOf(m)) - 1)]
  <2>1. Split(m) = f
    BY <1>1 DEF Split
  <2>2. Len(f) = c
    OBVIOUS
  <2>3. f[c] = SubSeq(m, s + Len(Boundary) + 3, EndOf(m) - 1)
    BY <1>3, <1>4
  <2>. QED
    BY <2>1, <2>2, <2>3
<1>. QED
  BY <1>1, <1>2, <1>5

LEMMA SplitLength ==
  ASSUME NEW m \in Seq(Token)
  PROVE  Len(Split(m)) = Cardinality(Begins(m)) /\ Len(Split(m)) \in Nat
         /\ DOMAIN Split(m) = 1 .. Len(Split(m))
BY BeginsFacts DEF Split

\* Where the part that begins at s ends.
LEMMA PartEnds ==
  ASSUME NEW m \in Seq(Token), NEW s \in Begins(m)
  PROVE  \E e \in Nat :
           /\ s < e /\ e <= EndOf(m) /\ \A i \in Begins(m) : i < e => i \in UpTo(m, s)
           /\ e = EndOf(m) \/ (e \in Begins(m) /\ e \notin UpTo(m, s))
           /\ Split(m)[Cardinality(UpTo(m, s))] = SubSeq(m, s + Len(Boundary) + 3, e - 1)
           /\ Cardinality(UpTo(m, s)) \in 1 .. Len(Split(m))
<1>. DEFINE later == Begins(m) \ UpTo(m, s)
<1>1. /\ Begins(m) \subseteq Nat /\ UpTo(m, s) \subseteq Begins(m) /\ s \in Nat
      /\ EndOf(m) \in Nat /\ \A i \in Begins(m) : i < EndOf(m)
  BY BeginsFacts, EndFacts
<1>2. CASE later = {}
  <2>1. UpTo(m, s) = Begins(m)
    BY <1>1, <1>2
  <2>2. /\ Cardinality(UpTo(m, s)) = Len(Split(m)) /\ Len(Split(m)) \in Nat \ {0}
        /\ Split(m)[Cardinality(UpTo(m, s))] = SubSeq(m, s + Len(Boundary) + 3, EndOf(m) - 1)
    BY <2>1, PartBeforeEnd
  <2>3. Cardinality(UpTo(m, s)) \in 1 .. Len(Split(m))
    BY <2>2
  <2>. QED
    BY <1>1, <2>1, <2>2, <2>3
<1>3. CASE later # {}
  <2>1. PICK t : t \in later /\ \A y \in later : t <= y
    <3>1. later \subseteq Nat
      BY <1>1
    <3>. HIDE DEF later
    <3>. QED
      BY <1>3, <3>1, LeastNumber
  <2>2. t \in Begins(m) /\ t \notin UpTo(m, s) /\ t \in Nat /\ s < t
    BY <1>1, <2>1 DEF UpTo
  <2>3. UpTo(m, t) = UpTo(m, s) \cup {t}
    <3>1. ASSUME NEW i \in Begins(m) PROVE i <= t <=> (i <= s \/ i = t)
      <4>1. i \in Nat /\ (i \notin UpTo(m, s) => t <= i)
        BY <1>1, <2>1
      <4>2. i \in UpTo(m, s) <=> i <= s
        BY DEF UpTo
      <4>. QED
        BY <1>1, <2>2, <4>1, <4>2
    <3>. QED
      BY <2>2, <3>1 DEF UpTo
  <2>4. /\ Split(m)[Cardinality(UpTo(m, s))] = SubSeq(m, s + Len(Boundary) + 3, t - 1)
        /\ Cardinality(UpTo(m, s)) \in 1 .. Len(Split(m))
    BY <2>2, <2>3, PartBeforeNext
  <2>5. ASSUME NEW i \in Begins(m), i < t PROVE i \in UpTo(m, s)
    <3>1. i \in UpTo(m, t) /\ i # t
      BY <1>1, <2>2, <2>5 DEF UpTo
    <3>. QED
      BY <2>3, <3>1
  <2>6. t <= EndOf(m)
    BY <1>1, <2>2
  <2>. QED
    BY <2>2, <2>4, <2>5, <2>6
<1>. QED
  BY <1>2, <1>3

-----------------------------------------------------------------------------
(* The parts are those of the message up to a position: as many as begin   *)
(* there, all but the last complete, the last one with all bytes of it,    *)
(* counting those the buffer still holds. It stays so when a byte is read, *)
(* when the buffer is passed on, and when a delimiter is.                  *)
PartBeginsAt(s, m, ps, b, p) ==
  /\ UpTo(m, s) = UpTo(m, p) /\ s + Len(Boundary) + 2 <= p
  /\ ps[Len(ps)].raw \o b = SubSeq(m, s + Len(Boundary) + 3, p)

SplitUpTo(m, ps, b, p) ==
  /\ p < EndOf(m) /\ Len(ps) = Cardinality(UpTo(m, p))
  /\ \A i \in 1 .. Len(ps) - 1 : ps[i].raw = Split(m)[i]
  /\ ps # << >> => \E s \in Begins(m) : PartBeginsAt(s, m, ps, b, p)

LEMMA UpToSame ==
  ASSUME NEW m \in Seq(Token), NEW p \in Nat, p < EndOf(m), p + 1 <= Len(m),
         p + 1 \notin Opens(m) \cup Closes(m)
  PROVE  p + 1 < EndOf(m) /\ UpTo(m, p + 1) = UpTo(m, p)
<1>1. EndOf(m) \in Nat /\ Len(m) \in Nat
  BY EndFacts
<1>2. p + 1 # EndOf(m)
  BY <1>1, EndFacts
<1>3. ASSUME NEW i \in Begins(m) PROVE i <= p + 1 <=> i <= p
  <2>1. i \in Nat /\ i # p + 1
    BY BeginsFacts
  <2>. QED
    BY <2>1
<1>. QED
  BY <1>1, <1>2, <1>3 DEF UpTo

LEMMA Regroup ==
  ASSUME NEW u \in Seq(Token), NEW v \in Seq(Token), NEW w \in Seq(Token)
  PROVE  (u \o v) \o w = u \o (v \o w)
BY ConcatAssociative

LEMMA AddByte ==
  ASSUME NEW m \in Seq(Token), NEW ps \in Seq(PartRecord), NEW b \in Seq(Token),
         NEW p \in Nat, SplitUpTo(m, ps, b, p), p + 1 <= Len(m),
         p + 1 \notin Opens(m) \cup Closes(m)
  PROVE  SplitUpTo(m, ps, Append(b, m[p + 1]), p + 1)
<1>1. p + 1 < EndOf(m) /\ UpTo(m, p + 1) = UpTo(m, p)
  BY UpToSame DEF SplitUpTo
<1>2. ASSUME ps # << >>
      PROVE  \E s \in Begins(m) : PartBeginsAt(s, m, ps, Append(b, m[p + 1]), p + 1)
  <2>1. PICK s \in Begins(m) : PartBeginsAt(s, m, ps, b, p)
    BY <1>2 DEF SplitUpTo
  <2>2. PICK a \in Nat : a = s + Len(Boundary) + 2
    <3>1. s \in Nat /\ Len(Boundary) \in Nat
      BY BeginsFacts, ParserAssumption
    <3>. QED
      BY <3>1
  <2>3. a <= p /\ s + Len(Boundary) + 3 = a + 1
    <3>1. s \in Nat /\ Len(Boundary) \in Nat
      BY BeginsFacts, ParserAssumption
    <3>. QED
      BY <2>1, <2>2, <3>1 DEF PartBeginsAt
  <2>4. a + 1 \in 1 .. Len(m) /\ p + 1 \in a + 1 .. Len(m) /\ p + 1 - 1 = p
    BY <2>3
  <2>5. SubSeq(m, a + 1, p + 1) = SubSeq(m, a + 1, p) \o <<m[p + 1]>>
    BY <2>4, SubSeqRecursiveSecond
  <2>6. /\ ps[Len(ps)].raw \in Seq(Token) /\ m[p + 1] \in Token
    <3>1. ps[Len(ps)] \in PartRecord
      BY <1>2, LastPart
    <3>2. p + 1 \in 1 .. Len(m)
      BY <2>4
    <3>. QED
      BY <3>1, <3>2 DEF PartRecord
  <2>7. Append(b, m[p + 1]) = b \o <<m[p + 1]>> /\ <<m[p + 1]>> \in Seq(Token)
    BY <2>6, AppendIsConcat
  <2>8. ps[Len(ps)].raw \o (b \o <<m[p + 1]>>) = (ps[Len(ps)].raw \o b) \o <<m[p + 1]>>
    <3>1. PICK u \in Seq(Token) : u = ps[Len(ps)].raw
      BY <2>6
    <3>2. PICK v \in Seq(Token) : v = <<m[p + 1]>>
      BY <2>7
    <3>3. (u \o b) \o v = u \o (b \o v)
      BY Regroup
    <3>. QED
      BY <3>1, <3>2, <3>3
  <2>9. ps[Len(ps)].raw \o b = SubSeq(m, a + 1, p)
    BY <2>1, <2>3 DEF PartBeginsAt
  <2>10. ps[Len(ps)].raw \o Append(b, m[p + 1]) = SubSeq(m, a + 1, p + 1)
    BY <2>5, <2>7, <2>8, <2>9
  <2>11. s + Len(Boundary) + 2 <= p + 1
    BY <2>2, <2>3
  <2>12. PartBeginsAt(s, m, ps, Append(b, m[p + 1]), p + 1)
    BY <1>1, <2>1, <2>3, <2>10, <2>11 DEF PartBeginsAt
  <2>. QED
    BY <2>12
<1>. QED
  BY <1>1, <1>2 DEF SplitUpTo

LEMMA PassOn ==
  ASSUME NEW m \in Seq(Token), NEW ps \in Seq(PartRecord), NEW b \in Seq(Token),
         NEW p \in Nat, SplitUpTo(m, ps, b, p)
  PROVE  SplitUpTo(m, Received(ps, b), << >>, p)
<1>1. CASE ps = << >>
  BY <1>1 DEF Received, SplitUpTo
<1>2. CASE ps # << >>
  <2>. DEFINE qs == Received(ps, b)
  <2>1. SameButLast(qs, ps) /\ qs[Len(ps)].raw = Last(ps).raw \o b
    BY <1>2, ReceivedFacts
  <2>2. Last(ps) = ps[Len(ps)]
    BY <1>2, LastPart
  <2>. HIDE DEF qs
  <2>3. PICK s \in Begins(m) : PartBeginsAt(s, m, ps, b, p)
    BY <1>2 DEF SplitUpTo
  <2>4. qs # << >> /\ qs \in Seq(PartRecord) /\ Len(qs) = Len(ps)
    BY <1>2, <2>1, EmptySeq DEF SameButLast
  <2>5. qs[Len(qs)].raw \in Seq(Token)
    <3>1. qs[Len(qs)] \in PartRecord
      BY <2>4, LastPart
    <3>. QED
      BY <3>1 DEF PartRecord
  <2>6. qs[Len(qs)].raw \o << >> = ps[Len(ps)].raw \o b
    BY <2>1, <2>2, <2>4, <2>5, ConcatEmptySeq
  <2>7. PartBeginsAt(s, m, qs, << >>, p)
    BY <2>3, <2>6 DEF PartBeginsAt
  <2>8. \A i \in 1 .. Len(qs) - 1 : qs[i].raw = Split(m)[i]
    BY <2>1, <2>4 DEF SameButLast, SplitUpTo
  <2>9. SplitUpTo(m, qs, << >>, p)
    BY <2>4, <2>7, <2>8 DEF SplitUpTo
  <2>. QED
    BY <2>9 DEF qs
<1>. QED
  BY <1>1, <1>2

\* qs are the parts ps after a delimiter, which gives the last one what is
\* left in the buffer b.
Ended(qs, ps, b) ==
  /\ qs \in Seq(PartRecord) /\ Len(qs) = Len(ps)
  /\ \A i \in 1 .. Len(ps) - 1 : qs[i] = ps[i]
  /\ ps # << >> => qs[Len(ps)].raw = ps[Len(ps)].raw \o b

LEMMA AtOpening ==
  ASSUME NEW m \in Seq(Token), IsClean(m), NEW ps \in Seq(PartRecord),
         NEW b, NEW p \in Nat, SplitUpTo(m, ps, b, p), p + 1 \in Opens(m),
         NEW qs, Ended(qs, ps, b), NEW file \in {"open", "none"}
  PROVE  SplitUpTo(m, PartBegin(qs, file), << >>, p + Len(Boundary) + 3)
<1>. DEFINE t == p + 1
            q == p + Len(Boundary) + 3
            rs == PartBegin(qs, file)
<1>1. Len(Boundary) \in Nat /\ EndOf(m) \in Nat /\ Len(m) \in Nat /\ Len(ps) \in Nat
  BY EndFacts, ParserAssumption
<1>2. Delimits(m, t, CR, LF)
  BY OpensAndCloses
<1>3. q <= Len(m)
  BY <1>1, <1>2 DEF Delimits
<1>4. \A j \in Opens(m) \cup Closes(m) : t < j => q + 1 <= j
  <2>1. \A j \in Opens(m) \cup Closes(m) : t < j => t + Len(Boundary) + 3 <= j
    BY DEF IsClean
  <2>2. t + Len(Boundary) + 3 = q + 1
    BY <1>1
  <2>. QED
    BY <2>1, <2>2
<1>5. t < EndOf(m)
  <2>1. t # EndOf(m)
    <3>1. ~Delimits(m, t, Dash, Dash)
      BY <1>2, BytesDiffer DEF Delimits
    <3>2. t \notin Closes(m)
      BY <3>1, OpensAndCloses
    <3>3. t <= Len(m)
      BY <1>1, <1>3
    <3>. QED
      BY <1>1, <3>2, <3>3, EndFacts
  <2>. QED
    BY <1>1, <2>1 DEF SplitUpTo
<1>6. q < EndOf(m)
  <2>1. CASE EndOf(m) \in Closes(m)
    BY <1>1, <1>4, <1>5, <2>1
  <2>2. CASE EndOf(m) = Len(m) + 1
    BY <1>1, <1>3, <2>2
  <2>. QED
    BY <2>1, <2>2, EndFacts
<1>7. t \in Begins(m) /\ t \notin UpTo(m, p)
  BY <1>5 DEF Begins, UpTo
<1>8. /\ UpTo(m, t) = UpTo(m, p) \cup {t} /\ UpTo(m, q) = UpTo(m, t)
  <2>1. ASSUME NEW i \in Begins(m)
        PROVE  (i <= t <=> i <= p \/ i = t) /\ (i <= q <=> i <= t)
    <3>1. i \in Nat /\ i \in Opens(m)
      BY BeginsFacts
    <3>2. t < i => q + 1 <= i
      BY <1>4, <3>1
    <3>. QED
      BY <1>1, <3>1, <3>2
  <2>. QED
    BY <1>7, <2>1 DEF UpTo
<1>9. Cardinality(UpTo(m, t)) = Cardinality(UpTo(m, p)) + 1
  BY <1>7, <1>8, BeginsFacts, FS_AddElement
<1>10. /\ rs \in Seq(PartRecord) /\ Len(rs) = Len(ps) + 1
       /\ \A i \in 1 .. Len(ps) : rs[i] = qs[i]
       /\ rs[Len(ps) + 1].raw = << >>
  <2>1. qs \in Seq(PartRecord) /\ Len(qs) = Len(ps)
    BY DEF Ended
  <2>2. /\ rs \in Seq(PartRecord) /\ Len(rs) = Len(qs) + 1
        /\ \A i \in 1 .. Len(qs) : rs[i] = qs[i]
        /\ rs[Len(qs) + 1].raw = << >>
    BY <2>1, PartBeginFacts
  <2>. QED
    BY <2>1, <2>2
<1>. HIDE DEF rs, q, t
<1>11. Len(rs) = Cardinality(UpTo(m, q))
  BY <1>8, <1>9, <1>10 DEF SplitUpTo
<1>12. ASSUME NEW i \in 1 .. Len(rs) - 1 PROVE rs[i].raw = Split(m)[i]
  <2>1. i \in 1 .. Len(ps) /\ rs[i] = qs[i]
    BY <1>1, <1>10
  <2>2. CASE i # Len(ps)
    <3>1. i \in 1 .. Len(ps) - 1
      BY <1>1, <2>1, <2>2
    <3>. QED
      BY <2>1, <3>1 DEF SplitUpTo, Ended
  <2>3. CASE i = Len(ps)
    <3>1. ps # << >>
      BY <2>1, <2>3
    <3>2. PICK s \in Begins(m) : PartBeginsAt(s, m, ps, b, p)
      BY <3>1 DEF SplitUpTo
    <3>3. UpTo(m, t) = UpTo(m, s) \cup {t} /\ t \notin UpTo(m, s)
      BY <1>7, <1>8, <3>2 DEF PartBeginsAt
    <3>4. Split(m)[Cardinality(UpTo(m, s))] = SubSeq(m, s + Len(Boundary) + 3, t - 1)
      BY <1>7, <3>3, PartBeforeNext
    <3>5. Cardinality(UpTo(m, s)) = i /\ t - 1 = p
      BY <2>3, <3>2 DEF PartBeginsAt, SplitUpTo, t
    <3>6. qs[i].raw = SubSeq(m, s + Len(Boundary) + 3, p)
      BY <2>3, <3>1, <3>2 DEF Ended, PartBeginsAt
    <3>. QED
      BY <2>1, <3>4, <3>5, <3>6
  <2>. QED
    BY <2>2, <2>3
<1>13. PartBeginsAt(t, m, rs, << >>, q)
  <2>1. t + Len(Boundary) + 2 = q /\ t + Len(Boundary) + 3 = q + 1 /\ q \in Nat
    BY <1>1 DEF t, q
  <2>2. SubSeq(m, q + 1, q) = << >>
    <3>1. q + 1 \in Int /\ q \in Int /\ q < q + 1
      BY <2>1
    <3>. QED
      BY <3>1, SubSeqEmpty
  <2>3. << >> \o << >> = << >>
    OBVIOUS
  <2>. QED
    BY <1>8, <1>10, <2>1, <2>2, <2>3 DEF PartBeginsAt
<1>14. SplitUpTo(m, rs, << >>, q)
  BY <1>6, <1>7, <1>11, <1>12, <1>13 DEF SplitUpTo
<1>. QED
  BY <1>14 DEF rs, q

LEMMA AtClosing ==
  ASSUME NEW m \in Seq(Token), NEW ps \in Seq(PartRecord),
         NEW b, NEW p \in Nat, SplitUpTo(m, ps, b, p), p + 1 \in Closes(m),
         NEW qs, Ended(qs, ps, b)
  PROVE  /\ Len(qs) = Len(Split(m))
         /\ \A i \in 1 .. Len(qs) : qs[i].raw = Split(m)[i]
<1>1. EndOf(m) = p + 1
  <2>1. EndOf(m) \in Nat /\ EndOf(m) <= p + 1 /\ p < EndOf(m)
    BY EndFacts DEF SplitUpTo
  <2>. QED
    BY <2>1
<1>2. UpTo(m, p) = Begins(m)
  <2>1. ASSUME NEW i \in Begins(m) PROVE i <= p
    <3>1. i \in Nat /\ i < p + 1
      BY <1>1, BeginsFacts
    <3>. QED
      BY <3>1
  <2>. QED
    BY <2>1 DEF UpTo
<1>3. Len(ps) = Len(Split(m)) /\ Len(qs) = Len(ps) /\ Len(ps) \in Nat
  BY <1>2, SplitLength DEF SplitUpTo, Ended
<1>4. ASSUME NEW i \in 1 .. Len(qs) PROVE qs[i].raw = Split(m)[i]
  <2>1. CASE i # Len(ps)
    <3>1. i \in 1 .. Len(ps) - 1
      BY <1>3, <2>1
    <3>. QED
      BY <3>1 DEF SplitUpTo, Ended
  <2>2. CASE i = Len(ps)
    <3>1. ps # << >>
      BY <1>3, <2>2
    <3>2. PICK s \in Begins(m) : PartBeginsAt(s, m, ps, b, p)
      BY <3>1 DEF SplitUpTo
    <3>3. UpTo(m, s) = Begins(m)
      BY <1>2, <3>2 DEF PartBeginsAt
    <3>4. Split(m)[Cardinality(UpTo(m, s))] = SubSeq(m, s + Len(Boundary) + 3, EndOf(m) - 1)
      BY <3>3, PartBeforeEnd
    <3>5. Cardinality(UpTo(m, s)) = i /\ EndOf(m) - 1 = p
      BY <1>1, <2>2, <3>2 DEF PartBeginsAt, SplitUpTo
    <3>6. qs[i].raw = SubSeq(m, s + Len(Boundary) + 3, p)
      BY <2>2, <3>1, <3>2 DEF Ended, PartBeginsAt
    <3>. QED
      BY <3>4, <3>5, <3>6
  <2>. QED
    BY <2>1, <2>2
<1>. QED
  BY <1>3, <1>4

(* The parts so far are a prefix of the reference's.                       *)
LEMMA PrefixSoFar ==
  ASSUME NEW m \in Seq(Token), NEW ps \in Seq(PartRecord), NEW b \in Seq(Token),
         NEW p \in Nat, p <= Len(m), SplitUpTo(m, ps, b, p)
  PROVE  /\ Len(ps) <= Len(Split(m))
         /\ \A i \in 1 .. Len(ps) : IsPrefix(ps[i].raw, Split(m)[i])
         /\ \A i \in 1 .. Len(ps) - 1 : ps[i].raw = Split(m)[i]
<1>1. Len(ps) <= Len(Split(m)) /\ Len(ps) \in Nat
  BY SplitLength, BeginsFacts DEF SplitUpTo
<1>2. \A i \in 1 .. Len(ps) - 1 : ps[i].raw = Split(m)[i]
  BY DEF SplitUpTo
<1>3. ASSUME NEW i \in 1 .. Len(ps) PROVE IsPrefix(ps[i].raw, Split(m)[i])
  <2>1. ps[i].raw \in Seq(Token)
    <3>1. ps[i] \in PartRecord
      OBVIOUS
    <3>. QED
      BY <3>1 DEF PartRecord
  <2>2. CASE i # Len(ps)
    <3>1. i \in 1 .. Len(ps) - 1
      BY <1>1, <2>2
    <3>2. Split(m)[i] = ps[i].raw /\ Len(ps[i].raw) \in Nat
      BY <1>2, <2>1, <3>1
    <3>. QED
      BY <3>2 DEF IsPrefix
  <2>3. CASE i = Len(ps)
    <3>1. ps # << >>
      BY <1>1, <2>3
    <3>2. PICK s \in Begins(m) : PartBeginsAt(s, m, ps, b, p)
      BY <3>1 DEF SplitUpTo
    <3>3. PICK e \in Nat :
            /\ s < e /\ e <= EndOf(m)
            /\ e = EndOf(m) \/ (e \in Begins(m) /\ e \notin UpTo(m, s))
            /\ Split(m)[Cardinality(UpTo(m, s))] = SubSeq(m, s + Len(Boundary) + 3, e - 1)
      BY PartEnds
    <3>4. PICK a \in Nat : a = s + Len(Boundary) + 2
      <4>1. s \in Nat /\ Len(Boundary) \in Nat
        BY BeginsFacts, ParserAssumption
      <4>. QED
        BY <4>1
    <3>5. a <= p /\ s + Len(Boundary) + 3 = a + 1
      <4>1. s \in Nat /\ Len(Boundary) \in Nat
        BY BeginsFacts, ParserAssumption
      <4>. QED
        BY <3>2, <3>4, <4>1 DEF PartBeginsAt
    <3>6. p < e
      <4>1. CASE e = EndOf(m)
        BY <4>1 DEF SplitUpTo
      <4>2. CASE e \in Begins(m) /\ e \notin UpTo(m, s)
        BY <3>2, <3>3, <4>2, SMTT(30) DEF PartBeginsAt, UpTo
      <4>. QED
        BY <3>3, <4>1, <4>2
    <3>7. e - 1 \in Nat /\ p <= e - 1 /\ e - 1 <= Len(m)
      <4>1. EndOf(m) \in Nat /\ EndOf(m) <= Len(m) + 1 /\ Len(m) \in Nat
        BY EndFacts
      <4>. QED
        BY <3>3, <3>6, <4>1
    <3>8. ps[i].raw \o b = SubSeq(m, a + 1, p)
      BY <2>3, <3>2, <3>5 DEF PartBeginsAt
    <3>9. IsPrefix(ps[i].raw, SubSeq(m, a + 1, e - 1))
      BY <2>1, <3>5, <3>7, <3>8, SlicePrefix
    <3>10. Split(m)[i] = SubSeq(m, a + 1, e - 1)
      BY <2>3, <3>2, <3>3, <3>5 DEF PartBeginsAt, SplitUpTo
    <3>. QED
      BY <3>9, <3>10
  <2>. QED
    BY <2>2, <2>3
<1>. QED
  BY <1>1, <1>2, <1>3

-----------------------------------------------------------------------------
(* The invariant behind PartsExact. The buffer of the reader holds the     *)
(* last bytes of the message that were read; from the marker on MIME_parse *)
(* has seen as much of a delimiter as pc and n say; a CR to be ignored     *)
(* begins none; and the parts are those of the message up to the marker.   *)
Marked == pos - Len(reader.buffer) + reader.marker

Buffered ==
  /\ Len(reader.buffer) <= pos
  /\ \A j \in 1 .. Len(reader.buffer) :
       reader.buffer[j] = body[pos - Len(reader.buffer) + j]

DelimiterSeen(m, p, k) ==
  /\ m[p + 1] = CR
  /\ \A j \in 1 .. k : m[p + 1 + j] = Boundary[j]

Seen ==
  /\ pc \in Reading \ {"scan"} => DelimiterSeen(body, Marked, n)
  /\ pc \in {"delimiter", "return", "dash"} => n = Len(Boundary)
  /\ pc = "return" => body[Marked + 2 + n] = CR
  /\ pc = "dash" => body[Marked + 2 + n] = Dash
  /\ ignore => /\ pc \in {"scan"} \cup Failed \cup Lost
               /\ Marked + 1 \notin Opens(body) \cup Closes(body)

AllParts(m, ps) ==
  /\ Len(ps) = Len(Split(m))
  /\ \A i \in 1 .. Len(ps) : ps[i].raw = Split(m)[i]

Exact ==
  Clean /\ pc # "wild" => IF Parsed THEN AllParts(body, parts)
                     ELSE SplitUpTo(body, parts, buf, Marked)

ExactInv == IInv /\ TypeInv /\ Buffered /\ Seen /\ Exact

LEMMA Sorts ==
  ASSUME ExactInv
  PROVE  /\ body \in Seq(Token) /\ Len(body) \in Nat /\ buf \in Seq(Token)
         /\ parts \in Seq(PartRecord)
         /\ pos \in Nat /\ pos <= Len(body) /\ n \in Nat
         /\ reader.buffer \in Seq(Token) /\ Len(reader.buffer) \in Nat
         /\ reader.marker \in Nat /\ reader.current \in Nat
         /\ reader.marker <= reader.current /\ reader.current <= Len(reader.buffer)
         /\ Marked \in Nat /\ Marked <= Len(body) /\ Len(Boundary) \in Nat
         /\ Clean => IsClean(body)
<1>1. /\ body \in Seq(Token) /\ Len(body) \in Nat /\ buf \in Seq(Token)
      /\ parts \in Seq(PartRecord)
      /\ pos \in Nat /\ pos <= Len(body) /\ n \in Nat
      /\ reader.buffer \in Seq(Token) /\ Len(reader.buffer) \in Nat
      /\ reader.marker \in Nat /\ reader.current \in Nat
      /\ reader.marker <= reader.current /\ reader.current <= Len(reader.buffer)
      /\ Len(Boundary) \in Nat
  BY ParserAssumption DEF ExactInv, IInv, ReaderInv, ParserInv, TypeInv
<1>2. Marked \in Nat /\ Marked <= Len(body)
  BY <1>1, SMTT(30) DEF ExactInv, Buffered, Marked
<1>3. Clean => IsClean(body)
  BY DEF Clean, CleanOnes
<1>. QED
  BY <1>1, <1>2, <1>3

\* q bytes of the message are no longer in the buffer, which holds b.
LEMMA Numbers ==
  ASSUME ExactInv
  PROVE  \E q \in Nat, b \in Nat, g \in Nat :
           /\ b = Len(reader.buffer) /\ g = reader.marker /\ g <= b
           /\ pos = q + b /\ pos - b = q /\ Marked = q + g
           /\ q + b <= Len(body) /\ Len(body) \in Nat
           /\ \A j \in 1 .. b : reader.buffer[j] = body[q + j]
<1>1. PICK p \in Nat, b \in Nat, g \in Nat, l \in Nat :
        /\ p = pos /\ b = Len(reader.buffer) /\ g = reader.marker /\ l = Len(body)
        /\ b <= p /\ g <= b /\ p <= l
  <2>1. Len(reader.buffer) <= pos
    BY DEF ExactInv, Buffered
  <2>2. reader.marker <= Len(reader.buffer)
    BY Sorts
  <2>. QED
    BY <2>1, <2>2, Sorts
<1>n. b <= p /\ g <= b /\ p <= l
  BY <1>1
<1>2. PICK q \in Nat : q = p - b
  BY <1>n
<1>3. p = q + b /\ p - b = q /\ q + b <= l
  BY <1>n, <1>2
<1>4. Marked = q + g
  BY <1>1, <1>2 DEF Marked
<1>5. \A j \in 1 .. b : reader.buffer[j] = body[q + j]
  BY <1>1, <1>2 DEF ExactInv, Buffered
<1>. QED
  BY <1>1, <1>3, <1>4, <1>5, ZenonT(60)

\* The next byte is the one of the message behind what has been seen.
LEMMA ByteRead ==
  ASSUME ExactInv, reader.current < Len(reader.buffer),
         NEW d \in Nat, reader.current = reader.marker + d
  PROVE  Byte = body[Marked + d + 1] /\ Marked + d + 1 <= Len(body)
<1>1. PICK q \in Nat, b \in Nat, g \in Nat :
        /\ b = Len(reader.buffer) /\ g = reader.marker
        /\ Marked = q + g /\ q + b <= Len(body) /\ Len(body) \in Nat
        /\ \A j \in 1 .. b : reader.buffer[j] = body[q + j]
  BY Numbers
<1>2. g + d + 1 \in 1 .. b /\ reader.current + 1 = g + d + 1
  BY <1>1, SMTT(30)
<1>3. q + (g + d + 1) = Marked + d + 1 /\ Marked + d + 1 <= Len(body)
  <2>1. PICK l \in Nat : l = Len(body) /\ q + b <= l
    BY <1>1
  <2>2. q + b <= l /\ g + d + 1 <= b
    BY <1>2, <2>1
  <2>3. q + (g + d + 1) = q + g + d + 1 /\ q + g + d + 1 <= l
    BY <2>2
  <2>. QED
    BY <1>1, <2>1, <2>3
<1>. QED
  BY <1>1, <1>2, <1>3 DEF Byte

LEMMA SameBuffer ==
  ASSUME ExactInv, UNCHANGED <<body, pos>>, reader'.buffer = reader.buffer,
         NEW d \in Nat, reader'.marker = reader.marker + d
  PROVE  Buffered' /\ Marked' = Marked + d
<1>1. Buffered'
  BY DEF ExactInv, Buffered
<1>2. Marked' = Marked + d
  BY Sorts, SMTT(30) DEF Marked
<1>. QED
  BY <1>1, <1>2

LEMMA PassKeeps ==
  ASSUME NEW m \in Seq(Token), parts \in Seq(PartRecord), NEW b \in Seq(Token),
         NEW p \in Nat, SplitUpTo(m, parts, b, p), Pass(b)
  PROVE  SplitUpTo(m, parts', buf', p)
<1>1. CASE IsFull(b)
  BY <1>1, PassOn DEF Pass
<1>2. CASE ~IsFull(b)
  BY <1>2 DEF Pass
<1>. QED
  BY <1>1, <1>2

LEMMA RefillExact ==
  ASSUME ExactInv, Refill
  PROVE  Buffered' /\ Seen' /\ Exact'
<1>. DEFINE kept == SubSeq(reader.buffer, reader.marker + 1, Len(reader.buffer))
<1>0. PICK q \in Nat, b \in Nat, g \in Nat :
        /\ b = Len(reader.buffer) /\ g = reader.marker /\ g <= b
        /\ pos = q + b /\ pos - b = q /\ Marked = q + g
        /\ q + b <= Len(body) /\ Len(body) \in Nat
        /\ \A j \in 1 .. b : reader.buffer[j] = body[q + j]
  BY Numbers
<1>p. PICK p \in Nat : p = pos /\ p = q + b
  BY <1>0
<1>1. PICK k \in 1 .. ReaderSize - 1 - Len(kept) :
        /\ pos + k <= Len(body) /\ pos' = pos + k
        /\ reader' = [buffer |-> kept \o SubSeq(body, pos + 1, pos + k),
                      marker |-> 0, current |-> Len(kept)]
  BY DEF Refill
<1>2. PICK l \in Nat : b = g + l
  <2>0. g <= b
    BY <1>0
  <2>1. b - g \in Nat /\ b = g + (b - g)
    BY <2>0
  <2>. QED
    BY <2>1
<1>3. /\ kept \in Seq(Token) /\ Len(kept) = l
      /\ \A j \in 1 .. l : kept[j] = reader.buffer[g + j]
  <2>1. reader.buffer \in Seq(Token)
    BY Sorts
  <2>2. /\ SubSeq(reader.buffer, g + 1, b) \in Seq(Token)
        /\ Len(SubSeq(reader.buffer, g + 1, b)) = b - g
        /\ \A j \in 1 .. b - g : SubSeq(reader.buffer, g + 1, b)[j] = reader.buffer[g + j]
    <3>1. PICK s \in Seq(Token) : s = reader.buffer /\ Len(s) = b
      BY <1>0, <2>1
    <3>2. g <= b /\ b <= Len(s)
      BY <1>0, <3>1
    <3>3. /\ SubSeq(s, g + 1, b) \in Seq(Token) /\ Len(SubSeq(s, g + 1, b)) = b - g
          /\ \A j \in 1 .. b - g : SubSeq(s, g + 1, b)[j] = s[g + j]
      BY <3>2, Slice
    <3>. QED
      BY <3>1, <3>3
  <2>3. b - g = l
    BY <1>2
  <2>. QED
    BY <1>0, <2>2, <2>3
<1>4. k \in Nat /\ k > 0
  BY <1>1, <1>3, ParserAssumption
<1>. DEFINE more == SubSeq(body, pos + 1, pos + k)
<1>5. /\ more \in Seq(Token) /\ Len(more) = k
      /\ \A j \in 1 .. k : more[j] = body[p + j]
  <2>1. p <= p + k /\ p + k \in Nat /\ p + k - p = k /\ p + k <= Len(body)
    BY <1>1, <1>4, <1>p
  <2>2. body \in Seq(Token)
    BY Sorts
  <2>3. /\ SubSeq(body, p + 1, p + k) \in Seq(Token)
        /\ Len(SubSeq(body, p + 1, p + k)) = p + k - p
        /\ \A j \in 1 .. p + k - p : SubSeq(body, p + 1, p + k)[j] = body[p + j]
    <3>1. PICK e \in Nat, s \in Seq(Token) : e = p + k /\ s = body /\ p <= e /\ e <= Len(s)
      BY <2>1, <2>2
    <3>2. /\ SubSeq(s, p + 1, e) \in Seq(Token) /\ Len(SubSeq(s, p + 1, e)) = e - p
          /\ \A j \in 1 .. e - p : SubSeq(s, p + 1, e)[j] = s[p + j]
      BY <3>1, <1>p, Slice, ZenonT(60)
    <3>. QED
      BY <3>1, <3>2
  <2>. QED
    BY <1>p, <2>1, <2>3
<1>6. /\ reader'.buffer = kept \o more /\ reader'.marker = 0 /\ body' = body
  BY <1>1 DEF Refill
<1>. HIDE DEF kept, more
<1>7. /\ Len(reader'.buffer) = l + k
      /\ \A j \in 1 .. l + k :
           reader'.buffer[j] = IF j <= l THEN kept[j] ELSE more[j - l]
  <2>1. /\ Len(kept \o more) = Len(kept) + Len(more)
        /\ \A j \in 1 .. Len(kept) + Len(more) :
             (kept \o more)[j] = IF j <= Len(kept) THEN kept[j] ELSE more[j - Len(kept)]
    BY <1>3, <1>5, ConcatProperties
  <2>. QED
    BY <1>3, <1>5, <1>6, <2>1
<1>8. pos' = q + g + (l + k) /\ pos' - Len(reader'.buffer) = q + g
  <2>1. pos' = q + g + (l + k)
    <3>1. pos' = p + k /\ p = q + b
      BY <1>1, <1>p
    <3>. QED
      BY <1>2, <1>4, <3>1
  <2>2. q + g + (l + k) - (l + k) = q + g
    BY <1>4
  <2>. QED
    BY <1>7, <2>1, <2>2
<1>9. Marked' = Marked
  BY <1>0, <1>6, <1>8 DEF Marked
<1>10. Buffered'
  <2>1. Len(reader'.buffer) <= pos'
    BY <1>4, <1>7, <1>8
  <2>2. ASSUME NEW j \in 1 .. l + k
        PROVE  reader'.buffer[j] = body[q + g + j]
    <3>1. CASE j <= l
      <4>1. j \in 1 .. l /\ g + j \in 1 .. b /\ q + (g + j) = q + g + j
        BY <1>2, <1>4, <3>1
      <4>2. reader'.buffer[j] = reader.buffer[g + j]
        BY <1>3, <1>7, <3>1, <4>1
      <4>3. reader.buffer[g + j] = body[q + (g + j)]
        BY <1>0, <4>1
      <4>. QED
        BY <4>1, <4>2, <4>3
    <3>2. CASE ~(j <= l)
      <4>1. j - l \in 1 .. k /\ p + (j - l) = q + g + j
        BY <1>2, <1>4, <1>p, <3>2
      <4>. QED
        BY <1>5, <1>7, <3>2, <4>1
    <3>. QED
      BY <3>1, <3>2
  <2>. QED
    BY <1>6, <1>7, <1>8, <2>1, <2>2 DEF Buffered
<1>11. Seen'
  BY <1>9, <1>6 DEF Refill, ExactInv, Seen
<1>12. Exact'
  BY <1>9, <1>6 DEF Refill, ExactInv, Exact, Clean, Parsed
<1>. QED
  BY <1>10, <1>11, <1>12

LEMMA ScanByteExact ==
  ASSUME ExactInv, ScanByte
  PROVE  Buffered' /\ Seen' /\ Exact'
<1>1. /\ pc = "scan" /\ reader.current < Len(reader.buffer)
      /\ reader.current = reader.marker /\ reader.current = reader.marker + 0
  <2>1. pc = "scan" /\ reader.current < Len(reader.buffer)
    BY DEF ScanByte, At
  <2>2. reader.current = reader.marker
    BY <2>1 DEF ExactInv, IInv, Lookahead
  <2>. QED
    BY <2>1, <2>2, Sorts
<1>2. Byte = body[Marked + 0 + 1] /\ Marked + 0 + 1 <= Len(body)
  BY <1>1, ByteRead
<1>3. Byte = body[Marked + 1] /\ Marked + 1 <= Len(body)
  BY <1>2, Sorts
<1>4. /\ reader'.buffer = reader.buffer /\ reader'.marker = reader.marker + 1
      /\ UNCHANGED <<body, pos, n>> /\ ignore' = FALSE /\ pc' \in {"scan", "wild"}
  BY <1>1, OnwardOrWild DEF ScanByte, TakeAndMark, ExactInv, IInv, ReaderInv
<1>5. Buffered' /\ Marked' = Marked + 1
  BY <1>4, SameBuffer
<1>6. Seen'
  BY <1>1, <1>4 DEF Seen, Reading
<1>7. Marked + 1 \notin Opens(body) \cup Closes(body)
  <2>1. CASE Byte # CR
    <3>1. \A y, z : ~Delimits(body, Marked + 1, y, z)
      BY <1>3, <2>1 DEF Delimits
    <3>2. Marked + 1 \in Nat \ {0}
      BY Sorts
    <3>. QED
      BY <3>1, <3>2, Sorts, OpensAndCloses
  <2>2. CASE ignore
    BY <2>2 DEF ExactInv, Seen
  <2>. QED
    BY <2>1, <2>2 DEF ScanByte
<1>8. ASSUME Clean PROVE SplitUpTo(body', parts', buf', Marked')
  <2>1. SplitUpTo(body, parts, buf, Marked)
    BY <1>1, <1>8 DEF ExactInv, Exact, Parsed
  <2>2. SplitUpTo(body, parts, Append(buf, body[Marked + 1]), Marked + 1)
    BY <1>3, <1>7, <2>1, AddByte, Sorts
  <2>3. Append(buf, Byte) \in Seq(Token) /\ Marked + 1 \in Nat
    BY <1>1, ByteInBuffer, Sorts DEF ExactInv
  <2>4. Pass(Append(buf, Byte))
    BY DEF ScanByte
  <2>5. SplitUpTo(body, parts', buf', Marked + 1)
    BY <1>3, <2>2, <2>3, <2>4, PassKeeps, Sorts
  <2>. QED
    BY <1>4, <1>5, <2>5
<1>9. Exact'
  BY <1>1, <1>4, <1>8 DEF Exact, Clean, Parsed
<1>. QED
  BY <1>5, <1>6, <1>9

-----------------------------------------------------------------------------

\* Where MIME_parse looks at the bytes of what may be a delimiter.
LEMMA InDelimiter ==
  ASSUME ExactInv, pc \in Reading \ {"scan"}, reader.current < Len(reader.buffer)
  PROVE  /\ ~ignore /\ ignore = FALSE /\ ~Parsed
         /\ DelimiterSeen(body, Marked, n)
         /\ pc = "match" => /\ n < Len(Boundary) /\ reader.current = reader.marker + (n + 1)
                            /\ Byte = body[Marked + n + 2]
         /\ pc = "delimiter" => /\ n = Len(Boundary)
                                /\ reader.current = reader.marker + (n + 1)
                                /\ Byte = body[Marked + n + 2]
         /\ pc \in {"return", "dash"} =>
              /\ n = Len(Boundary) /\ reader.current = reader.marker + (n + 2)
              /\ Byte = body[Marked + n + 3] /\ Marked + n + 3 <= Len(body)
<1>1. ~ignore /\ ~Parsed /\ DelimiterSeen(body, Marked, n)
  BY DEF ExactInv, Seen, Reading, Failed, Lost, Parsed
<1>2. ignore = FALSE
  BY <1>1 DEF ExactInv, TypeInv
<1>3. PICK k \in Nat, g \in Nat, c \in Nat, q \in Nat, l \in Nat :
        k = n /\ g = reader.marker /\ c = reader.current /\ q = Marked /\ l = Len(Boundary)
  BY Sorts
<1>4. CASE pc = "match"
  <2>1. k < l /\ c = g + 1 + k
    BY <1>3, <1>4 DEF ExactInv, IInv, Lookahead
  <2>2. c = g + (k + 1) /\ k + 1 \in Nat /\ q + (k + 1) + 1 = q + k + 2
    BY <2>1
  <2>3. Byte = body[Marked + (k + 1) + 1]
    BY <1>3, <2>2, ByteRead
  <2>. QED
    BY <1>1, <1>2, <1>3, <1>4, <2>1, <2>2, <2>3
<1>5. CASE pc = "delimiter"
  <2>1. k = l /\ c = g + 1 + l
    BY <1>3, <1>5 DEF ExactInv, IInv, Lookahead, Seen
  <2>2. c = g + (k + 1) /\ k + 1 \in Nat /\ q + (k + 1) + 1 = q + k + 2
    BY <2>1
  <2>3. Byte = body[Marked + (k + 1) + 1]
    BY <1>3, <2>2, ByteRead
  <2>. QED
    BY <1>1, <1>2, <1>3, <1>5, <2>1, <2>2, <2>3
<1>6. CASE pc \in {"return", "dash"}
  <2>1. k = l /\ c = g + 2 + l
    BY <1>3, <1>6 DEF ExactInv, IInv, Lookahead, Seen
  <2>2. c = g + (k + 2) /\ k + 2 \in Nat /\ q + (k + 2) + 1 = q + k + 3
    BY <2>1
  <2>3. Byte = body[Marked + (k + 2) + 1] /\ Marked + (k + 2) + 1 <= Len(body)
    BY <1>3, <2>2, ByteRead
  <2>. QED
    BY <1>1, <1>2, <1>3, <1>6, <2>1, <2>2, <2>3
<1>. QED
  BY <1>4, <1>5, <1>6 DEF Reading

\* The marker stays where it is.
LEMMA StayMarked ==
  ASSUME ExactInv, UNCHANGED <<body, pos>>, reader'.buffer = reader.buffer,
         reader'.marker = reader.marker
  PROVE  Buffered' /\ Marked' = Marked
<1>1. reader'.marker = reader.marker + 0 /\ Marked + 0 = Marked
  BY Sorts
<1>. QED
  BY <1>1, SameBuffer

LEMMA ExactStays ==
  ASSUME ExactInv, UNCHANGED <<body, buf, parts>>, Marked' = Marked, Parsed' <=> Parsed,
         pc # "wild"
  PROVE  Exact'
BY DEF ExactInv, Exact, Clean

LEMMA ScanReturnExact ==
  ASSUME ExactInv, ScanReturn
  PROVE  Buffered' /\ Seen' /\ Exact'
<1>1. /\ pc = "scan" /\ reader.current < Len(reader.buffer)
      /\ reader.current = reader.marker /\ reader.current = reader.marker + 0
  <2>1. pc = "scan" /\ reader.current < Len(reader.buffer)
    BY DEF ScanReturn, At
  <2>2. reader.current = reader.marker
    BY <2>1 DEF ExactInv, IInv, Lookahead
  <2>. QED
    BY <2>1, <2>2, Sorts
<1>2. body[Marked + 1] = CR
  <2>1. Byte = body[Marked + 0 + 1] /\ Marked + 0 + 1 = Marked + 1
    BY <1>1, ByteRead, Sorts
  <2>. QED
    BY <2>1 DEF ScanReturn
<1>3. /\ reader'.buffer = reader.buffer /\ reader'.marker = reader.marker
      /\ UNCHANGED <<body, pos, ignore, buf, parts>> /\ pc' = "match" /\ n' = 0 /\ ~ignore
  BY DEF ScanReturn, Take, ExactInv, IInv, ReaderInv
<1>4. Buffered' /\ Marked' = Marked
  BY <1>3, StayMarked
<1>5. DelimiterSeen(body', Marked', n')
  BY <1>2, <1>3, <1>4 DEF DelimiterSeen
<1>6. Seen'
  BY <1>3, <1>5 DEF Seen
<1>7. Exact'
  BY <1>1, <1>3, <1>4, ExactStays DEF Parsed
<1>. QED
  BY <1>4, <1>6, <1>7

LEMMA MatchByteExact ==
  ASSUME ExactInv, MatchByte
  PROVE  Buffered' /\ Seen' /\ Exact'
<1>1. pc = "match" /\ reader.current < Len(reader.buffer) /\ Byte = Boundary[n + 1]
  BY DEF MatchByte, At
<1>2. /\ ~ignore /\ DelimiterSeen(body, Marked, n) /\ Byte = body[Marked + n + 2]
  BY <1>1, InDelimiter DEF Reading
<1>3. /\ reader'.buffer = reader.buffer /\ reader'.marker = reader.marker
      /\ UNCHANGED <<body, pos, ignore, buf, parts>> /\ n' = n + 1
      /\ pc' = IF n + 1 = Len(Boundary) THEN "delimiter" ELSE "match"
  BY DEF MatchByte, Take, ExactInv, IInv, ReaderInv
<1>4. Buffered' /\ Marked' = Marked
  BY <1>3, StayMarked
<1>5. DelimiterSeen(body, Marked, n + 1)
  <2>1. PICK k \in Nat, q \in Nat : k = n /\ q = Marked
    BY Sorts
  <2>2. ASSUME NEW j \in 1 .. k + 1 PROVE body[q + 1 + j] = Boundary[j]
    <3>1. CASE j \in 1 .. k
      BY <1>2, <2>1, <3>1 DEF DelimiterSeen
    <3>2. CASE j \notin 1 .. k
      <4>1. j = k + 1 /\ q + 1 + j = q + k + 2
        BY <3>2
      <4>. QED
        BY <1>1, <1>2, <2>1, <4>1
    <3>. QED
      BY <3>1, <3>2
  <2>. QED
    BY <1>2, <2>1, <2>2 DEF DelimiterSeen
<1>6. pc' \in {"delimiter", "match"} /\ (pc' = "delimiter" => n' = Len(Boundary))
  BY <1>3
<1>7. DelimiterSeen(body', Marked', n')
  BY <1>3, <1>4, <1>5
<1>8. Seen'
  BY <1>2, <1>3, <1>6, <1>7 DEF Seen
<1>9. Exact'
  BY <1>1, <1>3, <1>4, <1>6, ExactStays DEF Parsed
<1>. QED
  BY <1>4, <1>8, <1>9

LEMMA AfterBoundaryExact ==
  ASSUME ExactInv, AfterBoundary
  PROVE  Buffered' /\ Seen' /\ Exact'
<1>1. pc = "delimiter" /\ reader.current < Len(reader.buffer) /\ Byte \in {CR, Dash}
  BY DEF AfterBoundary, At
<1>2. /\ ~ignore /\ DelimiterSeen(body, Marked, n) /\ n = Len(Boundary)
      /\ Byte = body[Marked + n + 2]
  BY <1>1, InDelimiter DEF Reading
<1>3. /\ reader'.buffer = reader.buffer /\ reader'.marker = reader.marker
      /\ UNCHANGED <<body, pos, ignore, n, buf, parts>>
      /\ pc' = IF Byte = CR THEN "return" ELSE "dash"
  BY DEF AfterBoundary, Take, ExactInv, IInv, ReaderInv
<1>4. Buffered' /\ Marked' = Marked
  BY <1>3, StayMarked
<1>5. Marked + 2 + n = Marked + n + 2
  BY Sorts
<1>6. Seen'
  <2>1. CASE Byte = CR
    BY <1>2, <1>3, <1>4, <1>5, <2>1 DEF Seen
  <2>2. CASE Byte # CR
    <3>1. Byte = Dash /\ pc' = "dash"
      BY <1>1, <1>3, <2>2
    <3>. QED
      BY <1>2, <1>3, <1>4, <1>5, <3>1 DEF Seen
  <2>. QED
    BY <2>1, <2>2
<1>7. pc' \in {"return", "dash"}
  BY <1>3
<1>8. Exact'
  BY <1>1, <1>3, <1>4, <1>7, ExactStays DEF Parsed
<1>. QED
  BY <1>4, <1>6, <1>8

\* What did not match is no delimiter.
LEMMA BacktrackExact ==
  ASSUME ExactInv, Backtrack
  PROVE  Buffered' /\ Seen' /\ Exact'
<1>1. /\ pc \in {"match", "delimiter", "dash"} /\ reader.current < Len(reader.buffer)
      /\ pc = "match" => Byte # Boundary[n + 1]
      /\ pc = "delimiter" => Byte \notin {CR, Dash}
      /\ pc = "dash" => Byte # Dash
  BY DEF Backtrack, At
<1>2. pc \in Reading \ {"scan"}
  BY <1>1 DEF Reading
<1>3. PICK k \in Nat, q \in Nat, l \in Nat : k = n /\ q = Marked /\ l = Len(Boundary)
  BY Sorts
<1>4. \A x, y : Delimits(body, q + 1, x, y) => x \notin {CR, Dash} \/ (x = Dash /\ y # Dash)
  <2>. SUFFICES ASSUME NEW x, NEW y, Delimits(body, q + 1, x, y)
                PROVE  x \notin {CR, Dash} \/ (x = Dash /\ y # Dash)
    OBVIOUS
  <2>1. /\ \A j \in 1 .. l : body[q + 1 + j] = Boundary[j]
        /\ body[q + 1 + l + 1] = x /\ body[q + 1 + l + 2] = y
    BY <1>3 DEF Delimits
  <2>2. q + 1 + l + 1 = q + l + 2 /\ q + 1 + l + 2 = q + l + 3 /\ q + 2 + l = q + l + 2
    OBVIOUS
  <2>3. CASE pc = "match"
    <3>1. k < l /\ Byte = body[q + k + 2]
      BY <1>1, <1>2, <1>3, <2>3, InDelimiter
    <3>2. k + 1 \in 1 .. l /\ q + 1 + (k + 1) = q + k + 2
      BY <3>1
    <3>. QED
      BY <1>1, <1>3, <2>1, <2>3, <3>1, <3>2
  <2>4. CASE pc = "delimiter"
    <3>1. k = l /\ Byte = body[q + k + 2]
      BY <1>1, <1>2, <1>3, <2>4, InDelimiter
    <3>. QED
      BY <1>1, <2>1, <2>2, <2>4, <3>1
  <2>5. CASE pc = "dash"
    <3>1. k = l /\ Byte = body[q + k + 3]
      BY <1>1, <1>2, <1>3, <2>5, InDelimiter
    <3>2. body[q + 2 + k] = Dash
      BY <1>3, <2>5 DEF ExactInv, Seen
    <3>. QED
      BY <1>1, <2>1, <2>2, <2>5, <3>1, <3>2
  <2>. QED
    BY <1>1, <2>3, <2>4, <2>5
<1>5. Marked + 1 \notin Opens(body) \cup Closes(body)
  <2>1. q + 1 \in Nat \ {0} /\ body \in Seq(Token)
    BY Sorts
  <2>2. ~Delimits(body, q + 1, CR, LF) /\ ~Delimits(body, q + 1, Dash, Dash)
    BY <1>4, BytesDiffer
  <2>. QED
    BY <1>3, <2>1, <2>2, OpensAndCloses
<1>6. /\ reader'.buffer = reader.buffer /\ reader'.marker = reader.marker
      /\ UNCHANGED <<body, pos, n, buf, parts>> /\ pc' = "scan" /\ ignore' = TRUE
  BY DEF Backtrack, ExactInv, IInv, ReaderInv
<1>7. Buffered' /\ Marked' = Marked
  BY <1>6, StayMarked
<1>8. Seen'
  BY <1>5, <1>6, <1>7 DEF Seen
<1>9. Exact'
  BY <1>1, <1>6, <1>7, ExactStays DEF Parsed
<1>. QED
  BY <1>7, <1>8, <1>9

-----------------------------------------------------------------------------

\* At the second byte behind a boundary all of a delimiter has been seen.
LEMMA WholeDelimiter ==
  ASSUME ExactInv, pc \in {"return", "dash"}, reader.current < Len(reader.buffer)
  PROVE  /\ Delimits(body, Marked + 1, IF pc = "return" THEN CR ELSE Dash, Byte)
         /\ reader.current + 1 = reader.marker + (Len(Boundary) + 3)
         /\ reader.current = reader.marker + (Len(Boundary) + 2)
<1>1. PICK g \in Nat, c \in Nat, q \in Nat, l \in Nat, z \in Nat :
        /\ g = reader.marker /\ c = reader.current /\ q = Marked
        /\ l = Len(Boundary) /\ z = Len(body)
  BY Sorts
<1>2. /\ n = l /\ c = g + (n + 2) /\ Byte = body[q + n + 3] /\ q + n + 3 <= z
      /\ DelimiterSeen(body, q, n)
  BY <1>1, InDelimiter DEF Reading
<1>3. c = g + (l + 2) /\ Byte = body[q + l + 3] /\ q + l + 3 <= z
  BY <1>2
<1>4. body[q + 2 + l] = IF pc = "return" THEN CR ELSE Dash
  BY <1>1, <1>2 DEF ExactInv, Seen
<1>5. /\ q + 1 + l + 1 = q + 2 + l /\ q + 1 + l + 2 = q + l + 3
      /\ c + 1 = g + (l + 3)
  BY <1>3
<1>6. body[q + 1] = CR /\ \A j \in 1 .. l : body[q + 1 + j] = Boundary[j]
  BY <1>2 DEF DelimiterSeen
<1>. QED
  BY <1>1, <1>3, <1>4, <1>5, <1>6 DEF Delimits

LEMMA PartsEnded ==
  ASSUME ExactInv
  PROVE  Ended(EndOfPart, parts, buf)
BY Sorts, EndOfPartFacts DEF Ended

LEMMA NextPartExact ==
  ASSUME ExactInv, NextPart
  PROVE  Buffered' /\ Seen' /\ Exact'
<1>1. pc = "return" /\ reader.current < Len(reader.buffer) /\ Byte = LF
  BY DEF NextPart, At
<1>2. /\ Delimits(body, Marked + 1, CR, LF)
      /\ reader.current + 1 = reader.marker + (Len(Boundary) + 3)
  BY <1>1, WholeDelimiter
<1>3. Marked + 1 \in Opens(body)
  BY <1>2, Sorts, OpensAndCloses
<1>4. ~ignore /\ ignore = FALSE /\ ~Parsed
  BY <1>1, InDelimiter DEF Reading
<1>5. /\ reader'.buffer = reader.buffer /\ reader'.marker = reader.marker + (Len(Boundary) + 3)
      /\ UNCHANGED <<body, pos, n, ignore>> /\ pc' \in {"scan", "wild"} /\ buf' = << >>
  BY <1>2, OnwardOrWild DEF NextPart, TakeAndMark, ExactInv, IInv, ReaderInv
<1>6. Buffered' /\ Marked' = Marked + (Len(Boundary) + 3)
  <2>1. Len(Boundary) + 3 \in Nat
    BY Sorts
  <2>. QED
    BY <1>5, <2>1, SameBuffer
<1>7. Marked' = Marked + Len(Boundary) + 3
  BY <1>6, Sorts
<1>8. Seen'
  BY <1>4, <1>5 DEF Seen, Reading
<1>9. ASSUME Clean PROVE SplitUpTo(body', parts', buf', Marked')
  <2>1. SplitUpTo(body, parts, buf, Marked) /\ IsClean(body)
    BY <1>1, <1>4, <1>9, Sorts DEF ExactInv, Exact
  <2>2. PICK file \in {"open", "none"} : parts' = PartBegin(EndOfPart, file)
    BY DEF NextPart
  <2>3. SplitUpTo(body, PartBegin(EndOfPart, file), << >>, Marked + Len(Boundary) + 3)
    BY <1>3, <2>1, PartsEnded, Sorts, AtOpening
  <2>. QED
    BY <1>5, <1>7, <2>2, <2>3
<1>10. Exact'
  BY <1>5, <1>9 DEF Exact, Clean, Parsed
<1>. QED
  BY <1>6, <1>8, <1>10

\* In a clean message no boundary has a CR alone behind it.
LEMMA NoFalseDelimiter ==
  ASSUME ExactInv, FalseDelimiter, Clean
  PROVE  FALSE
<1>1. pc = "return" /\ reader.current < Len(reader.buffer) /\ Byte # LF
  BY DEF FalseDelimiter, At
<1>2. /\ Delimits(body, Marked + 1, CR, Byte)
      /\ reader.current = reader.marker + (Len(Boundary) + 2)
  BY <1>1, WholeDelimiter
<1>3. PICK q \in Nat, l \in Nat, z \in Nat : q = Marked /\ l = Len(Boundary) /\ z = Len(body)
  BY Sorts
<1>. DEFINE tail == <<CR>>
<1>4. tail \in Seq(Token) /\ Len(tail) = 1 /\ tail[1] = CR
  BY DEF Token
<1>. HIDE DEF tail
<1>5. /\ q + 1 + l + 2 <= z /\ body[q + 1] = CR
      /\ \A j \in 1 .. l : body[q + 1 + j] = Boundary[j]
      /\ body[q + 1 + l + 1] = CR
  BY <1>2, <1>3 DEF Delimits
<1>6. \A j \in 1 .. Len(tail) : body[q + 1 + l + j] = tail[j]
  <2>1. \A j \in 1 .. Len(tail) : j = 1
    BY <1>4
  <2>. QED
    BY <1>4, <1>5, <2>1
<1>7. q + 1 + l + 1 <= z /\ q + 1 \in 1 .. z
  BY <1>5
<1>8. HasDelimiter(body, q + 1, tail)
  BY <1>3, <1>4, <1>5, <1>6, <1>7 DEF HasDelimiter
<1>9. DelimiterAt(body, q + 1, tail)
  BY <1>4, <1>8, Sorts, DelimiterFacts
<1>10. q + 1 \in DOMAIN body
  BY <1>3, <1>7, Sorts
<1>11. q + 1 + Len(Boundary) + 2 <= Len(body)
  BY <1>3, <1>5
<1>12. q + 1 \in Opens(body)
  BY <1>9, <1>10, <1>11, Sorts DEF IsClean, tail
<1>13. Delimits(body, q + 1, CR, LF)
  BY <1>12, Sorts, OpensAndCloses
<1>. QED
  BY <1>1, <1>2, <1>3, <1>13 DEF Delimits

LEMMA FalseDelimiterExact ==
  ASSUME ExactInv, FalseDelimiter
  PROVE  Buffered' /\ Seen' /\ Exact'
<1>1. pc = "return" /\ reader.current < Len(reader.buffer) /\ Byte # LF
  BY DEF FalseDelimiter, At
<1>2. /\ Delimits(body, Marked + 1, CR, Byte)
      /\ reader.current = reader.marker + (Len(Boundary) + 2)
  BY <1>1, WholeDelimiter
<1>3. ~ignore /\ ignore = FALSE
  BY <1>1, InDelimiter DEF Reading
<1>4. /\ reader'.buffer = reader.buffer /\ reader'.marker = reader.marker + (Len(Boundary) + 2)
      /\ UNCHANGED <<body, pos, n, ignore>> /\ pc' \in {"scan", "wild"}
  BY <1>2, OnwardOrWild DEF FalseDelimiter, ExactInv, IInv, ReaderInv
<1>5. Buffered'
  <2>1. Len(Boundary) + 2 \in Nat
    BY Sorts
  <2>. QED
    BY <1>4, <2>1, SameBuffer
<1>6. Seen'
  BY <1>3, <1>4 DEF Seen, Reading
<1>7. ~Clean
  BY NoFalseDelimiter
<1>8. Exact'
  BY <1>4, <1>7 DEF Exact, Clean
<1>. QED
  BY <1>5, <1>6, <1>8

LEMMA FinishExact ==
  ASSUME ExactInv, Finish
  PROVE  Buffered' /\ Seen' /\ Exact'
<1>1. pc = "dash" /\ reader.current < Len(reader.buffer) /\ Byte = Dash
  BY DEF Finish, At
<1>2. Delimits(body, Marked + 1, Dash, Dash)
  BY <1>1, WholeDelimiter
<1>3. Marked + 1 \in Closes(body)
  BY <1>2, Sorts, OpensAndCloses
<1>4. ~ignore /\ ignore = FALSE /\ ~Parsed
  BY <1>1, InDelimiter DEF Reading
<1>5. /\ reader'.buffer = reader.buffer /\ reader'.marker = reader.marker
      /\ UNCHANGED <<body, pos, n, ignore>> /\ pc' \in {"parsed", "wild"} /\ parts' = EndOfPart
  BY OnwardOrWild DEF Finish, Take, ExactInv, IInv, ReaderInv
<1>6. Buffered'
  BY <1>5, StayMarked
<1>7. Seen'
  BY <1>4, <1>5 DEF Seen, Reading
<1>8. ASSUME Clean PROVE AllParts(body', parts')
  <2>1. SplitUpTo(body, parts, buf, Marked)
    BY <1>1, <1>4, <1>8 DEF ExactInv, Exact
  <2>. QED
    BY <1>3, <1>5, <2>1, PartsEnded, Sorts, AtClosing DEF AllParts
<1>9. Exact'
  BY <1>5, <1>8 DEF Exact, Clean, Parsed
<1>. QED
  BY <1>6, <1>7, <1>9

LEMMA BeginExact ==
  ASSUME ExactInv, Begin
  PROVE  Buffered' /\ Seen' /\ Exact'
<1>1. /\ UNCHANGED <<body, pos, reader, n, ignore, buf, parts>>
      /\ Marked' = Marked
  BY DEF Begin, Marked
<1>2. pc = "begin" /\ pc' \in {"scan", "wild"}
  BY DEF Begin
<1>3. Buffered'
  BY <1>1 DEF ExactInv, Buffered
<1>4. Seen'
  BY <1>1, <1>2 DEF ExactInv, Seen, Reading, Failed, Lost
<1>5. Exact'
  BY <1>1, <1>2, ExactStays DEF Parsed
<1>. QED
  BY <1>3, <1>4, <1>5

LEMMA EndsExact ==
  ASSUME ExactInv, Incomplete \/ ReadError \/ ReadNegative \/ ReadHangs
                   \/ GetAttachments \/ NoRootPart
  PROVE  Buffered' /\ Seen' /\ Exact'
<1>1. /\ UNCHANGED <<body, pos, reader, n, ignore, buf>>
      /\ Marked' = Marked
  BY DEF Incomplete, ReadError, ReadNegative, ReadHangs, GetAttachments, NoRootPart, Marked
<1>2. Buffered'
  BY <1>1 DEF ExactInv, Buffered
<1>3. CASE Incomplete \/ ReadError \/ ReadNegative \/ ReadHangs
  <2>1. pc' \in Failed \cup Lost /\ pc \in Reading /\ UNCHANGED parts
    BY <1>3 DEF Incomplete, ReadError, ReadNegative, ReadHangs, UsedUp, Failed, Lost
  <2>2. Seen'
    BY <1>1, <2>1 DEF ExactInv, Seen, Reading, Failed, Lost
  <2>3. Exact'
    BY <1>1, <2>1, ExactStays DEF Parsed, Reading, Failed, Lost
  <2>. QED
    BY <1>2, <2>2, <2>3
<1>4. CASE GetAttachments \/ NoRootPart
  <2>1. pc = "parsed" /\ pc' \in {"done", "noRoot"}
    BY <1>4 DEF GetAttachments, NoRootPart
  <2>2. Seen'
    BY <1>1, <2>1 DEF ExactInv, Seen, Reading, Failed, Lost
  <2>3. Len(parts') = Len(parts) /\ \A i \in 1 .. Len(parts) : parts'[i].raw = parts[i].raw
    <3>1. CASE GetAttachments
      BY <3>1 DEF GetAttachments
    <3>2. CASE NoRootPart
      <4>1. DOMAIN parts = 1 .. Len(parts) /\ Len(parts) \in Nat
        BY Sorts
      <4>2. parts' = [i \in 1 .. Len(parts) |-> [parts[i] EXCEPT !.file = "removed"]]
        BY <3>2, <4>1 DEF NoRootPart
      <4>3. Len(parts') = Len(parts)
        BY <4>1, <4>2
      <4>4. ASSUME NEW i \in 1 .. Len(parts) PROVE parts'[i].raw = parts[i].raw
        <5>1. parts[i] \in PartRecord
          BY <4>1, Sorts
        <5>2. [parts[i] EXCEPT !.file = "removed"].raw = parts[i].raw
          BY <5>1 DEF PartRecord
        <5>. QED
          BY <4>2, <5>2
      <4>. QED
        BY <4>3, <4>4
    <3>. QED
      BY <1>4, <3>1, <3>2
  <2>4. Exact'
    BY <1>1, <2>1, <2>3 DEF ExactInv, Exact, Clean, Parsed, AllParts
  <2>. QED
    BY <1>2, <2>2, <2>4
<1>. QED
  BY <1>3, <1>4

LEMMA ExactInvariance == Spec => []ExactInv
<1>1. Init => ExactInv
  <2>. SUFFICES ASSUME Init PROVE ExactInv
    OBVIOUS
  <2>1. IInv
    <3>1. ReaderInv
      BY ParserAssumption DEF Init, ReaderInv
    <3>2. ParserInv
      BY ParserAssumption DEF Init, ParserInv, Reading
    <3>. QED
      BY <3>1, <3>2 DEF Init, IInv, Lookahead
  <2>2. TypeInv
    <3>1. << >> \in Seq(PartRecord)
      OBVIOUS
    <3>. QED
      BY <3>1 DEF Init, TypeInv
  <2>3. Len(reader.buffer) = 0 /\ reader.marker = 0 /\ pos = 0 /\ Marked = 0
    BY DEF Init, Marked
  <2>4. Buffered /\ Seen
    BY <2>3 DEF Init, Buffered, Seen, Reading
  <2>5. SplitUpTo(body, parts, buf, 0)
    <3>1. body \in Seq(Token) /\ parts = << >> /\ Len(parts) = 0
      BY <2>1 DEF Init, IInv, ParserInv
    <3>2. EndOf(body) \in Nat /\ 0 < EndOf(body)
      BY <3>1, EndFacts
    <3>3. UpTo(body, 0) = {}
      <4>1. \A i \in Begins(body) : i \in Nat /\ i # 0
        BY <3>1, BeginsFacts
      <4>. QED
        BY <4>1 DEF UpTo
    <3>. QED
      <4>1. Cardinality(UpTo(body, 0)) = 0
        BY <3>3, FS_EmptySet
      <4>2. 1 .. Len(parts) - 1 = {}
        BY <3>1
      <4>. QED
        BY <3>1, <3>2, <4>1, <4>2 DEF SplitUpTo
  <2>6. Exact
    BY <2>3, <2>5 DEF Init, Exact, Parsed
  <2>. QED
    BY <2>1, <2>2, <2>4, <2>6 DEF ExactInv
<1>2. ExactInv /\ IInv' /\ [Next]_vars => ExactInv'
  <2>. SUFFICES ASSUME ExactInv, IInv', [Next]_vars PROVE ExactInv'
    OBVIOUS
  <2>1. TypeInv'
    BY TypeStep DEF ExactInv
  <2>2. CASE UNCHANGED vars
    BY <2>2 DEF ExactInv, IInv, ReaderInv, ParserInv, Lookahead, TypeInv, Buffered,
       Seen, Exact, Clean, Parsed, Marked, vars
  <2>3. CASE Next
    BY <2>1, <2>3, BeginExact, RefillExact, ScanByteExact, ScanReturnExact, MatchByteExact,
       AfterBoundaryExact, BacktrackExact, NextPartExact, FalseDelimiterExact,
       FinishExact, EndsExact DEF Next, ExactInv
  <2>. QED
    BY <2>2, <2>3
<1>. QED
  BY <1>1, <1>2, Invariance, PTL DEF Spec

(* What the callbacks are given, part by part, is the reference's split of *)
(* the message, however the reads of the stream cut it: nothing of a half- *)
(* recognised delimiter is lost or given twice when the reader goes back   *)
(* to its marker or moves its bytes to the front of the buffer.            *)
THEOREM PartsAreExact == Spec => []PartsExact
<1>1. ExactInv => PartsExact
  <2>. SUFFICES ASSUME ExactInv, Clean, pc # "wild" PROVE PartsExact
    BY DEF PartsExact
  <2>1. Content = Split(body)
    BY DEF Content, Reference, ExactInv, TypeInv
  <2>2. DOMAIN parts = 1 .. Len(parts) /\ Len(parts) \in Nat
    BY Sorts
  <2>3. CASE Parsed
    <3>1. AllParts(body, parts)
      BY <2>3 DEF ExactInv, Exact
    <3>2. ASSUME NEW i \in DOMAIN parts PROVE IsPrefix(parts[i].raw, Content[i])
      <4>1. Content[i] = parts[i].raw
        BY <2>1, <2>2, <3>1 DEF AllParts
      <4>2. parts[i] \in PartRecord
        BY Sorts
      <4>3. Len(parts[i].raw) \in Nat
        BY <4>2 DEF PartRecord
      <4>. QED
        BY <4>1, <4>3 DEF IsPrefix
    <3>3. \A i \in 1 .. Len(parts) - 1 : i \in DOMAIN parts
      BY <2>2
    <3>. QED
      BY <2>1, <2>2, <3>1, <3>2, <3>3 DEF PartsExact, AllParts
  <2>4. CASE ~Parsed
    <3>1. SplitUpTo(body, parts, buf, Marked)
      BY <2>4 DEF ExactInv, Exact
    <3>2. /\ Len(parts) <= Len(Split(body))
          /\ \A i \in 1 .. Len(parts) : IsPrefix(parts[i].raw, Split(body)[i])
          /\ \A i \in 1 .. Len(parts) - 1 : parts[i].raw = Split(body)[i]
      BY <3>1, Sorts, PrefixSoFar
    <3>. QED
      BY <2>1, <2>2, <2>4, <3>2 DEF PartsExact
  <2>. QED
    BY <2>3, <2>4
<1>. QED
  BY <1>1, ExactInvariance, PTL
-----------------------------------------------------------------------------
(* Where the scan for the empty line is behind the first p bytes of a part.*)
(* Before the header ends, search counts the bytes at the end that match.  *)
Matched(s, p) ==
  IF p >= 3 /\ s[p - 2] = CR /\ s[p - 1] = LF /\ s[p] = CR THEN 3
  ELSE IF p >= 2 /\ s[p - 1] = CR /\ s[p] = LF THEN 2
  ELSE IF p >= 1 /\ s[p] = CR THEN 1
  ELSE 0

ScanAt(s, p, search) ==
  IF \E e \in HeaderEnds(s) : e <= p THEN search = 4 ELSE search = Matched(s, p)

LEMMA HeaderEndAt ==
  ASSUME NEW s \in Seq(Token), NEW e \in Nat
  PROVE  e \in HeaderEnds(s) <=>
           /\ 4 <= e /\ e <= Len(s)
           /\ s[e - 3] = CR /\ s[e - 2] = LF /\ s[e - 1] = CR /\ s[e] = LF
<1>1. CASE ~(4 <= e /\ e <= Len(s))
  BY <1>1 DEF HeaderEnds
<1>2. CASE 4 <= e /\ e <= Len(s)
  <2>1. e \in 4 .. Len(s)
    BY <1>2
  <2>2. PICK a \in Nat, l \in Nat : /\ a + 3 = e /\ l = Len(s) /\ a # 0 /\ a + 3 <= l
    <3>1. e - 3 \in Nat /\ (e - 3) + 3 = e /\ Len(s) \in Nat /\ e - 3 # 0
      BY <1>2
    <3>. QED
      BY <1>2, <3>1
  <2>3. PICK c \in Nat : c + 1 = a /\ c + 4 = a + 3 /\ c + 4 <= l
    <3>1. a - 1 \in Nat /\ (a - 1) + 1 = a /\ (a - 1) + 4 = a + 3
      BY <2>2
    <3>. QED
      BY <2>2, <3>1
  <2>. DEFINE q == SubSeq(s, c + 1, c + 4)
  <2>4. /\ q \in Seq(Token) /\ Len(q) = 4
        /\ \A j \in 1 .. 4 : q[j] = s[c + j]
    <3>1. c + 4 \in Nat /\ c <= c + 4 /\ c + 4 - c = 4
      OBVIOUS
    <3>. QED
      BY <2>2, <2>3, <3>1, Slice
  <2>. HIDE DEF q
  <2>5. q = EmptyLine <=> \A j \in 1 .. 4 : q[j] = EmptyLine[j]
    <3>1. (\A j \in 1 .. 4 : q[j] = EmptyLine[j]) => q = EmptyLine
      BY <2>4, EmptyLineFacts, SeqEqual
    <3>. QED
      BY <3>1
  <2>6. (\A j \in 1 .. 4 : q[j] = EmptyLine[j]) <=>
           q[1] = CR /\ q[2] = LF /\ q[3] = CR /\ q[4] = LF
    <3>1. 1 .. 4 = {1, 2, 3, 4}
      OBVIOUS
    <3>. QED
      BY <3>1 DEF EmptyLine
  <2>7. q[1] = s[c + 1] /\ q[2] = s[c + 2] /\ q[3] = s[c + 3] /\ q[4] = s[c + 4]
    BY <2>4
  <2>8. c + 1 = e - 3 /\ c + 2 = e - 2 /\ c + 3 = e - 1 /\ c + 4 = e
    BY <2>2, <2>3
  <2>9. SubSeq(s, e - 3, e) = q
    BY <2>8 DEF q
  <2>. QED
    BY <1>2, <2>1, <2>5, <2>6, <2>7, <2>8, <2>9 DEF HeaderEnds
<1>. QED
  BY <1>1, <1>2

LEMMA ScanOne ==
  ASSUME NEW s \in Seq(Token), PlainHeader(s), NEW p \in Nat, p < Len(s),
         NEW scan \in Scan, ScanAt(s, p, scan.search)
  PROVE  LET next == HeaderByte(scan, s[p + 1])
         IN  /\ ScanAt(s, p + 1, next.search)
             /\ next.used = IF scan.search = 4 THEN scan.used ELSE scan.used + 1
<1>. DEFINE E == HeaderEnds(s)
            b == s[p + 1]
            next == HeaderByte(scan, b)
<1>1. p + 1 \in E <=> p >= 3 /\ s[p - 2] = CR /\ s[p - 1] = LF /\ s[p] = CR /\ b = LF
  <2>1. p + 1 \in Nat /\ (p + 1) - 3 = p - 2 /\ (p + 1) - 2 = p - 1 /\ (p + 1) - 1 = p
        /\ (4 <= p + 1 <=> p >= 3) /\ p + 1 <= Len(s)
    OBVIOUS
  <2>2. p + 1 \in E <=>
           /\ 4 <= p + 1 /\ p + 1 <= Len(s)
           /\ s[(p + 1) - 3] = CR /\ s[(p + 1) - 2] = LF
           /\ s[(p + 1) - 1] = CR /\ s[p + 1] = LF
    BY <2>1, HeaderEndAt
  <2>. QED
    BY <2>1, <2>2
<1>2. E \subseteq Nat
  BY DEF HeaderEnds
<1>3. p >= 1 /\ s[p] = CR /\ (\A e \in E : ~(e <= p)) => b = LF
  <2>. SUFFICES ASSUME p >= 1, s[p] = CR, \A e \in E : ~(e <= p) PROVE b = LF
    OBVIOUS
  <2>1. p \in 1 .. Len(s) - 1 /\ \A e \in E : p < e
    BY <1>2
  <2>. QED
    BY <2>1 DEF PlainHeader
<1>4. CR # LF
  BY BytesDiffer
<1>. HIDE DEF E, b
<1>5. CASE \E e \in E : e <= p
  <2>1. scan.search = 4 /\ \E e \in E : e <= p + 1
    BY <1>2, <1>5 DEF ScanAt, E
  <2>2. next = scan
    BY <2>1 DEF HeaderByte
  <2>. QED
    BY <2>1, <2>2 DEF ScanAt, E, b
<1>6. CASE \A e \in E : ~(e <= p)
  <2>1. scan.search = Matched(s, p)
    BY <1>6 DEF ScanAt, E
  <2>2. (\E e \in E : e <= p + 1) <=> p + 1 \in E
    BY <1>2, <1>6
  <2>3. Matched(s, p) \in 0 .. 3
    BY DEF Matched
  <2>4. /\ EmptyLine[0 + 1] = CR /\ EmptyLine[1 + 1] = LF
        /\ EmptyLine[2 + 1] = CR /\ EmptyLine[3 + 1] = LF
    BY DEF EmptyLine
  <2>5. /\ next.search = IF b = EmptyLine[scan.search + 1] THEN scan.search + 1 ELSE 0
        /\ next.used = scan.used + 1
    BY <2>1, <2>3 DEF HeaderByte
  <2>6. p + 1 \notin E => next.search = Matched(s, p + 1)
    <3>1. Matched(s, p + 1) =
            IF p + 1 >= 3 /\ s[p - 1] = CR /\ s[p] = LF /\ b = CR THEN 3
            ELSE IF p + 1 >= 2 /\ s[p] = CR /\ b = LF THEN 2
            ELSE IF b = CR THEN 1 ELSE 0
      <4>1. (p + 1) - 2 = p - 1 /\ (p + 1) - 1 = p /\ p + 1 >= 1
        OBVIOUS
      <4>. QED
        BY <4>1 DEF Matched, b
    <3>2. CASE Matched(s, p) = 3
      <4>1. p >= 3 /\ s[p - 2] = CR /\ s[p - 1] = LF /\ s[p] = CR
        BY <3>2 DEF Matched
      <4>. QED
        BY <1>1, <1>3, <1>6, <4>1
    <3>3. CASE Matched(s, p) = 2
      <4>1. p >= 2 /\ s[p - 1] = CR /\ s[p] = LF
        BY <3>3 DEF Matched
      <4>2. next.search = IF b = CR THEN 3 ELSE 0
        BY <2>1, <2>4, <2>5, <3>3
      <4>. QED
        BY <1>4, <3>1, <4>1, <4>2
    <3>4. CASE Matched(s, p) = 1
      <4>1. p >= 1 /\ s[p] = CR
        BY <3>4 DEF Matched
      <4>2. next.search = IF b = LF THEN 2 ELSE 0
        BY <2>1, <2>4, <2>5, <3>4
      <4>3. b = LF
        BY <1>3, <1>6, <4>1
      <4>. QED
        BY <1>4, <3>1, <4>1, <4>2, <4>3
    <3>5. CASE Matched(s, p) = 0
      <4>1. next.search = IF b = CR THEN 1 ELSE 0
        BY <2>1, <2>4, <2>5, <3>5
      <4>2. ~(p >= 1 /\ s[p] = CR) /\ ~(p >= 2 /\ s[p - 1] = CR /\ s[p] = LF)
        BY <3>5 DEF Matched
      <4>. QED
        BY <1>4, <3>1, <4>1, <4>2
    <3>. QED
      BY <2>3, <3>2, <3>3, <3>4, <3>5
  <2>7. p + 1 \in E => next.search = 4
    <3>. SUFFICES ASSUME p + 1 \in E PROVE next.search = 4
      OBVIOUS
    <3>1. Matched(s, p) = 3 /\ b = LF
      BY <1>1 DEF Matched
    <3>. QED
      BY <2>1, <2>4, <2>5, <3>1
  <2>. QED
    BY <2>1, <2>2, <2>3, <2>5, <2>6, <2>7 DEF ScanAt, E, b
<1>. QED
  BY <1>5, <1>6

UsedAt(s, l, k, search) ==
  IF search = 4 THEN 0
  ELSE IF \E e \in HeaderEnds(s) : e <= l + k THEN Min(HeaderEnds(s)) - l
  ELSE k

LEMMA UsedOne ==
  ASSUME NEW s \in Seq(Token), PlainHeader(s), NEW l \in Nat, NEW k \in Nat,
         l + k < Len(s), NEW search \in 0 .. 4, ScanAt(s, l, search),
         NEW scan \in Scan, ScanAt(s, l + k, scan.search),
         scan.used = UsedAt(s, l, k, search)
  PROVE  LET next == HeaderByte(scan, s[l + k + 1])
         IN  /\ ScanAt(s, l + (k + 1), next.search)
             /\ next.used = UsedAt(s, l, k + 1, search)
<1>. DEFINE E == HeaderEnds(s)
            next == HeaderByte(scan, s[l + k + 1])
<1>1. E \subseteq Nat
  BY DEF HeaderEnds
<1>2. PICK p \in Nat : p = l + k /\ p + 1 = l + (k + 1) /\ p < Len(s) /\ l <= p
  <2>1. l + k \in Nat /\ (l + k) + 1 = l + (k + 1) /\ l <= l + k
    OBVIOUS
  <2>. QED
    BY <2>1
<1>3. /\ ScanAt(s, p + 1, next.search)
      /\ next.used = IF scan.search = 4 THEN scan.used ELSE scan.used + 1
  BY <1>2, ScanOne
<1>. SUFFICES /\ ScanAt(s, l + (k + 1), next.search)
             /\ next.used = UsedAt(s, l, k + 1, search)
  OBVIOUS
<1>. HIDE DEF next
<1>4. scan.search = 4 <=> \E e \in E : e <= p
  BY <1>2 DEF ScanAt, Matched
<1>5. search = 4 <=> \E e \in E : e <= l
  BY DEF ScanAt, Matched
<1>6. CASE search = 4
  <2>1. PICK e \in E : e <= l
    BY <1>5, <1>6
  <2>2. e <= p
    BY <1>1, <1>2, <2>1
  <2>. QED
    BY <1>2, <1>3, <1>4, <1>6, <2>2 DEF UsedAt
<1>7. CASE search # 4 /\ \E e \in E : e <= p
  <2>1. \E e \in E : e <= p + 1
    BY <1>1, <1>2, <1>7
  <2>. QED
    BY <1>2, <1>3, <1>4, <1>7, <2>1 DEF UsedAt
<1>8. CASE search # 4 /\ \A e \in E : ~(e <= p)
  <2>1. scan.used = k /\ next.used = k + 1
    BY <1>2, <1>3, <1>4, <1>8 DEF UsedAt
  <2>2. CASE \A e \in E : ~(e <= p + 1)
    BY <1>2, <1>3, <1>8, <2>1, <2>2 DEF UsedAt
  <2>3. CASE \E e \in E : e <= p + 1
    <3>1. Min(E) \in E /\ \A e \in E : Min(E) <= e
      <4>1. E # {}
        BY <2>3
      <4>. HIDE DEF E
      <4>. QED
        BY <1>1, <4>1, LeastNumber
    <3>2. PICK e \in E : e <= p + 1
      BY <2>3
    <3>3. Min(E) \in Nat /\ e \in Nat /\ Min(E) <= e /\ ~(Min(E) <= p)
      BY <1>1, <1>8, <3>1, <3>2
    <3>4. Min(E) = p + 1
      BY <3>2, <3>3
    <3>5. Min(E) - l = k + 1
      BY <1>2, <3>4
    <3>. QED
      BY <1>2, <1>3, <1>8, <2>1, <2>3, <3>5 DEF UsedAt
  <2>. QED
    BY <2>2, <2>3
<1>. QED
  BY <1>6, <1>7, <1>8

LEMMA ScanMany ==
  ASSUME NEW r \in Seq(Token), NEW b \in Seq(Token), PlainHeader(r \o b),
         NEW part, part.search \in 0 .. 4, part.header \in Seq(Token),
         ScanAt(r \o b, Len(r), part.search)
  PROVE  LET s == r \o b
             scan == HeaderScan(part, b)
         IN  /\ ScanAt(s, Len(s), scan.search)
             /\ scan.used = UsedAt(s, Len(r), Len(b), part.search)
<1>. DEFINE base == [search |-> part.search, header |-> part.header, used |-> 0]
<1>1. PICK s \in Seq(Token) : s = r \o b
  BY ConcatProperties
<1>2. PICK l \in Nat, q \in Nat : l = Len(r) /\ q = Len(b) /\ Len(s) = l + q
  BY <1>1, ConcatProperties
<1>3. \A k \in 1 .. q : s[l + k] = b[k]
  <2>1. ASSUME NEW k \in 1 .. q PROVE s[l + k] = b[k]
    <3>1. l + k \in 1 .. l + q /\ ~(l + k <= l) /\ (l + k) - l = k
      OBVIOUS
    <3>2. \A i \in 1 .. l + q : s[i] = IF i <= l THEN r[i] ELSE b[i - l]
      BY <1>1, <1>2, ConcatProperties
    <3>. QED
      BY <3>1, <3>2
  <2>. QED
    BY <2>1
<1>4. PICK g :
        /\ g[0] = base
        /\ \A k \in 1 .. q : g[k] = HeaderByte(g[k - 1], b[k])
        /\ \A k \in 0 .. q : g[k] \in Scan
        /\ HeaderScan(part, b) = g[q]
  BY ZenonT(60), <1>2, ScanFunction
<1>. DEFINE Good(k) == /\ ScanAt(s, l + k, g[k].search)
                       /\ g[k].used = UsedAt(s, l, k, part.search)
            Bad == {k \in 0 .. q : ~Good(k)}
<1>5. Good(0)
  <2>1. l + 0 = l /\ g[0].search = part.search /\ g[0].used = 0
    BY <1>4
  <2>2. ScanAt(s, l, part.search)
    BY <1>1, <1>2
  <2>3. part.search = 4 <=> \E e \in HeaderEnds(s) : e <= l
    BY <2>2 DEF ScanAt, Matched
  <2>. QED
    BY <2>1, <2>2, <2>3 DEF UsedAt
<1>6. ASSUME NEW k \in Nat, k + 1 \in 0 .. q, Good(k) PROVE Good(k + 1)
  <2>1. k \in 0 .. q /\ k + 1 \in 1 .. q /\ (k + 1) - 1 = k
    BY <1>6
  <2>2. l + k < Len(s) /\ l + k + 1 = l + (k + 1)
    BY <1>2, <2>1
  <2>3. g[k + 1] = HeaderByte(g[k], s[l + k + 1])
    BY <1>3, <1>4, <2>1, <2>2
  <2>4. PICK scan \in Scan : scan = g[k]
    BY <1>4, <2>1
  <2>5. PICK search \in 0 .. 4 : search = part.search
    OBVIOUS
  <2>6. ScanAt(s, l, search) /\ PlainHeader(s)
    BY <1>1, <1>2, <2>5
  <2>7. ScanAt(s, l + k, scan.search) /\ scan.used = UsedAt(s, l, k, search)
    BY <1>6, <2>4, <2>5
  <2>8. LET next == HeaderByte(scan, s[l + k + 1])
        IN  /\ ScanAt(s, l + (k + 1), next.search)
            /\ next.used = UsedAt(s, l, k + 1, search)
    BY <2>2, <2>6, <2>7, UsedOne
  <2>. QED
    BY <2>3, <2>4, <2>5, <2>8
<1>7. Bad = {}
  <2>. SUFFICES ASSUME Bad # {} PROVE FALSE
    OBVIOUS
  <2>1. Bad \subseteq Nat
    OBVIOUS
  <2>2. Min(Bad) \in Bad /\ \A y \in Bad : Min(Bad) <= y
    <3>. HIDE DEF Bad
    <3>. QED
      BY <2>1, LeastNumber
  <2>3. PICK j : j \in Bad /\ \A y \in Bad : j <= y
    BY <2>2
  <2>. HIDE DEF Good
  <2>4. j \in 0 .. q /\ ~Good(j)
    BY <2>3
  <2>5. j # 0
    BY <1>5, <2>4
  <2>6. PICK k \in Nat : j = k + 1 /\ k \in 0 .. q /\ ~(j <= k)
    <3>1. j - 1 \in Nat /\ j = (j - 1) + 1 /\ j - 1 \in 0 .. q /\ ~(j <= j - 1)
      BY <2>4, <2>5
    <3>. QED
      BY <3>1
  <2>7. Good(k)
    BY <2>3, <2>6
  <2>. QED
    BY <1>6, <2>4, <2>6, <2>7
<1>8. Good(q)
  <2>1. q \in 0 .. q
    OBVIOUS
  <2>. QED
    BY <1>7, <2>1
<1>. QED
  BY <1>1, <1>2, <1>4, <1>8

-----------------------------------------------------------------------------
(* What more bytes do to a part's header and to the data behind it.        *)
LEMMA PickSlice ==
  ASSUME NEW m \in Seq(Token), NEW a \in Nat, NEW b \in Nat, a <= b, b <= Len(m)
  PROVE  \E c \in Seq(Token) :
           /\ c = SubSeq(m, a + 1, b) /\ Len(c) = b - a
           /\ \A j \in 1 .. b - a : c[j] = m[a + j]
<1>. DEFINE c == SubSeq(m, a + 1, b)
<1>1. /\ c \in Seq(Token) /\ c = SubSeq(m, a + 1, b) /\ Len(c) = b - a
      /\ \A j \in 1 .. b - a : c[j] = m[a + j]
  BY Slice
<1>. HIDE DEF c
<1>. QED
  BY <1>1

LEMMA PickConcat ==
  ASSUME NEW r \in Seq(Token), NEW b \in Seq(Token)
  PROVE  \E c \in Seq(Token) :
           /\ c = r \o b /\ Len(c) = Len(r) + Len(b)
           /\ \A i \in 1 .. Len(r) + Len(b) :
                c[i] = IF i <= Len(r) THEN r[i] ELSE b[i - Len(r)]
<1>. DEFINE c == r \o b
<1>1. /\ c \in Seq(Token) /\ c = r \o b /\ Len(c) = Len(r) + Len(b)
      /\ \A i \in 1 .. Len(r) + Len(b) :
           c[i] = IF i <= Len(r) THEN r[i] ELSE b[i - Len(r)]
  BY ConcatProperties
<1>. HIDE DEF c
<1>. QED
  BY <1>1

LEMMA SliceConcat ==
  ASSUME NEW r \in Seq(Token), NEW b \in Seq(Token), NEW m \in Nat
  PROVE  LET l == Len(r)
             q == Len(b)
             s == r \o b
         IN  /\ m <= l => /\ SubSeq(s, m + 1, l + q) = SubSeq(r, m + 1, l) \o b
                          /\ SubSeq(s, m + 1, l) = SubSeq(r, m + 1, l)
             /\ l <= m /\ m <= l + q
                  => SubSeq(s, m + 1, l + q) = SubSeq(b, m - l + 1, q)
<1>1. PICK l \in Nat, q \in Nat : l = Len(r) /\ q = Len(b)
  OBVIOUS
<1>2. PICK s \in Seq(Token) : s = r \o b
  BY ConcatProperties
<1>3. Len(s) = l + q /\ \A i \in 1 .. l + q : s[i] = IF i <= l THEN r[i] ELSE b[i - l]
  BY <1>1, <1>2, ConcatProperties
<1>4. ASSUME m <= l PROVE SubSeq(s, m + 1, l + q) = SubSeq(r, m + 1, l) \o b
  <2>1. PICK c \in Seq(Token) : c = SubSeq(r, m + 1, l) /\ Len(c) = l - m
                                /\ \A j \in 1 .. l - m : c[j] = r[m + j]
    <3>1. l <= Len(r) /\ r \in Seq(Token)
      BY <1>1
    <3>. QED
      BY <1>4, <3>1, PickSlice
  <2>2. PICK d \in Seq(Token) : d = SubSeq(s, m + 1, l + q) /\ Len(d) = (l + q) - m
                                /\ \A j \in 1 .. (l + q) - m : d[j] = s[m + j]
    <3>1. m <= l + q /\ l + q <= Len(s) /\ l + q \in Nat
      BY <1>3, <1>4
    <3>. QED
      BY <3>1, PickSlice
  <2>3. PICK e \in Seq(Token) : e = c \o b /\ Len(e) = (l - m) + q
             /\ \A i \in 1 .. (l - m) + q : e[i] = IF i <= l - m THEN c[i] ELSE b[i - (l - m)]
    <3>1. PICK e \in Seq(Token) :
             /\ e = c \o b /\ Len(e) = Len(c) + Len(b)
             /\ \A i \in 1 .. Len(c) + Len(b) :
                  e[i] = IF i <= Len(c) THEN c[i] ELSE b[i - Len(c)]
      BY PickConcat
    <3>2. Len(c) = l - m /\ Len(b) = q
      BY <1>1, <2>1
    <3>. QED
      BY <3>1, <3>2
  <2>4. ASSUME NEW j \in 1 .. Len(d) PROVE d[j] = e[j]
    <3>1. j \in 1 .. (l + q) - m /\ j \in 1 .. (l - m) + q /\ m + j \in 1 .. l + q
      BY <1>4, <2>2
    <3>2. d[j] = s[m + j] /\ e[j] = IF j <= l - m THEN c[j] ELSE b[j - (l - m)]
      BY <2>2, <2>3, <3>1
    <3>3. CASE j <= l - m
      <4>1. j \in 1 .. l - m /\ m + j <= l
        BY <1>4, <3>1, <3>3
      <4>2. s[m + j] = r[m + j] /\ c[j] = r[m + j]
        BY <1>3, <2>1, <3>1, <4>1
      <4>. QED
        BY <3>2, <3>3, <4>2
    <3>4. CASE ~(j <= l - m)
      <4>1. ~(m + j <= l) /\ (m + j) - l = j - (l - m)
        BY <1>4, <3>1, <3>4
      <4>2. s[m + j] = b[(m + j) - l]
        BY <1>3, <3>1, <4>1
      <4>. QED
        BY <3>2, <3>4, <4>1, <4>2
    <3>. QED
      BY <3>3, <3>4
  <2>5. Len(d) = Len(e)
    BY <1>4, <2>2, <2>3
  <2>6. d = e
    BY <2>4, <2>5, SeqEqual
  <2>. QED
    BY <2>1, <2>2, <2>3, <2>6
<1>5. ASSUME m <= l PROVE SubSeq(s, m + 1, l) = SubSeq(r, m + 1, l)
  <2>1. PICK c \in Seq(Token) : c = SubSeq(r, m + 1, l) /\ Len(c) = l - m
                                /\ \A j \in 1 .. l - m : c[j] = r[m + j]
    <3>1. l <= Len(r) /\ r \in Seq(Token)
      BY <1>1
    <3>. QED
      BY <1>5, <3>1, PickSlice
  <2>2. PICK d \in Seq(Token) : d = SubSeq(s, m + 1, l) /\ Len(d) = l - m
                                /\ \A j \in 1 .. l - m : d[j] = s[m + j]
    <3>1. l <= Len(s)
      BY <1>3
    <3>. QED
      BY <1>5, <3>1, PickSlice
  <2>3. ASSUME NEW j \in 1 .. Len(d) PROVE d[j] = c[j]
    <3>1. j \in 1 .. l - m /\ m + j \in 1 .. l + q /\ m + j <= l
      BY <1>5, <2>2
    <3>. QED
      BY <1>3, <2>1, <2>2, <3>1
  <2>4. d = c
    BY <2>1, <2>2, <2>3, SeqEqual
  <2>. QED
    BY <2>1, <2>2, <2>4
<1>6. ASSUME l <= m, m <= l + q
      PROVE  SubSeq(s, m + 1, l + q) = SubSeq(b, m - l + 1, q)
  <2>1. PICK a \in Nat : a = m - l /\ a <= q /\ m = l + a
    <3>1. m - l \in Nat /\ m - l <= q /\ m = l + (m - l)
      BY <1>6
    <3>. QED
      BY <3>1
  <2>2. PICK c \in Seq(Token) : c = SubSeq(b, a + 1, q) /\ Len(c) = q - a
                                /\ \A j \in 1 .. q - a : c[j] = b[a + j]
    <3>1. q <= Len(b) /\ b \in Seq(Token)
      BY <1>1
    <3>. QED
      BY <2>1, <3>1, PickSlice, ZenonT(60)
  <2>3. PICK d \in Seq(Token) : d = SubSeq(s, m + 1, l + q) /\ Len(d) = (l + q) - m
                                /\ \A j \in 1 .. (l + q) - m : d[j] = s[m + j]
    <3>1. l + q <= Len(s) /\ l + q \in Nat
      BY <1>3
    <3>. QED
      BY <1>6, <3>1, PickSlice, ZenonT(60)
  <2>4. (l + q) - m = q - a
    BY <2>1
  <2>5. ASSUME NEW j \in 1 .. Len(d) PROVE d[j] = c[j]
    <3>1. j \in 1 .. q - a
      BY <2>3, <2>4
    <3>2. m + j \in 1 .. l + q /\ (m + j <= l => FALSE) /\ (m + j) - l = a + j
      BY <2>1, <3>1
    <3>3. s[m + j] = b[a + j]
      BY <1>3, <3>2
    <3>. QED
      BY <2>2, <2>3, <2>4, <3>1, <3>3
  <2>6. Len(d) = Len(c)
    BY <2>2, <2>3, <2>4
  <2>7. d = c
    BY <2>5, <2>6, SeqEqual
  <2>. QED
    BY <2>1, <2>2, <2>3, <2>7
<1>. QED
  BY <1>1, <1>2, <1>4, <1>5, <1>6

LEMMA PrefixEnds ==
  ASSUME NEW r \in Seq(Token), NEW b \in Seq(Token)
  PROVE  LET s == r \o b
         IN  /\ \A e \in Nat : e \in HeaderEnds(r) <=> e \in HeaderEnds(s) /\ e <= Len(r)
             /\ PlainHeader(s) => PlainHeader(r)
             /\ \A search : ScanAt(r, Len(r), search) <=> ScanAt(s, Len(r), search)
<1>1. PICK s \in Seq(Token) :
        /\ s = r \o b /\ Len(s) = Len(r) + Len(b)
        /\ \A i \in 1 .. Len(r) + Len(b) : s[i] = IF i <= Len(r) THEN r[i] ELSE b[i - Len(r)]
  BY PickConcat
<1>2. PICK l \in Nat, q \in Nat : l = Len(r) /\ q = Len(b)
  OBVIOUS
<1>3. Len(s) = l + q /\ \A i \in 1 .. l : s[i] = r[i]
  <2>1. ASSUME NEW i \in 1 .. l PROVE i \in 1 .. l + q /\ i <= l
    OBVIOUS
  <2>. QED
    BY <1>1, <1>2, <2>1
<1>4. ASSUME NEW e \in Nat PROVE e \in HeaderEnds(r) <=> e \in HeaderEnds(s) /\ e <= l
  <2>1. e \in HeaderEnds(r) <=>
           /\ 4 <= e /\ e <= Len(r)
           /\ r[e - 3] = CR /\ r[e - 2] = LF /\ r[e - 1] = CR /\ r[e] = LF
    BY HeaderEndAt
  <2>2. e \in HeaderEnds(s) <=>
           /\ 4 <= e /\ e <= Len(s)
           /\ s[e - 3] = CR /\ s[e - 2] = LF /\ s[e - 1] = CR /\ s[e] = LF
    BY HeaderEndAt
  <2>3. CASE 4 <= e /\ e <= l
    <3>1. /\ e - 3 \in 1 .. l /\ e - 2 \in 1 .. l /\ e - 1 \in 1 .. l /\ e \in 1 .. l
          /\ e <= l + q
      BY <2>3
    <3>. QED
      BY <1>2, <1>3, <2>1, <2>2, <2>3, <3>1
  <2>4. CASE ~(4 <= e /\ e <= l)
    BY <1>2, <2>1, <2>2, <2>4
  <2>. QED
    BY <2>3, <2>4
<1>5. HeaderEnds(r) \subseteq Nat /\ HeaderEnds(s) \subseteq Nat
  BY DEF HeaderEnds
<1>6. ASSUME PlainHeader(s) PROVE PlainHeader(r)
  <2>. SUFFICES ASSUME NEW i \in 1 .. l - 1, r[i] = CR, \A e \in HeaderEnds(r) : i < e
                PROVE  r[i + 1] = LF
    BY <1>2 DEF PlainHeader
  <2>1. i \in 1 .. l /\ i + 1 \in 1 .. l /\ i \in 1 .. (l + q) - 1
    OBVIOUS
  <2>2. ASSUME NEW e \in HeaderEnds(s) PROVE i < e
    <3>1. e \in Nat
      BY <1>5
    <3>2. CASE e <= l
      BY <1>4, <3>1, <3>2
    <3>3. CASE ~(e <= l)
      BY <2>1, <3>1, <3>3
    <3>. QED
      BY <3>2, <3>3
  <2>3. s[i + 1] = LF
    BY <1>3, <1>6, <2>1, <2>2 DEF PlainHeader
  <2>. QED
    BY <1>3, <2>1, <2>3
<1>7. ASSUME NEW search PROVE ScanAt(r, l, search) <=> ScanAt(s, l, search)
  <2>1. (\E e \in HeaderEnds(r) : e <= l) <=> (\E e \in HeaderEnds(s) : e <= l)
    BY <1>4, <1>5
  <2>2. /\ (l >= 1 => s[l] = r[l])
        /\ (l >= 2 => s[l - 1] = r[l - 1])
        /\ (l >= 3 => s[l - 2] = r[l - 2])
    <3>1. /\ (l >= 1 => l \in 1 .. l)
          /\ (l >= 2 => l - 1 \in 1 .. l)
          /\ (l >= 3 => l - 2 \in 1 .. l)
      OBVIOUS
    <3>. QED
      BY <1>3, <3>1
  <2>3. Matched(r, l) = Matched(s, l)
    <3>1. (l >= 3 => l >= 2) /\ (l >= 2 => l >= 1)
      OBVIOUS
    <3>. QED
      BY <2>2, <3>1 DEF Matched
  <2>. QED
    BY <2>1, <2>3 DEF ScanAt
<1>. QED
  BY <1>1, <1>2, <1>4, <1>6, <1>7

LEMMA DataGrows ==
  ASSUME NEW r \in Seq(Token), NEW b \in Seq(Token)
  PROVE  LET s == r \o b
             end == Min(HeaderEnds(s))
         IN  /\ Data(r) \in Seq(Token)
             /\ HeaderEnds(r) # {} => HeaderEnds(s) # {} /\ Data(s) = Data(r) \o b
             /\ HeaderEnds(r) = {} => Data(r) = << >>
             /\ HeaderEnds(s) = {} => Data(s) = << >>
             /\ HeaderEnds(r) = {} /\ HeaderEnds(s) # {} =>
                  /\ end - Len(r) \in 1 .. Len(b)
                  /\ Data(s) = SubSeq(b, end - Len(r) + 1, Len(b))
<1>1. PICK s \in Seq(Token) :
        /\ s = r \o b /\ Len(s) = Len(r) + Len(b)
        /\ \A i \in 1 .. Len(r) + Len(b) : s[i] = IF i <= Len(r) THEN r[i] ELSE b[i - Len(r)]
  BY PickConcat
<1>2. PICK l \in Nat, q \in Nat : l = Len(r) /\ q = Len(b) /\ Len(s) = l + q
  BY <1>1
<1>3. \A e \in Nat : e \in HeaderEnds(r) <=> e \in HeaderEnds(s) /\ e <= l
  BY <1>1, <1>2, PrefixEnds
<1>4. HeaderEnds(r) \subseteq 4 .. l /\ HeaderEnds(s) \subseteq 4 .. l + q
  BY <1>2 DEF HeaderEnds
<1>5. ASSUME NEW t \in Seq(Token), HeaderEnds(t) # {}
      PROVE  Min(HeaderEnds(t)) \in HeaderEnds(t) /\ \A e \in HeaderEnds(t) : Min(HeaderEnds(t)) <= e
  <2>1. HeaderEnds(t) \subseteq Nat
    BY DEF HeaderEnds
  <2>. QED
    BY <1>5, <2>1, LeastNumber
<1>6. ASSUME HeaderEnds(r) # {}
      PROVE  HeaderEnds(s) # {} /\ Data(s) = Data(r) \o b /\ Data(r) \in Seq(Token)
  <2>1. PICK e : e \in HeaderEnds(r) /\ e = Min(HeaderEnds(r)) /\ \A x \in HeaderEnds(r) : e <= x
    BY <1>5, <1>6
  <2>2. e \in Nat /\ e <= l /\ e \in HeaderEnds(s)
    BY <1>3, <1>4, <2>1
  <2>3. PICK d : d \in HeaderEnds(s) /\ d = Min(HeaderEnds(s)) /\ \A x \in HeaderEnds(s) : d <= x
    BY <1>5, <2>2
  <2>4. d \in Nat /\ d <= e
    BY <1>4, <2>2, <2>3
  <2>5. d \in HeaderEnds(r)
    BY <1>3, <2>2, <2>3, <2>4
  <2>6. d = e
    BY <2>1, <2>2, <2>4, <2>5
  <2>7. Data(r) = SubSeq(r, e + 1, l) /\ Data(s) = SubSeq(s, e + 1, l + q)
    BY <1>2, <1>6, <2>1, <2>2, <2>3, <2>6 DEF Data
  <2>8. SubSeq(s, e + 1, l + q) = SubSeq(r, e + 1, l) \o b
    BY <1>1, <1>2, <2>2, SliceConcat, ZenonT(60)
  <2>9. SubSeq(r, e + 1, l) \in Seq(Token)
    BY <1>2, <2>2, Slice
  <2>. QED
    BY <2>2, <2>7, <2>8, <2>9
<1>7. ASSUME HeaderEnds(r) = {}, HeaderEnds(s) # {}
      PROVE  LET end == Min(HeaderEnds(s))
             IN  end - l \in 1 .. q /\ Data(s) = SubSeq(b, end - l + 1, q)
  <2>1. PICK d : d \in HeaderEnds(s) /\ d = Min(HeaderEnds(s)) /\ \A x \in HeaderEnds(s) : d <= x
    BY <1>5, <1>7
  <2>2. d \in Nat /\ d <= l + q /\ ~(d <= l)
    BY <1>3, <1>4, <1>7, <2>1
  <2>3. l <= d /\ d - l \in 1 .. q
    BY <2>2
  <2>4. Data(s) = SubSeq(s, d + 1, l + q)
    BY <1>2, <1>7, <2>1 DEF Data
  <2>5. SubSeq(s, d + 1, l + q) = SubSeq(b, d - l + 1, q)
    BY <1>1, <1>2, <2>2, <2>3, SliceConcat
  <2>. QED
    BY <2>1, <2>3, <2>4, <2>5
<1>8. /\ HeaderEnds(r) = {} => Data(r) = << >> /\ Data(r) \in Seq(Token)
      /\ HeaderEnds(s) = {} => Data(s) = << >>
  BY DEF Data
<1>. QED
  BY <1>1, <1>2, <1>6, <1>7, <1>8

(* A part that is given bytes: the scan goes on to their end, and the file *)
(* has the data, but for a byte at the front, or a single byte at the end. *)
Holds(raw, written, first, last) ==
  written = SubSeq(Data(raw), first + 1, Len(Data(raw)) - last)

LEMMA EmptySlice ==
  ASSUME NEW s \in Seq(Token), NEW k \in Nat, k = Len(s)
  PROVE  SubSeq(s, k + 1, k) = << >>
<1>1. PICK c \in Seq(Token) : c = SubSeq(s, k + 1, k) /\ Len(c) = k - k
  <2>1. k <= k /\ k <= Len(s)
    OBVIOUS
  <2>. QED
    BY <2>1, PickSlice
<1>2. Len(c) = 0
  BY <1>1
<1>3. c = << >>
  BY <1>2, EmptySeq
<1>. QED
  BY <1>1, <1>3

LEMMA WrittenOn ==
  ASSUME NEW part \in PartRecord, NEW b \in Seq(Token), b # << >>,
         PlainHeader(part.raw \o b), ScanAt(part.raw, Len(part.raw), part.search),
         NEW first \in 0 .. 1, first <= Len(Data(part.raw)),
         Holds(part.raw, part.written, first, 0)
  PROVE  LET s == part.raw \o b
             scan == HeaderScan(part, b)
             written == part.written \o Rest(b, scan.used)
         IN  /\ ScanAt(s, Len(s), scan.search)
             /\ \E f \in 0 .. 1, l \in 0 .. 1 :
                  /\ Holds(s, written, f, l)
                  /\ Len(b) >= 2 => l = 0 /\ f <= Len(Data(s))
<1>1. PICK r \in Seq(Token), w \in Seq(Token), search \in 0 .. 4 :
        r = part.raw /\ w = part.written /\ search = part.search
  BY DEF PartRecord
<1>2. PICK s \in Seq(Token) : s = r \o b /\ Len(s) = Len(r) + Len(b)
  BY PickConcat
<1>3. PICK k \in Nat, q \in Nat : k = Len(r) /\ q = Len(b) /\ q # 0 /\ Len(s) = k + q
  BY <1>2, EmptySeq
<1>4. PICK scan \in Scan : scan = HeaderScan(part, b)
  BY HeaderScanType DEF PartRecord
<1>5. PlainHeader(s) /\ ScanAt(r, k, search) /\ ScanAt(s, k, search)
  <2>1. PlainHeader(s) /\ ScanAt(r, k, search)
    BY <1>1, <1>2, <1>3
  <2>. QED
    BY <1>2, <1>3, <2>1, PrefixEnds
<1>6. ScanAt(s, Len(s), scan.search) /\ scan.used = UsedAt(s, k, q, search)
  <2>1. part.search \in 0 .. 4 /\ part.header \in Seq(Token)
    BY DEF PartRecord
  <2>2. PlainHeader(r \o b) /\ ScanAt(r \o b, Len(r), part.search)
    BY <1>1, <1>2, <1>3, <1>5
  <2>3. /\ ScanAt(r \o b, Len(r \o b), HeaderScan(part, b).search)
        /\ HeaderScan(part, b).used = UsedAt(r \o b, Len(r), Len(b), part.search)
    BY <2>1, <2>2, ScanMany
  <2>. QED
    BY <1>1, <1>2, <1>3, <1>4, <2>3
<1>7. HeaderEnds(r) \subseteq 4 .. k /\ HeaderEnds(s) \subseteq 4 .. k + q
  BY <1>3 DEF HeaderEnds
<1>8. PICK D \in Seq(Token), m \in Nat : D = Data(r) /\ m = Len(D)
  BY DataGrows
<1>9. first <= m /\ w = SubSeq(D, first + 1, m) /\ first \in Nat
  <2>1. Len(D) - 0 = m
    BY <1>8
  <2>2. w = SubSeq(D, first + 1, Len(D) - 0)
    BY <1>1, <1>8 DEF Holds
  <2>. QED
    BY <1>1, <1>8, <2>1, <2>2
<1>10. search = 4 <=> HeaderEnds(r) # {}
  <2>1. \A e \in HeaderEnds(r) : e <= k
    BY <1>7
  <2>. QED
    BY <1>5, <2>1 DEF ScanAt, Matched
<1>11. SUFFICES \E f \in 0 .. 1, l \in 0 .. 1 :
                  /\ Holds(s, w \o Rest(b, scan.used), f, l)
                  /\ q >= 2 => l = 0 /\ f <= Len(Data(s))
  BY <1>1, <1>2, <1>3, <1>4, <1>6
<1>12. CASE search = 4
  <2>1. scan.used = 0
    BY <1>6, <1>12 DEF UsedAt
  <2>2. Data(s) = D \o b
    BY <1>2, <1>8, <1>10, <1>12, DataGrows
  <2>3. PICK G \in Seq(Token) : G = D \o b /\ Len(G) = m + q
    BY <1>3, <1>8, PickConcat
  <2>4. /\ SubSeq(G, first + 1, m + q) = SubSeq(D, first + 1, m) \o b
        /\ SubSeq(G, first + 1, m) = SubSeq(D, first + 1, m)
    <3>1. first <= Len(D) /\ m = Len(D) /\ q = Len(b)
      BY <1>3, <1>8, <1>9
    <3>2. /\ SubSeq(D \o b, first + 1, Len(D) + Len(b)) = SubSeq(D, first + 1, Len(D)) \o b
          /\ SubSeq(D \o b, first + 1, Len(D)) = SubSeq(D, first + 1, Len(D))
      BY <1>9, <3>1, SliceConcat, ZenonT(60)
    <3>. QED
      BY <2>3, <3>1, <3>2
  <2>5. CASE q >= 2
    <3>1. Rest(b, 0) = b
      <4>1. ~(0 >= q - 1) /\ 0 + 1 = 1
        BY <2>5
      <4>2. SubSeq(b, 1, q) = b
        BY <1>3, SubSeqFull
      <4>. QED
        BY <1>3, <4>1, <4>2 DEF Rest
    <3>2. Len(G) - 0 = m + q /\ first <= m + q
      BY <1>9, <2>3
    <3>3. Holds(s, w \o Rest(b, scan.used), first, 0) /\ first <= Len(Data(s))
      BY <1>9, <2>1, <2>2, <2>3, <2>4, <3>1, <3>2 DEF Holds
    <3>. QED
      BY <3>3
  <2>6. CASE ~(q >= 2)
    <3>1. Rest(b, 0) = << >>
      <4>1. 0 >= q - 1
        BY <2>6
      <4>. QED
        BY <1>3, <4>1 DEF Rest
    <3>2. Len(G) - 1 = m
      BY <1>3, <2>3, <2>6
    <3>3. w \o << >> = w
      BY ConcatEmptySeq
    <3>4. Holds(s, w \o Rest(b, scan.used), first, 1)
      BY <1>9, <2>1, <2>2, <2>3, <2>4, <3>1, <3>2, <3>3 DEF Holds
    <3>. QED
      BY <2>6, <3>4
  <2>. QED
    BY <2>5, <2>6
<1>13. CASE search # 4
  <2>1. D = << >> /\ m = 0 /\ first = 0
    <3>1. D = << >>
      BY <1>8, <1>10, <1>13, DataGrows
    <3>2. m = 0
      BY <1>8, <3>1
    <3>. QED
      BY <1>9, <3>1, <3>2
  <2>2. w = << >>
    BY <1>8, <1>9, <2>1, EmptySlice
  <2>3. CASE HeaderEnds(s) = {}
    <3>1. scan.used = q
      BY <1>6, <1>13, <2>3 DEF UsedAt
    <3>2. Rest(b, q) = << >>
      <4>1. q >= q - 1
        OBVIOUS
      <4>. QED
        BY <1>3, <4>1 DEF Rest
    <3>3. Data(s) = << >>
      BY <1>2, <2>3, DataGrows
    <3>4. PICK G \in Seq(Token) : G = << >> /\ Len(G) = 0
      <4>1. << >> \in Seq(Token) /\ Len(<< >>) = 0
        OBVIOUS
      <4>. QED
        BY <4>1
    <3>5. SubSeq(G, 0 + 1, Len(G) - 0) = << >>
      BY <3>4, EmptySlice
    <3>6. << >> \o << >> = << >>
      BY <3>4, ConcatEmptySeq
    <3>7. Holds(s, w \o Rest(b, scan.used), 0, 0) /\ 0 <= Len(Data(s))
      BY <2>2, <3>1, <3>2, <3>3, <3>4, <3>5, <3>6 DEF Holds
    <3>. QED
      BY <3>7
  <2>4. CASE HeaderEnds(s) # {}
    <3>1. PICK u \in 1 .. q : u = Min(HeaderEnds(s)) - k /\ Data(s) = SubSeq(b, u + 1, q)
      BY <1>2, <1>3, <1>10, <1>13, <2>4, DataGrows
    <3>2. \E e \in HeaderEnds(s) : e <= k + q
      BY <1>7, <2>4
    <3>3. scan.used = u
      BY <1>6, <1>13, <3>1, <3>2 DEF UsedAt
    <3>4. PICK G \in Seq(Token) : G = Data(s) /\ G = SubSeq(b, u + 1, q) /\ Len(G) = q - u
      <4>1. u \in Nat /\ u <= q /\ q <= Len(b)
        BY <1>3
      <4>2. PICK c \in Seq(Token) : c = SubSeq(b, u + 1, q) /\ Len(c) = q - u
        BY ZenonT(60), <4>1, PickSlice
      <4>. QED
        BY <3>1, <4>2
    <3>5. << >> \o G = G /\ << >> \o << >> = << >>
      BY ConcatEmptySeq
    <3>6. CASE u >= q - 1
      <4>1. Rest(b, u) = << >>
        BY <1>3, <3>6 DEF Rest
      <4>2. PICK f \in 0 .. 1 : f = q - u
        BY <3>6
      <4>3. Len(G) = f /\ f \in Nat /\ Len(G) - 0 = f
        BY <3>4, <4>2
      <4>4. SubSeq(G, f + 1, f) = << >>
        BY <4>3, EmptySlice
      <4>5. Holds(s, w \o Rest(b, scan.used), f, 0) /\ f <= Len(Data(s))
        BY <2>2, <3>3, <3>4, <3>5, <4>1, <4>3, <4>4 DEF Holds
      <4>. QED
        BY <4>5
    <3>7. CASE ~(u >= q - 1)
      <4>1. Rest(b, u) = G
        BY <1>3, <3>4, <3>7 DEF Rest
      <4>2. SubSeq(G, 0 + 1, Len(G) - 0) = G
        <5>1. Len(G) - 0 = Len(G) /\ 0 + 1 = 1
          OBVIOUS
        <5>2. SubSeq(G, 1, Len(G)) = G
          BY SubSeqFull
        <5>. QED
          BY <5>1, <5>2
      <4>3. Holds(s, w \o Rest(b, scan.used), 0, 0) /\ 0 <= Len(Data(s))
        BY <2>2, <3>3, <3>4, <3>5, <4>1, <4>2 DEF Holds
      <4>. QED
        BY <4>3
    <3>. QED
      BY <3>6, <3>7
  <2>. QED
    BY <2>3, <2>4
<1>. QED
  BY <1>12, <1>13
-----------------------------------------------------------------------------
(* The invariant behind FilesInOrder. The part that is being read has been *)
(* given whole buffers only, its scan is where it should be and its file   *)
(* has all of the data but for a byte at the front.                        *)
WholeBuffers(raw) == Len(raw) % (BufferSize - Slack) = 0

Finished(part) ==
  /\ part.file = "open" => WholeBuffers(part.raw)
  /\ PlainHeader(part.raw) /\ part.file \in {"open", "closed"} =>
       \E first \in 0 .. 1, last \in 0 .. 1 : Holds(part.raw, part.written, first, last)

InProgress(part) ==
  /\ part.file \in {"open", "none"}
  /\ part.file = "open" => WholeBuffers(part.raw)
  /\ part.file = "open" /\ PlainHeader(part.raw) =>
       /\ ScanAt(part.raw, Len(part.raw), part.search)
       /\ \E first \in 0 .. 1 :
            first <= Len(Data(part.raw)) /\ Holds(part.raw, part.written, first, 0)

FilesInv ==
  /\ pc = "begin" => parts = << >>
  /\ Clean => /\ \A i \in 1 .. Len(parts) : Finished(parts[i])
              /\ pc \in Reading /\ parts # << >> => InProgress(Last(parts))

LEMMA AtMostOneMissing ==
  ASSUME NEW part, InProgress(part)
  PROVE  Finished(part)
<1>1. ASSUME PlainHeader(part.raw), part.file \in {"open", "closed"}
      PROVE  \E first \in 0 .. 1, last \in 0 .. 1 :
               Holds(part.raw, part.written, first, last)
  <2>1. PICK first \in 0 .. 1 : Holds(part.raw, part.written, first, 0)
    BY <1>1 DEF InProgress
  <2>2. 0 \in 0 .. 1
    OBVIOUS
  <2>. QED
    BY <2>1, <2>2
<1>. QED
  BY <1>1 DEF InProgress, Finished

LEMMA Quotient ==
  ASSUME NEW k \in Nat \ {0}, NEW x \in Nat, x % k = 0
  PROVE  \E q \in Nat : x = q * k
<1>1. x = k * (x \div k) + (x % k) /\ x \div k \in Nat
  OBVIOUS
<1>. QED
  BY <1>1

LEMMA Multiple == ASSUME NEW k \in Nat \ {0}, NEW q \in Nat PROVE (q * k) % k = 0
OBVIOUS

LEMMA OneMoreBuffer ==
  ASSUME NEW raw \in Seq(Token), NEW b \in Seq(Token), WholeBuffers(raw),
         Len(b) + Slack = BufferSize
  PROVE  WholeBuffers(raw \o b)
<1>1. PICK k \in Nat \ {0}, x \in Nat : k = BufferSize - Slack /\ x = Len(raw) /\ k = Len(b)
  BY ParserAssumption
<1>2. Len(raw \o b) = x + k
  BY <1>1, ConcatProperties
<1>3. x % k = 0
  BY <1>1 DEF WholeBuffers
<1>4. PICK q \in Nat : x = q * k
  BY <1>3, Quotient
<1>5. q + 1 \in Nat /\ (q + 1) * k = q * k + k
  OBVIOUS
<1>6. ((q + 1) * k) % k = 0
  BY <1>5, Multiple
<1>7. (x + k) % k = 0
  BY <1>4, <1>5, <1>6
<1>. QED
  BY <1>1, <1>2, <1>7 DEF WholeBuffers

LEMMA EmptyIsWhole == WholeBuffers(<< >>)
<1>1. PICK k \in Nat : k = BufferSize - Slack /\ k # 0
  BY ParserAssumption
<1>2. 0 % k = 0
  BY <1>1
<1>. QED
  BY <1>1, <1>2 DEF WholeBuffers

(* The fields of the last part when it is given bytes.                     *)
LEMMA ReceivedWritten ==
  ASSUME NEW ps \in Seq(PartRecord), ps # << >>, NEW b \in Seq(Token)
  PROVE  LET part == Last(ps)
             scan == HeaderScan(part, b)
             new == Received(ps, b)[Len(ps)]
         IN  /\ new \in PartRecord
             /\ new.raw = part.raw \o b /\ new.file = part.file
             /\ new.search = scan.search
             /\ new.written = IF part.file = "open"
                                THEN part.written \o Rest(b, scan.used) ELSE part.written
<1>. DEFINE part == Last(ps)
            scan == HeaderScan(part, b)
            w == IF part.file = "open" THEN part.written \o Rest(b, scan.used)
                                       ELSE part.written
            new == [part EXCEPT !.raw = part.raw \o b,
                                !.search = scan.search,
                                !.header = scan.header,
                                !.written = w]
<1>1. part \in PartRecord /\ part = ps[Len(ps)] /\ Len(ps) \in Nat \ {0}
  BY LastPart
<1>2. Received(ps, b) = [ps EXCEPT ![Len(ps)] = new]
  BY DEF Received
<1>3. Len(ps) \in DOMAIN ps
  BY <1>1
<1>4. SameButLast(Received(ps, b), ps)
  BY ReceivedFacts
<1>5. Received(ps, b)[Len(ps)] \in PartRecord
  BY <1>1, <1>4 DEF SameButLast
<1>. HIDE DEF part, scan, w
<1>6. /\ new.raw = part.raw \o b /\ new.file = part.file /\ new.search = scan.search
      /\ new.written = w
  BY <1>1 DEF PartRecord
<1>. HIDE DEF new
<1>7. Received(ps, b)[Len(ps)] = new
  BY <1>2, <1>3
<1>. QED
  BY <1>5, <1>6, <1>7 DEF part, scan, w

(* A part that is given bytes is finished; it goes on after whole buffers. *)
LEMMA GivenBytes ==
  ASSUME NEW ps \in Seq(PartRecord), ps # << >>, NEW b \in Seq(Token), b # << >>,
         InProgress(Last(ps))
  PROVE  LET new == Received(ps, b)[Len(ps)]
         IN  /\ new.file = Last(ps).file
             /\ PlainHeader(new.raw) /\ new.file = "open" =>
                  \E first \in 0 .. 1, last \in 0 .. 1 : Holds(new.raw, new.written, first, last)
             /\ Len(b) + Slack = BufferSize => InProgress(new)
<1>1. PICK part \in PartRecord : part = Last(ps)
  BY LastPart
<1>2. PICK scan : scan = HeaderScan(part, b)
  OBVIOUS
<1>3. PICK new \in PartRecord :
        /\ new = Received(ps, b)[Len(ps)]
        /\ new.raw = part.raw \o b /\ new.file = part.file
        /\ new.search = scan.search
        /\ new.written = IF part.file = "open"
                           THEN part.written \o Rest(b, scan.used) ELSE part.written
  BY <1>1, <1>2, ReceivedWritten
<1>4. ASSUME PlainHeader(new.raw), new.file = "open"
      PROVE  /\ ScanAt(new.raw, Len(new.raw), new.search)
             /\ \E first \in 0 .. 1, last \in 0 .. 1 :
                  /\ Holds(new.raw, new.written, first, last)
                  /\ Len(b) >= 2 => last = 0 /\ first <= Len(Data(new.raw))
  <2>1. PlainHeader(part.raw \o b) /\ part.raw \in Seq(Token)
    BY <1>3, <1>4 DEF PartRecord
  <2>2. PlainHeader(part.raw)
    BY <2>1, PrefixEnds
  <2>3. ScanAt(part.raw, Len(part.raw), part.search)
    BY <1>1, <1>3, <1>4, <2>2 DEF InProgress
  <2>4. PICK first \in 0 .. 1 :
          first <= Len(Data(part.raw)) /\ Holds(part.raw, part.written, first, 0)
    BY <1>1, <1>3, <1>4, <2>2 DEF InProgress
  <2>. DEFINE s == part.raw \o b
              written == part.written \o Rest(b, HeaderScan(part, b).used)
  <2>5. /\ ScanAt(s, Len(s), HeaderScan(part, b).search)
        /\ \E f \in 0 .. 1, l \in 0 .. 1 :
             /\ Holds(s, written, f, l)
             /\ Len(b) >= 2 => l = 0 /\ f <= Len(Data(s))
    BY <2>1, <2>3, <2>4, WrittenOn
  <2>6. s = new.raw /\ written = new.written
    BY <1>2, <1>3, <1>4
  <2>. HIDE DEF s, written
  <2>. QED
    BY <1>2, <1>3, <2>5, <2>6
<1>5. ASSUME Len(b) + Slack = BufferSize PROVE InProgress(new)
  <2>1. Len(b) >= 2
    BY <1>5, ParserAssumption
  <2>2. new.file = "open" => WholeBuffers(new.raw)
    <3>1. part.raw \in Seq(Token)
      BY DEF PartRecord
    <3>. QED
      BY <1>1, <1>3, <1>5, <3>1, OneMoreBuffer DEF InProgress
  <2>3. new.file \in {"open", "none"}
    BY <1>1, <1>3 DEF InProgress
  <2>4. ASSUME new.file = "open", PlainHeader(new.raw)
        PROVE  /\ ScanAt(new.raw, Len(new.raw), new.search)
               /\ \E first \in 0 .. 1 :
                    first <= Len(Data(new.raw)) /\ Holds(new.raw, new.written, first, 0)
    BY <1>4, <2>1, <2>4
  <2>. QED
    BY <2>2, <2>3, <2>4 DEF InProgress
<1>. QED
  BY <1>1, <1>3, <1>4, <1>5

LEMMA NewPartInProgress ==
  ASSUME NEW file \in {"open", "none"}
  PROVE  InProgress([search |-> 0, header |-> << >>, raw |-> << >>,
                     written |-> << >>, file |-> file])
<1>. DEFINE new == [search |-> 0, header |-> << >>, raw |-> << >>,
                    written |-> << >>, file |-> file]
<1>1. /\ new.raw = << >> /\ new.file = file /\ new.search = 0 /\ new.written = << >>
  OBVIOUS
<1>. HIDE DEF new
<1>2. PICK e \in Seq(Token) : e = << >> /\ Len(e) = 0
  <2>1. << >> \in Seq(Token) /\ Len(<< >>) = 0
    OBVIOUS
  <2>. QED
    BY <2>1
<1>3. HeaderEnds(e) = {}
  BY <1>2 DEF HeaderEnds
<1>4. ScanAt(e, 0, 0)
  BY <1>3 DEF ScanAt, Matched
<1>5. Data(e) = e
  BY <1>2, <1>3 DEF Data
<1>6. SubSeq(e, 0 + 1, Len(e) - 0) = e
  BY <1>2, EmptySlice
<1>7. 0 <= Len(Data(e)) /\ Holds(e, e, 0, 0) /\ 0 \in 0 .. 1
  BY <1>2, <1>5, <1>6 DEF Holds
<1>8. ScanAt(new.raw, Len(new.raw), new.search) /\ 0 <= Len(Data(new.raw))
      /\ Holds(new.raw, new.written, 0, 0) /\ 0 \in 0 .. 1
  BY <1>1, <1>2, <1>4, <1>7
<1>9. InProgress(new)
  BY <1>1, <1>8, EmptyIsWhole DEF InProgress
<1>. QED
  BY <1>9 DEF new

LEMMA EndedFinished ==
  ASSUME parts \in Seq(PartRecord), buf \in Seq(Token), parts # << >>,
         InProgress(Last(parts))
  PROVE  Finished(EndOfPart[Len(parts)])
<1>1. CASE buf = << >>
  <2>1. EndOfPart[Len(parts)] = Last(parts)
    BY <1>1, LastPart DEF EndOfPart
  <2>. QED
    BY <2>1, AtMostOneMissing
<1>2. CASE buf # << >>
  <2>1. PICK ps \in Seq(PartRecord) :
          ps = Received(parts, buf) /\ Len(ps) = Len(parts) /\ ps # << >>
    BY SeqOfParts, EmptySeq
  <2>2. PICK new : new = ps[Len(ps)] /\ new = Last(ps) /\ new \in PartRecord
                   /\ Len(ps) \in DOMAIN ps
    BY <2>1, LastPart
  <2>3. /\ new.file \in {"open", "none"}
        /\ PlainHeader(new.raw) /\ new.file = "open" =>
             \E first \in 0 .. 1, last \in 0 .. 1 : Holds(new.raw, new.written, first, last)
    <3>1. Last(parts).file \in {"open", "none"}
      BY DEF InProgress
    <3>2. LET x == Received(parts, buf)[Len(parts)]
          IN  /\ x.file = Last(parts).file
              /\ PlainHeader(x.raw) /\ x.file = "open" =>
                   \E first \in 0 .. 1, last \in 0 .. 1 : Holds(x.raw, x.written, first, last)
      BY <1>2, GivenBytes
    <3>. QED
      BY <2>1, <2>2, <3>1, <3>2
  <2>4. EndOfPart = PartEnd(ps)
    BY <1>2, <2>1 DEF EndOfPart
  <2>5. CASE new.file = "open"
    <3>. DEFINE closed == [new EXCEPT !.file = "closed"]
    <3>1. /\ closed.raw = new.raw /\ closed.written = new.written
          /\ closed.file = "closed"
      BY <2>2 DEF PartRecord
    <3>2. EndOfPart[Len(parts)] = closed
      <4>1. PartEnd(ps) = [ps EXCEPT ![Len(ps)].file = "closed"]
        BY <2>1, <2>2, <2>5 DEF PartEnd
      <4>. QED
        BY <2>1, <2>2, <2>4, <4>1
    <3>. HIDE DEF closed
    <3>3. Finished(closed)
      BY <2>3, <2>5, <3>1 DEF Finished
    <3>. QED
      BY <3>2, <3>3
  <2>6. CASE new.file # "open"
    <3>1. EndOfPart[Len(parts)] = new
      BY <2>1, <2>2, <2>4, <2>6 DEF PartEnd
    <3>2. Finished(new)
      BY <2>3, <2>6 DEF Finished
    <3>. QED
      BY <3>1, <3>2
  <2>. QED
    BY <2>5, <2>6
<1>. QED
  BY <1>1, <1>2

LEMMA PassInProgress ==
  ASSUME parts \in Seq(PartRecord), NEW b \in Seq(Token), Pass(b),
         Len(b) + Slack <= BufferSize,
         \A i \in 1 .. Len(parts) : Finished(parts[i]),
         parts # << >> => InProgress(Last(parts))
  PROVE  /\ \A i \in 1 .. Len(parts') : Finished(parts'[i])
         /\ parts' # << >> => InProgress(Last(parts'))
<1>1. CASE ~IsFull(b) \/ parts = << >>
  <2>1. parts' = parts
    BY <1>1 DEF Pass, Received
  <2>. QED
    BY <2>1
<1>2. CASE IsFull(b) /\ parts # << >>
  <2>1. PICK ps \in Seq(PartRecord) :
          /\ ps = Received(parts, b) /\ Len(ps) = Len(parts) /\ ps # << >>
          /\ \A i \in 1 .. Len(parts) - 1 : ps[i] = parts[i]
    BY <1>2, SeqOfParts, ReceivedFacts, EmptySeq DEF SameButLast
  <2>2. parts' = ps
    BY <1>2, <2>1 DEF Pass
  <2>3. Len(b) + Slack = BufferSize /\ b # << >>
    <3>1. Len(b) \in Nat /\ Slack \in Nat /\ BufferSize \in Nat /\ Slack < BufferSize
      BY ParserAssumption
    <3>2. Len(b) + Slack = BufferSize
      <4>1. Len(b) + Slack >= BufferSize
        BY <1>2 DEF IsFull
      <4>2. PICK x \in Nat, y \in Nat, z \in Nat : x = Len(b) /\ y = Slack /\ z = BufferSize
        BY <3>1
      <4>3. x + y >= z /\ x + y <= z
        BY <4>1, <4>2
      <4>4. x + y = z
        BY <4>3
      <4>. QED
        BY <4>2, <4>4
    <3>3. Len(b) # 0
      BY <3>1, <3>2
    <3>. QED
      BY <3>2, <3>3
  <2>4. Last(ps) = Received(parts, b)[Len(parts)] /\ Last(ps) = ps[Len(ps)]
        /\ Len(parts) \in Nat \ {0}
    BY <1>2, <2>1, LastPart
  <2>5. InProgress(Last(ps))
    BY <1>2, <2>3, <2>4, GivenBytes
  <2>6. ASSUME NEW i \in 1 .. Len(ps) PROVE Finished(ps[i])
    <3>1. CASE i = Len(ps)
      BY <2>4, <2>5, <3>1, AtMostOneMissing
    <3>2. CASE i # Len(ps)
      <4>1. i \in 1 .. Len(parts) - 1 /\ i \in 1 .. Len(parts)
        BY <2>1, <2>4, <3>2
      <4>. QED
        BY <2>1, <4>1
    <3>. QED
      BY <3>1, <3>2
  <2>. QED
    BY <2>2, <2>5, <2>6
<1>. QED
  BY <1>1, <1>2

LEMMA AllEnded ==
  ASSUME parts \in Seq(PartRecord), buf \in Seq(Token),
         \A i \in 1 .. Len(parts) : Finished(parts[i]),
         parts # << >> => InProgress(Last(parts))
  PROVE  /\ EndOfPart \in Seq(PartRecord) /\ Len(EndOfPart) = Len(parts)
         /\ \A i \in 1 .. Len(parts) : Finished(EndOfPart[i])
<1>1. /\ EndOfPart \in Seq(PartRecord) /\ Len(EndOfPart) = Len(parts)
      /\ \A i \in 1 .. Len(parts) - 1 : EndOfPart[i] = parts[i]
  BY EndOfPartFacts
<1>2. ASSUME NEW i \in 1 .. Len(parts) PROVE Finished(EndOfPart[i])
  <2>1. parts # << >>
    BY EmptySeq
  <2>2. CASE i = Len(parts)
    BY <2>1, <2>2, EndedFinished
  <2>3. CASE i # Len(parts)
    <3>1. i \in 1 .. Len(parts) - 1
      BY <2>3
    <3>. QED
      BY <1>1, <3>1
  <2>. QED
    BY <2>2, <2>3
<1>. QED
  BY <1>1, <1>2

LEMMA FilesStep == ASSUME ExactInv, FilesInv, [Next]_vars PROVE FilesInv'
<1>1. /\ parts \in Seq(PartRecord) /\ buf \in Seq(Token) /\ Len(buf) + Slack < BufferSize
      /\ pc \in Reading => ~Parsed
  BY DEF ExactInv, TypeInv, IInv, ParserInv, Reading, Parsed
<1>2. body' = body
  BY DEF Next, vars, Begin, Refill, Incomplete, ReadError, ReadNegative, ReadHangs,
     ScanByte, ScanReturn, MatchByte, AfterBoundary, Backtrack, NextPart, FalseDelimiter, Finish, GetAttachments,
     NoRootPart
<1>0. pc' = "begin" => parts' = << >>
  <2>1. CASE UNCHANGED vars
    BY <2>1 DEF FilesInv, vars
  <2>2. CASE Begin \/ Refill \/ Incomplete \/ ReadError \/ ReadNegative \/ ReadHangs
    BY <2>2 DEF Begin, Refill, Incomplete, ReadError, ReadNegative, ReadHangs, UsedUp, Reading
  <2>3. CASE ScanReturn \/ MatchByte \/ AfterBoundary \/ Backtrack \/ GetAttachments \/ NoRootPart
    BY <2>3 DEF ScanReturn, MatchByte, AfterBoundary, Backtrack, GetAttachments, NoRootPart
  <2>4. CASE ScanByte \/ NextPart \/ FalseDelimiter \/ Finish
    BY <2>4, OnwardOrWild DEF ScanByte, NextPart, FalseDelimiter, Finish
  <2>. QED
    BY <2>1, <2>2, <2>3, <2>4 DEF Next
<1>3. SUFFICES ASSUME Clean
               PROVE  /\ \A i \in 1 .. Len(parts') : Finished(parts'[i])
                      /\ pc' \in Reading /\ parts' # << >> => InProgress(Last(parts'))
  BY <1>0, <1>2 DEF FilesInv, Clean
<1>4. /\ \A i \in 1 .. Len(parts) : Finished(parts[i])
      /\ pc \in Reading /\ parts # << >> => InProgress(Last(parts))
  BY <1>3 DEF FilesInv
<1>5. CASE parts' = parts /\ (pc' \in Reading => pc \in Reading)
  BY <1>4, <1>5
<1>6. CASE ScanByte
  <2>1. pc \in Reading /\ Pass(Append(buf, Byte)) /\ Byte \in Token
    <3>1. reader.current < Len(reader.buffer)
      BY <1>6 DEF ScanByte, At
    <3>. QED
      BY <1>6, <3>1, ByteInBuffer DEF ScanByte, At, Reading, ExactInv
  <2>2. PICK b \in Seq(Token) : b = Append(buf, Byte) /\ Len(b) = Len(buf) + 1
    BY <1>1, <2>1, AppendProperties
  <2>3. Len(b) + Slack <= BufferSize
    BY <1>1, <2>2, ParserAssumption
  <2>. QED
    BY <1>1, <1>4, <2>1, <2>2, <2>3, PassInProgress
<1>7. CASE NextPart
  <2>1. pc \in Reading
    BY <1>7 DEF NextPart, At, Reading
  <2>2. PICK file \in {"open", "none"} : parts' = PartBegin(EndOfPart, file)
    BY <1>7 DEF NextPart
  <2>3. PICK ps \in Seq(PartRecord) :
          ps = EndOfPart /\ \A i \in 1 .. Len(ps) : Finished(ps[i])
    BY <1>1, <1>4, <2>1, AllEnded
  <2>4. PICK new : new = [search |-> 0, header |-> << >>, raw |-> << >>,
                          written |-> << >>, file |-> file]
    OBVIOUS
  <2>5. InProgress(new)
    BY <2>4, NewPartInProgress
  <2>6. new \in PartRecord
    BY <2>4 DEF PartRecord
  <2>7. parts' = Append(ps, new)
    BY <2>2, <2>3, <2>4 DEF PartBegin
  <2>8. /\ Len(Append(ps, new)) = Len(ps) + 1 /\ Append(ps, new) \in Seq(PartRecord)
        /\ \A i \in 1 .. Len(ps) : Append(ps, new)[i] = ps[i]
        /\ Append(ps, new)[Len(ps) + 1] = new
    BY <2>6, AppendProperties
  <2>9. Last(parts') = new
    BY <2>7, <2>8 DEF Last
  <2>10. ASSUME NEW i \in 1 .. Len(parts') PROVE Finished(parts'[i])
    <3>1. i \in 1 .. Len(ps) \/ i = Len(ps) + 1
      BY <2>7, <2>8
    <3>2. CASE i \in 1 .. Len(ps)
      BY <2>3, <2>7, <2>8, <3>2
    <3>3. CASE i = Len(ps) + 1
      BY <2>5, <2>7, <2>8, <3>3, AtMostOneMissing
    <3>. QED
      BY <3>1, <3>2, <3>3
  <2>. QED
    BY <2>5, <2>9, <2>10
<1>8. CASE FalseDelimiter
  BY <1>3, <1>8, NoFalseDelimiter
<1>9. CASE Finish
  <2>1. pc \in Reading /\ pc' \notin Reading /\ parts' = EndOfPart
    BY <1>9, OnwardOrWild DEF Finish, At, Reading
  <2>2. Len(EndOfPart) = Len(parts) /\ \A i \in 1 .. Len(parts) : Finished(EndOfPart[i])
    BY <1>1, <1>4, <2>1, AllEnded
  <2>. QED
    BY <2>1, <2>2
<1>10. CASE NoRootPart
  <2>1. pc' \notin Reading /\ DOMAIN parts = 1 .. Len(parts) /\ Len(parts) \in Nat
    BY <1>1, <1>10 DEF NoRootPart, Reading
  <2>2. parts' = [i \in 1 .. Len(parts) |-> [parts[i] EXCEPT !.file = "removed"]]
    BY <1>10, <2>1 DEF NoRootPart
  <2>3. ASSUME NEW i \in 1 .. Len(parts) PROVE Finished(parts'[i])
    <3>1. parts[i] \in PartRecord
      BY <1>1, <2>1
    <3>2. parts'[i].file = "removed"
      BY <2>2, <3>1 DEF PartRecord
    <3>. QED
      BY <3>2 DEF Finished
  <2>4. Len(parts') = Len(parts)
    BY <2>1, <2>2
  <2>. QED
    BY <2>1, <2>3, <2>4
<1>11. ASSUME Refill \/ Incomplete \/ ReadError \/ ReadNegative \/ ReadHangs
              \/ ScanReturn \/ MatchByte \/ AfterBoundary \/ Backtrack
              \/ GetAttachments \/ UNCHANGED vars
       PROVE  parts' = parts /\ (pc' \in Reading => pc \in Reading)
  <2>1. parts' = parts
    BY <1>11 DEF Refill, Incomplete, ReadError, ReadNegative, ReadHangs, ScanReturn,
       MatchByte, AfterBoundary, Backtrack, GetAttachments, vars
  <2>2. (pc' \in Reading => pc \in Reading)
    BY <1>11 DEF Refill, Incomplete, ReadError, ReadNegative, ReadHangs, ScanReturn,
       MatchByte, AfterBoundary, Backtrack, GetAttachments, vars, At, UsedUp, Reading
  <2>. QED
    BY <2>1, <2>2
<1>12. CASE Begin
  <2>1. parts' = parts /\ parts = << >>
    BY <1>12 DEF Begin, FilesInv
  <2>. QED
    BY <1>4, <2>1
<1>. QED
  BY <1>5, <1>6, <1>7, <1>8, <1>9, <1>10, <1>11, <1>12 DEF Next

(* Nothing of a part's data is written twice, out of order or into another *)
(* part's file, wherever the buffers cut its header and its data, and the  *)
(* bytes that are missing are at most two, those _mime_received_bytes does *)
(* not write because only one is left of what it was given.                *)
THEOREM FilesAreInOrder == Spec => []FilesInOrder
<1>1. Init => FilesInv
  <2>. SUFFICES ASSUME Init PROVE FilesInv
    OBVIOUS
  <2>1. parts = << >> /\ 1 .. Len(parts) = {}
    BY DEF Init
  <2>. QED
    BY <2>1 DEF FilesInv
<1>2. ExactInv /\ FilesInv /\ [Next]_vars => FilesInv'
  BY FilesStep
<1>3. ExactInv /\ FilesInv => FilesInOrder
  <2>. SUFFICES ASSUME ExactInv, FilesInv, Clean, pc # "wild", NEW i \in DOMAIN parts
                PROVE  LET part == parts[i]
                           data == Data(part.raw)
                       IN  /\ OpenOnlyIfFull(part)
                           /\ PlainHeader(part.raw) /\ part.file \in {"open", "closed"} =>
                                \E first \in 0 .. 1, last \in 0 .. 1 :
                                  part.written = SubSeq(data, first + 1, Len(data) - last)
    BY DEF FilesInOrder
  <2>1. i \in 1 .. Len(parts)
    BY DEF ExactInv, TypeInv
  <2>2. Finished(parts[i])
    BY <2>1 DEF FilesInv
  <2>. QED
    BY <2>2 DEF Finished, OpenOnlyIfFull, WholeBuffers, Holds
<1>. QED
  BY <1>1, <1>2, <1>3, ExactInvariance, PTL DEF Spec

=============================================================================
