-------------------------- MODULE HttpStreamProofs --------------------------
(* What holds of a body for any writes, sizes of reads and moments at      *)
(* which the connection breaks: the streams implement the byte channel,    *)
(* and a reader that is done leaves the next message where it begins.      *)
EXTENDS HttpStream, TLAPS

-----------------------------------------------------------------------------
(* The tokens of a wire lead from place to place in the message: within a  *)
(* chunk with `left` bytes to come (a body that is not chunked is one      *)
(* chunk), before a chunk-size line, behind that of the last chunk, behind *)
(* the message, in the message after it, or lost. `off` is the number of   *)
(* body bytes that have passed.                                            *)
Place(k, o, l) == [kind |-> k, off |-> o, left |-> l]
Places == [kind : {"chunk", "line", "last", "next", "over", "garbled"}, off : Nat, left : Nat]

Fits(style, size, token, p, q) ==
  \/ /\ p.kind = "chunk" /\ p.left > 0
     /\ token = Token("data", p.off + 1) /\ q = Place("chunk", p.off + 1, p.left - 1)
  \/ /\ style = "chunked" /\ p.kind = "chunk" /\ p.left = 0
     /\ token = Crlf /\ q = Place("line", p.off, 0)
  \/ /\ p.kind = "line" /\ q.left > 0 /\ p.off + q.left <= size
     /\ token = Line(q.left) /\ q = Place("chunk", p.off, q.left)
  \/ /\ p.kind = "line" /\ p.off = size
     /\ token = Line(0) /\ q = Place("last", p.off, 0)
  \/ /\ p.kind = "last"
     /\ token = Crlf /\ q = Place("next", p.off, 0)
  \/ /\ p.kind = "next" \/ (style = "length" /\ p.kind = "chunk" /\ p.left = 0)
     /\ token = NextStart /\ q = Place("over", p.off, 0)
  \/ /\ p.kind = "line" \/ (p.kind = "chunk" /\ p.left = 0)
     /\ style = "chunked" /\ token = Overlong /\ q = Place("garbled", p.off, 0)
  \/ /\ p.kind = "line"
     /\ token \in {Line(-1), Line(-2)} /\ q = Place("garbled", p.off, 0)

(* f[i] is the place behind i tokens of w. The last conjunct follows from  *)
(* the one before by induction along a chunk.                              *)
Layout(style, size, w, f) ==
  /\ f \in [0 .. Len(w) -> Places]
  /\ \A i \in 1 .. Len(w) : Fits(style, size, w[i], f[i - 1], f[i])
  /\ \A i, j \in 0 .. Len(w) :
       i <= j /\ f[i].kind = "chunk" /\ j - i <= f[i].left =>
         f[j] = Place("chunk", f[i].off + (j - i), f[i].left - (j - i))

Bytes(from, n) == [i \in 1 .. n |-> Token("data", from + i)]

OneAppended(style, size, w, f, token, q) ==
  \E g : /\ Layout(style, size, Append(w, token), g)
         /\ \A i \in 0 .. Len(w) : g[i] = f[i]
         /\ g[Len(w) + 1] = q

LEMMA AppendOne ==
  ASSUME NEW style, NEW size \in Nat, NEW w, \E S : w \in Seq(S), NEW f, Layout(style, size, w, f),
         NEW token, NEW q \in Places, Fits(style, size, token, f[Len(w)], q)
  PROVE  OneAppended(style, size, w, f, token, q)
<1> DEFINE L == Len(w)
           x == Append(w, token)
           g == [i \in 0 .. L + 1 |-> IF i <= L THEN f[i] ELSE q]
<1>1. /\ L \in Nat /\ Len(x) = L + 1
      /\ \A i \in 1 .. L : x[i] = w[i]
      /\ x[L + 1] = token
  <2>1. PICK S : w \in Seq(S)
    OBVIOUS
  <2>2. w \in Seq(S \cup {token})
    BY <2>1
  <2>. QED
    BY <2>2
<1>. HIDE DEF x, L
<1>2. /\ f \in [0 .. L -> Places]
      /\ \A i \in 1 .. L : Fits(style, size, w[i], f[i - 1], f[i])
      /\ \A i, j \in 0 .. L :
           i <= j /\ f[i].kind = "chunk" /\ j - i <= f[i].left =>
             f[j] = Place("chunk", f[i].off + (j - i), f[i].left - (j - i))
      /\ Fits(style, size, token, f[L], q)
  BY DEF Layout, L
<1>3. g \in [0 .. L + 1 -> Places]
  BY <1>1, <1>2
<1>4. ASSUME NEW i \in 1 .. L + 1 PROVE Fits(style, size, x[i], g[i - 1], g[i])
  <2>1. CASE i <= L
    BY <1>1, <1>2, <2>1
  <2>2. CASE i = L + 1
    BY <1>1, <1>2, <2>2
  <2>. QED
    BY <1>1, <2>1, <2>2
<1>5. ASSUME NEW i \in 0 .. L + 1, NEW j \in 0 .. L + 1, i <= j, g[i].kind = "chunk", j - i <= g[i].left
      PROVE  g[j] = Place("chunk", g[i].off + (j - i), g[i].left - (j - i))
  <2>1. CASE j <= L
    BY <1>1, <1>2, <1>5, <2>1
  <2>2. CASE j = L + 1 /\ i = L + 1
    BY <1>1, <1>5, <2>2 DEF Places, Place
  <2>3. CASE j = L + 1 /\ i <= L
    <3>1. /\ g[i] = f[i] /\ i \in 0 .. L /\ L \in 0 .. L /\ i <= L
          /\ f[i].off \in Nat /\ f[i].left \in Nat
      BY <1>1, <1>2, <2>3 DEF Places
    <3>2. f[i].kind = "chunk" /\ f[i].left >= L + 1 - i
      BY <1>5, <2>3, <3>1
    <3>3. L - i <= f[i].left
      BY <1>1, <3>1, <3>2
    <3>4. f[L] = Place("chunk", f[i].off + (L - i), f[i].left - (L - i))
      BY <1>2, <3>1, <3>2, <3>3
    <3>5. f[L].kind = "chunk" /\ f[L].left = f[i].left - (L - i) /\ f[L].left > 0
          /\ f[L].off = f[i].off + (L - i)
      BY <1>1, <3>1, <3>4, <3>2 DEF Place
    <3>6. q = Place("chunk", f[L].off + 1, f[L].left - 1)
      BY <1>2, <3>5 DEF Fits
    <3>7. g[i] = f[i] /\ g[j] = q
      BY <1>1, <2>3
    <3>. QED
      BY <1>1, <2>3, <3>1, <3>5, <3>6, <3>7
  <2>. QED
    BY <1>1, <2>1, <2>2, <2>3
<1>6. Layout(style, size, x, g)
  BY <1>1, <1>3, <1>4, <1>5 DEF Layout
<1>. QED
  BY <1>1, <1>6 DEF x, L, OneAppended

(* The next n bytes of a chunk that has l to come.                         *)
MayAppend(style, size, w, f, h, l, n) ==
  /\ size \in Nat /\ h \in Nat /\ l \in Nat /\ n \in Nat /\ n <= l
  /\ \E S : w \in Seq(S)
  /\ Layout(style, size, w, f)
  /\ f[Len(w)] = Place("chunk", h, l)

Appended(style, size, w, f, h, l, n) ==
  \E g : /\ Layout(style, size, w \o Bytes(h, n), g)
         /\ \A i \in 0 .. Len(w) : g[i] = f[i]
         /\ g[Len(w) + n] = Place("chunk", h + n, l - n)
         /\ \A i \in 0 .. n : g[Len(w) + i].off = h + i

LEMMA AppendBytes ==
  ASSUME NEW style, NEW size, NEW w, NEW f, NEW h, NEW l, NEW n, MayAppend(style, size, w, f, h, l, n)
  PROVE  Appended(style, size, w, f, h, l, n)
<1>1. size \in Nat /\ h \in Nat /\ l \in Nat /\ n \in Nat /\ n <= l
  BY DEF MayAppend
<1>2. /\ \E S : w \in Seq(S)
      /\ Layout(style, size, w, f)
      /\ f[Len(w)] = Place("chunk", h, l)
  BY DEF MayAppend
<1> DEFINE L == Len(w)
           x == w \o Bytes(h, n)
           g == [i \in 0 .. L + n |-> IF i <= L THEN f[i] ELSE Place("chunk", h + (i - L), l - (i - L))]
<1>3. /\ L \in Nat /\ Len(x) = L + n
      /\ \A i \in 1 .. L : x[i] = w[i]
      /\ \A i \in 1 .. n : x[L + i] = Token("data", h + i)
  <2>1. PICK S : w \in Seq(S)
    BY <1>1, <1>2
  <2> DEFINE B == Bytes(h, n)
             T == S \cup {Token("data", h + i) : i \in 1 .. n}
  <2>2. w \in Seq(T) /\ B \in Seq(T) /\ Len(B) = n /\ \A i \in 1 .. n : B[i] = Token("data", h + i)
    <3>1. B \in [1 .. n -> T] /\ \A i \in 1 .. n : B[i] = Token("data", h + i)
      BY <1>1, <1>2 DEF Bytes
    <3>2. S \subseteq T
      BY <1>1, <1>2
    <3>. HIDE DEF B, T
    <3>. QED
      BY <1>1, <2>1, <3>1, <3>2
  <2>. HIDE DEF B, T
  <2>3. /\ Len(w \o B) = Len(w) + Len(B)
        /\ \A i \in 1 .. Len(w) : (w \o B)[i] = w[i]
        /\ \A i \in 1 .. Len(B) : (w \o B)[Len(w) + i] = B[i]
    BY <2>2
  <2>. QED
    BY <1>1, <2>2, <2>3 DEF B
<1>. HIDE DEF x, L
<1>4. /\ f \in [0 .. L -> Places]
      /\ \A i \in 1 .. L : Fits(style, size, w[i], f[i - 1], f[i])
      /\ \A i, j \in 0 .. L :
           i <= j /\ f[i].kind = "chunk" /\ j - i <= f[i].left =>
             f[j] = Place("chunk", f[i].off + (j - i), f[i].left - (j - i))
  BY <1>1, <1>2 DEF Layout, L
<1>5. \A i \in 0 .. n : g[L + i] = Place("chunk", h + i, l - i)
  <2>. SUFFICES ASSUME NEW i \in 0 .. n PROVE g[L + i] = Place("chunk", h + i, l - i)
    OBVIOUS
  <2>1. CASE i = 0
    BY <1>1, <1>2, <1>3, <2>1 DEF L
  <2>2. CASE i > 0
    <3>1. L + i \in 0 .. L + n /\ ~(L + i <= L) /\ (L + i) - L = i
      BY <1>1, <1>3, <2>2
    <3>. QED
      BY <1>1, <3>1
  <2>. QED
    BY <1>1, <2>1, <2>2
<1>6. \A i \in 0 .. L : g[i] = f[i]
  BY <1>1, <1>3
<1>7. g \in [0 .. L + n -> Places]
  <2>. SUFFICES ASSUME NEW i \in 0 .. L + n
               PROVE  (IF i <= L THEN f[i] ELSE Place("chunk", h + (i - L), l - (i - L))) \in Places
    OBVIOUS
  <2>1. CASE i <= L
    <3>1. i \in 0 .. L
      BY <1>1, <1>3, <2>1
    <3>2. f[i] \in Places
      BY <1>1, <1>4, <3>1
    <3>. QED
      BY <1>1, <2>1, <3>2
  <2>2. CASE ~(i <= L)
    <3>1. h + (i - L) \in Nat /\ l - (i - L) \in Nat
      BY <1>1, <1>3, <2>2
    <3>. QED
      BY <1>1, <2>2, <3>1 DEF Place, Places
  <2>. QED
    BY <1>1, <2>1, <2>2
<1>. HIDE DEF g
<1>8. ASSUME NEW i \in 1 .. L + n PROVE Fits(style, size, x[i], g[i - 1], g[i])
  <2>1. CASE i <= L
    BY <1>1, <1>3, <1>4, <1>6, <2>1
  <2>2. CASE i > L
    <3>1. PICK k \in 1 .. n : i = L + k /\ i - 1 = L + (k - 1) /\ k - 1 \in 0 .. n
      <4>1. i - L \in 1 .. n /\ i = L + (i - L) /\ i - 1 = L + ((i - L) - 1) /\ (i - L) - 1 \in 0 .. n
        BY <1>1, <1>3, <2>2
      <4>. QED
        BY <1>1, <4>1
    <3>2. g[i - 1] = Place("chunk", h + (k - 1), l - (k - 1)) /\ g[i] = Place("chunk", h + k, l - k)
      BY <1>1, <1>5, <3>1
    <3>3. x[i] = Token("data", (h + (k - 1)) + 1)
      BY <1>1, <1>3, <3>1
    <3>4. h + k = (h + (k - 1)) + 1 /\ l - k = (l - (k - 1)) - 1 /\ l - (k - 1) > 0
      BY <1>1, <1>2
    <3>. QED
      BY <1>1, <3>2, <3>3, <3>4 DEF Fits, Place
  <2>. QED
    BY <1>1, <1>3, <2>1, <2>2
<1>9. ASSUME NEW i \in 0 .. L + n, NEW j \in 0 .. L + n, i <= j, g[i].kind = "chunk", j - i <= g[i].left
      PROVE  g[j] = Place("chunk", g[i].off + (j - i), g[i].left - (j - i))
  <2>1. CASE j <= L
    <3>1. i \in 0 .. L /\ j \in 0 .. L
      BY <1>1, <1>3, <1>9, <2>1
    <3>. QED
      BY <1>1, <1>4, <1>6, <1>9, <3>1
  <2>2. CASE i > L
    <3>1. i - L \in 0 .. n /\ j - L \in 0 .. n /\ i = L + (i - L) /\ j = L + (j - L)
      BY SMTT(30), <1>1, <1>3, <1>9, <2>2
    <3>2. g[i] = Place("chunk", h + (i - L), l - (i - L)) /\ g[j] = Place("chunk", h + (j - L), l - (j - L))
      BY <1>1, <1>5, <3>1
    <3>3. g[i].off = h + (i - L) /\ g[i].left = l - (i - L)
      BY <1>1, <3>2 DEF Place
    <3>. QED
      BY <1>1, <1>3, <3>1, <3>2, <3>3
  <2>3. CASE i <= L /\ j > L
    <3>1. /\ i \in 0 .. L /\ L \in 0 .. L /\ g[i] = f[i] /\ g[L] = f[L]
          /\ f[i].off \in Nat /\ f[i].left \in Nat
          /\ j - L \in 0 .. n /\ j = L + (j - L)
      BY <1>1, <1>3, <1>4, <1>6, <2>3 DEF Places
    <3>2. f[i].kind = "chunk" /\ L - i <= f[i].left
      <4>1. f[i].kind = "chunk" /\ j - i <= f[i].left
        BY <1>9, <3>1
      <4>2. L \in Int /\ i \in Int /\ j \in Int /\ L - i <= j - i
        BY <1>1, <1>3, <2>3
      <4>3. \A x1, y1, z1 \in Int : x1 <= y1 /\ y1 <= z1 => x1 <= z1
        OBVIOUS
      <4>4. L - i \in Int /\ j - i \in Int /\ f[i].left \in Int
        BY <3>1, <4>2
      <4>. QED
        BY <4>1, <4>2, <4>3, <4>4, Zenon
    <3>3. f[L] = Place("chunk", f[i].off + (L - i), f[i].left - (L - i))
      BY <1>1, <1>4, <2>3, <3>1, <3>2
    <3>4. f[L] = Place("chunk", h, l)
      BY <1>1, <1>2 DEF L
    <3>5. h = f[i].off + (L - i) /\ l = f[i].left - (L - i)
      BY <1>1, <3>3, <3>4 DEF Place
    <3>6. g[j] = Place("chunk", h + (j - L), l - (j - L))
      BY <1>1, <1>5, <3>1
    <3>7. h + (j - L) = f[i].off + (j - i) /\ l - (j - L) = f[i].left - (j - i)
      <4>1. PICK a, b \in Nat : a = f[i].off /\ b = f[i].left
        BY <1>1, <3>1
      <4>2. h = a + (L - i) /\ l = b - (L - i)
        BY <1>1, <3>5, <4>1
      <4>3. h + (j - L) = a + (j - i) /\ l - (j - L) = b - (j - i)
        BY <1>1, <1>3, <4>2
      <4>. QED
        BY <1>1, <4>1, <4>3
    <3>. QED
      BY <1>1, <3>1, <3>6, <3>7
  <2>. QED
    BY <1>1, <1>3, <2>1, <2>2, <2>3
<1>10. Layout(style, size, x, g)
  BY <1>1, <1>2, <1>3, <1>7, <1>8, <1>9 DEF Layout
<1>11. \A i \in 0 .. n : Place("chunk", h + i, l - i).off = h + i
  BY <1>1, <1>2 DEF Place
<1>12. \A i \in 0 .. n : g[L + i].off = h + i
  BY <1>1, <1>5, <1>11, Zenon
<1>13. g[L + n] = Place("chunk", h + n, l - n)
  <2>1. n \in 0 .. n
    BY <1>1, <1>2
  <2>. QED
    BY <1>1, <1>5, <2>1, Zenon
<1>. QED
  BY <1>1, <1>2, <1>6, <1>10, <1>12, <1>13, Zenon DEF x, L, Appended

(* What a reset leaves of the wire.                                        *)
CutTo(style, size, x, f, cut) ==
  \E g : /\ Layout(style, size, x, g) /\ Len(x) = cut
         /\ \A i \in 0 .. cut : g[i] = f[i]

LEMMA CutWire ==
  ASSUME NEW style, NEW size \in Nat, NEW w, \E S : w \in Seq(S), NEW f, Layout(style, size, w, f),
         NEW cut \in 0 .. Len(w)
  PROVE  CutTo(style, size, SubSeq(w, 1, cut), f, cut)
<1> DEFINE L == Len(w)
           x == SubSeq(w, 1, cut)
           g == [i \in 0 .. cut |-> f[i]]
<1>1. L \in Nat /\ cut \in Nat /\ cut <= L /\ Len(x) = cut /\ \A i \in 1 .. cut : x[i] = w[i]
  OBVIOUS
<1>. HIDE DEF x, L
<1>2. /\ f \in [0 .. L -> Places]
      /\ \A i \in 1 .. L : Fits(style, size, w[i], f[i - 1], f[i])
      /\ \A i, j \in 0 .. L :
           i <= j /\ f[i].kind = "chunk" /\ j - i <= f[i].left =>
             f[j] = Place("chunk", f[i].off + (j - i), f[i].left - (j - i))
  BY DEF Layout, L
<1>3. \A i \in 0 .. cut : g[i] = f[i] /\ i \in 0 .. L
  BY <1>1
<1>4. g \in [0 .. cut -> Places]
  BY <1>1, <1>2
<1>. HIDE DEF g
<1>5. \A i \in 1 .. cut : i \in 0 .. cut /\ i - 1 \in 0 .. cut /\ i \in 1 .. L
  BY <1>1
<1>6. \A i \in 1 .. cut : Fits(style, size, x[i], g[i - 1], g[i])
  BY <1>1, <1>2, <1>3, <1>5
<1>7. Layout(style, size, x, g)
  BY <1>1, <1>2, <1>3, <1>4, <1>6 DEF Layout
<1>. QED
  BY <1>1, <1>3, <1>7 DEF x, L, CutTo

(* What is on the wire once `c` tokens have been received.                 *)
Taken(style, size, w, x, f, c) ==
  \E g : /\ Layout(style, size, x, g) /\ Len(x) = Len(w) - c
         /\ \A i \in 0 .. Len(w) - c : g[i] = f[i + c]

LEMMA TakeTokens ==
  ASSUME NEW style, NEW size \in Nat, NEW w, \E S : w \in Seq(S), NEW f, Layout(style, size, w, f),
         NEW c \in 0 .. Len(w)
  PROVE  Taken(style, size, w, SubSeq(w, c + 1, Len(w)), f, c)
<1> DEFINE L == Len(w)
           x == SubSeq(w, c + 1, L)
           g == [i \in 0 .. L - c |-> f[i + c]]
<1>1. /\ L \in Nat /\ c \in Nat /\ c <= L /\ L - c \in Nat
      /\ Len(x) = L - c /\ \A i \in 1 .. L - c : x[i] = w[i + c]
  OBVIOUS
<1>. HIDE DEF x, L
<1>2. /\ f \in [0 .. L -> Places]
      /\ \A i \in 1 .. L : Fits(style, size, w[i], f[i - 1], f[i])
      /\ \A i, j \in 0 .. L :
           i <= j /\ f[i].kind = "chunk" /\ j - i <= f[i].left =>
             f[j] = Place("chunk", f[i].off + (j - i), f[i].left - (j - i))
  BY DEF Layout, L
<1>3. \A i \in 0 .. L - c : g[i] = f[i + c] /\ i + c \in 0 .. L
  BY <1>1
<1>4. g \in [0 .. L - c -> Places]
  BY <1>2, <1>3
<1>. HIDE DEF g
<1>5. \A i \in 1 .. L - c : /\ i \in 0 .. L - c /\ i - 1 \in 0 .. L - c /\ i + c \in 1 .. L
                            /\ (i - 1) + c = (i + c) - 1
  BY <1>1
<1>6. \A i \in 1 .. L - c : Fits(style, size, x[i], g[i - 1], g[i])
  BY <1>1, <1>2, <1>3, <1>5
<1>7. ASSUME NEW i \in 0 .. L - c, NEW j \in 0 .. L - c, i <= j, g[i].kind = "chunk", j - i <= g[i].left
      PROVE  g[j] = Place("chunk", g[i].off + (j - i), g[i].left - (j - i))
  <2>1. /\ g[i] = f[i + c] /\ g[j] = f[j + c] /\ i + c \in 0 .. L /\ j + c \in 0 .. L
        /\ (j + c) - (i + c) = j - i /\ i + c <= j + c
    BY <1>1, <1>3, <1>7
  <2>. QED
    BY <1>2, <1>7, <2>1
<1>8. Layout(style, size, x, g)
  BY <1>1, <1>4, <1>6, <1>7 DEF Layout
<1>. QED
  BY <1>1, <1>3, <1>8 DEF x, L, Taken

\* Within a chunk there are its bytes and nothing else.
Within(w, f, n) ==
  /\ \A i \in 1 .. n : w[i] = Token("data", f[0].off + i)
  /\ f[n] = Place("chunk", f[0].off + n, f[0].left - n)

LEMMA ChunkBytes ==
  ASSUME NEW style, NEW size \in Nat, NEW w, \E S : w \in Seq(S), NEW f, Layout(style, size, w, f),
         f[0].kind = "chunk", NEW n \in 0 .. Len(w), n <= f[0].left
  PROVE  Within(w, f, n)
<1> DEFINE L == Len(w)
<1>1. L \in Nat /\ n \in Nat /\ n <= L
  OBVIOUS
<1>. HIDE DEF L
<1>2. /\ f \in [0 .. L -> Places]
      /\ \A i \in 1 .. L : Fits(style, size, w[i], f[i - 1], f[i])
      /\ \A i, j \in 0 .. L :
           i <= j /\ f[i].kind = "chunk" /\ j - i <= f[i].left =>
             f[j] = Place("chunk", f[i].off + (j - i), f[i].left - (j - i))
  BY DEF Layout, L
<1>3. f[0].off \in Nat /\ f[0].left \in Nat
  BY <1>1, <1>2 DEF Places
<1>4. \A j \in 0 .. n : f[j] = Place("chunk", f[0].off + j, f[0].left - j)
  <2>. SUFFICES ASSUME NEW j \in 0 .. n PROVE f[j] = Place("chunk", f[0].off + j, f[0].left - j)
    OBVIOUS
  <2>1. 0 \in 0 .. L /\ j \in 0 .. L /\ 0 <= j /\ j - 0 = j /\ j <= f[0].left
    BY <1>1, <1>3
  <2>. QED
    BY <1>2, <2>1
<1>5. ASSUME NEW i \in 1 .. n PROVE w[i] = Token("data", f[0].off + i)
  <2>1. i \in 1 .. L /\ i - 1 \in 0 .. n
    BY <1>1
  <2>2. /\ Fits(style, size, w[i], f[i - 1], f[i])
        /\ f[i - 1] = Place("chunk", f[0].off + (i - 1), f[0].left - (i - 1))
    BY <1>2, <1>4, <2>1
  <2>3. /\ f[i - 1].kind = "chunk" /\ f[i - 1].left > 0
        /\ f[i - 1].off + 1 = f[0].off + i
    BY <1>1, <1>3, <2>2 DEF Place
  <2>. QED
    BY <2>2, <2>3 DEF Fits
<1>. QED
  BY <1>1, <1>4, <1>5 DEF Within

\* A connection that is closed after the body, or a file, has nothing more.
LEMMA BytesOnly ==
  ASSUME NEW style, style \notin {"length", "chunked"}, NEW size \in Nat, NEW w, \E S : w \in Seq(S),
         NEW f, Layout(style, size, w, f), f[0].kind = "chunk"
  PROVE  Len(w) <= f[0].left
<1>1. Len(w) \in Nat /\ 0 \in 0 .. Len(w)
  OBVIOUS
<1>2. f[0].off \in Nat /\ f[0].left \in Nat
  BY <1>1 DEF Layout, Places
<1>3. SUFFICES ASSUME f[0].left < Len(w) PROVE FALSE
  BY <1>1, <1>2
<1>4. PICK n \in 0 .. Len(w) : n = f[0].left /\ n + 1 \in 1 .. Len(w) /\ (n + 1) - 1 = n
  BY <1>1, <1>2, <1>3
<1>5. f[n] = Place("chunk", f[0].off + n, f[0].left - n)
  <2>1. n <= f[0].left /\ n - 0 = n /\ 0 <= n
    BY <1>2, <1>4
  <2>. QED
    BY <1>1, <2>1 DEF Layout
<1>6. f[n].kind = "chunk" /\ f[n].left = 0
  BY <1>2, <1>4, <1>5 DEF Place
<1>7. Fits(style, size, w[n + 1], f[n], f[n + 1])
  BY <1>4 DEF Layout
<1>. QED
  BY <1>6, <1>7 DEF Fits

-----------------------------------------------------------------------------
(* The inductive invariant. The types:                                     *)
Shapes ==
  /\ mode \in {"length", "chunked", "close", "file"} /\ ssl \in {"none", "server", "client"} /\ total \in Nat
  /\ wpc \in {"idle", "body", "crlf", "done", "next", "failed"}
  /\ link \in {"up", "eof", "reset", "disk", "bad", "missing"}
  /\ rpc \in {"ask", "skip", "line", "recv", "complete", "error", "wild"}
  /\ handed \in 0 .. total /\ script \in Seq(Nat) /\ wire \in Seq(Tokens)
  /\ want \in Nat /\ chunk_size \in -2 .. total /\ received \in -1 .. total
  /\ closed \in BOOLEAN /\ got \in Seq(Nat)

(* A writer that has not failed knows what it has still to write.          *)
WriterInv ==
  wpc # "failed" =>
    /\ \A i, j \in 1 .. Len(script) : i <= j => script[i] <= script[j]
    /\ \A i \in 1 .. Len(script) : handed <= script[i] /\ script[i] <= total
    /\ mode = "chunked" =>
         \A i \in 1 .. Len(script) : (IF i = 1 THEN handed ELSE script[i - 1]) < script[i]
    /\ IF script = << >> THEN handed = total ELSE script[Len(script)] = total
    /\ wpc \in {"done", "next"} => script = << >>
    /\ wpc \in {"body", "crlf"} => mode = "chunked"
    /\ wpc = "body" => script # << >>
    /\ wpc = "next" => mode \in {"length", "chunked"}
    /\ link # "reset"

FileInv ==
  /\ mode = "file" <=> link \in {"disk", "bad", "missing"}
  /\ mode = "file" => wpc \in {"idle", "done"}
  /\ mode = "file" /\ wpc = "idle" => rpc = "ask" /\ handed = 0 /\ wire = << >> /\ got = << >>
  /\ mode = "file" /\ closed => Len(got) = total
  /\ link = "missing" => wire = << >> /\ rpc \in {"ask", "complete"} /\ got = << >>

(* A chunk that is being read has `chunk_size - received` bytes to come.   *)
ChunkInv ==
  mode = "chunked" /\ rpc \notin {"error", "wild"} =>
    /\ chunk_size # -2
    /\ chunk_size = -1 => received = -1 /\ rpc \in {"ask", "line"}
    /\ chunk_size = 0 => received = 0 /\ rpc \in {"ask", "complete"}
    /\ chunk_size > 0 =>
         /\ rpc \in {"ask", "skip", "line", "recv"}
         /\ received \in 0 .. chunk_size
         /\ rpc = "recv" => received < chunk_size
         /\ rpc = "skip" => received = chunk_size

ReaderInv ==
  /\ rpc \in {"skip", "line"} => mode = "chunked" /\ want > 0
  /\ rpc = "recv" => want > 0
  /\ mode = "length" /\ rpc = "recv" => want <= total - received
  /\ mode # "chunked" => chunk_size = -1 /\ received = Len(got)
  /\ closed => mode \in {"close", "file"}
  /\ got = [k \in 1 .. Len(got) |-> k]
  /\ Len(got) <= handed
  /\ rpc = "complete" => mode = "close" \/ link = "missing" \/ Len(got) = total
  /\ mode = "chunked" /\ rpc = "complete" => chunk_size = 0

(* Where the two ends are in the message that the wire spells.             *)
ReaderAt(p) ==
  rpc \notin {"error", "wild"} =>
    /\ p.off = Len(got)
    /\ mode # "chunked" => p.kind = "chunk" /\ p.left = total - received
    /\ mode = "chunked" /\ (rpc = "line" \/ chunk_size = -1) => p.kind = "line"
    /\ mode = "chunked" /\ rpc # "line" /\ chunk_size = 0 => p.kind = "last" /\ p.off = total
    /\ mode = "chunked" /\ rpc # "line" /\ chunk_size > 0 =>
         p.kind = "chunk" /\ p.left = chunk_size - received

WriterAt(p) ==
  wpc # "failed" /\ link # "missing" =>
    /\ p.off = handed
    /\ IF mode = "chunked"
       THEN /\ wpc = "idle" => p.kind = "line"
            /\ wpc = "body" => p = Place("chunk", handed, Size)
            /\ wpc = "crlf" => p = Place("chunk", handed, 0)
            /\ wpc = "done" => p.kind = "next"
       ELSE wpc # "next" => p = Place("chunk", handed, total - handed)
    /\ wpc = "next" => p.kind = "over"

Spells(w, h, f) == Layout(mode, total, w, f) /\ \A i \in 0 .. Len(w) : f[i].off <= h

WireInv == \E f : Spells(wire, handed, f) /\ ReaderAt(f[0]) /\ WriterAt(f[Len(wire)])

Inv == Shapes /\ WriterInv /\ FileInv /\ ChunkInv /\ ReaderInv /\ WireInv

-----------------------------------------------------------------------------
LEMMA InitInv == ASSUME Init PROVE Inv
<1>1. total \in Nat /\ script \in Seq(Nat)
      /\ \A i, j \in 1 .. Len(script) : i <= j => script[i] <= script[j]
      /\ IF script = << >> THEN total = 0 ELSE Len(script) \in 1 .. Len(script) /\ script[Len(script)] = total
  BY StreamAssumption DEF Init
<1>2. Shapes
  <2>1. /\ mode \in {"length", "chunked", "close", "file"} /\ ssl \in {"none", "server", "client"}
        /\ link \in {"up", "eof", "reset", "disk", "bad", "missing"}
    BY DEF Init
  <2>2. wire \in Seq(Tokens) /\ got \in Seq(Nat)
    BY DEF Init
  <2>3. /\ handed = 0 /\ chunk_size = -1 /\ received \in {-1, 0}
        /\ want = 0 /\ closed \in BOOLEAN /\ wpc = "idle" /\ rpc = "ask"
    BY DEF Init
  <2>4. /\ handed \in 0 .. total /\ chunk_size \in -2 .. total /\ received \in -1 .. total
        /\ want \in Nat
    BY <1>1, <2>3
  <2>. QED
    BY <1>1, <2>1, <2>2, <2>3, <2>4 DEF Shapes
<1>3. WriterInv
  <2>1. \A i \in 1 .. Len(script) : 0 <= script[i] /\ script[i] <= total
    BY <1>1
  <2>2. mode = "chunked" =>
          \A i \in 1 .. Len(script) : (IF i = 1 THEN handed ELSE script[i - 1]) < script[i]
    BY DEF Init, NoEmptyWrite
  <2>3. script = << >> => handed = total
    BY <1>1 DEF Init
  <2>. QED
    BY <1>1, <2>1, <2>2, <2>3 DEF Init, WriterInv
<1>4. FileInv /\ ChunkInv
  BY DEF Init, FileInv, ChunkInv
<1>5. ReaderInv
  BY DEF Init, ReaderInv
<1>6. WireInv
  <2> DEFINE p == IF mode = "chunked" THEN Place("line", 0, 0) ELSE Place("chunk", 0, total)
             f == [i \in 0 .. 0 |-> p]
  <2>1. p \in Places /\ p.off = 0
    BY <1>1 DEF Place, Places
  <2>2. ReaderAt(p) /\ WriterAt(p)
    <3>1. CASE mode = "chunked"
      BY <3>1 DEF Init, ReaderAt, WriterAt, Place
    <3>2. CASE mode # "chunked"
      BY <1>1, <3>2 DEF Init, ReaderAt, WriterAt, Place
    <3>. QED
      BY <3>1, <3>2
  <2>. HIDE DEF p
  <2>3. wire = << >> /\ Len(wire) = 0 /\ handed = 0
    BY DEF Init
  <2>4. f \in [0 .. 0 -> Places] /\ f[0] = p /\ \A i \in 0 .. 0 : i = 0
    BY <2>1
  <2>. HIDE DEF f
  <2>5. p.kind = "chunk" => p = Place("chunk", p.off + (0 - 0), p.left - (0 - 0))
    BY <2>1 DEF Place, Places
  <2>6. Layout(mode, total, wire, f)
    BY <2>3, <2>4, <2>5 DEF Layout
  <2>7. Spells(wire, handed, f)
    BY <2>1, <2>3, <2>4, <2>6 DEF Spells
  <2>. QED
    BY <2>2, <2>3, <2>4, <2>7 DEF WireInv
<1>. QED
  BY <1>2, <1>3, <1>4, <1>5, <1>6 DEF Inv

(* A step that leaves the wire alone.                                      *)
LEMMA WireSame ==
  ASSUME WireInv, UNCHANGED <<mode, total, wire, handed>>,
         \A p : ReaderAt(p) => ReaderAt(p)',
         \A p : WriterAt(p) => WriterAt(p)'
  PROVE  WireInv'
<1>1. PICK f : Spells(wire, handed, f) /\ ReaderAt(f[0]) /\ WriterAt(f[Len(wire)])
  BY DEF WireInv
<1>2. Spells(wire, handed, f)'
  BY <1>1 DEF Spells
<1>3. ReaderAt(f[0])' /\ WriterAt(f[Len(wire)])'
  BY <1>1
<1>. QED
  BY <1>2, <1>3 DEF WireInv

(* The tokens of w lead from the reader to the place q.                    *)
SpelledTo(w, q) == \E f : Spells(w, handed, f) /\ ReaderAt(f[0]) /\ f[Len(w)] = q

LEMMA WirePlace ==
  ASSUME Shapes, WireInv
  PROVE  \E p \in Places : WriterAt(p) /\ SpelledTo(wire, p)
<1>1. PICK f : Spells(wire, handed, f) /\ ReaderAt(f[0]) /\ WriterAt(f[Len(wire)])
  BY DEF WireInv
<1>2. Len(wire) \in 0 .. Len(wire) /\ f \in [0 .. Len(wire) -> Places]
  BY <1>1 DEF Shapes, Spells, Layout
<1>. QED
  BY <1>1, <1>2 DEF SpelledTo

LEMMA OneMoreToken ==
  ASSUME Shapes, NEW w \in Seq(Tokens), NEW token \in Tokens, NEW p, NEW q \in Places,
         SpelledTo(w, p), Fits(mode, total, token, p, q), q.off <= handed
  PROVE  SpelledTo(Append(w, token), q) /\ Append(w, token) \in Seq(Tokens)
<1>1. PICK f : Spells(w, handed, f) /\ ReaderAt(f[0]) /\ f[Len(w)] = p
  BY DEF SpelledTo
<1> DEFINE L == Len(w)
           x == Append(w, token)
<1>2. /\ L \in Nat /\ Len(x) = L + 1 /\ x \in Seq(Tokens) /\ total \in Nat
      /\ \E S : w \in Seq(S)
  BY DEF Shapes
<1>. HIDE DEF x, L
<1>3. Layout(mode, total, w, f) /\ Fits(mode, total, token, f[L], q)
  BY <1>1 DEF Spells, L
<1>4. PICK g : Layout(mode, total, x, g) /\ (\A i \in 0 .. L : g[i] = f[i]) /\ g[L + 1] = q
  <2>1. OneAppended(mode, total, w, f, token, q)
    BY <1>2, <1>3, AppendOne DEF L
  <2>. QED
    BY <2>1 DEF x, L, OneAppended
<1>5. ASSUME NEW i \in 0 .. L + 1 PROVE g[i].off <= handed
  <2>1. CASE i \in 0 .. L
    BY <1>1, <1>4, <2>1 DEF Spells, L
  <2>2. CASE i = L + 1
    BY <1>4, <2>2
  <2>. QED
    BY <1>2, <2>1, <2>2
<1>6. Spells(x, handed, g)
  BY <1>2, <1>4, <1>5 DEF Spells
<1>7. 0 \in 0 .. L /\ g[0] = f[0]
  BY <1>2, <1>4
<1>. QED
  BY <1>1, <1>2, <1>4, <1>6, <1>7 DEF SpelledTo, x

LEMMA WireSpelled ==
  ASSUME UNCHANGED <<mode, total, handed>>, NEW q, SpelledTo(wire', q),
         \A p : ReaderAt(p) => ReaderAt(p)', WriterAt(q)'
  PROVE  WireInv'
<1>1. PICK f : Spells(wire', handed, f) /\ ReaderAt(f[0]) /\ f[Len(wire')] = q
  BY DEF SpelledTo
<1>2. Spells(wire, handed, f)'
  BY <1>1 DEF Spells
<1>. QED
  BY <1>1, <1>2 DEF WireInv

-----------------------------------------------------------------------------
(* The reader's side of the invariant, when the writer goes on.            *)
LEMMA ReaderStays ==
  ASSUME ChunkInv, ReaderInv, UNCHANGED <<message, reader>>, handed <= handed',
         link' = "missing" <=> link = "missing", Shapes, handed' \in Nat
  PROVE  ChunkInv' /\ ReaderInv' /\ \A p : ReaderAt(p) => ReaderAt(p)'
<1>1. UNCHANGED <<mode, total, rpc, want, chunk_size, received, closed, got>>
  BY DEF message, reader
<1>2. ChunkInv'
  BY <1>1 DEF ChunkInv
<1>3. Len(got) <= handed' /\ Len(got') = Len(got)
  <2>1. got \in Seq(Nat) /\ handed \in 0 .. total /\ total \in Nat
    BY DEF Shapes
  <2>2. Len(got) <= handed
    BY DEF ReaderInv
  <2>. QED
    BY <1>1, <2>1, <2>2
<1>4. ReaderInv'
  BY <1>1, <1>3 DEF ReaderInv
<1>. QED
  BY <1>1, <1>2, <1>4 DEF ReaderAt

LEMMA SendChunkSizeStep == ASSUME Inv, SendChunkSize PROVE Inv'
<1>1. /\ link = "up" /\ wpc = "idle" /\ script # << >> /\ mode = "chunked"
      /\ wire' = Append(wire, Line(Size)) /\ wpc' = "body"
      /\ UNCHANGED <<message, script, handed, link, reader>>
      /\ UNCHANGED <<mode, total, ssl, rpc, want, chunk_size, received, closed, got>>
  BY DEF SendChunkSize, message, reader
<1>2. /\ Size \in Nat /\ Size > 0 /\ handed + Size <= total /\ handed \in Nat /\ total \in Nat
      /\ Head(script) = script[1] /\ 1 \in 1 .. Len(script)
  <2>1. script \in Seq(Nat) /\ handed \in Nat /\ total \in Nat
    BY DEF Inv, Shapes
  <2>2. 1 \in 1 .. Len(script) /\ Head(script) = script[1] /\ script[1] \in Nat
    BY <1>1, <2>1
  <2>3. handed < script[1] /\ script[1] <= total
    BY <1>1, <2>2 DEF Inv, WriterInv
  <2>. QED
    BY <2>1, <2>2, <2>3 DEF Size
<1>3. Shapes'
  <2>1. Line(Size) \in Tokens /\ Tokens' = Tokens
    BY <1>1, <1>2 DEF Line, Token, Tokens
  <2>2. wire' \in Seq(Tokens)
    BY <1>1, <2>1 DEF Inv, Shapes
  <2>. QED
    BY <1>1, <2>1, <2>2 DEF Inv, Shapes
<1>4. WriterInv'
  BY <1>1 DEF Inv, WriterInv
<1>5. FileInv'
  BY <1>1 DEF Inv, FileInv
<1>6. ChunkInv' /\ ReaderInv' /\ \A p : ReaderAt(p) => ReaderAt(p)'
  BY <1>1, <1>2, ReaderStays DEF Inv
<1>7. WireInv'
  <2>1. PICK q \in Places : q = Place("chunk", handed, Size)
    BY <1>2 DEF Place, Places
  <2>2. WriterAt(q)'
    BY <1>1, <2>1 DEF WriterAt, Size, Place
  <2>3. ASSUME NEW p \in Places, WriterAt(p) PROVE Fits(mode, total, Line(Size), p, q)
    <3>1. p.kind = "line" /\ p.off = handed
      BY <1>1, <2>3 DEF WriterAt
    <3>2. q.left = Size
      BY <2>1 DEF Place
    <3>. QED
      BY <1>2, <2>1, <3>1, <3>2 DEF Fits
  <2>4. PICK p \in Places : WriterAt(p) /\ SpelledTo(wire, p)
    BY WirePlace DEF Inv
  <2>5. SpelledTo(Append(wire, Line(Size)), q)
    <3>1. q.off <= handed /\ wire \in Seq(Tokens) /\ Line(Size) \in Tokens
      BY <1>2, <2>1 DEF Place, Line, Token, Tokens, Inv, Shapes
    <3>. QED
      BY <2>3, <2>4, <3>1, OneMoreToken DEF Inv
  <2>. QED
    BY <1>1, <1>6, <2>2, <2>5, WireSpelled
<1>. QED
  BY <1>3, <1>4, <1>5, <1>6, <1>7 DEF Inv

(* The bytes of a write or of what a failing send got rid of.              *)
LEMMA WireGetsBytes ==
  ASSUME Shapes, WireInv, UNCHANGED <<mode, total>>, NEW n \in Nat, NEW w, w = wire \o Body(n),
         \A p \in Places : WriterAt(p) => p.kind = "chunk" /\ p.off = handed /\ n <= p.left,
         \A p : ReaderAt(p) => ReaderAt(p)'
  PROVE  /\ w \in Seq(Tokens \cup {Token("data", handed + i) : i \in 1 .. n})
         /\ Len(w) = Len(wire) + n
         /\ \E g, p : /\ p \in Places /\ WriterAt(p)
                      /\ Spells(w, handed + n, g) /\ ReaderAt(g[0])'
                      /\ g[Len(w)] = Place("chunk", handed + n, p.left - n)
<1>1. PICK f : Spells(wire, handed, f) /\ ReaderAt(f[0]) /\ WriterAt(f[Len(wire)])
  BY DEF WireInv
<1>2. /\ wire \in Seq(Tokens) /\ total \in Nat /\ handed \in Nat /\ Len(wire) \in Nat
      /\ Layout(mode, total, wire, f) /\ f \in [0 .. Len(wire) -> Places]
      /\ \E S : wire \in Seq(S)
  BY <1>1 DEF Shapes, Spells, Layout
<1>3. PICK p \in Places : p = f[Len(wire)] /\ WriterAt(p)
  BY <1>1, <1>2
<1>4. PICK l \in Nat : l = p.left /\ n <= l /\ f[Len(wire)] = Place("chunk", handed, l)
  <2>1. p.left \in Nat /\ p.kind = "chunk" /\ p.off = handed /\ n <= p.left
    BY <1>3 DEF Places
  <2>2. p = Place("chunk", handed, p.left)
    BY <1>3, <2>1 DEF Place, Places
  <2>. QED
    BY <1>3, <2>1, <2>2
<1>5. PICK g : /\ Layout(mode, total, wire \o Bytes(handed, n), g)
               /\ \A i \in 0 .. Len(wire) : g[i] = f[i]
               /\ g[Len(wire) + n] = Place("chunk", handed + n, l - n)
               /\ \A i \in 0 .. n : g[Len(wire) + i].off = handed + i
  <2>1. MayAppend(mode, total, wire, f, handed, l, n)
    BY <1>2, <1>4 DEF MayAppend
  <2>2. Appended(mode, total, wire, f, handed, l, n)
    BY <2>1, AppendBytes
  <2>. QED
    BY <2>2 DEF Appended
<1>6. w = wire \o Bytes(handed, n)
  BY DEF Body, Bytes
<1>7. /\ w \in Seq(Tokens \cup {Token("data", handed + i) : i \in 1 .. n})
      /\ Len(w) = Len(wire) + n
  <2> DEFINE T == Tokens \cup {Token("data", handed + i) : i \in 1 .. n}
             B == Bytes(handed, n)
  <2>1. B \in [1 .. n -> T] /\ wire \in Seq(T)
    BY <1>2 DEF Bytes
  <2>2. w = wire \o B
    BY <1>6
  <2>. HIDE DEF T, B
  <2>3. B \in Seq(T) /\ Len(B) = n
    BY <2>1
  <2>4. w \in Seq(T) /\ Len(w) = Len(wire) + n
    BY <2>1, <2>2, <2>3
  <2>. QED
    BY <2>4 DEF T
<1>8. ASSUME NEW i \in 0 .. Len(w) PROVE g[i].off <= handed + n
  <2>1. CASE i \in 0 .. Len(wire)
    <3>1. g[i] = f[i] /\ f[i].off <= handed /\ f[i].off \in Nat
      BY <1>1, <1>2, <1>5, <2>1 DEF Spells, Places
    <3>. QED
      BY <1>2, <3>1
  <2>2. CASE i > Len(wire)
    <3>1. i - Len(wire) \in 0 .. n /\ i = Len(wire) + (i - Len(wire))
      BY <1>2, <1>7, <2>2
    <3>2. g[i].off = handed + (i - Len(wire))
      BY <1>5, <3>1
    <3>. QED
      BY <1>2, <3>1, <3>2
  <2>. QED
    BY <1>2, <1>7, <2>1, <2>2
<1>9. Spells(w, handed + n, g)
  BY <1>5, <1>6, <1>8 DEF Spells
<1>10. 0 \in 0 .. Len(wire) /\ g[0] = f[0]
  BY <1>2, <1>5
<1>11. ReaderAt(g[0])'
  BY <1>1, <1>10
<1>. QED
  BY <1>3, <1>4, <1>5, <1>7, <1>9, <1>11

LEMMA BytesSent ==
  ASSUME Shapes, WireInv, UNCHANGED <<mode, total>>, NEW n \in Nat, handed + n <= total,
         wire' = wire \o Body(n), handed' = handed + n,
         \A p \in Places : WriterAt(p) => p.kind = "chunk" /\ p.off = handed /\ n <= p.left,
         \A p : ReaderAt(p) => ReaderAt(p)',
         \A p, q \in Places :
           WriterAt(p) /\ q = Place("chunk", handed + n, p.left - n) => WriterAt(q)'
  PROVE  WireInv' /\ wire' \in Seq(Tokens) /\ handed' \in 0 .. total
<1>1. total \in Nat /\ handed \in Nat
  BY DEF Shapes
<1>2. PICK w : w = wire'
  OBVIOUS
<1>3. /\ w \in Seq(Tokens \cup {Token("data", handed + i) : i \in 1 .. n})
      /\ Len(w) = Len(wire) + n
      /\ \E g, p : /\ p \in Places /\ WriterAt(p)
                   /\ Spells(w, handed + n, g) /\ ReaderAt(g[0])'
                   /\ g[Len(w)] = Place("chunk", handed + n, p.left - n)
  BY <1>2, WireGetsBytes
<1>4. Tokens \cup {Token("data", handed + i) : i \in 1 .. n} = Tokens
  <2>. SUFFICES ASSUME NEW i \in 1 .. n PROVE Token("data", handed + i) \in Tokens
    OBVIOUS
  <2>1. handed + i \in -2 .. total
    BY <1>1
  <2>. QED
    BY <2>1 DEF Token, Tokens
<1>5. wire' \in Seq(Tokens)
  BY <1>2, <1>3, <1>4
<1>6. PICK g, p : /\ p \in Places /\ WriterAt(p)
                  /\ Spells(w, handed + n, g) /\ ReaderAt(g[0])'
                  /\ g[Len(w)] = Place("chunk", handed + n, p.left - n)
  BY <1>3
<1>7. Spells(wire, handed, g)'
  BY <1>2, <1>6 DEF Spells
<1>8. PICK q \in Places : q = Place("chunk", handed + n, p.left - n)
  <2>1. handed + n \in Nat /\ p.left - n \in Nat
    BY <1>1, <1>6 DEF Places
  <2>. QED
    BY <2>1 DEF Place, Places
<1>9. WriterAt(g[Len(wire)])'
  <2>1. WriterAt(q)'
    BY <1>6, <1>8
  <2>2. g[Len(wire')] = q
    BY <1>2, <1>6, <1>8
  <2>. QED
    BY <2>1, <2>2
<1>10. WireInv'
  BY <1>6, <1>7, <1>9 DEF WireInv
<1>. QED
  BY <1>1, <1>5, <1>10

LEMMA SendBodyStep == ASSUME Inv, SendBody PROVE Inv'
<1>1. /\ link = "up" /\ BodyNext
      /\ wire' = wire \o Body(Size) /\ handed' = Head(script) /\ script' = Tail(script)
      /\ wpc' = IF mode = "chunked" THEN "crlf" ELSE "idle"
      /\ UNCHANGED <<message, link, reader>>
      /\ UNCHANGED <<mode, total, ssl, rpc, want, chunk_size, received, closed, got>>
  BY DEF SendBody, message, reader
<1>2. /\ wpc \in {"idle", "body"} /\ script # << >> /\ mode # "file"
      /\ wpc = "body" <=> mode = "chunked"
  BY <1>1 DEF BodyNext, Inv, WriterInv, FileInv
<1>3. /\ script \in Seq(Nat) /\ handed \in Nat /\ total \in Nat /\ Len(script) \in Nat
      /\ 1 \in 1 .. Len(script) /\ Head(script) = script[1] /\ script[1] \in Nat
      /\ Tail(script) \in Seq(Nat) /\ Len(Tail(script)) = Len(script) - 1
      /\ \A i \in 1 .. Len(script) - 1 : Tail(script)[i] = script[i + 1]
  <2>1. script \in Seq(Nat) /\ handed \in Nat /\ total \in Nat
    BY DEF Inv, Shapes
  <2>. QED
    BY <1>2, <2>1
<1>4. /\ \A i, j \in 1 .. Len(script) : i <= j => script[i] <= script[j]
      /\ \A i \in 1 .. Len(script) : handed <= script[i] /\ script[i] <= total
      /\ mode = "chunked" =>
           \A i \in 1 .. Len(script) : (IF i = 1 THEN handed ELSE script[i - 1]) < script[i]
      /\ script[Len(script)] = total
  BY <1>2 DEF Inv, WriterInv
<1>5. Size \in Nat /\ handed + Size = script[1] /\ script[1] <= total /\ handed' = handed + Size
  BY <1>1, <1>3, <1>4 DEF Size
<1>6. WriterInv'
  <2>1. Len(script') = Len(script) - 1 /\ \A i \in 1 .. Len(script') : script'[i] = script[i + 1]
    BY <1>1, <1>3
  <2>2. \A i \in 1 .. Len(script') : i + 1 \in 1 .. Len(script) /\ 1 <= i + 1
    BY <1>3, <2>1
  <2>3. \A i, j \in 1 .. Len(script') : i <= j => script'[i] <= script'[j]
    BY <1>4, <2>1, <2>2
  <2>4. \A i \in 1 .. Len(script') : handed' <= script'[i] /\ script'[i] <= total'
    BY <1>1, <1>3, <1>4, <2>1, <2>2
  <2>5. ASSUME mode' = "chunked", NEW i \in 1 .. Len(script')
        PROVE  (IF i = 1 THEN handed' ELSE script'[i - 1]) < script'[i]
    <3>1. (IF i + 1 = 1 THEN handed ELSE script[(i + 1) - 1]) < script[i + 1]
      BY <1>1, <1>4, <2>2, <2>5
    <3>2. script[i] < script'[i]
      BY <2>1, <3>1
    <3>3. CASE i = 1
      BY <1>1, <1>3, <3>2, <3>3
    <3>4. CASE i # 1
      <4>1. i - 1 \in 1 .. Len(script') /\ (i - 1) + 1 = i
        BY <1>3, <2>1, <3>4
      <4>. QED
        BY <2>1, <3>2, <3>4, <4>1
    <3>. QED
      BY <3>3, <3>4
  <2>6. CASE script' = << >>
    <3>1. Len(script) = 1
      <4>1. Len(script') = 0
        BY <2>6
      <4>2. Len(script) \in Nat /\ Len(script') = Len(script) - 1
        BY <1>3, <2>1
      <4>. QED
        BY <4>1, <4>2
    <3>2. handed' = total'
      BY <1>1, <1>3, <1>4, <3>1
    <3>. QED
      BY <1>1, <1>2, <2>3, <2>4, <2>5, <2>6, <3>2 DEF WriterInv
  <2>7. CASE script' # << >>
    <3>1. Len(script') \in 1 .. Len(script') /\ Len(script') + 1 = Len(script)
      BY <1>1, <1>3, <2>1, <2>7
    <3>2. script'[Len(script')] = total'
      BY <1>1, <1>4, <2>1, <3>1
    <3>. QED
      BY <1>1, <1>2, <2>3, <2>4, <2>5, <2>7, <3>2 DEF WriterInv
  <2>. QED
    BY <2>6, <2>7
<1>7. FileInv'
  BY <1>1, <1>2 DEF Inv, FileInv
<1>8. ChunkInv' /\ ReaderInv' /\ \A p : ReaderAt(p) => ReaderAt(p)'
  <2>1. handed <= handed' /\ handed' \in Nat
    BY <1>3, <1>5
  <2>. QED
    BY <1>1, <2>1, ReaderStays DEF Inv
<1>9. ASSUME NEW p \in Places, WriterAt(p)
      PROVE  /\ p.kind = "chunk" /\ p.off = handed /\ Size <= p.left
             /\ p.left - Size = IF mode = "chunked" THEN 0 ELSE total - handed'
  <2>1. CASE mode = "chunked"
    <3>1. p = Place("chunk", handed, Size)
      BY <1>1, <1>2, <1>9, <2>1 DEF WriterAt
    <3>. QED
      BY <1>5, <2>1, <3>1 DEF Place
  <2>2. CASE mode # "chunked"
    <3>1. p = Place("chunk", handed, total - handed)
      BY <1>1, <1>2, <1>9, <2>2 DEF WriterAt
    <3>2. p.kind = "chunk" /\ p.off = handed /\ p.left = total - handed
      BY <3>1 DEF Place
    <3>3. Size <= total - handed /\ (total - handed) - Size = total - handed'
      BY <1>3, <1>5
    <3>. QED
      BY <2>2, <3>2, <3>3
  <2>. QED
    BY <2>1, <2>2
<1>10. WireInv' /\ wire' \in Seq(Tokens) /\ handed' \in 0 .. total
  <2>1. PICK n \in Nat : n = Size
    BY <1>5
  <2>2. \A p \in Places : WriterAt(p) => p.kind = "chunk" /\ p.off = handed /\ n <= p.left
    BY <1>9, <2>1
  <2>3. handed + n <= total /\ wire' = wire \o Body(n) /\ handed' = handed + n
    BY <1>1, <1>5, <2>1
  <2>4. ASSUME NEW p \in Places, NEW q \in Places, WriterAt(p), q = Place("chunk", handed + n, p.left - n)
        PROVE  WriterAt(q)'
    <3>1. q.off = handed' /\ p.left - n = IF mode = "chunked" THEN 0 ELSE total - handed'
      BY <1>9, <2>1, <2>3, <2>4 DEF Place
    <3>2. CASE mode = "chunked"
      <4>1. q = Place("chunk", handed', 0)
        BY <2>3, <2>4, <3>1, <3>2
      <4>. QED
        BY <1>1, <3>1, <3>2, <4>1 DEF WriterAt
    <3>3. CASE mode # "chunked"
      <4>1. q = Place("chunk", handed', total' - handed')
        BY <1>1, <2>3, <2>4, <3>1, <3>3
      <4>. QED
        BY <1>1, <3>1, <3>3, <4>1 DEF WriterAt
    <3>. QED
      BY <3>2, <3>3
  <2>. QED
    BY <1>1, <1>8, <2>2, <2>3, <2>4, BytesSent DEF Inv
<1>11. Shapes'
  <2>1. Tokens' = Tokens
    BY <1>1 DEF Tokens
  <2>. QED
    BY <1>1, <1>3, <1>10, <2>1 DEF Inv, Shapes
<1>. QED
  BY <1>6, <1>7, <1>8, <1>10, <1>11 DEF Inv

(* A single token of a writer that has nothing to keep but its place.      *)
LEMMA WriterKeeps ==
  ASSUME Inv, UNCHANGED <<mode, total, ssl, script, handed, link, rpc, want, chunk_size, received, closed, got>>,
         wpc' \in {"idle", "body", "crlf", "done", "next", "failed"}, link \in {"up", "eof"},
         wpc' # "failed" => /\ wpc # "failed"
                            /\ wpc' \in {"done", "next"} => script = << >>
                            /\ wpc' \in {"body", "crlf"} => mode = "chunked"
                            /\ wpc' = "body" => script # << >>
                            /\ wpc' = "next" => mode \in {"length", "chunked"}
  PROVE  /\ wire' \in Seq(Tokens) => Shapes'
         /\ WriterInv' /\ FileInv' /\ ChunkInv' /\ ReaderInv'
         /\ \A p : ReaderAt(p) => ReaderAt(p)'
<1>1. ASSUME wire' \in Seq(Tokens) PROVE Shapes'
  <2>1. Tokens' = Tokens
    BY DEF Tokens
  <2>. QED
    BY <1>1, <2>1 DEF Inv, Shapes
<1>2. WriterInv'
  BY DEF Inv, WriterInv
<1>3. FileInv'
  BY DEF Inv, FileInv
<1>4. ChunkInv' /\ ReaderInv' /\ \A p : ReaderAt(p) => ReaderAt(p)'
  <2>1. handed \in Nat /\ UNCHANGED <<message, reader>>
    BY DEF Inv, Shapes, message, reader
  <2>. QED
    BY <2>1, ReaderStays DEF Inv
<1>. QED
  BY <1>1, <1>2, <1>3, <1>4

LEMMA SendChunkEndStep == ASSUME Inv, SendChunkEnd PROVE Inv'
<1>1. /\ link = "up" /\ wpc = "crlf" /\ wpc' = "idle" /\ wire' = Append(wire, Crlf) /\ mode = "chunked"
      /\ UNCHANGED <<mode, total, ssl, script, handed, link, rpc, want, chunk_size, received, closed, got>>
  BY DEF SendChunkEnd, message, reader, Inv, WriterInv
<1>2. /\ wire' \in Seq(Tokens) => Shapes'
      /\ WriterInv' /\ FileInv' /\ ChunkInv' /\ ReaderInv' /\ \A p : ReaderAt(p) => ReaderAt(p)'
  BY <1>1, WriterKeeps
<1>3. PICK p \in Places : WriterAt(p) /\ SpelledTo(wire, p)
  BY WirePlace DEF Inv
<1>4. handed \in Nat /\ total \in Nat /\ wire \in Seq(Tokens) /\ Crlf \in Tokens
  BY DEF Inv, Shapes, Crlf, Token, Tokens
<1>5. PICK q \in Places : q = Place("line", handed, 0)
  BY <1>4 DEF Place, Places
<1>6. q.kind = "line" /\ q.off = handed /\ q.off <= handed
  BY <1>4, <1>5 DEF Place
<1>7. Fits(mode, total, Crlf, p, q)
  <2>1. p = Place("chunk", handed, 0)
    BY <1>1, <1>3 DEF WriterAt
  <2>. QED
    BY <1>1, <1>5, <2>1 DEF Fits, Place
<1>8. SpelledTo(wire', q) /\ wire' \in Seq(Tokens)
  BY <1>1, <1>3, <1>4, <1>6, <1>7, OneMoreToken DEF Inv
<1>9. WriterAt(q)'
  BY <1>1, <1>6 DEF WriterAt
<1>. QED
  BY <1>1, <1>2, <1>8, <1>9, WireSpelled DEF Inv

LEMMA FlushStep == ASSUME Inv, Flush PROVE Inv'
<1>1. /\ link = "up" /\ wpc = "idle" /\ script = << >> /\ wpc' = "done" /\ handed = total
      /\ wire' = IF mode = "chunked" THEN wire \o <<Line(0), Crlf>> ELSE wire
      /\ UNCHANGED <<mode, total, ssl, script, handed, link, rpc, want, chunk_size, received, closed, got>>
  BY DEF Flush, message, reader, Inv, WriterInv
<1>2. /\ wire' \in Seq(Tokens) => Shapes'
      /\ WriterInv' /\ FileInv' /\ ChunkInv' /\ ReaderInv' /\ \A p : ReaderAt(p) => ReaderAt(p)'
  BY <1>1, WriterKeeps
<1>3. PICK p \in Places : WriterAt(p) /\ SpelledTo(wire, p)
  BY WirePlace DEF Inv
<1>4. handed \in Nat /\ total \in Nat /\ wire \in Seq(Tokens) /\ Crlf \in Tokens /\ Line(0) \in Tokens
  BY DEF Inv, Shapes, Line, Crlf, Token, Tokens
<1>5. CASE mode = "chunked"
  <2>1. PICK q \in Places : q = Place("last", handed, 0)
    BY <1>4 DEF Place, Places
  <2>2. PICK r \in Places : r = Place("next", handed, 0)
    BY <1>4 DEF Place, Places
  <2>3. Fits(mode, total, Line(0), p, q)
    <3>1. p.kind = "line" /\ p.off = handed
      BY <1>1, <1>3, <1>5 DEF WriterAt
    <3>. QED
      BY <1>1, <2>1, <3>1 DEF Fits
  <2>4. Fits(mode, total, Crlf, q, r)
    BY <2>1, <2>2 DEF Fits, Place
  <2>5. q.off <= handed /\ r.off <= handed /\ r.kind = "next" /\ r.off = handed
    BY <1>4, <2>1, <2>2 DEF Place
  <2>6. PICK w : w = Append(wire, Line(0)) /\ SpelledTo(w, q) /\ w \in Seq(Tokens)
    BY <1>3, <1>4, <2>3, <2>5, OneMoreToken DEF Inv
  <2>7. SpelledTo(Append(w, Crlf), r) /\ Append(w, Crlf) \in Seq(Tokens)
    BY <1>4, <2>4, <2>5, <2>6, OneMoreToken DEF Inv
  <2>8. wire' = Append(w, Crlf)
    BY <1>1, <1>4, <1>5, <2>6
  <2>9. WriterAt(r)'
    BY <1>1, <1>5, <2>5 DEF WriterAt
  <2>. QED
    BY <1>1, <1>2, <2>7, <2>8, <2>9, WireSpelled DEF Inv
<1>6. CASE mode # "chunked"
  <2>1. WriterAt(p)'
    BY <1>1, <1>3, <1>6 DEF WriterAt
  <2>. QED
    BY <1>1, <1>2, <1>3, <1>4, <1>6, <2>1, WireSpelled DEF Inv
<1>. QED
  BY <1>5, <1>6

LEMMA NextMessageStep == ASSUME Inv, NextMessage PROVE Inv'
<1>1. /\ link = "up" /\ wpc = "done" /\ wpc' = "next" /\ wire' = Append(wire, NextStart)
      /\ script = << >> /\ handed = total /\ mode \in {"length", "chunked"}
      /\ UNCHANGED <<mode, total, ssl, script, handed, link, rpc, want, chunk_size, received, closed, got>>
  BY DEF NextMessage, message, reader, Inv, Shapes, WriterInv, FileInv
<1>2. /\ wire' \in Seq(Tokens) => Shapes'
      /\ WriterInv' /\ FileInv' /\ ChunkInv' /\ ReaderInv' /\ \A p : ReaderAt(p) => ReaderAt(p)'
  BY <1>1, WriterKeeps
<1>3. PICK p \in Places : WriterAt(p) /\ SpelledTo(wire, p)
  BY WirePlace DEF Inv
<1>4. handed \in Nat /\ total \in Nat /\ wire \in Seq(Tokens) /\ NextStart \in Tokens
  BY DEF Inv, Shapes, NextStart, Token, Tokens
<1>5. PICK q \in Places : q = Place("over", handed, 0)
  BY <1>4 DEF Place, Places
<1>6. q.kind = "over" /\ q.off = handed /\ q.off <= handed
  BY <1>4, <1>5 DEF Place
<1>7. Fits(mode, total, NextStart, p, q)
  <2>1. CASE mode = "chunked"
    <3>1. p.kind = "next" /\ p.off = handed
      BY <1>1, <1>3, <2>1 DEF WriterAt
    <3>. QED
      BY <1>5, <3>1 DEF Fits
  <2>2. CASE mode # "chunked"
    <3>1. p = Place("chunk", handed, total - handed)
      BY <1>1, <1>3, <2>2 DEF WriterAt
    <3>2. total - handed = 0
      BY <1>1, <1>4
    <3>. QED
      BY <1>1, <1>5, <2>2, <3>1, <3>2 DEF Fits, Place
  <2>. QED
    BY <2>1, <2>2
<1>8. SpelledTo(wire', q) /\ wire' \in Seq(Tokens)
  BY <1>1, <1>3, <1>4, <1>6, <1>7, OneMoreToken DEF Inv
<1>9. WriterAt(q)'
  BY <1>1, <1>6 DEF WriterAt
<1>. QED
  BY <1>1, <1>2, <1>8, <1>9, WireSpelled DEF Inv

LEMMA GarbleStep == ASSUME Inv, Garble PROVE Inv'
<1>1. /\ link = "up" /\ wpc \in {"idle", "crlf"} /\ wpc' = "failed" /\ mode = "chunked"
      /\ UNCHANGED <<mode, total, ssl, script, handed, link, rpc, want, chunk_size, received, closed, got>>
  BY DEF Garble, message, reader
<1>2. /\ wire' \in Seq(Tokens) => Shapes'
      /\ WriterInv' /\ FileInv' /\ ChunkInv' /\ ReaderInv' /\ \A p : ReaderAt(p) => ReaderAt(p)'
  BY <1>1, WriterKeeps
<1>3. PICK p \in Places : WriterAt(p) /\ SpelledTo(wire, p)
  BY WirePlace DEF Inv
<1>4. /\ handed \in Nat /\ total \in Nat /\ wire \in Seq(Tokens)
      /\ Overlong \in Tokens /\ Line(-1) \in Tokens /\ Line(-2) \in Tokens
  BY DEF Inv, Shapes, Overlong, Line, Token, Tokens
<1>5. PICK q \in Places : q = Place("garbled", handed, 0)
  BY <1>4 DEF Place, Places
<1>6. q.off <= handed
  BY <1>4, <1>5 DEF Place
<1>7. p.off = handed /\ (p.kind = "line" \/ (p.kind = "chunk" /\ p.left = 0 /\ wpc = "crlf"))
  <2>1. link # "missing" /\ wpc # "failed"
    BY <1>1
  <2>2. CASE wpc = "idle"
    BY <1>1, <1>3, <2>1, <2>2 DEF WriterAt
  <2>3. CASE wpc = "crlf"
    <3>1. p = Place("chunk", handed, 0)
      BY <1>1, <1>3, <2>1, <2>3 DEF WriterAt
    <3>. QED
      BY <2>3, <3>1 DEF Place
  <2>. QED
    BY <1>1, <2>2, <2>3
<1>8. PICK token \in Tokens : wire' = Append(wire, token) /\ Fits(mode, total, token, p, q)
  <2>1. CASE wire' = Append(wire, Overlong)
    BY <1>1, <1>4, <1>5, <1>7, <2>1 DEF Fits
  <2>2. CASE wpc = "idle" /\ wire' = Append(wire, Line(-1))
    BY <1>1, <1>4, <1>5, <1>7, <2>2 DEF Fits
  <2>3. CASE wpc = "idle" /\ wire' = Append(wire, Line(-2))
    BY <1>1, <1>4, <1>5, <1>7, <2>3 DEF Fits
  <2>. QED
    BY <2>1, <2>2, <2>3 DEF Garble
<1>9. SpelledTo(wire', q) /\ wire' \in Seq(Tokens)
  BY <1>3, <1>4, <1>6, <1>8, OneMoreToken DEF Inv
<1>10. WriterAt(q)'
  BY <1>1 DEF WriterAt
<1>. QED
  BY <1>1, <1>2, <1>9, <1>10, WireSpelled DEF Inv

LEMMA CloseStep == ASSUME Inv, Close PROVE Inv'
<1>1. /\ link = "up" /\ wpc = "done" /\ link' = "eof"
      /\ UNCHANGED <<message, writer, wire, reader>>
      /\ UNCHANGED <<mode, total, ssl, script, handed, wpc, wire, rpc, want, chunk_size, received, closed, got>>
  BY DEF Close, message, writer, reader
<1>2. Shapes'
  <2>1. Tokens' = Tokens
    BY <1>1 DEF Tokens
  <2>. QED
    BY <1>1, <2>1 DEF Inv, Shapes
<1>3. WriterInv' /\ FileInv'
  BY <1>1 DEF Inv, WriterInv, FileInv
<1>4. ChunkInv' /\ ReaderInv' /\ \A p : ReaderAt(p) => ReaderAt(p)'
  <2>1. handed \in Nat
    BY DEF Inv, Shapes
  <2>. QED
    BY <1>1, <2>1, ReaderStays DEF Inv
<1>5. \A p : WriterAt(p) => WriterAt(p)'
  BY <1>1 DEF WriterAt, Size
<1>. QED
  BY <1>1, <1>2, <1>3, <1>4, <1>5, WireSame DEF Inv

LEMMA DiskFailsStep == ASSUME Inv, DiskFails PROVE Inv'
<1>1. /\ link = "disk" /\ link' = "bad"
      /\ UNCHANGED <<message, writer, wire, reader>>
      /\ UNCHANGED <<mode, total, ssl, script, handed, wpc, wire, rpc, want, chunk_size, received, closed, got>>
  BY DEF DiskFails, message, writer, reader
<1>2. Shapes'
  <2>1. Tokens' = Tokens
    BY <1>1 DEF Tokens
  <2>. QED
    BY <1>1, <2>1 DEF Inv, Shapes
<1>3. WriterInv' /\ FileInv'
  BY <1>1 DEF Inv, WriterInv, FileInv
<1>4. ChunkInv' /\ ReaderInv' /\ \A p : ReaderAt(p) => ReaderAt(p)'
  <2>1. handed \in Nat
    BY DEF Inv, Shapes
  <2>. QED
    BY <1>1, <2>1, ReaderStays DEF Inv
<1>5. \A p : WriterAt(p) => WriterAt(p)'
  BY <1>1 DEF WriterAt, Size
<1>. QED
  BY <1>1, <1>2, <1>3, <1>4, <1>5, WireSame DEF Inv

(* What is on the wire after a send of which k bytes were sent.            *)
LEMMA PartlySent ==
  ASSUME Inv, NEW k \in Nat, k = 0 \/ (BodyNext /\ link = "up" /\ k <= Size),
         UNCHANGED <<mode, total>>, \A p : ReaderAt(p) => ReaderAt(p)'
  PROVE  /\ handed + k \in 0 .. total /\ wire \o Body(k) \in Seq(Tokens)
         /\ \E g : Spells(wire \o Body(k), handed + k, g) /\ ReaderAt(g[0])'
<1>1. handed \in 0 .. total /\ handed \in Nat /\ total \in Nat /\ wire \in Seq(Tokens)
  BY DEF Inv, Shapes
<1>2. CASE k = 0
  <2>1. Body(k) = << >>
    BY <1>2 DEF Body
  <2>2. wire \o Body(k) = wire /\ handed + k = handed
    BY <1>1, <1>2, <2>1
  <2>3. PICK f : Spells(wire, handed, f) /\ ReaderAt(f[0])
    BY DEF Inv, WireInv
  <2>. QED
    BY <1>1, <2>2, <2>3
<1>3. CASE BodyNext /\ link = "up" /\ k <= Size
  <2>1. /\ wpc \in {"idle", "body"} /\ wpc # "failed" /\ link # "missing"
        /\ wpc = "body" => mode = "chunked"
        /\ wpc = "idle" => mode # "chunked"
        /\ script # << >>
    BY <1>3 DEF BodyNext, Inv, WriterInv
  <2>2. /\ script \in Seq(Nat) /\ Head(script) = script[1] /\ 1 \in 1 .. Len(script) /\ script[1] \in Nat
    BY <2>1 DEF Inv, Shapes
  <2>3. handed <= script[1] /\ script[1] <= total
    BY <2>1, <2>2 DEF Inv, WriterInv
  <2>4. Size \in Nat /\ handed + k <= total /\ k <= total - handed /\ k <= Size
    BY <1>1, <1>3, <2>2, <2>3 DEF Size
  <2>5. \A p \in Places : WriterAt(p) => p.kind = "chunk" /\ p.off = handed /\ k <= p.left
    <3>1. CASE mode = "chunked"
      BY <2>1, <2>4, <3>1 DEF WriterAt, Place
    <3>2. CASE mode # "chunked"
      BY <2>1, <2>4, <3>2 DEF WriterAt, Place
    <3>. QED
      BY <3>1, <3>2
  <2>6. PICK w : w = wire \o Body(k)
    OBVIOUS
  <2>7. /\ w \in Seq(Tokens \cup {Token("data", handed + i) : i \in 1 .. k})
        /\ \E g : Spells(w, handed + k, g) /\ ReaderAt(g[0])'
    BY <2>5, <2>6, WireGetsBytes DEF Inv
  <2>8. Tokens \cup {Token("data", handed + i) : i \in 1 .. k} = Tokens
    <3>. SUFFICES ASSUME NEW i \in 1 .. k PROVE Token("data", handed + i) \in Tokens
      OBVIOUS
    <3>1. handed + i \in -2 .. total
      BY <1>1, <2>4
    <3>. QED
      BY <3>1 DEF Token, Tokens
  <2>9. handed + k \in 0 .. total
    BY <1>1, <2>4
  <2>10. w \in Seq(Tokens)
    BY <2>7, <2>8
  <2>. QED
    BY <2>6, <2>7, <2>9, <2>10
<1>. QED
  BY <1>2, <1>3

LEMMA BreakStep == ASSUME Inv, Break PROVE Inv'
<1>1. /\ link = "up" /\ link' \in {"eof", "reset"} /\ wpc' = "failed"
      /\ UNCHANGED <<message, reader>>
      /\ UNCHANGED <<mode, total, ssl, script, rpc, want, chunk_size, received, closed, got>>
  BY DEF Break, message, reader
<1>2. handed \in Nat /\ total \in Nat /\ wire \in Seq(Tokens) /\ mode # "file"
  BY <1>1 DEF Inv, Shapes, FileInv
<1>3. PICK k \in 0 .. (IF BodyNext THEN Size ELSE 0) :
        /\ handed' = handed + k
        /\ \E cut \in 0 .. Len(wire \o Body(k)) : wire' = SubSeq(wire \o Body(k), 1, cut)
  BY DEF Break
<1>4. k \in Nat /\ (k = 0 \/ (BodyNext /\ link = "up" /\ k <= Size))
  <2>1. CASE BodyNext
    BY <1>1, <2>1
  <2>2. CASE ~BodyNext
    BY <2>2
  <2>. QED
    BY <2>1, <2>2
<1>5. \A p : ReaderAt(p) => ReaderAt(p)'
  BY <1>1 DEF ReaderAt
<1>6. /\ handed + k \in 0 .. total /\ wire \o Body(k) \in Seq(Tokens)
      /\ \E g : Spells(wire \o Body(k), handed + k, g) /\ ReaderAt(g[0])'
  BY <1>1, <1>4, <1>5, PartlySent
<1>7. PICK w \in Seq(Tokens) : w = wire \o Body(k)
  BY <1>6
<1>8. PICK g : Spells(w, handed', g) /\ ReaderAt(g[0])'
  BY <1>3, <1>6, <1>7
<1>9. PICK cut \in 0 .. Len(w) : wire' = SubSeq(w, 1, cut)
  BY <1>3, <1>7
<1>10. PICK f : /\ Layout(mode, total, wire', f) /\ Len(wire') = cut
                /\ \A i \in 0 .. cut : f[i] = g[i]
  <2>1. total \in Nat /\ (\E S : w \in Seq(S)) /\ Layout(mode, total, w, g)
    BY <1>2, <1>8 DEF Spells
  <2>2. CutTo(mode, total, SubSeq(w, 1, cut), g, cut)
    BY <2>1, CutWire
  <2>. QED
    BY <1>9, <2>2 DEF CutTo
<1>11. Spells(wire, handed, f)'
  <2>1. \A i \in 0 .. cut : i \in 0 .. Len(w)
    OBVIOUS
  <2>2. \A i \in 0 .. cut : f[i].off <= handed'
    BY <1>8, <1>10, <2>1 DEF Spells
  <2>. QED
    BY <1>1, <1>10, <2>2 DEF Spells
<1>12. WireInv'
  <2>1. f[0] = g[0]
    BY <1>10
  <2>2. WriterAt(f[Len(wire)])'
    BY <1>1 DEF WriterAt
  <2>. QED
    BY <1>8, <1>11, <2>1, <2>2 DEF WireInv
<1>13. Shapes'
  <2>1. Tokens' = Tokens
    BY <1>1 DEF Tokens
  <2>2. handed' \in 0 .. total
    BY <1>3, <1>6
  <2>3. SubSeq(w, 1, cut) \in Seq(Tokens)
    BY <1>7
  <2>. QED
    BY <1>1, <1>9, <2>1, <2>2, <2>3 DEF Inv, Shapes
<1>14. WriterInv' /\ FileInv'
  BY <1>1, <1>2 DEF Inv, WriterInv, FileInv
<1>15. ChunkInv' /\ ReaderInv'
  <2>1. handed <= handed' /\ handed' \in Nat
    BY <1>2, <1>3, <1>4
  <2>. QED
    BY <1>1, <2>1, ReaderStays DEF Inv
<1>. QED
  BY <1>12, <1>13, <1>14, <1>15 DEF Inv

(* Opening the file puts all of its bytes on the wire, but for a file that *)
(* is not there.                                                           *)
LEMMA OpenFileStep == ASSUME Inv, OpenFile PROVE Inv'
<1>1. /\ mode = "file" /\ wpc = "idle" /\ wpc' = "done" /\ script' = << >> /\ handed' = total
      /\ wire' = IF link = "missing" THEN << >> ELSE Body(total)
      /\ UNCHANGED <<message, link, reader>>
      /\ UNCHANGED <<mode, total, ssl, link, rpc, want, chunk_size, received, closed, got>>
  BY DEF OpenFile, message, reader
<1>2. /\ handed = 0 /\ handed \in Nat /\ total \in Nat /\ wire = << >> /\ got = << >> /\ rpc = "ask"
      /\ link \in {"disk", "bad", "missing"}
  BY <1>1 DEF Inv, Shapes, FileInv
<1>3. ChunkInv' /\ ReaderInv' /\ \A p : ReaderAt(p) => ReaderAt(p)'
  BY <1>1, <1>2, ReaderStays DEF Inv
<1>4. WriterInv'
  BY <1>1, <1>2 DEF WriterInv
<1>5. FileInv'
  BY <1>1, <1>2 DEF Inv, FileInv
<1>6. WireInv' /\ wire' \in Seq(Tokens)
  <2>1. CASE link = "missing"
    <3>1. PICK f : Spells(wire, handed, f) /\ ReaderAt(f[0])
      BY DEF Inv, WireInv
    <3>2. UNCHANGED <<mode, total, wire>>
      BY <1>1, <1>2, <2>1
    <3>3. f[0].off <= handed' /\ Len(wire) = 0
      BY <1>1, <1>2, <3>1 DEF Spells, Layout, Places
    <3>4. Spells(wire, handed, f)'
      BY <1>2, <3>1, <3>2, <3>3 DEF Spells
    <3>5. WriterAt(f[Len(wire)])'
      BY <1>1, <2>1 DEF WriterAt
    <3>6. wire' \in Seq(Tokens)
      BY <1>1, <2>1
    <3>. QED
      BY <1>3, <3>1, <3>4, <3>5, <3>6 DEF WireInv
  <2>2. CASE link # "missing"
    <3>1. wire' = wire \o Body(total) /\ handed' = handed + total /\ handed + total <= total
      <4> DEFINE B == Body(total)
                 T == {Token("data", handed + i) : i \in 1 .. total}
      <4>1. B \in [1 .. total -> T]
        BY <1>2 DEF Body
      <4>. HIDE DEF B, T
      <4>2. B \in Seq(T)
        BY <1>2, <4>1
      <4>3. << >> \o B = B
        BY <4>2
      <4>. QED
        BY <1>1, <1>2, <2>2, <4>3 DEF B
    <3>2. \A p \in Places : WriterAt(p) => p.kind = "chunk" /\ p.off = handed /\ total <= p.left
      BY <1>1, <1>2, <2>2 DEF WriterAt, Place
    <3>3. ASSUME NEW p \in Places, NEW q \in Places, WriterAt(p),
                 q = Place("chunk", handed + total, p.left - total)
          PROVE  WriterAt(q)'
      <4>1. p = Place("chunk", handed, total - handed)
        BY <1>1, <2>2, <3>3 DEF WriterAt
      <4>2. q = Place("chunk", handed', total' - handed') /\ q.off = handed'
        BY <1>1, <1>2, <3>3, <4>1 DEF Place
      <4>. QED
        BY <1>1, <4>2 DEF WriterAt
    <3>. QED
      BY <1>1, <1>2, <1>3, <3>1, <3>2, <3>3, BytesSent DEF Inv
  <2>. QED
    BY <2>1, <2>2
<1>7. Shapes'
  <2>1. Tokens' = Tokens
    BY <1>1 DEF Tokens
  <2>2. handed' \in 0 .. total
    BY <1>1, <1>2
  <2>. QED
    BY <1>1, <1>6, <2>1, <2>2 DEF Inv, Shapes
<1>. QED
  BY <1>3, <1>4, <1>5, <1>6, <1>7 DEF Inv

-----------------------------------------------------------------------------
(* The reader's side. What a step that takes c tokens has to show.         *)
LEMMA WireTaken ==
  ASSUME Shapes, NEW f, Spells(wire, handed, f), WriterAt(f[Len(wire)]), NEW c \in 0 .. Len(wire),
         wire' = SubSeq(wire, c + 1, Len(wire)), UNCHANGED <<mode, total, script, wpc, handed, link>>,
         ReaderAt(f[c])'
  PROVE  WireInv' /\ wire' \in Seq(Tokens)
<1> DEFINE L == Len(wire)
<1>1. /\ wire \in Seq(Tokens) /\ L \in Nat /\ c \in Nat /\ L - c \in Nat /\ total \in Nat
      /\ Layout(mode, total, wire, f) /\ \E S : wire \in Seq(S)
  BY DEF Shapes, Spells
<1>2. Taken(mode, total, wire, wire', f, c)
  BY <1>1, TakeTokens
<1>3. PICK g : /\ Layout(mode, total, wire', g) /\ Len(wire') = L - c
               /\ \A i \in 0 .. L - c : g[i] = f[i + c]
  BY <1>2 DEF Taken
<1>4. \A i \in 0 .. L - c : i + c \in 0 .. L
  BY <1>1
<1>5. \A i \in 0 .. Len(wire') : g[i].off <= handed
  BY <1>3, <1>4 DEF Spells
<1>6. Spells(wire, handed, g)'
  BY <1>3, <1>5 DEF Spells
<1>7. g[0] = f[c] /\ g[Len(wire')] = f[L]
  <2>1. 0 \in 0 .. L - c /\ L - c \in 0 .. L - c /\ 0 + c = c /\ (L - c) + c = L
    BY <1>1
  <2>. QED
    BY <1>3, <2>1
<1>8. PICK p, q : p = f[c] /\ q = f[L] /\ WriterAt(q)
  OBVIOUS
<1>9. WriterAt(q)'
  BY <1>8 DEF WriterAt, Size
<1>10. wire' \in Seq(Tokens)
  BY <1>1
<1>. QED
  BY <1>6, <1>7, <1>8, <1>9, <1>10 DEF WireInv

ReaderShapes ==
  /\ rpc \in {"ask", "skip", "line", "recv", "complete", "error", "wild"}
  /\ want \in Nat /\ chunk_size \in -2 .. total /\ received \in -1 .. total
  /\ closed \in BOOLEAN /\ got \in Seq(Nat)

LEMMA ReaderAlone ==
  ASSUME Inv, UNCHANGED <<message, writer, link>>
  PROVE  /\ UNCHANGED <<mode, total, ssl, script, wpc, handed, link>>
         /\ WriterInv'
         /\ ReaderShapes' /\ wire' \in Seq(Tokens) => Shapes'
         /\ \A p : WriterAt(p) => WriterAt(p)'
<1>1. UNCHANGED <<mode, total, ssl, script, wpc, handed, link>>
  BY DEF message, writer
<1>2. WriterInv'
  BY <1>1 DEF Inv, WriterInv
<1>3. ASSUME ReaderShapes', wire' \in Seq(Tokens) PROVE Shapes'
  <2>1. Tokens' = Tokens
    BY <1>1 DEF Tokens
  <2>. QED
    BY <1>1, <1>3, <2>1 DEF Inv, Shapes, ReaderShapes
<1>4. \A p : WriterAt(p) => WriterAt(p)'
  BY <1>1 DEF WriterAt, Size
<1>. QED
  BY <1>1, <1>2, <1>3, <1>4

\* What the reader sees of the wire.
LEMMA AtHand ==
  ASSUME Inv
  PROVE  \E f : /\ Spells(wire, handed, f) /\ ReaderAt(f[0]) /\ WriterAt(f[Len(wire)])
                /\ f \in [0 .. Len(wire) -> Places]
                /\ wire # << >> =>
                     /\ 1 \in 0 .. Len(wire) /\ Head(wire) = wire[1] /\ wire[1] \in Tokens
                     /\ Tail(wire) = SubSeq(wire, 2, Len(wire))
                     /\ Fits(mode, total, wire[1], f[0], f[1])
<1>1. PICK f : Spells(wire, handed, f) /\ ReaderAt(f[0]) /\ WriterAt(f[Len(wire)])
  BY DEF Inv, WireInv
<1>2. wire \in Seq(Tokens)
  BY DEF Inv, Shapes
<1>3. f \in [0 .. Len(wire) -> Places]
  BY <1>1 DEF Spells, Layout
<1>4. ASSUME wire # << >>
      PROVE  /\ 1 \in 0 .. Len(wire) /\ Head(wire) = wire[1] /\ wire[1] \in Tokens
             /\ Tail(wire) = SubSeq(wire, 2, Len(wire))
             /\ Fits(mode, total, wire[1], f[0], f[1])
  <2>1. 1 \in 1 .. Len(wire) /\ 1 \in 0 .. Len(wire) /\ 1 - 1 = 0
    BY <1>2, <1>4
  <2>2. Fits(mode, total, wire[1], f[0], f[1])
    BY <1>1, <2>1 DEF Spells, Layout
  <2>. QED
    BY <1>2, <1>4, <2>1, <2>2
<1>. QED
  BY <1>1, <1>3, <1>4

LEMMA ReadStep == ASSUME Inv, NEW size \in ReadSizes, Read(size) PROVE Inv'
<1>1. /\ rpc = "ask" /\ Opened /\ Ready
      /\ want' = IF mode = "length" THEN Smaller(size, total - received) ELSE size
      /\ rpc' = IF mode = "chunked" THEN Turn(size, chunk_size - received) ELSE "recv"
      /\ UNCHANGED <<message, writer, link>>
      /\ UNCHANGED <<wire, chunk_size, received, closed, got>>
  BY DEF Read
<1>2. /\ UNCHANGED <<mode, total, ssl, script, wpc, handed, link>> /\ WriterInv'
      /\ ReaderShapes' /\ wire' \in Seq(Tokens) => Shapes'
      /\ \A p : WriterAt(p) => WriterAt(p)'
  BY <1>1, ReaderAlone
<1>3. /\ total \in Nat /\ received \in Int /\ chunk_size \in Int /\ wire \in Seq(Tokens)
      /\ size \in Nat /\ size > 0
  BY StreamAssumption DEF Inv, Shapes
<1>4. /\ want' \in Nat /\ want' > 0
      /\ mode = "length" => want' <= total - received
  <2>1. CASE mode = "length"
    <3>1. total - received > 0 /\ total - received \in Nat
      <4>1. total > received
        BY <1>1, <2>1 DEF Ready, Inv, FileInv
      <4>. QED
        BY <1>3, <4>1
    <3>. QED
      BY <1>1, <1>3, <2>1, <3>1 DEF Smaller
  <2>2. CASE mode # "length"
    BY <1>1, <1>3, <2>2
  <2>. QED
    BY <2>1, <2>2
<1>5. CASE mode = "chunked"
  <2>1. /\ chunk_size # 0 /\ chunk_size # -2
        /\ chunk_size = -1 => received = -1 /\ rpc' = "line"
        /\ chunk_size # -1 =>
             /\ chunk_size > 0 /\ received \in 0 .. chunk_size
             /\ rpc' = IF chunk_size - received # 0 THEN "recv" ELSE "skip"
    <3>1. chunk_size # 0
      BY <1>1, <1>5 DEF Ready, Inv, FileInv
    <3>2. chunk_size \in -2 .. total /\ rpc \notin {"error", "wild"}
      BY <1>1 DEF Inv, Shapes
    <3>3. chunk_size # -2 /\ (chunk_size = -1 => received = -1)
          /\ (chunk_size > 0 => received \in 0 .. chunk_size)
      BY <1>5, <3>2 DEF Inv, ChunkInv
    <3>4. rpc' = Turn(size, chunk_size - received)
      BY <1>1, <1>5
    <3>5. CASE chunk_size = -1
      BY <1>3, <3>3, <3>4, <3>5 DEF Turn
    <3>6. CASE chunk_size # -1
      BY <1>3, <3>1, <3>2, <3>3, <3>4, <3>6 DEF Turn
    <3>. QED
      BY <3>1, <3>3, <3>5, <3>6
  <2>2. rpc' \in {"line", "recv", "skip"}
    BY <2>1
  <2>3. Shapes'
    <3>1. ReaderShapes'
      BY <1>1, <1>2, <1>4, <2>2 DEF Inv, Shapes, ReaderShapes
    <3>. QED
      BY <1>1, <1>2, <1>3, <3>1
  <2>4. FileInv'
    BY <1>1, <1>2, <1>5 DEF Inv, FileInv
  <2>5. ChunkInv'
    BY <1>1, <1>2, <1>3, <1>5, <2>1 DEF ChunkInv
  <2>6. ReaderInv'
    BY <1>1, <1>2, <1>4, <1>5, <2>2 DEF Inv, ReaderInv
  <2>7. \A p : ReaderAt(p) => ReaderAt(p)'
    BY <1>1, <1>2, <1>5, <2>1 DEF ReaderAt
  <2>. QED
    BY <1>1, <1>2, <2>3, <2>4, <2>5, <2>6, <2>7, WireSame DEF Inv
<1>6. CASE mode # "chunked"
  <2>1. rpc' = "recv" /\ link # "missing"
    <3>1. link = "missing" => mode = "file"
      BY DEF Inv, FileInv
    <3>. QED
      BY <1>1, <1>6, <3>1 DEF Ready
  <2>2. Shapes'
    <3>1. ReaderShapes'
      BY <1>1, <1>2, <1>4, <2>1 DEF Inv, Shapes, ReaderShapes
    <3>. QED
      BY <1>1, <1>2, <1>3, <3>1
  <2>3. FileInv'
    BY <1>1, <1>2, <2>1 DEF Inv, FileInv, Opened
  <2>4. ChunkInv'
    BY <1>2, <1>6 DEF ChunkInv
  <2>5. ReaderInv'
    BY <1>1, <1>2, <1>4, <1>6, <2>1 DEF Inv, ReaderInv
  <2>6. \A p : ReaderAt(p) => ReaderAt(p)'
    BY <1>1, <1>2, <1>6, <2>1 DEF ReaderAt
  <2>. QED
    BY <1>1, <1>2, <2>2, <2>3, <2>4, <2>5, <2>6, WireSame DEF Inv
<1>. QED
  BY <1>5, <1>6

LEMMA EndOfStreamStep == ASSUME Inv, EndOfStream PROVE Inv'
<1>1. /\ rpc = "ask" /\ Opened /\ ~Ready /\ rpc' = "complete"
      /\ UNCHANGED <<message, writer, link>>
      /\ UNCHANGED <<wire, want, chunk_size, received, closed, got>>
  BY DEF EndOfStream
<1>2. /\ UNCHANGED <<mode, total, ssl, script, wpc, handed, link>> /\ WriterInv'
      /\ ReaderShapes' /\ wire' \in Seq(Tokens) => Shapes'
      /\ \A p : WriterAt(p) => WriterAt(p)'
  BY <1>1, ReaderAlone
<1>3. total \in Nat /\ received \in -1 .. total /\ wire \in Seq(Tokens)
  BY DEF Inv, Shapes
<1>4. mode = "chunked" => chunk_size = 0 \/ link = "missing"
  BY <1>1 DEF Ready
<1>5. mode = "chunked" => link # "missing"
  BY DEF Inv, FileInv
<1>6. mode = "close" \/ link = "missing" \/ Len(got) = total
  <2>1. CASE mode = "length" /\ link # "missing"
    <3>1. ~(total > received) /\ received = Len(got)
      BY <1>1, <2>1 DEF Ready, Inv, ReaderInv
    <3>. QED
      BY <1>3, <3>1
  <2>2. CASE mode = "chunked"
    <3>1. PICK p : ReaderAt(p)
      BY DEF Inv, WireInv
    <3>. QED
      BY <1>1, <1>4, <1>5, <2>2, <3>1 DEF ReaderAt
  <2>3. CASE mode = "file" /\ link # "missing"
    BY <1>1, <2>3 DEF Ready, Inv, FileInv
  <2>. QED
    BY <2>1, <2>2, <2>3 DEF Inv, Shapes
<1>7. Shapes'
  <2>1. ReaderShapes'
    BY <1>1, <1>2 DEF Inv, Shapes, ReaderShapes
  <2>. QED
    BY <1>1, <1>2, <1>3, <2>1
<1>8. FileInv'
  BY <1>1, <1>2 DEF Inv, FileInv, Opened
<1>9. ChunkInv'
  BY <1>1, <1>2, <1>4, <1>5 DEF Inv, ChunkInv
<1>10. ReaderInv'
  BY <1>1, <1>2, <1>4, <1>5, <1>6 DEF Inv, ReaderInv
<1>11. \A p : ReaderAt(p) => ReaderAt(p)'
  BY <1>1, <1>2 DEF ReaderAt
<1>. QED
  BY <1>1, <1>2, <1>7, <1>8, <1>9, <1>10, <1>11, WireSame DEF Inv

LEMMA SkipLineEndStep == ASSUME Inv, SkipLineEnd PROVE Inv'
<1>1. /\ rpc = "skip" /\ wire # << >> /\ wire' = Tail(wire)
      /\ rpc' = CASE Head(wire).kind \in {"crlf", "line"} -> "line"
                   [] Head(wire).kind = "overlong"         -> "error"
                   [] OTHER                                -> "skip"
      /\ UNCHANGED <<message, writer, link>>
      /\ UNCHANGED <<want, chunk_size, received, closed, got>>
  BY DEF SkipLineEnd
<1>2. /\ UNCHANGED <<mode, total, ssl, script, wpc, handed, link>> /\ WriterInv'
      /\ ReaderShapes' /\ wire' \in Seq(Tokens) => Shapes'
  BY <1>1, ReaderAlone
<1>3. /\ mode = "chunked" /\ want > 0 /\ chunk_size > 0 /\ received = chunk_size
      /\ chunk_size \in Int /\ link # "missing"
  <2>1. mode = "chunked" /\ want > 0
    BY <1>1 DEF Inv, ReaderInv
  <2>2. chunk_size \in -2 .. total /\ total \in Nat
    BY DEF Inv, Shapes
  <2>3. chunk_size > 0 /\ received = chunk_size
    BY <1>1, <2>1, <2>2 DEF Inv, ChunkInv
  <2>. QED
    BY <2>1, <2>2, <2>3 DEF Inv, FileInv
<1>4. PICK f : /\ Spells(wire, handed, f) /\ ReaderAt(f[0]) /\ WriterAt(f[Len(wire)])
               /\ f \in [0 .. Len(wire) -> Places]
               /\ 1 \in 0 .. Len(wire) /\ Head(wire) = wire[1] /\ wire[1] \in Tokens
               /\ Tail(wire) = SubSeq(wire, 2, Len(wire))
               /\ Fits(mode, total, wire[1], f[0], f[1])
  BY <1>1, AtHand
<1>5. f[0].kind = "chunk" /\ f[0].left = 0 /\ f[0].off = Len(got)
  BY <1>1, <1>3, <1>4 DEF ReaderAt
<1>6. \/ wire[1] = Crlf /\ f[1] = Place("line", f[0].off, 0)
      \/ wire[1] = Overlong
  BY <1>3, <1>4, <1>5 DEF Fits
<1>7. \/ rpc' = "line" /\ f[1].kind = "line" /\ f[1].off = Len(got)
      \/ rpc' = "error"
  <2>1. CASE wire[1] = Crlf /\ f[1] = Place("line", f[0].off, 0)
    BY <1>1, <1>4, <1>5, <2>1 DEF Crlf, Token, Place
  <2>2. CASE wire[1] = Overlong
    BY <1>1, <1>4, <2>2 DEF Overlong, Token
  <2>. QED
    BY <1>6, <2>1, <2>2
<1>8. ReaderAt(f[1])'
  <2>1. PICK q : q = f[1]
    OBVIOUS
  <2>2. ReaderAt(q)'
    BY <1>1, <1>2, <1>3, <1>7, <2>1 DEF ReaderAt
  <2>. QED
    BY <2>1, <2>2
<1>9. WireInv' /\ wire' \in Seq(Tokens)
  <2>1. PICK c \in 0 .. Len(wire) : c = 1 /\ c + 1 = 2
    BY <1>4
  <2>2. wire' = SubSeq(wire, c + 1, Len(wire)) /\ f[c] = f[1]
    BY <1>1, <1>4, <2>1
  <2>3. ReaderAt(f[c])'
    BY <1>8, <2>1
  <2>. QED
    BY <1>2, <1>4, <2>2, <2>3, WireTaken DEF Inv
<1>10. Shapes'
  <2>1. ReaderShapes'
    BY <1>1, <1>2, <1>7 DEF Inv, Shapes, ReaderShapes
  <2>. QED
    BY <1>2, <1>9, <2>1
<1>11. FileInv' /\ ChunkInv'
  BY <1>1, <1>2, <1>3, <1>7 DEF Inv, FileInv, ChunkInv
<1>12. ReaderInv'
  BY <1>1, <1>2, <1>3, <1>7 DEF Inv, ReaderInv
<1>. QED
  BY <1>2, <1>9, <1>10, <1>11, <1>12 DEF Inv

LEMMA ReadChunkSizeStep == ASSUME Inv, ReadChunkSize PROVE Inv'
<1>1. /\ rpc = "line" /\ wire # << >> /\ wire' = Tail(wire)
      /\ Head(wire).kind \in {"line", "crlf"}
      /\ chunk_size' = Head(wire).n /\ received' = 0
      /\ rpc' \in AfterSize(chunk_size')
      /\ UNCHANGED <<message, writer, link>> /\ UNCHANGED <<want, closed, got>>
  BY DEF ReadChunkSize
<1>2. /\ UNCHANGED <<mode, total, ssl, script, wpc, handed, link>> /\ WriterInv'
      /\ ReaderShapes' /\ wire' \in Seq(Tokens) => Shapes'
  BY <1>1, ReaderAlone
<1>3. mode = "chunked" /\ want > 0 /\ link # "missing" /\ total \in Nat /\ received \in -1 .. total
  BY <1>1 DEF Inv, Shapes, ReaderInv, FileInv
<1>4. PICK f : /\ Spells(wire, handed, f) /\ ReaderAt(f[0]) /\ WriterAt(f[Len(wire)])
               /\ f \in [0 .. Len(wire) -> Places]
               /\ 1 \in 0 .. Len(wire) /\ Head(wire) = wire[1] /\ wire[1] \in Tokens
               /\ Tail(wire) = SubSeq(wire, 2, Len(wire))
               /\ Fits(mode, total, wire[1], f[0], f[1])
  BY <1>1, AtHand
<1>5. f[0].kind = "line" /\ f[0].off = Len(got) /\ f[1] \in Places
  BY <1>1, <1>3, <1>4 DEF ReaderAt
<1>6. \/ f[1].left > 0 /\ wire[1] = Line(f[1].left) /\ f[1] = Place("chunk", f[0].off, f[1].left)
      \/ f[0].off = total /\ wire[1] = Line(0) /\ f[1] = Place("last", f[0].off, 0)
      \/ wire[1] \in {Line(-1), Line(-2)}
  <2>1. wire[1].kind # "overlong" /\ wire[1] # Overlong
    BY <1>1, <1>4 DEF Overlong, Token
  <2>. QED
    BY <1>4, <1>5, <2>1 DEF Fits
<1>7. /\ chunk_size' \in -2 .. total
      /\ \/ /\ chunk_size' > 0 /\ rpc' = "recv"
            /\ f[1].kind = "chunk" /\ f[1].off = Len(got) /\ f[1].left = chunk_size'
         \/ /\ chunk_size' = 0 /\ rpc' = "ask"
            /\ f[1].kind = "last" /\ f[1].off = Len(got) /\ f[1].off = total
         \/ rpc' \in {"error", "wild"}
  <2>1. chunk_size' \in -2 .. total
    BY <1>1, <1>4 DEF Tokens
  <2>2. CASE f[1].left > 0 /\ wire[1] = Line(f[1].left) /\ f[1] = Place("chunk", f[0].off, f[1].left)
    <3>1. chunk_size' = f[1].left
      BY <1>1, <1>4, <2>2 DEF Line, Token
    <3>2. f[1].kind = "chunk" /\ f[1].off = f[0].off
      BY <2>2 DEF Place
    <3>3. rpc' = "recv" /\ chunk_size' > 0
      BY <1>1, <2>1, <2>2, <3>1 DEF AfterSize
    <3>. QED
      BY <1>5, <2>1, <3>1, <3>2, <3>3
  <2>3. CASE f[0].off = total /\ wire[1] = Line(0) /\ f[1] = Place("last", f[0].off, 0)
    <3>1. chunk_size' = 0
      BY <1>1, <1>4, <2>3 DEF Line, Token
    <3>2. f[1].kind = "last" /\ f[1].off = f[0].off
      BY <2>3 DEF Place
    <3>. QED
      BY <1>1, <1>5, <2>1, <2>3, <3>1, <3>2 DEF AfterSize
  <2>4. CASE wire[1] \in {Line(-1), Line(-2)}
    <3>1. chunk_size' \in {-1, -2}
      BY <1>1, <1>4, <2>4 DEF Line, Token
    <3>. QED
      BY <1>1, <2>1, <3>1 DEF AfterSize
  <2>. QED
    BY <1>6, <2>2, <2>3, <2>4
<1>8. ReaderAt(f[1])'
  <2>1. PICK q : q = f[1]
    OBVIOUS
  <2>2. ReaderAt(q)'
    BY <1>1, <1>2, <1>3, <1>7, <2>1 DEF ReaderAt
  <2>. QED
    BY <2>1, <2>2
<1>9. WireInv' /\ wire' \in Seq(Tokens)
  <2>1. PICK c \in 0 .. Len(wire) : c = 1 /\ c + 1 = 2
    BY <1>4
  <2>2. wire' = SubSeq(wire, c + 1, Len(wire)) /\ f[c] = f[1]
    BY <1>1, <1>4, <2>1
  <2>3. ReaderAt(f[c])'
    BY <1>8, <2>1
  <2>. QED
    BY <1>2, <1>4, <2>2, <2>3, WireTaken DEF Inv
<1>10. Shapes'
  <2>1. ReaderShapes'
    BY <1>1, <1>2, <1>3, <1>7 DEF Inv, Shapes, ReaderShapes
  <2>. QED
    BY <1>2, <1>9, <2>1
<1>11. FileInv' /\ ChunkInv'
  BY <1>1, <1>2, <1>3, <1>7 DEF Inv, FileInv, ChunkInv
<1>12. ReaderInv'
  BY <1>1, <1>2, <1>3, <1>7 DEF Inv, ReaderInv
<1>. QED
  BY <1>2, <1>9, <1>10, <1>11, <1>12 DEF Inv

(* A call that fails leaves the wire to nobody.                            *)
LEMMA ReaderGivesUp ==
  ASSUME Inv, rpc \in {"skip", "line", "recv"}, rpc' = "error", UNCHANGED <<message, writer, link>>,
         UNCHANGED <<wire, want, closed, got>>,
         \/ UNCHANGED <<chunk_size, received>>
         \/ rpc = "line" /\ chunk_size' = -1 /\ received' = 0
  PROVE  Inv'
<1>1. /\ UNCHANGED <<mode, total, ssl, script, wpc, handed, link>> /\ WriterInv'
      /\ ReaderShapes' /\ wire' \in Seq(Tokens) => Shapes'
      /\ \A p : WriterAt(p) => WriterAt(p)'
  BY ReaderAlone
<1>2. link # "missing" /\ total \in Nat /\ wire \in Seq(Tokens) /\ (rpc = "line" => mode = "chunked")
  BY DEF Inv, Shapes, FileInv, ReaderInv
<1>3. Shapes'
  <2>1. chunk_size' \in -2 .. total /\ received' \in -1 .. total
    BY <1>2 DEF Inv, Shapes
  <2>2. ReaderShapes'
    BY <1>1, <2>1 DEF Inv, Shapes, ReaderShapes
  <2>. QED
    BY <1>1, <1>2, <2>2
<1>4. FileInv' /\ ChunkInv'
  BY <1>1, <1>2 DEF Inv, FileInv, ChunkInv
<1>5. ReaderInv'
  BY <1>1, <1>2 DEF Inv, ReaderInv
<1>6. \A p : ReaderAt(p)'
  BY DEF ReaderAt
<1>. QED
  BY <1>1, <1>3, <1>4, <1>5, <1>6, WireSame DEF Inv

LEMMA NoChunkSizeStep == ASSUME Inv, NoChunkSize PROVE Inv'
<1>1. /\ rpc = "line" /\ rpc' = "error" /\ UNCHANGED <<message, writer, link>>
      /\ UNCHANGED <<wire, want, closed, got>> /\ chunk_size' = -1 /\ received' = 0
  BY DEF NoChunkSize
<1>. QED
  BY <1>1, ReaderGivesUp

LEMMA RecvFailsStep == ASSUME Inv, RecvFails PROVE Inv'
<1>1. /\ rpc' = "error" /\ rpc \in {"skip", "line", "recv"} /\ UNCHANGED <<message, writer, link>>
      /\ UNCHANGED <<wire, want, closed, got>>
      /\ \/ UNCHANGED <<chunk_size, received>>
         \/ rpc = "line" /\ chunk_size' = -1 /\ received' = 0
  BY DEF RecvFails, Starved
<1>. QED
  BY <1>1, ReaderGivesUp

(* Within a chunk the application gets the next bytes of the body.         *)
LEMMA BytesDelivered ==
  ASSUME Inv, NEW f, Spells(wire, handed, f), f[0].kind = "chunk", f[0].off = Len(got),
         NEW c \in 0 .. Len(wire), c <= f[0].left, Deliver(c)
  PROVE  /\ got' \in Seq(Nat) /\ got' = [k \in 1 .. Len(got') |-> k]
         /\ Len(got') = Len(got) + c /\ Len(got') <= handed
         /\ received' = received + c /\ wire' = SubSeq(wire, c + 1, Len(wire))
         /\ f[c] = Place("chunk", Len(got) + c, f[0].left - c) /\ f[c] \in Places
<1> DEFINE G == Len(got)
           d == [i \in 1 .. c |-> IF wire[i].kind = "data" THEN wire[i].n ELSE 0]
<1>1. /\ got \in Seq(Nat) /\ G \in Nat /\ wire \in Seq(Tokens) /\ c \in Nat
      /\ total \in Nat /\ handed \in Nat /\ got = [k \in 1 .. G |-> k]
      /\ Layout(mode, total, wire, f) /\ \E S : wire \in Seq(S)
  <2>1. got \in Seq(Nat) /\ wire \in Seq(Tokens) /\ total \in Nat /\ handed \in Nat
    BY DEF Inv, Shapes
  <2>2. got = [k \in 1 .. G |-> k]
    BY DEF Inv, ReaderInv
  <2>3. Layout(mode, total, wire, f)
    BY DEF Spells
  <2>4. G \in Nat /\ c \in Nat /\ \E S : wire \in Seq(S)
    BY <2>1
  <2>. QED
    BY <2>1, <2>2, <2>3, <2>4
<1>2. /\ \A i \in 1 .. c : wire[i] = Token("data", f[0].off + i)
      /\ f[c] = Place("chunk", f[0].off + c, f[0].left - c)
  <2>1. Within(wire, f, c)
    BY <1>1, ChunkBytes
  <2>. QED
    BY <2>1 DEF Within
<1>3. f[c] \in Places /\ f[c].off <= handed
  BY <1>1 DEF Layout, Spells
<1>4. f[c].off = G + c
  BY <1>2 DEF Place
<1>5. /\ got' = got \o d /\ received' = received + c
      /\ wire' = SubSeq(wire, c + 1, Len(wire))
  BY DEF Deliver
<1>6. \A i \in 1 .. c : d[i] = G + i
  <2>. SUFFICES ASSUME NEW i \in 1 .. c PROVE d[i] = G + i
    OBVIOUS
  <2>1. wire[i] = Token("data", f[0].off + i)
    BY <1>2
  <2>2. wire[i].kind = "data" /\ wire[i].n = f[0].off + i
    BY <2>1 DEF Token
  <2>. QED
    BY <2>2
<1>7. d \in [1 .. c -> Nat]
  BY <1>1, <1>6
<1>. HIDE DEF d, G
<1>8. d \in Seq(Nat) /\ Len(d) = c
  BY <1>1, <1>7
<1>9. got' \in Seq(Nat) /\ Len(got') = G + c
  <2>1. got \in Seq(Nat)
    BY <1>1
  <2>2. got \o d \in Seq(Nat) /\ Len(got \o d) = Len(got) + Len(d)
    <3>1. \A s, r \in Seq(Nat) : s \o r \in Seq(Nat) /\ Len(s \o r) = Len(s) + Len(r)
      OBVIOUS
    <3>. QED
      BY <1>8, <2>1, <3>1, Zenon
  <2>. QED
    BY <1>5, <1>8, <2>2 DEF G
<1>10. \A k \in 1 .. Len(got') : got'[k] = k
  <2>. SUFFICES ASSUME NEW k \in 1 .. Len(got') PROVE got'[k] = k
    OBVIOUS
  <2>1. CASE k <= G
    <3>1. k \in 1 .. G /\ got'[k] = got[k]
      BY <1>1, <1>5, <1>8, <1>9, <2>1 DEF G
    <3>. QED
      BY <1>1, <3>1
  <2>2. CASE k > G
    <3>1. k - G \in 1 .. c /\ got'[k] = d[k - G]
      BY <1>1, <1>5, <1>8, <1>9, <2>2 DEF G
    <3>. QED
      BY <1>1, <1>6, <3>1
  <2>. QED
    BY <1>1, <1>9, <2>1, <2>2
<1>11. got' = [k \in 1 .. Len(got') |-> k]
  BY <1>1, <1>9, <1>10
<1>. QED
  BY <1>1, <1>2, <1>3, <1>4, <1>5, <1>9, <1>11 DEF G

LEMMA RecvForcedStep == ASSUME Inv, RecvForced PROVE Inv'
<1>1. /\ rpc = "recv" /\ mode \in {"length", "chunked"} /\ Len(wire) >= Forced
      /\ Deliver(Forced) /\ want' = want - Forced
      /\ rpc' = IF mode = "chunked" THEN Turn(want', chunk_size - received') ELSE "ask"
      /\ UNCHANGED <<message, writer, link>> /\ UNCHANGED <<chunk_size, closed>>
  BY DEF RecvForced
<1>2. /\ UNCHANGED <<mode, total, ssl, script, wpc, handed, link>> /\ WriterInv'
      /\ ReaderShapes' /\ wire' \in Seq(Tokens) => Shapes'
  BY <1>1, ReaderAlone
<1>3. /\ total \in Nat /\ received \in -1 .. total /\ chunk_size \in -2 .. total
      /\ wire \in Seq(Tokens) /\ want \in Nat /\ want > 0 /\ link # "missing" /\ ~closed
  BY <1>1 DEF Inv, Shapes, ReaderInv, FileInv
<1>4. mode = "chunked" => chunk_size > 0 /\ received \in 0 .. chunk_size /\ received < chunk_size
  BY <1>1, <1>3 DEF Inv, ChunkInv
<1>5. mode = "length" => chunk_size = -1 /\ received = Len(got) /\ want <= total - received
  BY <1>1 DEF Inv, ReaderInv
<1>6. PICK f : /\ Spells(wire, handed, f) /\ ReaderAt(f[0]) /\ WriterAt(f[Len(wire)])
               /\ f \in [0 .. Len(wire) -> Places]
  BY AtHand
<1>7. /\ f[0].kind = "chunk" /\ f[0].off = Len(got)
      /\ f[0].left = IF mode = "chunked" THEN chunk_size - received ELSE total - received
  BY <1>1, <1>3, <1>4, <1>6 DEF ReaderAt
<1>8. PICK c \in 0 .. Len(wire) : c = Forced /\ c > 0 /\ c <= want /\ c <= f[0].left
  <2>1. CASE mode = "chunked"
    <3>1. /\ Forced \in Nat /\ Forced > 0 /\ Forced <= want /\ Forced <= chunk_size - received
      BY <1>3, <1>4, <2>1 DEF Forced, Smaller
    <3>. QED
      BY <1>1, <1>3, <1>7, <2>1, <3>1
  <2>2. CASE mode = "length"
    <3>1. Forced = want /\ want <= f[0].left
      BY <1>5, <1>7, <2>2 DEF Forced
    <3>. QED
      BY <1>1, <1>3, <3>1
  <2>. QED
    BY <1>1, <2>1, <2>2
<1>9. /\ got' \in Seq(Nat) /\ got' = [k \in 1 .. Len(got') |-> k]
      /\ Len(got') = Len(got) + c /\ Len(got') <= handed
      /\ received' = received + c /\ wire' = SubSeq(wire, c + 1, Len(wire))
      /\ f[c] = Place("chunk", Len(got) + c, f[0].left - c) /\ f[c] \in Places
  <2>1. Deliver(c)
    BY <1>1, <1>8
  <2>. QED
    BY <1>6, <1>7, <1>8, <2>1, BytesDelivered
<1>10. PICK q : q = f[c] /\ q.kind = "chunk" /\ q.off = Len(got') /\ q.left = f[0].left - c
  <2>1. f[c] = Place("chunk", Len(got) + c, f[0].left - c) /\ Len(got') = Len(got) + c
    BY <1>9
  <2>2. f[c].kind = "chunk" /\ f[c].off = Len(got') /\ f[c].left = f[0].left - c
    BY <2>1 DEF Place
  <2>. QED
    BY <2>2
<1>11. Len(got) \in Nat
  BY DEF Inv, Shapes
<1>12. want' \in Nat /\ want' = want - c
  BY <1>1, <1>3, <1>8
<1>13. CASE mode = "chunked"
  <2>1. /\ received' \in 0 .. chunk_size /\ chunk_size' = chunk_size
        /\ q.left = chunk_size' - received'
    BY <1>1, <1>3, <1>4, <1>7, <1>8, <1>9, <1>10, <1>13
  <2>2. /\ chunk_size' > 0 /\ rpc' \in {"ask", "recv", "skip"}
        /\ rpc' = "recv" => received' < chunk_size' /\ want' > 0
        /\ rpc' = "skip" => received' = chunk_size' /\ want' > 0
    <3>1. rpc' = Turn(want', chunk_size - received') /\ chunk_size # -1
      BY <1>1, <1>4, <1>13
    <3>2. want' = 0 => rpc' = "ask"
      BY <3>1 DEF Turn
    <3>3. want' # 0 => rpc' = IF chunk_size - received' # 0 THEN "recv" ELSE "skip"
      BY <3>1 DEF Turn
    <3>4. chunk_size' = chunk_size /\ chunk_size > 0 /\ (want' = 0 \/ want' > 0)
      BY <1>1, <1>4, <1>12, <1>13
    <3>5. received' \in 0 .. chunk_size /\ chunk_size \in Nat
      BY <1>3, <2>1, <3>4
    <3>6. \A n \in Nat : \A r \in 0 .. n : IF n - r # 0 THEN r < n ELSE r = n
      OBVIOUS
    <3>7. IF chunk_size - received' # 0 THEN received' < chunk_size ELSE received' = chunk_size
      BY <3>5, <3>6, Zenon
    <3>. QED
      BY <3>2, <3>3, <3>4, <3>7
  <2>3. ReaderShapes'
    <3>1. received' \in -1 .. total
      BY <1>3, <2>1
    <3>. QED
      BY <1>1, <1>2, <1>3, <1>9, <1>12, <2>2, <3>1 DEF Inv, Shapes, ReaderShapes
  <2>4. ReaderAt(q)'
    BY <1>2, <1>10, <1>13, <2>1, <2>2 DEF ReaderAt
  <2>5. WireInv' /\ wire' \in Seq(Tokens)
    <3>1. ReaderAt(f[c])'
      BY <1>10, <2>4
    <3>. QED
      BY <1>2, <1>6, <1>9, <3>1, WireTaken DEF Inv
  <2>6. FileInv'
    BY <1>2, <1>3, <1>13 DEF Inv, FileInv
  <2>7. ChunkInv'
    BY <1>2, <1>13, <2>1, <2>2 DEF ChunkInv
  <2>8. ReaderInv'
    BY <1>1, <1>2, <1>3, <1>9, <1>13, <2>2 DEF ReaderInv
  <2>. QED
    BY <1>2, <2>3, <2>5, <2>6, <2>7, <2>8 DEF Inv
<1>14. CASE mode = "length"
  <2>1. /\ received' = Len(got') /\ rpc' = "ask" /\ q.left = total - received'
        /\ received' \in 0 .. total
    <3>1. rpc' = "ask"
      BY <1>1, <1>14
    <3>2. received' = received + c /\ received = Len(got) /\ Len(got') = Len(got) + c
      BY <1>5, <1>9, <1>14
    <3>3. f[0].left = total - received
      BY <1>7, <1>14
    <3>4. q.left = (total - received) - c /\ c <= total - received
      BY <1>8, <1>10, <3>3
    <3>5. received \in Nat
      BY <1>11, <3>2
    <3>. QED
      BY <1>3, <3>1, <3>2, <3>4, <3>5
  <2>2. ReaderShapes'
    <3>1. received' \in -1 .. total
      BY <1>3, <2>1
    <3>. QED
      BY <1>1, <1>2, <1>3, <1>9, <1>12, <2>1, <3>1 DEF Inv, Shapes, ReaderShapes
  <2>3. ReaderAt(q)'
    BY <1>2, <1>10, <1>14, <2>1 DEF ReaderAt
  <2>4. WireInv' /\ wire' \in Seq(Tokens)
    <3>1. ReaderAt(f[c])'
      BY <1>10, <2>3
    <3>. QED
      BY <1>2, <1>6, <1>9, <3>1, WireTaken DEF Inv
  <2>5. FileInv' /\ ChunkInv'
    BY <1>2, <1>3, <1>14 DEF Inv, FileInv, ChunkInv
  <2>6. ReaderInv'
    BY <1>1, <1>2, <1>3, <1>5, <1>9, <1>14, <2>1 DEF ReaderInv
  <2>. QED
    BY <1>2, <2>2, <2>4, <2>5, <2>6 DEF Inv
<1>. QED
  BY <1>1, <1>13, <1>14

(* A body that ends with its connection or its file.                       *)
LEMMA UnframedRead ==
  ASSUME Inv, mode \in {"close", "file"}, rpc = "recv", NEW c \in 0 .. Len(wire), Deliver(c),
         want' = 0, rpc' = "ask", UNCHANGED <<message, writer, link, chunk_size>>,
         closed' \in BOOLEAN,
         mode = "file" => (closed' => c = Len(wire))
  PROVE  Inv'
<1>1. /\ UNCHANGED <<mode, total, ssl, script, wpc, handed, link>> /\ WriterInv'
      /\ ReaderShapes' /\ wire' \in Seq(Tokens) => Shapes'
  BY ReaderAlone
<1>2. /\ total \in Nat /\ received \in -1 .. total /\ wire \in Seq(Tokens) /\ handed \in 0 .. total
      /\ link # "missing" /\ chunk_size = -1 /\ received = Len(got) /\ Len(got) \in Nat
  <2>1. /\ total \in Nat /\ received \in -1 .. total /\ wire \in Seq(Tokens) /\ handed \in 0 .. total
        /\ got \in Seq(Nat)
    BY DEF Inv, Shapes
  <2>2. chunk_size = -1 /\ received = Len(got) /\ link # "missing"
    BY DEF Inv, ReaderInv, FileInv
  <2>. QED
    BY <2>1, <2>2
<1>3. PICK f : /\ Spells(wire, handed, f) /\ ReaderAt(f[0]) /\ WriterAt(f[Len(wire)])
               /\ f \in [0 .. Len(wire) -> Places]
  BY AtHand
<1>4. f[0].kind = "chunk" /\ f[0].off = Len(got) /\ f[0].left = total - received
  BY <1>3 DEF ReaderAt
<1>5. c <= f[0].left
  <2>1. Len(wire) <= f[0].left
    <3>1. Layout(mode, total, wire, f) /\ mode \notin {"length", "chunked"} /\ \E S : wire \in Seq(S)
      BY <1>2, <1>3 DEF Spells
    <3>. QED
      BY <1>2, <1>4, <3>1, BytesOnly
  <2>2. f[0].left \in Int /\ Len(wire) \in Nat
    BY <1>2, <1>4
  <2>. QED
    BY <2>1, <2>2
<1>6. /\ got' \in Seq(Nat) /\ got' = [k \in 1 .. Len(got') |-> k]
      /\ Len(got') = Len(got) + c /\ Len(got') <= handed
      /\ received' = received + c /\ wire' = SubSeq(wire, c + 1, Len(wire))
      /\ f[c] = Place("chunk", Len(got) + c, f[0].left - c) /\ f[c] \in Places
  BY <1>3, <1>4, <1>5, BytesDelivered
<1>7. PICK q : q = f[c] /\ q.kind = "chunk" /\ q.off = Len(got') /\ q.left = f[0].left - c
  <2>1. f[c] = Place("chunk", Len(got) + c, f[0].left - c) /\ Len(got') = Len(got) + c
    BY <1>6
  <2>2. f[c].kind = "chunk" /\ f[c].off = Len(got') /\ f[c].left = f[0].left - c
    BY <2>1 DEF Place
  <2>. QED
    BY <2>2
<1>8. received' = Len(got') /\ received' \in 0 .. total /\ q.left = total - received'
  <2>1. received' = received + c /\ q.left = (total - received) - c /\ c <= total - received
    BY <1>4, <1>5, <1>6, <1>7
  <2>2. received \in Nat /\ c \in Nat
    BY <1>2
  <2>. QED
    BY <1>2, <1>6, <2>1, <2>2
<1>9. ReaderAt(f[c])'
  <2>1. ReaderAt(q)'
    BY <1>1, <1>7, <1>8 DEF ReaderAt
  <2>. QED
    BY <1>7, <2>1
<1>10. WireInv' /\ wire' \in Seq(Tokens)
  BY <1>1, <1>3, <1>6, <1>9, WireTaken DEF Inv
<1>11. Shapes'
  <2>1. ReaderShapes'
    <3>1. received' \in -1 .. total /\ want' \in Nat
      BY <1>2, <1>8
    <3>. QED
      BY <1>1, <1>2, <1>6, <3>1 DEF Inv, Shapes, ReaderShapes
  <2>. QED
    BY <1>1, <1>10, <2>1
<1>12. FileInv'
  <2>1. mode = "file" => wpc = "done"
    BY DEF Inv, FileInv
  <2>2. ASSUME mode = "file", closed' PROVE Len(got') = total
    <3>1. f[Len(wire)] = q
      BY <1>7, <2>2
    <3>2. WriterAt(q)
      BY <1>3, <3>1
    <3>3. q.off = handed
      BY <1>2, <2>1, <2>2, <3>2 DEF WriterAt
    <3>4. handed = total
      BY <2>1, <2>2 DEF Inv, WriterInv
    <3>. QED
      BY <1>7, <3>3, <3>4
  <2>. QED
    BY <1>1, <1>2, <2>1, <2>2 DEF Inv, FileInv
<1>13. ChunkInv'
  BY <1>1 DEF ChunkInv
<1>14. ReaderInv'
  BY <1>1, <1>2, <1>6, <1>8 DEF ReaderInv
<1>. QED
  BY <1>1, <1>10, <1>11, <1>12, <1>13, <1>14 DEF Inv

LEMMA RecvSomeStep == ASSUME Inv, RecvSome PROVE Inv'
<1>1. /\ rpc = "recv" /\ mode = "close" /\ want' = 0 /\ rpc' = "ask"
      /\ UNCHANGED <<message, writer, link, chunk_size, closed>>
  BY DEF RecvSome
<1>2. PICK k \in 1 .. Smaller(want, Len(wire)) : Deliver(k)
  BY DEF RecvSome
<1>3. want \in Nat /\ wire \in Seq(Tokens) /\ closed \in BOOLEAN
  BY DEF Inv, Shapes
<1>4. k \in 0 .. Len(wire)
  <2>1. Len(wire) \in Nat
    BY <1>3
  <2>. QED
    BY <1>3, <2>1 DEF Smaller
<1>. QED
  BY <1>1, <1>2, <1>3, <1>4, UnframedRead

LEMMA ReadFileStep == ASSUME Inv, ReadFile PROVE Inv'
<1>1. /\ rpc = "recv" /\ mode = "file" /\ want' = 0 /\ rpc' = "ask"
      /\ Deliver(IF link = "disk" THEN Smaller(want, Len(wire)) ELSE 0)
      /\ closed' = (link = "disk" /\ Len(wire) < want)
      /\ UNCHANGED <<message, writer, link, chunk_size>>
  BY DEF ReadFile
<1>2. want \in Nat /\ wire \in Seq(Tokens) /\ Len(wire) \in Nat
  <2>1. want \in Nat /\ wire \in Seq(Tokens)
    BY DEF Inv, Shapes
  <2>. QED
    BY <2>1
<1>3. PICK c \in 0 .. Len(wire) : /\ c = IF link = "disk" THEN Smaller(want, Len(wire)) ELSE 0
                                  /\ closed' => c = Len(wire)
  <2> DEFINE n == IF link = "disk" THEN Smaller(want, Len(wire)) ELSE 0
  <2>1. n \in 0 .. Len(wire)
    BY <1>2 DEF Smaller
  <2>2. closed' => n = Len(wire)
    <3>1. closed' => link = "disk" /\ Len(wire) < want
      BY <1>1
    <3>. QED
      BY <1>2, <3>1 DEF Smaller
  <2>. HIDE DEF n
  <2>3. \E c \in 0 .. Len(wire) : c = n /\ (closed' => c = Len(wire))
    BY <2>1, <2>2
  <2>. QED
    BY <2>3 DEF n
<1>4. Deliver(c) /\ closed' \in BOOLEAN
  BY <1>1, <1>3
<1>. QED
  BY <1>1, <1>3, <1>4, UnframedRead

LEMMA RecvEndStep == ASSUME Inv, RecvEnd PROVE Inv'
<1>1. /\ rpc = "recv" /\ mode = "close" /\ closed' = TRUE /\ want' = 0 /\ rpc' = "ask"
      /\ UNCHANGED <<message, writer, link>> /\ UNCHANGED <<wire, chunk_size, received, got>>
  BY DEF RecvEnd
<1>2. /\ UNCHANGED <<mode, total, ssl, script, wpc, handed, link>> /\ WriterInv'
      /\ ReaderShapes' /\ wire' \in Seq(Tokens) => Shapes'
      /\ \A p : WriterAt(p) => WriterAt(p)'
  BY <1>1, ReaderAlone
<1>3. wire \in Seq(Tokens)
  BY DEF Inv, Shapes
<1>4. Shapes'
  <2>1. ReaderShapes'
    BY <1>1, <1>2 DEF Inv, Shapes, ReaderShapes
  <2>. QED
    BY <1>1, <1>2, <1>3, <2>1
<1>5. FileInv' /\ ChunkInv'
  BY <1>1, <1>2 DEF Inv, FileInv, ChunkInv
<1>6. ReaderInv'
  BY <1>1, <1>2 DEF Inv, ReaderInv
<1>7. \A p : ReaderAt(p) => ReaderAt(p)'
  BY <1>1, <1>2 DEF ReaderAt
<1>. QED
  BY <1>1, <1>2, <1>4, <1>5, <1>6, <1>7, WireSame DEF Inv

LEMMA StutterStep == ASSUME Inv, UNCHANGED vars PROVE Inv'
<1>1. /\ UNCHANGED <<message, writer, reader, wire, link>>
      /\ UNCHANGED <<mode, ssl, total, script, wpc, handed, rpc, want, chunk_size, received, closed, got>>
  BY DEF vars, message, writer, reader
<1>2. Shapes'
  <2>1. Tokens' = Tokens
    BY <1>1 DEF Tokens
  <2>. QED
    BY <1>1, <2>1 DEF Inv, Shapes
<1>3. WriterInv' /\ FileInv' /\ ChunkInv' /\ ReaderInv'
  BY <1>1 DEF Inv, WriterInv, FileInv, ChunkInv, ReaderInv
<1>4. \A p : (ReaderAt(p) => ReaderAt(p)') /\ (WriterAt(p) => WriterAt(p)')
  BY <1>1 DEF ReaderAt, WriterAt, Size
<1>. QED
  BY <1>1, <1>2, <1>3, <1>4, WireSame DEF Inv

LEMMA NextInv == ASSUME Inv, [Next]_vars PROVE Inv'
<1>1. CASE Writer
  BY <1>1, SendChunkSizeStep, SendBodyStep, SendChunkEndStep, FlushStep DEF Writer
<1>2. CASE Garble \/ NextMessage \/ Close \/ Break \/ DiskFails
  BY <1>2, GarbleStep, NextMessageStep, CloseStep, BreakStep, DiskFailsStep
<1>3. CASE Reader
  BY <1>3, OpenFileStep, ReadFileStep, ReadStep, EndOfStreamStep, SkipLineEndStep, ReadChunkSizeStep,
     NoChunkSizeStep, RecvForcedStep, RecvSomeStep, RecvEndStep, RecvFailsStep DEF Reader
<1>4. CASE UNCHANGED vars
  BY <1>4, StutterStep
<1>. QED
  BY <1>1, <1>2, <1>3, <1>4 DEF Next

(* What the two ends and the wire between them have to do with each other. *)
THEOREM Invariance == Spec => []Inv
<1>1. Init => Inv
  BY InitInv
<1>2. Inv /\ [Next]_vars => Inv'
  BY NextInv
<1>. QED
  BY <1>1, <1>2, PTL DEF Spec

-----------------------------------------------------------------------------
(* Types and ranges, and that hsocket_recv is never called for less than a *)
(* byte or for more than the caller's buffer has room for.                 *)
THEOREM TypeCorrect == Spec => []TypeOK
<1>1. ASSUME Inv PROVE TypeOK
  <2>1. /\ total \in Nat /\ handed \in 0 .. total /\ want \in Nat /\ got \in Seq(Nat)
        /\ chunk_size \in -2 .. total /\ received \in -1 .. total
    BY <1>1 DEF Inv, Shapes
  <2>2. got \in Seq(0 .. total)
    <3>1. got = [k \in 1 .. Len(got) |-> k]
      BY <1>1 DEF Inv, ReaderInv
    <3>2. PICK n \in Nat : n = Len(got) /\ n <= total
      <4>1. Len(got) \in Nat /\ total \in Nat /\ handed \in Nat /\ handed <= total
        BY <2>1
      <4>2. Len(got) <= handed
        BY <1>1 DEF Inv, ReaderInv
      <4>. QED
        BY <4>1, <4>2
    <3>3. got \in [1 .. n -> 0 .. total]
      <4>1. \A k \in 1 .. n : k \in 0 .. total
        BY <2>1, <3>2
      <4>2. [k \in 1 .. n |-> k] \in [1 .. n -> 0 .. total]
        BY <4>1
      <4>. QED
        BY <3>1, <3>2, <4>2
    <3>4. \A T : \A s \in [1 .. n -> T] : s \in Seq(T)
      OBVIOUS
    <3>. QED
      BY <3>3, <3>4, Zenon
  <2>3. ASSUME rpc = "recv" PROVE Forced \in 1 .. want
    <3>1. want > 0
      BY <1>1, <2>3 DEF Inv, ReaderInv
    <3>2. CASE mode = "chunked"
      <4>1. chunk_size > 0 /\ received \in 0 .. chunk_size /\ received < chunk_size
        BY <1>1, <2>1, <2>3, <3>2 DEF Inv, ChunkInv
      <4>. QED
        BY <2>1, <3>1, <3>2, <4>1 DEF Forced, Smaller
    <3>3. CASE mode # "chunked"
      BY <2>1, <3>1, <3>3 DEF Forced
    <3>. QED
      BY <3>2, <3>3
  <2>. QED
    BY <1>1, <2>1, <2>2, <2>3 DEF Inv, Shapes, TypeOK
<1>. QED
  BY <1>1, Invariance, PTL

(* The next message of the connection is where its parser expects it, for  *)
(* a reader that is done: http_input_stream_read took not a byte too many. *)
THEOREM NextLeftIntact == Spec => []NextIntact
<1>1. ASSUME Inv PROVE NextIntact
  <2>. SUFFICES ASSUME rpc = "complete", wpc = "next"
               PROVE  wire = IF mode = "chunked" THEN <<Crlf, NextStart>> ELSE <<NextStart>>
    BY DEF NextIntact
  <2>1. /\ mode \in {"length", "chunked"} /\ wire \in Seq(Tokens) /\ total \in Nat
        /\ link # "missing" /\ Len(wire) \in Nat
    <3>1. mode \in {"length", "chunked"} /\ link # "missing"
      BY <1>1 DEF Inv, WriterInv, FileInv
    <3>2. wire \in Seq(Tokens) /\ total \in Nat
      BY <1>1 DEF Inv, Shapes
    <3>. QED
      BY <3>1, <3>2
  <2>2. Len(got) = total /\ (mode = "chunked" => chunk_size = 0) /\ (mode = "length" => received = Len(got))
    BY <1>1, <2>1 DEF Inv, ReaderInv
  <2>3. PICK f : /\ Layout(mode, total, wire, f) /\ ReaderAt(f[0]) /\ WriterAt(f[Len(wire)])
    BY <1>1 DEF Inv, WireInv, Spells
  <2>4. \A i \in 1 .. Len(wire) : Fits(mode, total, wire[i], f[i - 1], f[i])
    BY <2>3 DEF Layout
  <2>5. f[Len(wire)].kind = "over"
    BY <2>1, <2>3 DEF WriterAt
  <2>6. /\ \A n \in Nat : n # 0 => 1 \in 1 .. n /\ 1 - 1 = 0
        /\ \A n \in Nat : n # 0 /\ n # 1 => 2 \in 1 .. n /\ 2 - 1 = 1
        /\ \A n \in Nat : n # 0 /\ n # 1 /\ n # 2 => 3 \in 1 .. n /\ 3 - 1 = 2
    OBVIOUS
  <2>7. CASE mode = "length"
    <3>1. f[0].kind = "chunk" /\ f[0].left = 0
      BY <2>1, <2>2, <2>3, <2>7 DEF ReaderAt
    <3>2. Len(wire) # 0
      BY <2>5, <3>1
    <3>3. Fits(mode, total, wire[1], f[0], f[1])
      <4>1. 1 \in 1 .. Len(wire) /\ 1 - 1 = 0
        BY <2>1, <2>6, <3>2, Zenon
      <4>. QED
        BY <2>4, <4>1
    <3>4. wire[1] = NextStart /\ f[1].kind = "over"
      BY <2>7, <3>1, <3>3 DEF Fits, Place
    <3>5. Len(wire) = 1
      <4>. SUFFICES ASSUME Len(wire) # 1 PROVE FALSE
        OBVIOUS
      <4>1. 2 \in 1 .. Len(wire) /\ 2 - 1 = 1
        BY <2>1, <2>6, <3>2, Zenon
      <4>2. Fits(mode, total, wire[2], f[1], f[2])
        BY <2>4, <4>1
      <4>. QED
        BY <3>4, <4>2 DEF Fits
    <3>6. wire = <<NextStart>>
      BY <2>1, <3>4, <3>5
    <3>. QED
      BY <2>7, <3>6
  <2>8. CASE mode = "chunked"
    <3>1. f[0].kind = "last"
      BY <2>1, <2>2, <2>3, <2>8 DEF ReaderAt
    <3>2. Len(wire) # 0
      BY <2>5, <3>1
    <3>3. Fits(mode, total, wire[1], f[0], f[1])
      <4>1. 1 \in 1 .. Len(wire) /\ 1 - 1 = 0
        BY <2>1, <2>6, <3>2, Zenon
      <4>. QED
        BY <2>4, <4>1
    <3>4. wire[1] = Crlf /\ f[1].kind = "next"
      BY <2>8, <3>1, <3>3 DEF Fits, Place
    <3>5. Len(wire) # 1
      BY <2>5, <3>4
    <3>6. 2 \in 1 .. Len(wire) /\ 2 - 1 = 1
      BY <2>1, <2>6, <3>2, <3>5, Zenon
    <3>7. Fits(mode, total, wire[2], f[1], f[2])
      BY <2>4, <3>6
    <3>8. wire[2] = NextStart /\ f[2].kind = "over"
      BY <2>8, <3>4, <3>7 DEF Fits, Place
    <3>9. Len(wire) = 2
      <4>. SUFFICES ASSUME Len(wire) # 2 PROVE FALSE
        OBVIOUS
      <4>1. 3 \in 1 .. Len(wire) /\ 3 - 1 = 2
        BY <2>1, <2>6, <3>2, <3>5, Zenon
      <4>2. Fits(mode, total, wire[3], f[2], f[3])
        BY <2>4, <4>1
      <4>. QED
        BY <3>8, <4>2 DEF Fits
    <3>10. wire = <<Crlf, NextStart>>
      BY <2>1, <3>4, <3>8, <3>9
    <3>. QED
      BY <2>8, <3>10
  <2>. QED
    BY <2>1, <2>7, <2>8
<1>. QED
  BY <1>1, Invariance, PTL

-----------------------------------------------------------------------------
(* The streams implement the byte channel: each step hands bytes over,     *)
(* delivers the next ones, settles the verdict, or shows nothing.          *)
Done == {"complete", "error", "wild"}

LEMMA HandsOver ==
  ASSUME UNCHANGED <<mode, total, got, rpc>>, link' = "missing" <=> link = "missing",
         total \in Nat, handed \in 0 .. total, handed' \in 0 .. total, handed <= handed'
  PROVE  [Channel!ChanNext]_Channel!chanVars
<1>1. CASE handed' = handed
  BY <1>1 DEF Channel!chanVars
<1>2. CASE handed' # handed
  <2>1. handed' \in handed + 1 .. total
    BY <1>2
  <2>. QED
    BY <2>1 DEF Channel!ChanNext, Channel!Hand
<1>. QED
  BY <1>1, <1>2

LEMMA Delivers ==
  ASSUME UNCHANGED <<mode, total, handed, link>>, rpc \notin Done, rpc' \notin Done,
         NEW n \in Nat, NEW m \in Nat, n <= m, m <= handed, handed \in Nat,
         got = [k \in 1 .. n |-> k], got' = [k \in 1 .. m |-> k], Len(got) = n
  PROVE  [Channel!ChanNext]_Channel!chanVars
<1>1. CASE m = n
  BY <1>1 DEF Channel!chanVars, Done
<1>2. CASE m # n
  <2>1. m \in Len(got) + 1 .. handed
    BY <1>2
  <2>. QED
    BY <2>1 DEF Channel!ChanNext, Channel!Deliver, Done
<1>. QED
  BY <1>1, <1>2

LEMMA Settles ==
  ASSUME UNCHANGED <<mode, total, handed, link, got>>, rpc \notin Done,
         rpc' = "complete" => mode = "close" \/ link = "missing" \/ Len(got) = total
  PROVE  [Channel!ChanNext]_Channel!chanVars
<1>1. CASE rpc' \notin Done
  BY <1>1 DEF Channel!chanVars, Done
<1>2. CASE rpc' = "complete"
  BY <1>2 DEF Channel!ChanNext, Channel!Complete, Done
<1>3. CASE rpc' \in {"error", "wild"}
  BY <1>3 DEF Channel!ChanNext, Channel!Fail, Done
<1>. QED
  BY <1>1, <1>2, <1>3 DEF Done

LEMMA NothingTakenBack ==
  ASSUME got \in Seq(Nat), NEW k \in Nat, Deliver(k)
  PROVE  Len(got) <= Len(got')
<1> DEFINE d == [i \in 1 .. k |-> IF wire[i].kind = "data" THEN wire[i].n ELSE 0]
           T == Nat \cup {d[i] : i \in 1 .. k}
<1>1. d \in [1 .. k -> T] /\ got' = got \o d /\ Nat \subseteq T
  BY DEF Deliver
<1>. HIDE DEF d, T
<1>2. d \in Seq(T) /\ got \in Seq(T)
  BY <1>1
<1>3. Len(got') = Len(got) + Len(d) /\ Len(d) \in Nat /\ Len(got) \in Nat
  BY <1>1, <1>2
<1>. QED
  BY <1>3

LEMMA StepRefines ==
  ASSUME Inv, Inv', [Next]_vars
  PROVE  [Channel!ChanNext]_Channel!chanVars
<1>1. /\ total \in Nat /\ handed \in 0 .. total /\ handed \in Nat /\ wire \in Seq(Tokens)
      /\ got \in Seq(Nat) /\ script \in Seq(Nat)
  BY DEF Inv, Shapes
<1>2. got = [k \in 1 .. Len(got) |-> k] /\ got' = [k \in 1 .. Len(got') |-> k]
  BY DEF Inv, ReaderInv
<1>3. Len(got') <= handed'
  BY DEF Inv, ReaderInv
<1>4. handed' \in 0 .. total' /\ got' \in Seq(Nat)
  BY DEF Inv, Shapes
<1>5. rpc' = "complete" => mode' = "close" \/ link' = "missing" \/ Len(got') = total'
  BY DEF Inv, ReaderInv
<1>6. CASE SendChunkSize \/ SendChunkEnd \/ Flush \/ NextMessage \/ Garble \/ Close \/ DiskFails
  <2>1. /\ UNCHANGED <<mode, total, handed, got, rpc>>
        /\ link' = link \/ (link \in {"up", "disk"} /\ link' \in {"eof", "bad"})
    BY <1>6 DEF SendChunkSize, SendChunkEnd, Flush, NextMessage, Garble, Close, DiskFails,
       message, writer, reader
  <2>2. link' = "missing" <=> link = "missing"
    BY <2>1
  <2>3. handed <= handed'
    BY <1>1, <2>1
  <2>. QED
    BY <1>1, <1>4, <2>1, <2>2, <2>3, HandsOver
<1>7. CASE SendBody
  <2>1. /\ UNCHANGED <<mode, total, got, rpc, link>> /\ handed' = Head(script) /\ script # << >>
        /\ wpc # "failed"
    BY <1>7 DEF SendBody, BodyNext, message, reader, Inv, WriterInv
  <2>2. Head(script) = script[1] /\ 1 \in 1 .. Len(script)
    BY <1>1, <2>1
  <2>3. handed <= handed'
    BY <2>1, <2>2 DEF Inv, WriterInv
  <2>. QED
    BY <1>1, <1>4, <2>1, <2>3, HandsOver
<1>8. CASE Break
  <2>1. /\ UNCHANGED <<mode, total, got, rpc>> /\ link = "up" /\ link' \in {"eof", "reset"}
        /\ \E k \in 0 .. (IF BodyNext THEN Size ELSE 0) : handed' = handed + k
    BY <1>8 DEF Break, message, reader
  <2>2. handed <= handed'
    <3>1. PICK k \in 0 .. (IF BodyNext THEN Size ELSE 0) : handed' = handed + k
      BY <2>1
    <3>2. k \in Int /\ 0 <= k
      OBVIOUS
    <3>. QED
      BY <1>1, <3>1, <3>2
  <2>. QED
    BY <1>1, <1>4, <2>1, <2>2, HandsOver
<1>9. CASE OpenFile
  <2>1. UNCHANGED <<mode, total, got, rpc, link>> /\ handed' = total
    BY <1>9 DEF OpenFile, message, reader
  <2>2. handed <= handed'
    BY <1>1, <2>1
  <2>. QED
    BY <1>1, <1>4, <2>1, <2>2, HandsOver
<1>10. CASE RecvForced \/ RecvSome \/ ReadFile
  <2>1. /\ UNCHANGED <<mode, total, handed, link>> /\ rpc = "recv"
        /\ rpc' \notin Done
    <3>1. UNCHANGED <<mode, total, handed, link>> /\ rpc = "recv"
      BY <1>10 DEF RecvForced, RecvSome, ReadFile, message, writer
    <3>2. rpc' \in {"ask", "recv", "line", "skip"}
      BY <1>10 DEF RecvForced, RecvSome, ReadFile, Turn
    <3>. QED
      BY <3>1, <3>2 DEF Done
  <2>2. PICK k \in Nat : Deliver(k)
    <3>1. /\ want \in Nat /\ received \in -1 .. total /\ chunk_size \in -2 .. total
          /\ Len(wire) \in Nat
      <4>1. want \in Nat /\ received \in -1 .. total /\ chunk_size \in -2 .. total
        BY DEF Inv, Shapes
      <4>. QED
        BY <1>1, <4>1
    <3>2. CASE RecvForced
      <4>1. Forced \in Nat
        <5>1. mode = "chunked" => received \in 0 .. chunk_size
          BY <2>1, <3>1 DEF Inv, ChunkInv, Done
        <5>. QED
          BY <3>1, <5>1 DEF Forced, Smaller
      <4>. QED
        BY <3>2, <4>1 DEF RecvForced
    <3>3. CASE RecvSome
      <4>1. 1 .. Smaller(want, Len(wire)) \subseteq Nat
        OBVIOUS
      <4>. QED
        BY <3>3, <4>1 DEF RecvSome
    <3>4. CASE ReadFile
      <4>1. (IF link = "disk" THEN Smaller(want, Len(wire)) ELSE 0) \in Nat
        BY <3>1 DEF Smaller
      <4>. QED
        BY <3>4, <4>1 DEF ReadFile
    <3>. QED
      BY <1>10, <3>2, <3>3, <3>4
  <2>3. PICK n \in Nat, m \in Nat : n = Len(got) /\ m = Len(got') /\ n <= m
    <3>1. Len(got) \in Nat /\ Len(got') \in Nat
      BY <1>1, <1>4
    <3>2. Len(got) <= Len(got')
      BY <1>1, <2>2, NothingTakenBack
    <3>. QED
      BY <3>1, <3>2
  <2>4. m <= handed /\ got = [k1 \in 1 .. n |-> k1] /\ got' = [k1 \in 1 .. m |-> k1]
    BY <1>2, <1>3, <2>1, <2>3
  <2>. QED
    BY <1>1, <2>1, <2>3, <2>4, Delivers DEF Done
<1>11. CASE \/ \E size \in ReadSizes : Read(size)
            \/ EndOfStream \/ SkipLineEnd \/ ReadChunkSize \/ NoChunkSize \/ RecvEnd \/ RecvFails
  <2>1. UNCHANGED <<mode, total, handed, link, got>> /\ rpc \in {"ask", "skip", "line", "recv"}
    BY <1>11 DEF Read, EndOfStream, SkipLineEnd, ReadChunkSize, NoChunkSize, RecvEnd, RecvFails,
       Starved, message, writer
  <2>2. rpc' = "complete" => mode = "close" \/ link = "missing" \/ Len(got) = total
    BY <1>5, <2>1
  <2>. QED
    BY <2>1, <2>2, Settles DEF Done
<1>12. CASE UNCHANGED vars
  BY <1>12 DEF vars, message, writer, reader, Channel!chanVars
<1>. QED
  BY <1>6, <1>7, <1>8, <1>9, <1>10, <1>11, <1>12 DEF Next, Writer, Reader

THEOREM Refinement == Spec => ImplementsChannel
<1>1. Init => Channel!ChanInit
  BY StreamAssumption DEF Init, Channel!ChanInit
<1>2. Inv /\ Inv' /\ [Next]_vars => [Channel!ChanNext]_Channel!chanVars
  BY StepRefines
<1>. QED
  BY <1>1, <1>2, Invariance, PTL DEF Spec, ImplementsChannel, Channel!ChanSpec

=============================================================================
