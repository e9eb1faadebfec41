------------------------- MODULE EventReadingProofs --------------------------
(***************************************************************************)
(* An event whose qwords are those of its layout, as far as there was space *)
(* for them, is read as what it was emitted for: its color, context, name   *)
(* and arguments, for events of any length and both formats, wherever they  *)
(* are cut.                                                                 *)
(***************************************************************************)
EXTENDS EventReading, EventBlockProofs
-----------------------------------------------------------------------------
(* A string ends at its first terminator, and holds no end marker.          *)
IsTerminator(cell) == cell.kind = "zero" \/ (cell.kind = "chars" /\ cell.last)
IsText(s) ==
    /\ Len(s) \in Nat \ {0}
    /\ \A j \in 1 .. Len(s) : s[j] # Marker /\ (IsTerminator(s[j]) <=> j = Len(s))

\* The name of an event is one.
LEMMA NamesAreText ==
    ASSUME NEW e, Emitted(e), e.request.type # "end"
    PROVE  IsText(FormatText(e))
<1> DEFINE k == e.request.format
<1>1. k \in Nat
  BY DEF Emitted
<1>2. CASE k = 0
  <2>1. FormatText(e) = <<Zero>>
    BY <1>2 DEF FormatText
  <2>2. Zero # Marker /\ IsTerminator(Zero)
    BY DEF Zero, Marker, IsTerminator
  <2>3. Len(<<Zero>>) = 1 /\ <<Zero>>[1] = Zero
    OBVIOUS
  <2> HIDE DEF k
  <2> QED
    BY <2>1, <2>2, <2>3 DEF IsText
<1>3. CASE k # 0
  <2> DEFINE s == [i \in 1 .. k |-> Chars(e.number, FormatPart, i, k, e.request.specs)]
  <2>1. FormatText(e) = s
    BY <1>3 DEF FormatText, CharsOf
  <2>2. Len(s) = k /\ DOMAIN s = 1 .. k
    BY <1>1
  <2>3. ASSUME NEW j \in 1 .. k PROVE s[j] # Marker /\ (IsTerminator(s[j]) <=> j = k)
    <3>1. s[j].kind = "chars" /\ s[j].last = (j = k)
      BY DEF Chars
    <3>2. Marker.kind = "marker"
      BY DEF Marker
    <3> HIDE DEF s
    <3> QED
      BY <3>1, <3>2 DEF IsTerminator
  <2> HIDE DEF s
  <2> QED
    BY <1>1, <1>3, <2>1, <2>2, <2>3 DEF IsText
<1> QED
  BY <1>2, <1>3

(* The first k qwords of a string are there from an offset on, and unless   *)
(* they are all, the end behind them.                                       *)
IsStored(cells, s, k, at, limit) ==
    /\ at \in Nat /\ limit \in Nat /\ k \in Nat \ {0} /\ k <= Len(s) /\ at + k <= limit
    /\ \A j \in 1 .. k : cells[at + j - 1] = s[j]
    /\ k < Len(s) => AtEnd(cells, at + k, limit)

\* They are what is read.
LEMMA TextRead ==
    ASSUME NEW cells, NEW s, IsText(s), NEW k, NEW at, NEW limit,
           IsStored(cells, s, k, at, limit), NEW chunk
    PROVE  /\ ~AtEnd(cells, at, limit)
           /\ Text(cells, at, limit, chunk).text = SubSeq(s, 1, k)
           /\ Text(cells, at, limit, chunk).used = chunk * ((k + chunk - 1) \div chunk)
<1> DEFINE n == Len(s)
           Ending(i) == AtEnd(cells, i, limit) \/ (i > at /\ Terminates(cells, i - 1))
           Endings == {i \in at .. limit : Ending(i)}
<1>1. /\ at \in Nat /\ k \in Nat \ {0} /\ n \in Nat /\ k <= n /\ at + k <= limit
      /\ limit \in Nat
  BY DEF IsStored, IsText
<1>2. ASSUME NEW j \in 1 .. k
      PROVE  /\ cells[at + j - 1] = s[j] /\ s[j] # Marker
             /\ Terminates(cells, at + j - 1) <=> j = n
  <2>1. j \in 1 .. n
    BY <1>1
  <2>2. cells[at + j - 1] = s[j] /\ s[j] # Marker /\ (IsTerminator(s[j]) <=> j = Len(s))
    BY <2>1 DEF IsStored, IsText
  <2> QED
    BY <2>2 DEF IsTerminator, Terminates
<1>3. ASSUME NEW i \in at .. at + k - 1 PROVE ~Ending(i)
  <2> DEFINE j == i - at + 1
  <2>1. j \in 1 .. k /\ at + j - 1 = i /\ i < limit
    BY <1>1
  <2>2. cells[i] # Marker
    BY <1>2, <2>1
  <2>3. ~AtEnd(cells, i, limit)
    BY <1>1, <2>1, <2>2 DEF AtEnd
  <2>4. ASSUME i > at PROVE ~Terminates(cells, i - 1)
    <3>1. j - 1 \in 1 .. k /\ at + (j - 1) - 1 = i - 1 /\ j - 1 # n
      BY <1>1, <2>1, <2>4
    <3> HIDE DEF j
    <3> QED
      BY <1>2, <3>1
  <2> QED
    BY <2>3, <2>4
<1>4. Ending(at + k)
  <2>1. CASE k < n
    BY <2>1 DEF IsStored
  <2>2. CASE k = n
    <3>1. k \in 1 .. k /\ at + k > at
      BY <1>1
    <3>2. Terminates(cells, at + k - 1)
      BY <1>2, <2>2, <3>1
    <3>3. (at + k) - 1 = at + k - 1
      BY <1>1
    <3> QED
      BY <3>1, <3>2, <3>3, Zenon
  <2> QED
    BY <1>1, <2>1, <2>2
<1> HIDE DEF Ending
<1>5. at + k \in Endings /\ \A i \in Endings : at + k <= i
  BY <1>1, <1>3, <1>4
<1>6. Endings \subseteq Nat
  BY <1>1
<1>7. Min(Endings) = at + k
  <2> HIDE DEF Endings
  <2>1. \A x \in Endings : (\A y \in Endings : x <= y) <=> x = at + k
    BY <1>1, <1>5, <1>6
  <2> QED
    BY <1>5, <2>1 DEF Min
<1>8. StringEnd(cells, at, limit) = at + k
  BY <1>7 DEF StringEnd, Endings, Ending
<1>9. StringEnd(cells, at, limit) - at = k
  BY <1>1, <1>8
<1>10. [i \in 1 .. k |-> cells[at + i - 1]] = SubSeq(s, 1, k)
  <2>1. \A i \in 1 .. k : cells[at + i - 1] = s[i]
    BY <1>2
  <2> QED
    BY <1>1, <2>1
<1>11. ~AtEnd(cells, at, limit)
  BY <1>1, <1>3 DEF Ending
<1> QED
  BY <1>9, <1>10, <1>11 DEF Text

\* The characters of a string are one.
LEMMA CharsAreText ==
    ASSUME NEW n, NEW part, NEW k \in Nat \ {0}, NEW specs
    PROVE  IsText([i \in 1 .. k |-> Chars(n, part, i, k, specs)])
<1> DEFINE s == [i \in 1 .. k |-> Chars(n, part, i, k, specs)]
<1>1. Len(s) = k
  OBVIOUS
<1>2. ASSUME NEW j \in 1 .. k PROVE s[j] # Marker /\ (IsTerminator(s[j]) <=> j = k)
  <2>1. s[j].kind = "chars" /\ s[j].last = (j = k)
    BY DEF Chars
  <2>2. Marker.kind = "marker"
    BY DEF Marker
  <2> HIDE DEF s
  <2> QED
    BY <2>1, <2>2 DEF IsTerminator
<1> HIDE DEF s
<1> QED
  BY <1>1, <1>2 DEF s, IsText

(* The first m qwords of a string with its string info are there from an    *)
(* offset on, and unless they are all, the end behind them.                 *)
IsStoredString(cells, e, part, s, m, p, limit) ==
    LET whole == StringOf(e, part, s)
    IN  /\ Emitted(e) /\ IsText(s) /\ (\E S : s \in Seq(S))
        /\ m \in Nat /\ p \in Nat /\ limit \in Nat /\ m <= Len(whole) /\ p + m <= limit
        /\ \A k \in 1 .. m : cells[p + k - 1] = whole[k]
        /\ m < Len(whole) => AtEnd(cells, p + m, limit)

(* What is read of it: of the string what is behind the string info, and    *)
(* all qwords are used as soon as there is the end of the string.           *)
IsReadString(read, e, part, s, m) ==
    IF m <= 1
    THEN read = NothingRead
    ELSE \E k \in 1 .. Len(s) :
            /\ read.text = SubSeq(s, 1, k) /\ read.used \in Nat
            /\ IF m - 1 < Len(s)
               THEN k = m - 1 /\ read.used >= m
               ELSE k = Len(s) /\ read.used = Len(StringOf(e, part, s))

LEMMA StringRead ==
    ASSUME NEW cells, NEW e, NEW part, NEW s, NEW m, NEW p, NEW limit,
           IsStoredString(cells, e, part, s, m, p, limit)
    PROVE  IsReadString(ReadArgumentString(cells, p, limit), e, part, s, m)
<1> DEFINE whole == StringOf(e, part, s)
           info == StringInfo(e.number, part, ChunkOf(e))
           chunk == ChunkOf(e)
           n == Len(s)
           w == Chunks(n, chunk) * chunk
           read == ReadArgumentString(cells, p, limit)
<1>0. Emitted(e) /\ IsText(s) /\ \E S : s \in Seq(S)
  BY DEF IsStoredString
<1>1. /\ m \in Nat /\ p \in Nat /\ limit \in Nat /\ m <= Len(whole) /\ p + m <= limit
      /\ \A k \in 1 .. m : cells[p + k - 1] = whole[k]
      /\ m < Len(whole) => AtEnd(cells, p + m, limit)
  BY DEF IsStoredString
<1>2. n \in Nat \ {0} /\ chunk \in {1, 2}
  BY <1>0 DEF IsText, Emitted
<1>3. /\ w \in n .. n + chunk - 1 /\ Len(whole) = 1 + w /\ whole[1] = info
      /\ \A i \in 1 .. w : whole[1 + i] = IF i <= n THEN s[i] ELSE Padding
  <2>1. PICK S : s \in Seq(S)
    BY <1>0
  <2> QED
    BY <1>0, <2>1, StringPlaces
<1>4. w \in Nat \ {0}
  BY <1>2, <1>3
<1>5. info.kind = "info" /\ info.chunk = chunk
  BY DEF StringInfo
<1>6. CASE m = 0
  <2>1. AtEnd(cells, p, limit)
    BY <1>1, <1>3, <1>4, <1>6
  <2>2. p >= limit \/ cells[p].kind # "info"
    BY <2>1 DEF AtEnd, Marker
  <2>3. read = NothingRead
    BY <2>2 DEF ReadArgumentString
  <2> QED
    BY <1>6, <2>3 DEF IsReadString
<1>7. CASE m = 1
  <2>1. AtEnd(cells, p + 1, limit)
    BY <1>1, <1>3, <1>4, <1>7
  <2>2. read = NothingRead
    BY <2>1 DEF ReadArgumentString
  <2> QED
    BY <1>7, <2>2 DEF IsReadString
<1>8. CASE m > 1
  <2> DEFINE k == IF m - 1 < n THEN m - 1 ELSE n
             text == Text(cells, p + 1, limit, chunk)
             used == chunk * ((k + chunk - 1) \div chunk)
  <2> HIDE DEF whole, info, chunk, n, w, read
  <2>1. k \in Nat \ {0} /\ k <= n /\ k <= m - 1 /\ (k < n => k = m - 1)
    BY <1>1, <1>2, <1>8
  <2>2. p < limit /\ cells[p] = info
    <3>1. p < limit /\ 1 \in 1 .. m /\ p + 1 - 1 = p
      BY <1>1, <1>8
    <3>2. cells[p + 1 - 1] = whole[1]
      BY <1>1, <3>1
    <3> QED
      BY <1>3, <3>1, <3>2
  <2> HIDE DEF k
  <2>3. IsStored(cells, s, k, p + 1, limit)
    <3>1. ASSUME NEW j \in 1 .. k PROVE cells[(p + 1) + j - 1] = s[j]
      <4>1. /\ 1 + j \in 1 .. m /\ j \in 1 .. w /\ j <= n
            /\ (p + 1) + j - 1 = p + (1 + j) - 1
        BY <1>1, <1>2, <1>3, <1>4, <2>1
      <4>2. cells[p + (1 + j) - 1] = whole[1 + j]
        BY <1>1, <4>1
      <4>3. whole[1 + j] = s[j]
        BY <1>3, <4>1
      <4> QED
        BY <4>1, <4>2, <4>3
    <3>2. k < n => AtEnd(cells, (p + 1) + k, limit)
      <4>1. k < n => m < Len(whole) /\ (p + 1) + k = p + m
        BY <1>1, <1>2, <1>3, <1>4, <2>1
      <4> QED
        BY <1>1, <4>1
    <3>3. p + 1 \in Nat /\ (p + 1) + k <= limit
      BY <1>1, <2>1
    <3> QED
      BY <1>1, <2>1, <3>1, <3>2, <3>3 DEF IsStored, n
  <2>4. ~AtEnd(cells, p + 1, limit) /\ text.text = SubSeq(s, 1, k) /\ text.used = used
    BY <1>0, <2>3, TextRead
  <2>5. read = [text EXCEPT !.used = @ + 1]
    BY <1>1, <1>5, <2>2, <2>4 DEF ReadArgumentString, read
  <2>6. read.text = SubSeq(s, 1, k) /\ read.used = used + 1
    <3>1. text.used = used /\ DOMAIN text = {"used", "text"}
      BY <2>4 DEF Text
    <3> HIDE DEF text, used
    <3> QED
      BY <2>4, <2>5, <3>1
  <2>7. used \in Nat /\ used >= k /\ (k = n => used = w)
    <3>1. used = chunk * Chunks(k, chunk)
      BY DEF Chunks
    <3>2. Chunks(k, chunk) \in Nat /\ Chunks(k, chunk) * chunk \in k .. k + chunk - 1
      BY <1>2, <2>1, ChunkBounds
    <3> HIDE DEF used
    <3>3. used = Chunks(k, chunk) * chunk
      BY <1>2, <3>1, <3>2
    <3> QED
      BY <1>2, <2>1, <3>2, <3>3 DEF w
  <2> HIDE DEF used
  <2>8. read.used \in Nat
    BY <2>6, <2>7
  <2>9. IF m - 1 < n THEN k = m - 1 /\ read.used >= m ELSE k = n /\ read.used = Len(whole)
    <3>1. CASE m - 1 < n
      <4>1. k = m - 1
        BY <3>1 DEF k
      <4> QED
        BY <1>1, <2>6, <2>7, <3>1, <4>1
    <3>2. CASE ~(m - 1 < n)
      <4>1. k = n
        BY <3>2 DEF k
      <4> QED
        BY <1>3, <1>4, <2>6, <2>7, <3>2, <4>1
    <3> QED
      BY <3>1, <3>2
  <2>10. k \in 1 .. n
    BY <1>2, <2>1
  <2>11. ~(m <= 1)
    BY <1>1, <1>8
  <2> QED
    BY <2>6, <2>8, <2>9, <2>10, <2>11 DEF IsReadString, n, whole, read
<1> QED
  BY <1>1, <1>6, <1>7, <1>8
-----------------------------------------------------------------------------
(* The first n qwords of what follows the header of an event are there,     *)
(* behind an offset.                                                        *)
IsStoredEvent(cells, at, e, n) ==
    /\ Emitted(e) /\ at \in Nat /\ n \in Nat /\ n <= Len(Layout(e))
    /\ \A k \in 1 .. n : cells[at + k] = Layout(e)[k]

(* What is read of its j-th argument: all of it, or of one that is cut a    *)
(* part, with which all qwords are used, or nothing, if all there is of it  *)
(* is its string info.                                                      *)
IsReadArgument(read, cells, at, e, n, j) ==
    LET text == TextOf(e, j)
        first == Ends(e)[j - 1]
    IN  IF Ends(e)[j] <= n
        THEN read.text = text /\ read.used \in Nat /\ first + read.used = Ends(e)[j]
        ELSE \/ /\ read.used \in Nat /\ n <= first + read.used
                /\ read.text = <<>> \/ \E k \in 1 .. Len(text) : read.text = SubSeq(text, 1, k)
             \/ /\ n = first + 1 /\ read.used = 0 /\ read.text = <<>>
                /\ cells[at + 1 + first] = StringInfo(e.number, j, ChunkOf(e))

\* An argument that is a string.
IsString(e, j) ==
    Emitted(e) /\ j \in 1 .. Len(e.request.args) /\ e.request.args[j].kind = "string"

LEMMA StringArgument ==
    ASSUME NEW e, NEW j, IsString(e, j)
    PROVE  LET s == TextOf(e, j)
               W == ArgumentOf(e, j)
           IN  /\ W = StringOf(e, j, s) /\ IsText(s) /\ (\E S : s \in Seq(S))
               /\ W[1] = StringInfo(e.number, j, ChunkOf(e))
               /\ Len(s) \in Nat \ {0} /\ Len(W) \in Nat /\ 1 + Len(s) <= Len(W)
               /\ \A k \in 2 .. Len(W) : W[k].kind # "info"
<1> DEFINE a == e.request.args[j]
           W == ArgumentOf(e, j)
           s == TextOf(e, j)
           c(i) == Chars(e.number, j, i, a.qwords, <<>>)
           C == {c(i) : i \in 1 .. a.qwords}
           chunk == ChunkOf(e)
           k == Chunks(Len(s), chunk) * chunk
<1>1. Emitted(e) /\ a.kind = "string" /\ a.qwords \in Nat \ {0}
  <2>1. a \in Argument
    BY ElementOfSeq DEF IsString, Emitted
  <2> HIDE DEF a
  <2>2. a.qwords \in Nat \ {0}
    BY <2>1 DEF Argument
  <2> QED
    BY <2>2 DEF IsString, a
<1>2. W = StringOf(e, j, s) /\ s = CharsOf(e, j, a.qwords, <<>>)
  BY <1>1 DEF ArgumentOf, TextOf
<1>3. s = [i \in 1 .. a.qwords |-> c(i)]
  BY <1>2 DEF CharsOf
<1>4. IsText(s)
  <2> HIDE DEF s
  <2> QED
    BY <1>1, <1>3, CharsAreText
<1>5. \A i \in 1 .. a.qwords : c(i) \in C
  OBVIOUS
<1>6. \A x \in C : x.kind = "chars"
  BY DEF Chars
<1> HIDE DEF W, s, a, c, C
<1>7. s \in Seq(C) /\ Len(s) \in Nat \ {0}
  BY <1>1, <1>3, <1>4, <1>5 DEF IsText
<1>8. /\ Len(W) = 1 + k /\ k \in Len(s) .. Len(s) + chunk - 1
      /\ W[1] = StringInfo(e.number, j, chunk)
      /\ \A i \in 1 .. k : W[1 + i] = IF i <= Len(s) THEN s[i] ELSE Padding
  <2> DEFINE t == StringOf(e, j, s)
  <2>1. /\ Len(t) = 1 + k /\ k \in Len(s) .. Len(s) + chunk - 1
        /\ t[1] = StringInfo(e.number, j, chunk)
        /\ \A i \in 1 .. k : t[1 + i] = IF i <= Len(s) THEN s[i] ELSE Padding
    <3>1. Emitted(e) /\ s \in Seq(C)
      BY <1>1, <1>7
    <3> QED
      BY <3>1, StringPlaces
  <2>2. W = t
    BY <1>2
  <2> HIDE DEF t, k
  <2> QED
    BY <2>1, <2>2
<1>9. chunk \in {1, 2}
  BY <1>1 DEF Emitted
<1> HIDE DEF k, chunk
<1>10. k \in Nat /\ Len(W) \in Nat /\ 1 + Len(s) <= Len(W)
  BY <1>7, <1>8, <1>9
<1>11. ASSUME NEW i \in 2 .. Len(W) PROVE W[i].kind # "info"
  <2>1. i - 1 \in 1 .. k /\ 1 + (i - 1) = i
    BY <1>8, <1>10
  <2>2. W[i] = IF i - 1 <= Len(s) THEN s[i - 1] ELSE Padding
    BY <1>8, <2>1
  <2>3. i - 1 <= Len(s) => s[i - 1] \in C
    BY <1>7, <1>10, <2>1
  <2>4. Padding.kind = "padding"
    BY DEF Padding
  <2> QED
    BY <1>6, <2>2, <2>3, <2>4
<1> QED
  BY <1>2, <1>4, <1>7, <1>8, <1>10, <1>11 DEF W, s, chunk

\* How much of an argument there is.
Stored(e, j, n) ==
    IF n - Ends(e)[j - 1] < Len(ArgumentOf(e, j)) THEN n - Ends(e)[j - 1]
                                                  ELSE Len(ArgumentOf(e, j))

LEMMA ArgumentPlace ==
    ASSUME NEW e, Emitted(e), NEW j \in 1 .. Len(e.request.args)
    PROVE  /\ Ends(e)[j - 1] \in Nat /\ Ends(e)[j] \in Nat /\ Len(ArgumentOf(e, j)) \in Nat
           /\ Ends(e)[j] = Ends(e)[j - 1] + Len(ArgumentOf(e, j))
           /\ Ends(e)[j] <= Len(Layout(e)) /\ Len(Layout(e)) \in Nat
           /\ \A k \in 1 .. Len(ArgumentOf(e, j)) :
                 Layout(e)[Ends(e)[j - 1] + k] = ArgumentOf(e, j)[k]
<1> DEFINE E == Ends(e)
           L == Layout(e)
           N == Len(e.request.args)
<1>1. IsPlacing(E, e) /\ L \in Seq(CellsOf(e)) /\ N \in Nat
  BY LayoutPlaces DEF Emitted
<1>2. j - 1 \in 0 .. N /\ j \in 0 .. N /\ j \in 1 .. N
  BY <1>1
<1>3. Len(ArgumentOf(e, j)) \in Nat
  BY ArgumentHasCells
<1> HIDE DEF E, L, N
<1>4. /\ E \in [0 .. N -> Nat]
      /\ \A i \in 1 .. N :
            /\ E[i] = E[i - 1] + Len(ArgumentOf(e, i)) /\ E[i] <= Len(L)
            /\ \A k \in 1 .. Len(ArgumentOf(e, i)) : L[E[i - 1] + k] = ArgumentOf(e, i)[k]
  BY <1>1 DEF IsPlacing, N, L
<1>5. E[j - 1] \in Nat /\ E[j] \in Nat
  BY <1>2, <1>4
<1>6. /\ E[j] = E[j - 1] + Len(ArgumentOf(e, j)) /\ E[j] <= Len(L)
      /\ \A k \in 1 .. Len(ArgumentOf(e, j)) : L[E[j - 1] + k] = ArgumentOf(e, j)[k]
  BY <1>2, <1>4
<1>7. Len(L) \in Nat
  BY <1>1
<1> QED
  BY <1>3, <1>5, <1>6, <1>7 DEF E, L

\* It is read as far as it is there.
LEMMA StringArgumentRead ==
    ASSUME NEW cells, NEW at, NEW e, NEW n, IsStoredEvent(cells, at, e, n),
           NEW j, IsString(e, j), Ends(e)[j - 1] <= n, NEW spec, spec # "value"
    PROVE  IsReadString(ReadArgument(cells, spec, at + 1 + Ends(e)[j - 1], at + 1 + n),
                        e, j, TextOf(e, j), Stored(e, j, n))
<1> DEFINE L == Layout(e)
           W == ArgumentOf(e, j)
           x == Ends(e)[j - 1]
           p == at + 1 + x
           end == at + 1 + n
           w == Len(W)
           m == Stored(e, j, n)
           s == TextOf(e, j)
           read == ReadArgument(cells, spec, p, end)
<1>1. /\ Emitted(e) /\ at \in Nat /\ n \in Nat /\ \A k \in 1 .. n : cells[at + k] = L[k]
      /\ j \in 1 .. Len(e.request.args)
  BY DEF IsStoredEvent, IsString
<1>2. /\ x \in Nat /\ x <= n /\ w \in Nat
      /\ \A k \in 1 .. w : L[x + k] = W[k]
  BY <1>1, ArgumentPlace
<1>3. W = StringOf(e, j, s) /\ IsText(s) /\ (\E S : s \in Seq(S))
  BY StringArgument
<1>4. m = IF n - x < w THEN n - x ELSE w
  BY DEF Stored
<1>5. p = at + 1 + x /\ end = at + 1 + n /\ read = ReadArgumentString(cells, p, end)
  BY DEF ReadArgument
<1> HIDE DEF L, W, x, p, end, w, m, s, read
<1>6. m \in Nat /\ m <= w /\ p + m <= end /\ (m < w => p + m = end) /\ p \in Nat /\ end \in Nat
  BY <1>1, <1>2, <1>4, <1>5
<1>7. \A k \in 1 .. m : cells[p + k - 1] = W[k]
  <2> TAKE k \in 1 .. m
  <2>1. k \in 1 .. w /\ x + k \in 1 .. n /\ p + k - 1 = at + (x + k)
    BY <1>1, <1>2, <1>4, <1>5, <1>6
  <2> QED
    BY <1>1, <1>2, <2>1
<1>8. m < w => AtEnd(cells, p + m, end)
  BY <1>6 DEF AtEnd
<1>9. IsStoredString(cells, e, j, s, m, p, end)
  BY <1>1, <1>3, <1>6, <1>7, <1>8 DEF IsStoredString, w
<1>10. IsReadString(read, e, j, s, m)
  BY <1>5, <1>9, StringRead
<1> QED
  BY <1>10 DEF read, s, m, p, x, end

\* The specifier asks for an argument of its kind.
Suits(spec, a) == a.kind # "null" /\ (spec = "value" <=> a.kind = "value")

LEMMA ArgumentRead ==
    ASSUME NEW cells, NEW at, NEW e, NEW n, IsStoredEvent(cells, at, e, n),
           NEW j \in 1 .. Len(e.request.args), Ends(e)[j - 1] <= n,
           NEW spec, Suits(spec, e.request.args[j])
    PROVE  IsReadArgument(ReadArgument(cells, spec, at + 1 + Ends(e)[j - 1], at + 1 + n),
                          cells, at, e, n, j)
<1> DEFINE a == e.request.args[j]
           L == Layout(e)
           W == ArgumentOf(e, j)
           x == Ends(e)[j - 1]
           y == Ends(e)[j]
           p == at + 1 + x
           end == at + 1 + n
           w == Len(W)
           read == ReadArgument(cells, spec, p, end)
<1>0. Emitted(e) /\ \A k \in 1 .. n : cells[at + k] = L[k]
  BY DEF IsStoredEvent
<1>1. at \in Nat /\ n \in Nat /\ n <= Len(L)
  BY DEF IsStoredEvent
<1>2. /\ a.kind \in {"value", "string"} /\ a.qwords \in Nat \ {0}
      /\ spec = "value" <=> a.kind = "value"
  <2>1. a \in Argument
    BY <1>0, ElementOfSeq DEF Emitted
  <2> HIDE DEF a
  <2> QED
    BY <2>1 DEF Argument, Suits, a
<1>3. /\ x \in Nat /\ y \in Nat /\ y = x + w /\ y <= Len(L) /\ x <= n
      /\ w \in Nat
  <2>1. IsPlacing(Ends(e), e) /\ Len(e.request.args) \in Nat
    BY <1>0, LayoutPlaces DEF Emitted
  <2>2. j - 1 \in 0 .. Len(e.request.args) /\ j \in 0 .. Len(e.request.args)
    BY <2>1
  <2>3. Len(W) \in Nat
    BY <1>0, ArgumentHasCells
  <2> QED
    BY <2>1, <2>2, <2>3 DEF IsPlacing
<1>6. \A k \in 1 .. w : L[x + k] = W[k]
  BY <1>0, LayoutPlaces DEF IsPlacing
<1>7. p = at + 1 + x /\ end = at + 1 + n
  OBVIOUS
<1> HIDE DEF a, w, p, end
<1>4. CASE a.kind = "value"
  <2>1. W = <<Value(e.number, j)>> /\ TextOf(e, j) = W
    BY <1>4 DEF ArgumentOf, TextOf, a
  <2>2. w = 1 /\ W[1] = Value(e.number, j)
    BY <2>1 DEF w
  <2>3. read = ReadValue(cells, p, end)
    BY <1>2, <1>4 DEF ReadArgument
  <2> HIDE DEF L, W, x, y, read
  <2>4. CASE y <= n
    <3>1. p < end /\ x + 1 \in 1 .. n /\ at + (x + 1) = p
      BY <1>1, <1>3, <1>7, <2>2, <2>4
    <3>2. cells[at + (x + 1)] = L[x + 1] /\ L[x + 1] = W[1]
      BY <1>0, <1>6, <2>2, <3>1
    <3>3. read = [used |-> 1, text |-> <<cells[p]>>]
      BY <2>3, <3>1 DEF ReadValue
    <3>4. read.used = 1 /\ read.text = W
      BY <2>1, <2>2, <3>1, <3>2, <3>3
    <3> QED
      BY <1>3, <2>1, <2>2, <2>4, <3>4 DEF IsReadArgument, x, y, read, p, end
  <2>5. CASE ~(y <= n)
    <3>1. ~(p < end) /\ n = x
      BY <1>1, <1>3, <1>7, <2>2, <2>5
    <3>2. read = NothingRead
      BY <2>3, <3>1 DEF ReadValue
    <3>3. read.used = 0 /\ read.text = <<>>
      BY <3>2 DEF NothingRead
    <3> QED
      BY <1>3, <2>5, <3>1, <3>3 DEF IsReadArgument, x, y, read, p, end
  <2> QED
    BY <2>4, <2>5
<1>5. CASE a.kind = "string"
  <2> DEFINE s == TextOf(e, j)
             m == Stored(e, j, n)
             info == StringInfo(e.number, j, ChunkOf(e))
  <2>1. IsString(e, j)
    BY <1>0, <1>5 DEF IsString, a
  <2>2. /\ W = StringOf(e, j, s) /\ (\E S : s \in Seq(S))
        /\ W[1] = info /\ Len(s) \in Nat \ {0} /\ 1 + Len(s) <= w
    BY <2>1, StringArgument DEF w
  <2>3. IsReadString(read, e, j, s, m)
    BY <1>2, <1>5, <2>1, StringArgumentRead DEF p, end
  <2>4. m = IF n - x < w THEN n - x ELSE w
    BY DEF Stored, w
  <2> HIDE DEF L, W, x, y, read, s, m
  <2>6. m \in Nat /\ m <= w /\ (m < w => m = n - x)
    BY <1>1, <1>3, <2>4
  <2>7. \A k \in 1 .. m : cells[p + k - 1] = W[k]
    <3> TAKE k \in 1 .. m
    <3>1. k \in 1 .. w /\ x + k \in 1 .. n /\ p + k - 1 = at + (x + k)
      BY <1>1, <1>3, <1>7, <2>4, <2>6
    <3> QED
      BY <1>0, <1>6, <3>1
  <2>10. w >= 2
    BY <1>3, <2>2
  <2> HIDE DEF info
  <2>11. CASE m <= 1
    <3>1. read.used = 0 /\ read.text = <<>>
      BY <2>3, <2>11 DEF IsReadString, NothingRead
    <3>2. m = n - x /\ ~(y <= n)
      BY <1>1, <1>3, <2>4, <2>6, <2>10, <2>11
    <3>3. CASE m = 0
      <4>1. n <= x + read.used
        BY <1>1, <1>3, <3>1, <3>2, <3>3
      <4> QED
        BY <1>3, <3>1, <3>2, <4>1 DEF IsReadArgument, x, y, read, p, end
    <3>4. CASE m = 1
      <4>1. n = x + 1
        BY <1>1, <1>3, <3>2, <3>4
      <4>2. cells[p] = info
        <5>1. 1 \in 1 .. m /\ p + 1 - 1 = p
          BY <1>1, <1>3, <1>7, <3>4
        <5>2. cells[p + 1 - 1] = W[1]
          BY <2>7, <5>1
        <5> QED
          BY <2>2, <5>1, <5>2
      <4> QED
        BY <3>1, <3>2, <4>1, <4>2 DEF IsReadArgument, x, y, read, info, p, end
    <3> QED
      BY <2>6, <2>11, <3>3, <3>4
  <2>12. CASE ~(m <= 1)
    <3>1. PICK k \in 1 .. Len(s) :
             /\ read.text = SubSeq(s, 1, k) /\ read.used \in Nat
             /\ IF m - 1 < Len(s) THEN k = m - 1 /\ read.used >= m
                                  ELSE k = Len(s) /\ read.used = w
      BY <2>2, <2>3, <2>12 DEF IsReadString, w
    <3>3. CASE y <= n
      <4>1. m = w /\ ~(m - 1 < Len(s))
        BY <1>1, <1>3, <2>2, <2>4, <2>6, <3>3
      <4>2. SubSeq(s, 1, Len(s)) = s
        BY <2>2, SubSeqFull
      <4>3. read.text = s /\ x + read.used = y /\ read.used \in Nat
        BY <1>3, <3>1, <4>1, <4>2
      <4> QED
        BY <3>3, <4>3 DEF IsReadArgument, x, y, read, s, p, end
    <3>4. CASE ~(y <= n)
      <4>1. m = n - x
        BY <1>1, <1>3, <2>4, <3>4
      <4>2. n <= x + read.used
        <5> DEFINE u == read.used
        <5>1. u \in Nat /\ (u >= m \/ u = w)
          BY <3>1
        <5> HIDE DEF u
        <5>2. n <= x + u
          BY <1>1, <1>3, <2>6, <4>1, <5>1
        <5> QED
          BY <5>2 DEF u
      <4> QED
        BY <3>1, <3>4, <4>2 DEF IsReadArgument, x, y, read, s, p, end
    <3> QED
      BY <3>3, <3>4
  <2> QED
    BY <2>11, <2>12
<1> QED
  BY <1>2, <1>4, <1>5
-----------------------------------------------------------------------------
\* What PopulateFormatArguments does for one specifier.
WithNext(cells, spec, sofar, source, limit) ==
    LET read == ReadArgument(cells, spec, source + sofar.used, limit)
    IN  [used |-> sofar.used + read.used, arguments |-> Append(sofar.arguments, read.text)]

HowMany(specs) == Min({Len(specs), MaxArguments})

\* What there is after each of the specifiers.
IsPopulating(f, cells, specs, source, limit) ==
    /\ f[0] = [used |-> 0, arguments |-> <<>>]
    /\ \A j \in 1 .. HowMany(specs) :
          f[j] = WithNext(cells, specs[j], f[j - 1], source, limit)
    /\ PopulateFormatArguments(cells, specs, source, limit) = f[HowMany(specs)]

(* There is such a sequence: the fold by which PopulateFormatArguments is   *)
(* defined has values for all sets of specifiers.                           *)
LEMMA Populating ==
    ASSUME NEW cells, NEW S, NEW specs \in Seq(S), NEW source, NEW limit
    PROVE  \E f : IsPopulating(f, cells, specs, source, limit)
<1> DEFINE N == HowMany(specs)
           D == 1 .. N
           few == SubSeq(specs, 1, N)
           base == [used |-> 0, arguments |-> <<>>]
           Op(sofar, s) == WithNext(cells, s, sofar, source, limit)
           Entry(g, s) == IF s = {} THEN base ELSE Op(g[s \ {Max(s)}], few[Max(s)])
           Folds(g) == g = [s \in SUBSET DOMAIN few |-> Entry(g, s)]
           h == CHOOSE g : Folds(g)
<1>1. N \in Nat /\ N <= Len(specs)
  <2>1. N = IF Len(specs) <= MaxArguments THEN Len(specs) ELSE MaxArguments
    BY MinOfTwo, FormatAssumption DEF HowMany
  <2> QED
    BY <2>1, FormatAssumption
<1>2. PopulateFormatArguments(cells, specs, source, limit) = h[DOMAIN few]
  BY Zenon DEF PopulateFormatArguments, FoldLeft, MapThenFoldSet, WithNext, HowMany
<1> HIDE DEF Op, base, N
<1>3. DOMAIN few = D /\ \A j \in D : few[j] = specs[j]
  BY <1>1
<1> HIDE DEF few
<1> DEFINE Good(m) == \E g : \A s \in SUBSET (1 .. m) : g[s] = Entry(g, s)
           T == {m \in 0 .. N : Good(m)}
<1>4. Good(0)
  <2> DEFINE g == [s \in SUBSET (1 .. 0) |-> base]
  <2>1. \A s \in SUBSET (1 .. 0) : s = {} /\ g[s] = base
    OBVIOUS
  <2> HIDE DEF g
  <2> QED
    BY <2>1
<1>5. ASSUME NEW m \in 0 .. N - 1, Good(m) PROVE Good(m + 1)
  <2>1. PICK g : \A s \in SUBSET (1 .. m) : g[s] = Entry(g, s)
    BY <1>5
  <2> DEFINE U == SUBSET (1 .. m + 1)
             k == [s \in U |-> IF m + 1 \in s THEN Op(g[s \ {m + 1}], few[m + 1]) ELSE g[s]]
  <2>2. ASSUME NEW s \in U PROVE k[s] = Entry(k, s)
    <3>1. \A t \in SUBSET (1 .. m) : t \in U /\ k[t] = g[t]
      BY <1>1
    <3>2. CASE m + 1 \in s
      <4>1. Max(s) = m + 1
        <5>1. m + 1 \in Nat \ {0} /\ s \subseteq 1 .. m + 1
          BY <1>1
        <5> QED
          BY <3>2, <5>1, LargestIsLast
      <4>2. s \ {m + 1} \in SUBSET (1 .. m)
        BY <1>1
      <4>3. k[s] = Op(g[s \ {m + 1}], few[m + 1]) /\ k[s \ {m + 1}] = g[s \ {m + 1}]
        BY <3>1, <3>2, <4>2
      <4> HIDE DEF k
      <4> QED
        BY <3>2, <4>1, <4>3
    <3>3. CASE m + 1 \notin s
      <4>0. \A i \in 1 .. m + 1 : i # m + 1 => i \in 1 .. m
        BY <1>1
      <4>1. s \in SUBSET (1 .. m) /\ s \ {Max(s)} \in SUBSET (1 .. m)
        BY <3>3, <4>0, Zenon
      <4>2. k[s] = g[s] /\ k[s \ {Max(s)}] = g[s \ {Max(s)}]
        BY <3>1, <4>1
      <4> HIDE DEF k
      <4> QED
        BY <2>1, <4>1, <4>2
    <3> QED
      BY <3>2, <3>3
  <2> HIDE DEF k, Entry
  <2> QED
    BY <2>2
<1> HIDE DEF Good
<1>6. 0 \in T /\ \A m \in 0 .. N - 1 : m \in T => m + 1 \in T
  BY <1>1, <1>4, <1>5
<1> HIDE DEF T
<1>7. N \in T
  <2>1. N \in 0 .. N
    BY <1>1
  <2>2. \A m \in 0 .. N : m \in T
    <3> HIDE DEF N
    <3> QED
      BY <1>1, <1>6, Induction
  <2> QED
    BY <2>1, <2>2
<1>8. PICK g : \A s \in SUBSET D : g[s] = Entry(g, s)
  BY <1>7 DEF T, Good
<1>9. Folds(h)
  <2> DEFINE w == [s \in SUBSET D |-> g[s]]
  <2>0. DOMAIN few = D
    BY <1>3
  <2>1. ASSUME NEW s \in SUBSET D PROVE Entry(w, s) = g[s]
    <3>1. s \ {Max(s)} \in SUBSET D
      OBVIOUS
    <3>2. w[s \ {Max(s)}] = g[s \ {Max(s)}]
      BY <3>1
    <3> HIDE DEF w, D
    <3> QED
      BY <1>8, <3>2
  <2>2. Folds(w)
    <3> HIDE DEF Entry, D
    <3> QED
      BY <2>0, <2>1
  <2> HIDE DEF Folds, w
  <2> QED
    BY <2>2, Zenon
<1> HIDE DEF h
<1>10. \A s \in SUBSET D : h[s] = Entry(h, s)
  <2> HIDE DEF Entry, D
  <2> QED
    BY <1>3, <1>9
<1>11. h[1 .. 0] = base
  <2>1. 1 .. 0 = {} /\ {} \in SUBSET D
    OBVIOUS
  <2> QED
    BY <1>10, <2>1
<1>12. ASSUME NEW j \in D PROVE h[1 .. j] = Op(h[1 .. j - 1], specs[j])
  <2> DEFINE s == 1 .. j
  <2>1. j \in Nat \ {0} /\ j <= N
    BY <1>1
  <2>2. s \in SUBSET D /\ j \in s /\ s \ {j} = 1 .. j - 1
    BY <1>1, <2>1
  <2>3. Max(s) = j
    BY <2>1, <2>2, LargestIsLast
  <2> HIDE DEF s
  <2>4. h[s] = Op(h[s \ {j}], few[j])
    BY <1>10, <2>2, <2>3
  <2> QED
    BY <1>3, <2>2, <2>4 DEF s
<1> DEFINE f == [i \in 0 .. N |-> h[1 .. i]]
<1>13. f[0] = base /\ f[N] = h[D]
  <2>1. 0 \in 0 .. N /\ N \in 0 .. N
    BY <1>1
  <2> QED
    BY <1>11, <2>1
<1>14. ASSUME NEW j \in D PROVE f[j] = Op(f[j - 1], specs[j])
  <2>1. j \in 0 .. N /\ j - 1 \in 0 .. N
    BY <1>1
  <2>2. f[j] = h[1 .. j] /\ f[j - 1] = h[1 .. j - 1]
    BY <2>1
  <2> HIDE DEF f
  <2> QED
    BY <1>12, <2>2
<1> HIDE DEF f
<1>15. IsPopulating(f, cells, specs, source, limit)
  BY <1>2, <1>3, <1>13, <1>14 DEF IsPopulating, N, base, Op
<1> QED
  BY <1>15
-----------------------------------------------------------------------------
\* A text that was passed and the beginnings of it are parts of the event.
LEMMA BeginningsAreParts ==
    ASSUME NEW e, Emitted(e), NEW j \in 1 .. Len(e.request.args)
    PROVE  /\ IsPartOf(TextOf(e, j), e, j)
           /\ \A k \in 1 .. Len(TextOf(e, j)) : IsPartOf(SubSeq(TextOf(e, j), 1, k), e, j)
<1> DEFINE a == e.request.args[j]
           s == TextOf(e, j)
<1>1. /\ a.kind \in {"value", "string", "null"} /\ a.qwords \in Nat
      /\ j <= Len(e.request.args)
  <2>1. a \in Argument
    BY ElementOfSeq DEF Emitted
  <2> HIDE DEF a
  <2> QED
    BY <2>1 DEF Emitted, Argument
<1> HIDE DEF a
<1>2. \E S : s \in Seq(S)
  <2>1. CASE a.kind = "value"
    <3>1. s = <<Value(e.number, j)>>
      BY <2>1 DEF TextOf, a
    <3>2. <<Value(e.number, j)>> \in Seq({Value(e.number, j)})
      OBVIOUS
    <3> QED
      BY <3>1, <3>2
  <2>2. CASE a.kind = "null"
    <3>1. s = <<>> /\ <<>> \in Seq({})
      BY <2>2 DEF TextOf, a
    <3> QED
      BY <3>1
  <2>3. CASE a.kind = "string"
    <3> DEFINE c(i) == Chars(e.number, j, i, a.qwords, <<>>)
               C == {c(i) : i \in 1 .. a.qwords}
    <3>1. s = [i \in 1 .. a.qwords |-> c(i)]
      BY <2>3 DEF TextOf, CharsOf, a
    <3>2. \A i \in 1 .. a.qwords : c(i) \in C
      OBVIOUS
    <3> HIDE DEF c, C, s
    <3>3. s \in Seq(C)
      BY <1>1, <3>1, <3>2
    <3> QED
      BY <3>3
  <2> QED
    BY <1>1, <2>1, <2>2, <2>3
<1> HIDE DEF s
<1>3. PICK S : s \in Seq(S)
  BY <1>2
<1>4. Len(s) \in Nat
  BY <1>3
<1>5. IsPrefix(s, s)
  BY <1>4 DEF IsPrefix
<1>6. ASSUME NEW k \in 1 .. Len(s) PROVE IsPrefix(SubSeq(s, 1, k), s)
  <2> DEFINE t == SubSeq(s, 1, k)
  <2>1. t = [i \in 1 .. k |-> s[i]] /\ Len(t) = k /\ t \in Seq(S)
    BY <1>3, <1>4
  <2> HIDE DEF t
  <2>2. SubSeq(t, 1, Len(t)) = t
    BY <2>1, SubSeqFull
  <2>3. SubSeq(s, 1, Len(t)) = t /\ Len(t) <= Len(s)
    BY <1>4, <2>1 DEF t
  <2> QED
    BY <2>2, <2>3 DEF IsPrefix, t
<1> QED
  BY <1>1, <1>5, <1>6 DEF IsPartOf, s

(* How far the arguments have been read.  All of what was passed so far, or *)
(* as much as there was, with everything used, or with only the string info *)
(* of one that is cut there still to be used.                               *)
AsPassed(sofar, e, i) ==
    \A j \in 1 .. i : sofar.arguments[j] = IF j <= Len(e.request.args) THEN TextOf(e, j) ELSE <<>>
InParts(sofar, e, n, i) == \A j \in 1 .. i : IsReadOf(sofar.arguments[j], e, j, n)
OnTrack(sofar, e, n, i) ==
    /\ i <= Len(e.request.args) /\ Ends(e)[i] <= n
    /\ sofar.used \in Nat /\ Ends(e)[0] + sofar.used = Ends(e)[i]
    /\ AsPassed(sofar, e, i)
AllUsed(sofar, e, n, i) ==
    /\ sofar.used \in Nat /\ n <= Ends(e)[0] + sofar.used
    /\ InParts(sofar, e, n, i)
    /\ n = Len(Layout(e)) => i >= Len(e.request.args) /\ AsPassed(sofar, e, i)
AtInfo(sofar, e, n, i) ==
    /\ n < Len(Layout(e)) /\ sofar.used \in Nat /\ n = Ends(e)[0] + sofar.used + 1
    /\ EndsAtInfo(e, n)
    /\ InParts(sofar, e, n, i)
HasRead(sofar, e, n, i) ==
    /\ \E S : sofar.arguments \in Seq(S)
    /\ Len(sofar.arguments) = i
    /\ \/ OnTrack(sofar, e, n, i)
       \/ AllUsed(sofar, e, n, i)
       \/ AtInfo(sofar, e, n, i)

\* One argument more.
LEMMA OneMore ==
    ASSUME NEW cells, NEW spec, NEW sofar, NEW source, NEW limit, NEW i \in Nat,
           \E S : sofar.arguments \in Seq(S), Len(sofar.arguments) = i
    PROVE  LET read == ReadArgument(cells, spec, source + sofar.used, limit)
               next == WithNext(cells, spec, sofar, source, limit)
           IN  /\ \E S : next.arguments \in Seq(S)
               /\ Len(next.arguments) = i + 1
               /\ next.used = sofar.used + read.used
               /\ \A j \in 1 .. i : next.arguments[j] = sofar.arguments[j]
               /\ next.arguments[i + 1] = read.text
<1> DEFINE read == ReadArgument(cells, spec, source + sofar.used, limit)
           s == sofar.arguments
           x == read.text
           next == WithNext(cells, spec, sofar, source, limit)
<1>1. next.used = sofar.used + read.used /\ next.arguments = Append(s, x)
  BY DEF WithNext
<1> HIDE DEF s, x, next
<1>2. PICK S : s \in Seq(S)
  BY DEF s
<1>3. s \in Seq(S \cup {x}) /\ x \in S \cup {x}
  BY <1>2
<1>4. /\ Append(s, x) \in Seq(S \cup {x}) /\ Len(Append(s, x)) = Len(s) + 1
      /\ \A j \in 1 .. Len(s) : Append(s, x)[j] = s[j]
      /\ Append(s, x)[Len(s) + 1] = x
  BY <1>3, AppendProperties
<1> QED
  BY <1>1, <1>4 DEF s, x, next

\* There is nothing to read at the end.
LEMMA NothingBehind ==
    ASSUME NEW cells, NEW spec, NEW source \in Int, NEW limit \in Int, limit <= source
    PROVE  /\ ReadArgument(cells, spec, source, limit).used = 0
           /\ ReadArgument(cells, spec, source, limit).text = <<>>
<1>1. source >= limit /\ ~(source < limit)
  OBVIOUS
<1>2. ReadArgument(cells, spec, source, limit) = NothingRead
  BY <1>1 DEF ReadArgument, ReadValue, ReadArgumentString
<1> QED
  BY <1>2 DEF NothingRead

LEMMA ArgumentsGoOn ==
    ASSUME NEW cells, NEW at, NEW e, NEW n, IsStoredEvent(cells, at, e, n),
           Ends(e)[0] <= n, NEW i \in Nat, NEW spec,
           i + 1 <= Len(e.request.args) => Suits(spec, e.request.args[i + 1]),
           NEW sofar, HasRead(sofar, e, n, i)
    PROVE  HasRead(WithNext(cells, spec, sofar, at + 1 + Ends(e)[0], at + 1 + n), e, n, i + 1)
<1> DEFINE N == Len(e.request.args)
           E == Ends(e)
           L == Len(Layout(e))
           source == at + 1 + E[0]
           end == at + 1 + n
           p == source + sofar.used
           read == ReadArgument(cells, spec, p, end)
           next == WithNext(cells, spec, sofar, source, end)
<1>1. Emitted(e) /\ at \in Nat /\ n \in Nat /\ n <= L
  BY DEF IsStoredEvent
<1>2. IsPlacing(E, e) /\ Layout(e) \in Seq(CellsOf(e)) /\ e.request.args \in Seq(Argument)
  BY <1>1, LayoutPlaces DEF Emitted
<1>3. /\ N \in Nat /\ L \in Nat /\ E[0] \in Nat /\ E[N] = L
      /\ \A j \in 0 .. N : E[j] \in Nat
      /\ \A j \in 1 .. N : E[j] <= L
  <2>1. N \in Nat /\ L \in Nat
    BY <1>2
  <2>2. E \in [0 .. N -> Nat] /\ E[N] = L /\ \A j \in 1 .. N : E[j] <= L
    BY <1>2 DEF IsPlacing
  <2> HIDE DEF N, L, E
  <2> QED
    BY <2>1, <2>2
<1>4. (\E S : sofar.arguments \in Seq(S)) /\ Len(sofar.arguments) = i
  BY DEF HasRead
<1>5. /\ \E S : next.arguments \in Seq(S)
      /\ Len(next.arguments) = i + 1
      /\ next.used = sofar.used + read.used
      /\ \A j \in 1 .. i : next.arguments[j] = sofar.arguments[j]
      /\ next.arguments[i + 1] = read.text
  BY <1>4, OneMore
<1>6. source = at + 1 + E[0] /\ end = at + 1 + n /\ p = source + sofar.used
  OBVIOUS
<1>7. i + 1 <= N => IsReadArgument(ReadArgument(cells, spec, at + 1 + E[(i + 1) - 1], end),
                                   cells, at, e, n, i + 1)
                    \/ ~(E[(i + 1) - 1] <= n)
  <2>1. i + 1 <= N => i + 1 \in 1 .. N
    BY <1>3
  <2> QED
    BY <2>1, ArgumentRead
<1> HIDE DEF source, end, p, read, next, L, E, N
<1>8. \A j \in 1 .. i + 1 : j = i + 1 \/ j \in 1 .. i
  OBVIOUS
<1>9. ASSUME InParts(sofar, e, n, i), IsReadOf(read.text, e, i + 1, n)
      PROVE  InParts(next, e, n, i + 1)
  BY <1>5, <1>8, <1>9 DEF InParts
<1>10. IsReadOf(<<>>, e, i + 1, n)
  BY DEF IsReadOf, IsPartOf
<1>11. AsPassed(sofar, e, i) /\ i <= N => InParts(sofar, e, n, i)
  <2> SUFFICES ASSUME AsPassed(sofar, e, i), i <= N, NEW j \in 1 .. i
               PROVE  IsReadOf(sofar.arguments[j], e, j, n)
    BY DEF InParts
  <2>1. j \in 1 .. N /\ j <= N
    BY <1>3
  <2>2. sofar.arguments[j] = TextOf(e, j)
    BY <2>1 DEF AsPassed, N
  <2> QED
    BY <1>1, <2>1, <2>2, BeginningsAreParts DEF N, IsReadOf
<1>12. CASE OnTrack(sofar, e, n, i) /\ i < N
  <2>1. /\ E[i] <= n /\ sofar.used \in Nat /\ E[0] + sofar.used = E[i]
        /\ AsPassed(sofar, e, i)
    BY <1>12 DEF OnTrack, E
  <2>2. /\ (i + 1) - 1 = i /\ i \in 0 .. N /\ i + 1 \in 1 .. N /\ i + 1 \in 0 .. N
        /\ i + 1 <= N
    BY <1>3, <1>12
  <2>3. at + 1 + E[i] = p
    BY <1>1, <1>3, <1>6, <2>1, <2>2
  <2>4. IsReadArgument(read, cells, at, e, n, i + 1)
    BY <1>7, <2>1, <2>2, <2>3, Zenon DEF read
  <2>5. E[i] \in Nat /\ E[i + 1] \in Nat /\ E[i + 1] <= L /\ E[i] <= E[i + 1]
    <3>1. E[i + 1] = E[(i + 1) - 1] + Len(ArgumentOf(e, i + 1))
      BY <1>2, <2>2 DEF IsPlacing, N
    <3>2. Len(ArgumentOf(e, i + 1)) \in Nat
      BY <1>1, <2>2, ArgumentHasCells DEF N
    <3> QED
      BY <1>3, <2>2, <3>1, <3>2
  <2>6. CASE E[i + 1] <= n
    <3>1. /\ read.text = TextOf(e, i + 1) /\ read.used \in Nat
          /\ E[i] + read.used = E[i + 1]
      BY <2>2, <2>4, <2>6 DEF IsReadArgument, E
    <3>2. AsPassed(next, e, i + 1)
      BY <1>5, <1>8, <2>1, <2>2, <3>1 DEF AsPassed, N
    <3>3. next.used \in Nat /\ E[0] + next.used = E[i + 1]
      <4> DEFINE first == E[0]
                 here == E[i]
                 there == E[i + 1]
                 u == sofar.used
                 r == read.used
      <4>1. /\ first \in Nat /\ here \in Nat /\ there \in Nat /\ u \in Nat /\ r \in Nat
            /\ first + u = here /\ here + r = there /\ next.used = u + r
        BY <1>3, <1>5, <2>1, <2>5, <3>1
      <4> HIDE DEF first, here, there, u, r
      <4>2. next.used \in Nat /\ first + next.used = there
        BY <4>1
      <4> QED
        BY <4>2 DEF first, there
    <3>4. OnTrack(next, e, n, i + 1)
      BY <2>2, <2>6, <3>2, <3>3 DEF OnTrack, E, N
    <3> QED
      BY <1>5, <3>4 DEF HasRead, next, source, end, E
  <2>7. CASE ~(E[i + 1] <= n)
    <3>1. n < L
      BY <1>1, <1>3, <2>5, <2>7
    <3>2. InParts(sofar, e, n, i)
      BY <1>11, <2>1, <1>12, <2>2, <1>3
    <3>3. \/ /\ read.used \in Nat /\ n <= E[i] + read.used
             /\ read.text = <<>> \/ \E k \in 1 .. Len(TextOf(e, i + 1)) :
                                       read.text = SubSeq(TextOf(e, i + 1), 1, k)
          \/ /\ n = E[i] + 1 /\ read.used = 0 /\ read.text = <<>>
             /\ cells[at + 1 + E[i]] = StringInfo(e.number, i + 1, ChunkOf(e))
      BY <2>2, <2>4, <2>7 DEF IsReadArgument, E
    <3>4. IsReadOf(read.text, e, i + 1, n)
      BY <1>1, <1>10, <2>2, <3>3, BeginningsAreParts DEF N, IsReadOf
    <3>5. InParts(next, e, n, i + 1)
      BY <1>9, <3>2, <3>4
    <3>6. CASE read.used \in Nat /\ n <= E[i] + read.used
      <4>1. next.used \in Int /\ E[0] + next.used = E[i] + read.used
        BY <1>3, <1>5, <2>1, <2>5, <3>6
      <4>2. sofar.used \in Nat
        BY <2>1
      <4>3. AllUsed(next, e, n, i + 1)
        BY <1>1, <1>3, <1>5, <3>1, <3>5, <3>6, <4>1, <4>2 DEF AllUsed, E, L
      <4> QED
        BY <1>5, <4>3 DEF HasRead, next, source, end, E
    <3>7. CASE /\ n = E[i] + 1 /\ read.used = 0
               /\ cells[at + 1 + E[i]] = StringInfo(e.number, i + 1, ChunkOf(e))
      <4>1. next.used = sofar.used
        BY <1>5, <2>1, <3>7
      <4>2. sofar.used \in Nat
        BY <2>1
      <4>3. at + 1 + E[i] = at + n /\ n = E[0] + next.used + 1
        <5> DEFINE first == E[0]
                   here == E[i]
                   u == sofar.used
        <5>1. /\ first \in Nat /\ here \in Nat /\ u \in Nat
              /\ first + u = here /\ n = here + 1
          BY <1>3, <2>1, <2>5, <3>7
        <5> HIDE DEF first, here, u
        <5>2. at + 1 + here = at + n /\ n = first + u + 1
          BY <1>1, <5>1
        <5> QED
          BY <4>1, <5>2 DEF first, here, u
      <4>4. EndsAtInfo(e, n)
        <5>1. n \in 1 .. n /\ n \in 1 .. L
          BY <1>1, <1>3, <2>5, <3>7
        <5>2. cells[at + n] = Layout(e)[n]
          BY <5>1 DEF IsStoredEvent
        <5>3. Layout(e)[n] = StringInfo(e.number, i + 1, ChunkOf(e))
          BY <3>7, <4>3, <5>2
        <5> QED
          BY <5>1, <5>3 DEF EndsAtInfo, StringInfo, L
      <4>5. AtInfo(next, e, n, i + 1)
        BY <3>1, <3>5, <3>7, <4>1, <4>2, <4>3, <4>4 DEF AtInfo, E, L
      <4> QED
        BY <1>5, <4>5 DEF HasRead, next, source, end, E
    <3> QED
      BY <3>3, <3>6, <3>7
  <2> QED
    BY <2>6, <2>7
<1>13. CASE OnTrack(sofar, e, n, i) /\ ~(i < N)
  <2>1. /\ E[i] <= n /\ sofar.used \in Nat /\ E[0] + sofar.used = E[i] /\ i = N
        /\ AsPassed(sofar, e, i)
    BY <1>3, <1>13 DEF OnTrack, E, N
  <2>2. n = L /\ p = end
    <3> DEFINE first == E[0]
               here == E[i]
               u == sofar.used
    <3>1. /\ first \in Nat /\ here \in Nat /\ u \in Nat
          /\ first + u = here /\ here <= n
      BY <1>3, <2>1
    <3>2. here = L
      BY <1>3, <2>1
    <3>3. source = at + 1 + first /\ p = source + u
      BY <1>6
    <3> HIDE DEF first, here, u
    <3>4. n = L
      BY <1>1, <1>3, <3>1, <3>2
    <3>5. p = at + 1 + here
      BY <1>1, <3>1, <3>3
    <3> QED
      BY <1>6, <3>2, <3>4, <3>5
  <2>3. read.used = 0 /\ read.text = <<>>
    BY <1>1, <1>6, <2>2, NothingBehind DEF read
  <2>4. InParts(next, e, n, i + 1)
    BY <1>9, <1>10, <1>11, <2>1, <2>3
  <2>5. AsPassed(next, e, i + 1)
    <3>1. ~(i + 1 <= N) /\ \A j \in 1 .. i : j <= N
      BY <1>3, <2>1
    <3> QED
      BY <1>5, <1>8, <2>1, <2>3, <3>1 DEF AsPassed, N
  <2>6. next.used \in Nat /\ n <= E[0] + next.used /\ i + 1 >= N
    BY <1>1, <1>3, <1>5, <2>1, <2>2, <2>3
  <2>7. AllUsed(next, e, n, i + 1)
    BY <2>4, <2>5, <2>6 DEF AllUsed, E, N
  <2> QED
    BY <1>5, <2>7 DEF HasRead, next, source, end, E
<1>14. CASE AllUsed(sofar, e, n, i)
  <2>1. /\ sofar.used \in Nat /\ n <= E[0] + sofar.used /\ InParts(sofar, e, n, i)
        /\ n = L => i >= N /\ AsPassed(sofar, e, i)
    BY <1>14 DEF AllUsed, E, L, N
  <2>2. end <= p /\ p \in Int /\ end \in Int
    BY <1>1, <1>3, <1>6, <2>1
  <2>3. read.used = 0 /\ read.text = <<>>
    BY <2>2, NothingBehind DEF read
  <2>4. InParts(next, e, n, i + 1)
    BY <1>9, <1>10, <2>1, <2>3
  <2>5. ASSUME n = L PROVE i + 1 >= N /\ AsPassed(next, e, i + 1)
    <3>1. i + 1 >= N /\ ~(i + 1 <= N)
      BY <1>3, <2>1, <2>5
    <3> QED
      BY <1>5, <1>8, <2>1, <2>3, <2>5, <3>1 DEF AsPassed, N
  <2>6. next.used \in Nat /\ n <= E[0] + next.used
    BY <1>5, <2>1, <2>3
  <2>7. AllUsed(next, e, n, i + 1)
    BY <2>4, <2>5, <2>6 DEF AllUsed, E, N, L
  <2> QED
    BY <1>5, <2>7 DEF HasRead, next, source, end, E
<1>15. CASE AtInfo(sofar, e, n, i)
  <2>1. /\ n < L /\ sofar.used \in Nat /\ n = E[0] + sofar.used + 1
        /\ InParts(sofar, e, n, i)
    BY <1>15 DEF AtInfo, E, L
  <2>2. EndsAtInfo(e, n) /\ cells[at + n] = Layout(e)[n]
    BY <1>15 DEF AtInfo, EndsAtInfo, IsStoredEvent
  <2>3. p = at + n /\ p < end /\ p + 1 >= end /\ ~(p >= end)
    <3> DEFINE first == E[0]
               u == sofar.used
    <3>1. /\ first \in Nat /\ u \in Nat /\ n = first + u + 1
          /\ end = at + 1 + n /\ p = at + 1 + first + u
      BY <1>3, <1>6, <2>1
    <3> HIDE DEF first, u
    <3> QED
      BY <1>1, <3>1
  <2>4. CASE spec = "value"
    <3>1. read = [used |-> 1, text |-> <<cells[p]>>]
      BY <2>3, <2>4 DEF read, ReadArgument, ReadValue
    <3>2. read.used = 1 /\ read.text = <<Layout(e)[n]>>
      BY <2>2, <2>3, <3>1
    <3>3. IsReadOf(read.text, e, i + 1, n)
      BY <2>2, <3>2 DEF IsReadOf
    <3>4. InParts(next, e, n, i + 1)
      BY <1>9, <2>1, <3>3
    <3>5. next.used \in Nat /\ n <= E[0] + next.used
      BY <1>3, <1>5, <2>1, <3>2
    <3>6. AllUsed(next, e, n, i + 1)
      BY <1>1, <1>3, <2>1, <3>4, <3>5 DEF AllUsed, E, N, L
    <3> QED
      BY <1>5, <3>6 DEF HasRead, next, source, end, E
  <2>5. CASE spec # "value"
    <3>1. AtEnd(cells, p + 1, end)
      BY <2>3 DEF AtEnd
    <3>2. read = NothingRead
      BY <2>5, <3>1 DEF read, ReadArgument, ReadArgumentString
    <3>3. read.used = 0 /\ read.text = <<>>
      BY <3>2 DEF NothingRead
    <3>4. InParts(next, e, n, i + 1)
      BY <1>9, <1>10, <2>1, <3>3
    <3>5. next.used = sofar.used
      BY <1>5, <2>1, <3>3
    <3>6. AtInfo(next, e, n, i + 1)
      BY <2>1, <2>2, <3>4, <3>5 DEF AtInfo, E, L
    <3> QED
      BY <1>5, <3>6 DEF HasRead, next, source, end, E
  <2> QED
    BY <2>4, <2>5
<1> QED
  BY <1>12, <1>13, <1>14, <1>15 DEF HasRead

(* The arguments that are read of an event are all that were passed, if all *)
(* of it is there, and otherwise parts of what was passed or, where nothing *)
(* is left of a string but its string info, that.                           *)
ArgumentsRight(arguments, e, n) ==
    SpecifiersFit(e.request) /\ ~HasNull(e) =>
        IF n = Len(Layout(e))
        THEN arguments = Formatted(e)
        ELSE \A j \in DOMAIN arguments : IsReadOf(arguments[j], e, j, n)

LEMMA PopulatedArguments ==
    ASSUME NEW cells, NEW at, NEW e, NEW n, IsStoredEvent(cells, at, e, n),
           Ends(e)[0] <= n, NEW S, e.request.specs \in Seq(S),
           e.request.args # <<>> \/ n # Len(Layout(e))
    PROVE  ArgumentsRight(PopulateFormatArguments(cells, e.request.specs,
                                                  at + 1 + Ends(e)[0], at + 1 + n).arguments,
                          e, n)
<1> SUFFICES ASSUME SpecifiersFit(e.request), ~HasNull(e)
             PROVE  LET a == PopulateFormatArguments(cells, e.request.specs,
                                                     at + 1 + Ends(e)[0], at + 1 + n).arguments
                    IN  IF n = Len(Layout(e))
                        THEN a = Formatted(e)
                        ELSE \A j \in DOMAIN a : IsReadOf(a[j], e, j, n)
  BY DEF ArgumentsRight
<1> DEFINE specs == e.request.specs
           args == e.request.args
           N == Len(args)
           M == HowMany(specs)
           source == at + 1 + Ends(e)[0]
           end == at + 1 + n
           all == PopulateFormatArguments(cells, specs, source, end)
<1>1. PICK f : IsPopulating(f, cells, specs, source, end)
  BY Populating
<1>2. /\ f[0] = [used |-> 0, arguments |-> <<>>]
      /\ \A j \in 1 .. M : f[j] = WithNext(cells, specs[j], f[j - 1], source, end)
      /\ all = f[M]
  BY <1>1 DEF IsPopulating
<1>3. Emitted(e) /\ n \in Nat /\ n <= Len(Layout(e))
  BY DEF IsStoredEvent
<1>4. /\ args \in Seq(Argument) /\ N \in Nat /\ Len(Layout(e)) \in Nat
      /\ IsPlacing(Ends(e), e)
  BY <1>3, LayoutPlaces DEF Emitted
<1>5. M \in Nat /\ M <= Len(specs)
  <2>1. M = IF Len(specs) <= MaxArguments THEN Len(specs) ELSE MaxArguments
    BY MinOfTwo, FormatAssumption DEF HowMany
  <2> QED
    BY <2>1, FormatAssumption
<1>6. Ends(e)[0] \in Nat
  BY <1>4 DEF IsPlacing
<1> DEFINE T == {i \in 0 .. M : HasRead(f[i], e, n, i)}
<1> HIDE DEF source, end, all, M, N
<1>7. 0 \in T
  <2>1. f[0].used = 0 /\ f[0].arguments = <<>>
    BY <1>2
  <2>2. OnTrack(f[0], e, n, 0)
    BY <1>4, <1>6, <2>1 DEF OnTrack, AsPassed, N
  <2>3. f[0].arguments \in Seq({}) /\ Len(f[0].arguments) = 0
    BY <2>1
  <2> QED
    BY <1>5, <2>2, <2>3 DEF HasRead
<1>8. \A i \in 0 .. M - 1 : i \in T => i + 1 \in T
  <2> SUFFICES ASSUME NEW i \in 0 .. M - 1, HasRead(f[i], e, n, i)
               PROVE  i + 1 \in T
    OBVIOUS
  <2>1. i + 1 \in 1 .. M /\ (i + 1) - 1 = i /\ i \in Nat /\ i + 1 \in 0 .. M
    BY <1>5
  <2>2. f[i + 1] = WithNext(cells, specs[i + 1], f[i], source, end)
    BY <1>2, <2>1
  <2>3. i + 1 <= N => Suits(specs[i + 1], args[i + 1])
    <3> SUFFICES ASSUME i + 1 <= N PROVE Suits(specs[i + 1], args[i + 1])
      OBVIOUS
    <3>1. i + 1 \in DOMAIN specs /\ i + 1 \in DOMAIN args
      BY <1>4, <1>5, <2>1 DEF N
    <3> QED
      BY <3>1 DEF SpecifiersFit, HasNull, Suits
  <2>4. HasRead(f[i + 1], e, n, i + 1)
    BY <2>1, <2>2, <2>3, ArgumentsGoOn DEF source, end, N
  <2> QED
    BY <2>1, <2>4
<1> HIDE DEF T
<1>9. \A i \in 0 .. M : i \in T
  BY <1>5, <1>7, <1>8, Induction
<1>10. HasRead(all, e, n, M)
  BY <1>2, <1>5, <1>9 DEF T
<1> DEFINE a == all.arguments
<1>11. PICK R : a \in Seq(R) /\ Len(a) = M
  BY <1>10 DEF HasRead
<1>12. DOMAIN a = 1 .. M /\ a = [j \in 1 .. M |-> a[j]]
  BY <1>11
<1>13. CASE n = Len(Layout(e))
  <2>1. AsPassed(all, e, M)
    BY <1>3, <1>10, <1>13 DEF HasRead, OnTrack, AllUsed, AtInfo
  <2>2. Formatted(e) = [j \in 1 .. M |-> IF j <= N THEN TextOf(e, j) ELSE <<>>]
    BY <1>13 DEF Formatted, M, N, HowMany
  <2>3. \A j \in 1 .. M : a[j] = IF j <= N THEN TextOf(e, j) ELSE <<>>
    BY <2>1 DEF AsPassed, N
  <2> HIDE DEF a
  <2>4. a = Formatted(e)
    BY <1>12, <2>2, <2>3
  <2> QED
    BY <1>13, <2>4 DEF a, all, source, end
<1>14. CASE n # Len(Layout(e))
  <2>1. InParts(all, e, n, M)
    <3>1. CASE OnTrack(all, e, n, M)
      <4> SUFFICES ASSUME NEW j \in 1 .. M PROVE IsReadOf(all.arguments[j], e, j, n)
        BY DEF InParts
      <4>1. j \in 1 .. N /\ j <= N /\ all.arguments[j] = TextOf(e, j)
        BY <1>4, <1>5, <3>1 DEF OnTrack, AsPassed, N
      <4> QED
        BY <1>3, <4>1, BeginningsAreParts DEF N, IsReadOf
    <3> QED
      BY <1>10, <3>1 DEF HasRead, AllUsed, AtInfo
  <2> QED
    BY <1>12, <1>14, <2>1 DEF InParts, all, source, end
<1> QED
  BY <1>13, <1>14
\* What there is of i arguments where there is nothing left.
HasNothing(x, i) ==
    /\ x.used = 0 /\ (\E R : x.arguments \in Seq(R)) /\ Len(x.arguments) = i
    /\ \A j \in 1 .. i : x.arguments[j] = <<>>

(* Where there is nothing left the arguments are empty, and without         *)
(* specifiers there are none.                                               *)
LEMMA NothingPopulated ==
    ASSUME NEW cells, NEW S, NEW specs \in Seq(S), NEW source \in Int, NEW limit \in Int,
           specs = <<>> \/ limit <= source
    PROVE  LET a == PopulateFormatArguments(cells, specs, source, limit).arguments
           IN  /\ \A j \in DOMAIN a : a[j] = <<>>
               /\ specs = <<>> => a = <<>>
<1> DEFINE M == HowMany(specs)
           all == PopulateFormatArguments(cells, specs, source, limit)
           a == all.arguments
<1>1. PICK f : IsPopulating(f, cells, specs, source, limit)
  BY Populating
<1>2. /\ f[0] = [used |-> 0, arguments |-> <<>>]
      /\ \A j \in 1 .. M : f[j] = WithNext(cells, specs[j], f[j - 1], source, limit)
      /\ all = f[M]
  BY <1>1 DEF IsPopulating
<1>3. M \in Nat /\ M <= Len(specs)
  <2>1. M = IF Len(specs) <= MaxArguments THEN Len(specs) ELSE MaxArguments
    BY MinOfTwo, FormatAssumption DEF HowMany
  <2> QED
    BY <2>1, FormatAssumption
<1>4. CASE specs = <<>>
  <2>1. M = 0
    BY <1>3, <1>4
  <2>2. a = <<>>
    BY <1>2, <2>1
  <2> HIDE DEF a
  <2> QED
    BY <2>2 DEF a
<1>5. CASE limit <= source /\ specs # <<>>
  <2> DEFINE T == {i \in 0 .. M : HasNothing(f[i], i)}
  <2> HIDE DEF M, all
  <2>1. 0 \in T
    <3>1. f[0].used = 0 /\ f[0].arguments = <<>> /\ <<>> \in Seq({}) /\ Len(<<>>) = 0
      BY <1>2
    <3>2. HasNothing(f[0], 0)
      BY <3>1 DEF HasNothing
    <3> QED
      BY <1>3, <3>2
  <2>2. \A i \in 0 .. M - 1 : i \in T => i + 1 \in T
    <3> SUFFICES ASSUME NEW i \in 0 .. M - 1, HasNothing(f[i], i)
                 PROVE  HasNothing(f[i + 1], i + 1)
      BY <1>3
    <3> DEFINE spec == specs[i + 1]
               sofar == f[i]
               next == WithNext(cells, spec, sofar, source, limit)
               read == ReadArgument(cells, spec, source + sofar.used, limit)
    <3>0. /\ sofar.used = 0 /\ (\E R : sofar.arguments \in Seq(R))
          /\ Len(sofar.arguments) = i /\ \A j \in 1 .. i : sofar.arguments[j] = <<>>
      BY DEF HasNothing
    <3>1. i + 1 \in 1 .. M /\ (i + 1) - 1 = i /\ i \in Nat
      BY <1>3
    <3>2. f[i + 1] = next
      BY <1>2, <3>1
    <3> HIDE DEF spec, sofar
    <3>3. /\ \E R : next.arguments \in Seq(R)
          /\ Len(next.arguments) = i + 1
          /\ next.used = sofar.used + read.used
          /\ \A j \in 1 .. i : next.arguments[j] = sofar.arguments[j]
          /\ next.arguments[i + 1] = read.text
      BY <3>0, <3>1, OneMore
    <3>4. read.used = 0 /\ read.text = <<>>
      <4>1. source + sofar.used = source
        BY <3>0
      <4> QED
        BY <1>5, <4>1, NothingBehind
    <3> HIDE DEF next, read
    <3>5. \A j \in 1 .. i + 1 : j = i + 1 \/ j \in 1 .. i
      BY <3>1
    <3>6. \A j \in 1 .. i + 1 : next.arguments[j] = <<>>
      BY <3>0, <3>3, <3>4, <3>5
    <3>7. next.used = 0
      BY <3>0, <3>3, <3>4
    <3>8. HasNothing(next, i + 1)
      BY <3>3, <3>6, <3>7 DEF HasNothing
    <3> QED
      BY <3>2, <3>8
  <2> HIDE DEF T
  <2>3. \A i \in 0 .. M : i \in T
    BY <1>3, <2>1, <2>2, Induction
  <2>4. HasNothing(all, M)
    BY <1>2, <1>3, <2>3 DEF T
  <2>5. PICK R : a \in Seq(R) /\ Len(a) = M
    BY <2>4 DEF HasNothing
  <2>6. DOMAIN a = 1 .. M
    BY <2>5
  <2> QED
    BY <1>5, <2>4, <2>6 DEF all, HasNothing
<1> QED
  BY <1>4, <1>5

\* A string is truncated to what there is of it.
LEMMA TruncatedTo ==
    ASSUME NEW s, Len(s) \in Nat, NEW k \in Int
    PROVE  Truncated(s, k) = SubSeq(s, 1, IF k < 0 THEN 0 ELSE IF k < Len(s) THEN k ELSE Len(s))
<1> DEFINE most == IF k >= 0 THEN k ELSE 0
           n == Len(s)
           least == IF n <= most THEN n ELSE most
<1>1. Max({k, 0}) = most /\ most \in Nat
  BY MaxOfTwo
<1>2. Min({n, most}) = least
  <2> HIDE DEF most
  <2> QED
    BY <1>1, MinOfTwo
<1>3. least = IF k < 0 THEN 0 ELSE IF k < n THEN k ELSE n
  <2>1. n \in Nat
    OBVIOUS
  <2> HIDE DEF n
  <2> QED
    BY <2>1
<1> HIDE DEF most, least
<1> QED
  BY <1>1, <1>2, <1>3 DEF Truncated, n

(* What is read of the name of an event: what there is of it.  The          *)
(* arguments are looked for behind it, or, if it is cut, not before the end *)
(* of what there is.                                                        *)
IsReadName(name, e, n) ==
    /\ name.text = NameIn(e, n + 1) /\ name.used \in Nat
    /\ IF NameEnd(e) <= n
       THEN name.text = FormatText(e) /\ Before(e) + name.used = NameEnd(e)
       ELSE \/ name.text = <<>>
            \/ /\ n <= Before(e) + name.used
               /\ \E k \in 1 .. Len(FormatText(e)) : name.text = SubSeq(FormatText(e), 1, k)
    /\ ~IsOld(e) /\ n < NameEnd(e) => Before(e) + name.used = n

\* What the name needs to be read.
IsNamed(cells, at, e, n, limit) ==
    /\ IsStoredEvent(cells, at, e, n) /\ e.request.type # "end"
    /\ limit \in Nat /\ at + 1 + n <= limit
    /\ n < Len(Layout(e)) => AtEnd(cells, at + 1 + n, limit)
    /\ Before(e) <= n

LEMMA PresentNameRead ==
    ASSUME NEW cells, NEW at, NEW e, NEW n, NEW limit, IsNamed(cells, at, e, n, limit),
           ~IsOld(e)
    PROVE  IsReadName(ReadFormat(cells, at + 1 + Before(e), limit), e, n)
<1> DEFINE s == FormatText(e)
           b == Before(e)
           L == Len(Layout(e))
           w == Len(s)
           start == at + 1 + b
           k == IF n - b < w THEN n - b ELSE w
           read == ReadFormat(cells, start, limit)
<1>1. /\ Emitted(e) /\ at \in Nat /\ n \in Nat /\ n <= L
      /\ \A i \in 1 .. n : cells[at + i] = Layout(e)[i]
      /\ limit \in Nat /\ at + 1 + n <= limit
      /\ n < L => AtEnd(cells, at + 1 + n, limit)
      /\ b <= n /\ e.request.type # "end"
  BY DEF IsNamed, IsStoredEvent
<1>2. FormatOf(e) = s /\ IsText(s) /\ s \in Seq(CellsOf(e))
  BY <1>1, NamesAreText, FormatCells DEF FormatOf
<1>3. w \in Nat \ {0}
  BY <1>2 DEF IsText
<1>4. b \in Nat
  BY DEF Before, ColorOf, ContextOf
<1>5. /\ NameEnd(e) = b + w /\ NameEnd(e) <= L /\ L \in Nat
      /\ \A i \in 1 .. w : Layout(e)[b + i] = s[i]
  <2>1. Layout(e) \in Seq(CellsOf(e)) /\ NameEnd(e) <= L
        /\ \A i \in 1 .. w : Layout(e)[b + i] = s[i]
    BY <1>1, <1>2, LayoutPlaces DEF Before
  <2> QED
    BY <1>2, <2>1 DEF NameEnd, Before
<1> HIDE DEF s, b, L, w, k, start, read
<1>6. k \in Nat /\ k <= w /\ k <= n - b /\ (k < w => k = n - b)
  BY <1>1, <1>3, <1>4 DEF k
<1>7. start \in Nat /\ start + k <= limit /\ (k = n - b => start + k = at + 1 + n)
  BY <1>1, <1>4, <1>6 DEF start
<1>8. NameIn(e, n + 1) = SubSeq(s, 1, k)
  <2>1. NameIn(e, n + 1) = Truncated(s, (n + 1) - (1 + Len(ColorOf(e)) + Len(ContextOf(e)) + 0))
    BY DEF NameIn, s
  <2>2. (n + 1) - (1 + Len(ColorOf(e)) + Len(ContextOf(e)) + 0) = n - b
    BY <1>1 DEF b, Before, ColorOf, ContextOf
  <2>3. n - b \in Int /\ k = IF n - b < 0 THEN 0 ELSE IF n - b < w THEN n - b ELSE w
    BY <1>1, <1>3, <1>4 DEF k
  <2>4. Truncated(s, n - b) = SubSeq(s, 1, k)
    BY <1>3, <2>3, TruncatedTo DEF w
  <2> QED
    BY <2>1, <2>2, <2>4
<1>9. CASE k = 0
  <2>1. n < L /\ start = at + 1 + n /\ n < NameEnd(e) /\ n = b
    BY <1>1, <1>3, <1>4, <1>5, <1>6, <1>7, <1>9
  <2>2. read = NothingRead
    BY <1>1, <2>1 DEF read, ReadFormat
  <2>3. read.text = <<>> /\ read.used = 0
    BY <2>2 DEF NothingRead
  <2>4. SubSeq(s, 1, 0) = <<>>
    BY <1>2
  <2>5. ~(NameEnd(e) <= n) /\ b + read.used = n
    BY <1>3, <1>4, <1>5, <2>1, <2>3
  <2> QED
    BY <1>8, <1>9, <2>3, <2>4, <2>5 DEF IsReadName, s, b, read, start
<1>10. CASE k # 0
  <2>1. IsStored(cells, s, k, start, limit)
    <3>1. ASSUME NEW j \in 1 .. k PROVE cells[start + j - 1] = s[j]
      <4>1. b + j \in 1 .. n /\ at + (b + j) = start + j - 1 /\ j \in 1 .. w
        BY <1>1, <1>3, <1>4, <1>6 DEF start
      <4> QED
        BY <1>1, <1>5, <4>1
    <3>2. k < w => AtEnd(cells, start + k, limit)
      <4>1. k < w => n < L /\ start + k = at + 1 + n
        BY <1>1, <1>3, <1>4, <1>5, <1>6, <1>7
      <4> QED
        BY <1>1, <4>1
    <3> QED
      BY <1>1, <1>6, <1>7, <1>10, <3>1, <3>2 DEF IsStored, w
  <2>2. /\ ~AtEnd(cells, start, limit) /\ Text(cells, start, limit, 1).text = SubSeq(s, 1, k)
        /\ Text(cells, start, limit, 1).used = 1 * ((k + 1 - 1) \div 1)
    BY <1>2, <2>1, TextRead
  <2>3. 1 * ((k + 1 - 1) \div 1) = k
    BY <1>6
  <2>4. read = Text(cells, start, limit, 1)
    BY <2>2 DEF read, ReadFormat
  <2>5. read.text = SubSeq(s, 1, k) /\ read.used = k
    BY <2>2, <2>3, <2>4
  <2>6. k \in 1 .. w
    BY <1>3, <1>6, <1>10
  <2>7. CASE NameEnd(e) <= n
    <3>1. k = w /\ b + k = NameEnd(e) /\ ~(n < NameEnd(e))
      BY <1>1, <1>3, <1>4, <1>5, <1>6, <2>7
    <3>2. SubSeq(s, 1, w) = s
      BY <1>2, SubSeqFull DEF w
    <3> QED
      BY <1>6, <1>8, <2>5, <2>7, <3>1, <3>2 DEF IsReadName, s, b, read, start
  <2>8. CASE ~(NameEnd(e) <= n)
    <3>1. b + k = n /\ n <= b + k
      BY <1>1, <1>3, <1>4, <1>5, <1>6, <2>8
    <3> QED
      BY <1>6, <1>8, <2>5, <2>6, <2>8, <3>1 DEF IsReadName, s, b, read, start, w
  <2> QED
    BY <2>7, <2>8
<1> QED
  BY <1>9, <1>10

LEMMA OldNameRead ==
    ASSUME NEW cells, NEW at, NEW e, NEW n, NEW limit, IsNamed(cells, at, e, n, limit),
           IsOld(e)
    PROVE  IsReadName(ReadArgumentString(cells, at + 1 + Before(e), limit), e, n)
<1> DEFINE s == FormatText(e)
           whole == FormatOf(e)
           b == Before(e)
           L == Len(Layout(e))
           w == Len(s)
           l == Len(whole)
           start == at + 1 + b
           m == IF n - b < l THEN n - b ELSE l
           read == ReadArgumentString(cells, start, limit)
<1>1. /\ Emitted(e) /\ at \in Nat /\ n \in Nat /\ n <= L
      /\ \A i \in 1 .. n : cells[at + i] = Layout(e)[i]
      /\ limit \in Nat /\ at + 1 + n <= limit
      /\ n < L => AtEnd(cells, at + 1 + n, limit)
      /\ b <= n /\ e.request.type # "end"
  BY DEF IsNamed, IsStoredEvent
<1>2. whole = StringOf(e, FormatPart, s) /\ IsText(s) /\ s \in Seq(CellsOf(e))
      /\ whole \in Seq(CellsOf(e))
  BY <1>1, NamesAreText, FormatCells DEF FormatOf
<1>3. w \in Nat \ {0} /\ l \in Nat /\ l >= 1 + w
  <2>1. w \in Nat \ {0} /\ l \in Nat
    BY <1>2 DEF IsText
  <2> DEFINE C == CellsOf(e)
             chunk == ChunkOf(e)
             part == FormatPart
  <2> HIDE DEF s, whole, C, part
  <2>2. Emitted(e) /\ s \in Seq(C) /\ whole = StringOf(e, part, s)
    BY <1>1, <1>2 DEF C, s, whole, part
  <2>3. /\ Len(StringOf(e, part, s)) = 1 + Chunks(w, chunk) * chunk
        /\ Chunks(w, chunk) * chunk \in w .. w + chunk - 1
    BY <2>2, StringPlaces
  <2>4. chunk \in {1, 2}
    BY <2>2 DEF Emitted
  <2> HIDE DEF w, chunk
  <2> QED
    BY <2>1, <2>2, <2>3, <2>4
<1>4. b \in Nat
  BY DEF Before, ColorOf, ContextOf
<1>5. /\ NameEnd(e) = b + l /\ NameEnd(e) <= L /\ L \in Nat
      /\ \A i \in 1 .. l : Layout(e)[b + i] = whole[i]
  <2>1. Layout(e) \in Seq(CellsOf(e)) /\ NameEnd(e) <= L
        /\ \A i \in 1 .. l : Layout(e)[b + i] = whole[i]
    BY <1>1, LayoutPlaces DEF Before
  <2> QED
    BY <2>1 DEF NameEnd, Before
<1> HIDE DEF s, whole, b, L, w, l, m, start, read
<1>6. m \in Nat /\ m <= l /\ m <= n - b /\ (m < l => m = n - b)
  BY <1>1, <1>3, <1>4 DEF m
<1>7. start \in Nat /\ start + m <= limit /\ (m = n - b => start + m = at + 1 + n)
  BY <1>1, <1>4, <1>6 DEF start
<1>8. IsStoredString(cells, e, FormatPart, s, m, start, limit)
  <2>1. ASSUME NEW j \in 1 .. m PROVE cells[start + j - 1] = whole[j]
    <3>1. b + j \in 1 .. n /\ at + (b + j) = start + j - 1 /\ j \in 1 .. l
      BY <1>1, <1>3, <1>4, <1>6 DEF start
    <3> QED
      BY <1>1, <1>5, <3>1
  <2>2. m < l => AtEnd(cells, start + m, limit)
    <3>1. m < l => n < L /\ start + m = at + 1 + n
      BY <1>1, <1>3, <1>4, <1>5, <1>6, <1>7
    <3> QED
      BY <1>1, <3>1
  <2> QED
    BY <1>1, <1>2, <1>6, <1>7, <2>1, <2>2 DEF IsStoredString, l
<1>9. IsReadString(read, e, FormatPart, s, m)
  BY <1>8, StringRead DEF read
<1> DEFINE k == IF n - b - 1 < 0 THEN 0 ELSE IF n - b - 1 < w THEN n - b - 1 ELSE w
<1>10. NameIn(e, n + 1) = SubSeq(s, 1, k)
  <2>1. NameIn(e, n + 1) = Truncated(s, (n + 1) - (1 + Len(ColorOf(e)) + Len(ContextOf(e)) + 1))
    BY DEF NameIn, s
  <2>2. (n + 1) - (1 + Len(ColorOf(e)) + Len(ContextOf(e)) + 1) = n - b - 1
    BY <1>1 DEF b, Before, ColorOf, ContextOf
  <2>3. n - b - 1 \in Int
    BY <1>1, <1>4
  <2>4. Truncated(s, n - b - 1) = SubSeq(s, 1, k)
    BY <1>3, <2>3, TruncatedTo DEF w
  <2> QED
    BY <2>1, <2>2, <2>4
<1>11. k = IF n - b - 1 < 0 THEN 0 ELSE IF n - b - 1 < w THEN n - b - 1 ELSE w
  OBVIOUS
<1> HIDE DEF k
<1>12. CASE m <= 1
  <2>1. read.text = <<>> /\ read.used = 0
    BY <1>9, <1>12 DEF IsReadString, NothingRead
  <2>2. k = 0 /\ ~(NameEnd(e) <= n)
    BY <1>1, <1>3, <1>4, <1>5, <1>6, <1>11, <1>12
  <2>3. SubSeq(s, 1, 0) = <<>>
    BY <1>2
  <2> QED
    BY <1>10, <2>1, <2>2, <2>3 DEF IsReadName, s, b, read, start
<1>13. CASE ~(m <= 1)
  <2>1. PICK i \in 1 .. w :
          /\ read.text = SubSeq(s, 1, i) /\ read.used \in Nat
          /\ IF m - 1 < w THEN i = m - 1 /\ read.used >= m
                          ELSE i = w /\ read.used = l
    BY <1>2, <1>9, <1>13 DEF IsReadString, w, l
  <2> DEFINE u == read.used
  <2>2. u \in Nat /\ (IF m - 1 < w THEN i = m - 1 /\ u >= m ELSE i = w /\ u = l)
    BY <2>1
  <2> HIDE DEF u
  <2>3. i = k
    BY <1>1, <1>3, <1>4, <1>6, <1>11, <1>13, <2>2
  <2>4. CASE NameEnd(e) <= n
    <3>1. i = w /\ b + u = NameEnd(e)
      BY <1>1, <1>3, <1>4, <1>5, <1>6, <2>2, <2>4
    <3>2. SubSeq(s, 1, w) = s
      BY <1>2, SubSeqFull DEF w
    <3> QED
      BY <1>10, <2>1, <2>3, <2>4, <3>1, <3>2 DEF IsReadName, s, b, read, start, u
  <2>5. CASE ~(NameEnd(e) <= n)
    <3>1. n <= b + u
      BY <1>1, <1>3, <1>4, <1>5, <1>6, <2>2, <2>5
    <3> QED
      BY <1>10, <2>1, <2>3, <2>5, <3>1 DEF IsReadName, s, b, read, start, u, w
  <2> QED
    BY <2>4, <2>5
<1> QED
  BY <1>12, <1>13
-----------------------------------------------------------------------------
(* Its header says what an event consists of, and that of the present       *)
(* format how much of it there is.                                          *)
IsHeaderOf(header, e, n) ==
    /\ e.request.hasColor \in BOOLEAN /\ e.request.onContext \in BOOLEAN
    /\ header.hasColor = e.request.hasColor /\ header.onContext = e.request.onContext
    /\ header.legacy <=> IsOld(e)
    /\ IsOld(e) => (header.noVarArgs <=> e.request.args = <<>>)
    /\ ~IsOld(e) => ~header.noVarArgs /\ header.size = n + 1

\* An argument takes a qword at least.
LEMMA ArgumentNotEmpty ==
    ASSUME NEW e, Emitted(e), NEW j \in 1 .. Len(e.request.args)
    PROVE  Len(ArgumentOf(e, j)) \in Nat \ {0}
<1> DEFINE a == e.request.args[j]
           W == ArgumentOf(e, j)
<1>1. a.kind \in {"value", "string", "null"} /\ a.qwords \in Nat
  <2>1. a \in Argument
    BY ElementOfSeq DEF Emitted
  <2> HIDE DEF a
  <2> QED
    BY <2>1 DEF Emitted, Argument
<1> HIDE DEF a
<1>2. CASE a.kind = "value"
  <2>1. W = <<Value(e.number, j)>>
    BY <1>2 DEF ArgumentOf, TextOf, a
  <2> QED
    BY <2>1
<1>3. CASE a.kind = "null"
  <2>1. W = <<Zero>>
    BY <1>3 DEF ArgumentOf, a
  <2> QED
    BY <2>1
<1>4. CASE a.kind = "string"
  <2> DEFINE c(i) == Chars(e.number, j, i, a.qwords, <<>>)
             C == {c(i) : i \in 1 .. a.qwords}
             s == TextOf(e, j)
  <2>1. W = StringOf(e, j, s) /\ s = [i \in 1 .. a.qwords |-> c(i)]
    BY <1>4 DEF ArgumentOf, TextOf, CharsOf, a
  <2>2. \A i \in 1 .. a.qwords : c(i) \in C
    OBVIOUS
  <2> HIDE DEF c, C, s
  <2>3. s \in Seq(C)
    BY <1>1, <2>1, <2>2
  <2> DEFINE k == Chunks(Len(s), ChunkOf(e)) * ChunkOf(e)
  <2>4. Len(StringOf(e, j, s)) = 1 + k /\ k \in Len(s) .. Len(s) + ChunkOf(e) - 1
    BY <2>3, StringPlaces
  <2>5. Len(s) \in Nat /\ ChunkOf(e) \in {1, 2}
    BY <2>3 DEF Emitted
  <2> HIDE DEF k
  <2>6. 1 + k \in Nat \ {0}
    BY <2>4, <2>5
  <2> QED
    BY <2>1, <2>4, <2>6
<1> QED
  BY <1>1, <1>2, <1>3, <1>4

(* The specifiers in what there is of the name of an event.                 *)
LEMMA SpecsRead ==
    ASSUME NEW e, Emitted(e), e.request.type # "end", SpecifiersFit(e.request),
           NEW k \in 1 .. Len(FormatText(e))
    PROVE  Specs(SubSeq(FormatText(e), 1, k)) = e.request.specs
<1> DEFINE s == FormatText(e)
           t == SubSeq(s, 1, k)
           f == e.request.format
<1>1. s \in Seq(CellsOf(e)) /\ f \in Nat
  BY FormatCells DEF Emitted
<1>2. t # <<>> /\ Head(t) = s[1]
  <2> DEFINE C == CellsOf(e)
  <2>1. k \in 1 .. Len(s) /\ s \in Seq(C)
    BY <1>1
  <2> HIDE DEF s, C
  <2>2. t = [i \in 1 .. k |-> s[i]] /\ t \in Seq(C) /\ Len(t) = k /\ 1 \in 1 .. k
    BY <2>1
  <2> HIDE DEF t
  <2>3. t # <<>> /\ t[1] = s[1]
    BY <2>1, <2>2
  <2> QED
    BY <2>2, <2>3
<1>3. Specs(t) = IF s[1].kind = "chars" THEN s[1].specs ELSE <<>>
  <2> HIDE DEF t, s
  <2> QED
    BY <1>2 DEF Specs
<1>4. CASE f = 0
  <2>1. s = <<Zero>> /\ e.request.specs = <<>>
    BY <1>4 DEF FormatText, SpecifiersFit
  <2>2. s[1].kind = "zero"
    BY <2>1 DEF Zero
  <2> HIDE DEF s, t
  <2> QED
    BY <1>3, <2>1, <2>2 DEF t, s
<1>5. CASE f # 0
  <2>1. s = [i \in 1 .. f |-> Chars(e.number, FormatPart, i, f, e.request.specs)]
    BY <1>5 DEF FormatText, CharsOf
  <2>2. s[1] = Chars(e.number, FormatPart, 1, f, e.request.specs)
    <3>1. 1 \in 1 .. f
      BY <1>1, <1>5
    <3> HIDE DEF f, s
    <3> QED
      BY <2>1, <3>1
  <2>3. s[1].kind = "chars" /\ s[1].specs = e.request.specs
    BY <2>2 DEF Chars
  <2> HIDE DEF s, t
  <2> QED
    BY <1>3, <2>3 DEF t, s
<1> QED
  BY <1>4, <1>5

\* What ReadEvent finds where there is more than the header.
LEMMA FieldsRead ==
    ASSUME NEW cells, NEW at \in Nat, NEW limit \in Nat, at + 1 < limit
    PROVE  LET header == PIXDecodeEventInfo(cells[at])
               color == IF header.hasColor THEN 1 ELSE 0
               context == IF header.onContext THEN 1 ELSE 0
               start == at + 1 + color + context
               name == IF header.legacy THEN ReadArgumentString(cells, start, limit)
                                        ELSE ReadFormat(cells, start, limit)
               source == start + name.used
               data == ReadEvent(cells, at, limit)
           IN  /\ data.color = IF header.hasColor THEN <<cells[at + 1]>> ELSE <<>>
               /\ data.context = IF header.onContext THEN <<cells[at + 1 + color]>> ELSE <<>>
               /\ data.name = name.text
               /\ data.arguments =
                     IF NoVarArgs(header, source - at)
                     THEN <<>>
                     ELSE PopulateFormatArguments(cells, Specs(name.text), source,
                                                  EndOfArguments(cells, at, limit)).arguments
<1> DEFINE header == PIXDecodeEventInfo(cells[at])
           color == IF header.hasColor THEN 1 ELSE 0
           context == IF header.onContext THEN 1 ELSE 0
           start == at + 1 + color + context
           name == IF header.legacy THEN ReadArgumentString(cells, start, limit)
                                    ELSE ReadFormat(cells, start, limit)
           source == start + name.used
           all == PopulateFormatArguments(cells, Specs(name.text), source,
                                          EndOfArguments(cells, at, limit))
           rest == IF NoVarArgs(header, source - at) THEN Unformatted ELSE all
           data == [color |-> IF header.hasColor THEN <<cells[at + 1]>> ELSE <<>>,
                    context |-> IF header.onContext THEN <<cells[at + 1 + color]>> ELSE <<>>,
                    name |-> name.text,
                    formatUsed |-> name.used,
                    arguments |-> rest.arguments,
                    used |-> source + rest.used - (at + 1)]
<1>1. ~(at + 1 >= limit)
  OBVIOUS
<1>2. ReadEvent(cells, at, limit) = data
  BY <1>1 DEF ReadEvent
<1>3. rest.arguments = IF NoVarArgs(header, source - at) THEN <<>> ELSE all.arguments
  <2> HIDE DEF header, source, all
  <2>1. Unformatted.arguments = <<>>
    BY DEF Unformatted
  <2> QED
    BY <2>1
<1> HIDE DEF header, rest, source, name, all
<1>4. /\ data.color = (IF header.hasColor THEN <<cells[at + 1]>> ELSE <<>>)
      /\ data.context = (IF header.onContext THEN <<cells[at + 1 + color]>> ELSE <<>>)
      /\ data.name = name.text
      /\ data.arguments = rest.arguments
  OBVIOUS
<1> QED
  BY <1>2, <1>3, <1>4 DEF header, name, source, all

(* The event is read as what it was emitted for.                            *)
LEMMA EventRead ==
    ASSUME NEW cells, NEW at, NEW e, NEW n, NEW limit, IsNamed(cells, at, e, n, limit),
           n >= 1, IsHeaderOf(PIXDecodeEventInfo(cells[at]), e, n),
           EndOfArguments(cells, at, limit) = at + 1 + n,
           NEW S, e.request.specs \in Seq(S)
    PROVE  LET d == ReadEvent(cells, at, limit)
           IN  /\ d.color = ColorOf(e) /\ d.context = ContextOf(e)
               /\ d.name = NameIn(e, n + 1)
               /\ ArgumentsRight(d.arguments, e, n)
<1> DEFINE header == PIXDecodeEventInfo(cells[at])
           color == IF header.hasColor THEN 1 ELSE 0
           context == IF header.onContext THEN 1 ELSE 0
           start == at + 1 + color + context
           name == IF header.legacy THEN ReadArgumentString(cells, start, limit)
                                    ELSE ReadFormat(cells, start, limit)
           source == start + name.used
           end == EndOfArguments(cells, at, limit)
           d == ReadEvent(cells, at, limit)
           c == Len(ColorOf(e))
           x == Len(ContextOf(e))
           b == Before(e)
           L == Len(Layout(e))
           r == e.request
<1>1. /\ Emitted(e) /\ at \in Nat /\ n \in Nat /\ n <= L
      /\ \A i \in 1 .. n : cells[at + i] = Layout(e)[i]
      /\ limit \in Nat /\ at + 1 + n <= limit
      /\ b <= n /\ r.type # "end" /\ IsStoredEvent(cells, at, e, n)
  BY DEF IsNamed, IsStoredEvent
<1>2. /\ r.hasColor \in BOOLEAN /\ r.onContext \in BOOLEAN
      /\ header.hasColor = r.hasColor /\ header.onContext = r.onContext
      /\ header.legacy <=> IsOld(e)
      /\ IsOld(e) => (header.noVarArgs <=> r.args = <<>>)
      /\ ~IsOld(e) => ~header.noVarArgs /\ header.size = n + 1
  BY DEF IsHeaderOf
<1>3. at + 1 < limit
  BY <1>1
<1>4. /\ d.color = (IF header.hasColor THEN <<cells[at + 1]>> ELSE <<>>)
      /\ d.context = (IF header.onContext THEN <<cells[at + 1 + color]>> ELSE <<>>)
      /\ d.name = name.text
      /\ d.arguments = IF NoVarArgs(header, source - at)
                       THEN <<>>
                       ELSE PopulateFormatArguments(cells, Specs(name.text), source, end).arguments
  BY <1>1, <1>3, FieldsRead
<1>5. end = at + 1 + n
  OBVIOUS
<1> HIDE DEF header, end, d
<1>6. /\ c = color /\ c \in {0, 1} /\ x = context /\ x \in {0, 1} /\ b = c + x
      /\ ColorOf(e) = IF header.hasColor THEN <<Color(e.number)>> ELSE <<>>
      /\ ContextOf(e) = IF header.onContext THEN <<Context(e.number)>> ELSE <<>>
  BY <1>2 DEF ColorOf, ContextOf, Before
<1>7. start = at + 1 + b
  BY <1>1, <1>6
<1>8. IsReadName(name, e, n)
  <2>1. CASE IsOld(e)
    BY <1>2, <1>7, <2>1, OldNameRead
  <2>2. CASE ~IsOld(e)
    BY <1>2, <1>7, <2>2, PresentNameRead
  <2> QED
    BY <2>1, <2>2
<1> HIDE DEF name, c, x, b, start, color, context, source
<1>9. /\ \A i \in 1 .. c : Layout(e)[i] = ColorOf(e)[i]
      /\ \A i \in 1 .. x : Layout(e)[c + i] = ContextOf(e)[i]
      /\ IsPlacing(Ends(e), e) /\ Layout(e) \in Seq(CellsOf(e))
  BY <1>1, LayoutPlaces DEF c, x
<1>10. d.color = ColorOf(e)
  <2>1. CASE header.hasColor
    <3>1. c = 1 /\ 1 \in 1 .. n /\ ColorOf(e) = <<Color(e.number)>>
      BY <1>1, <1>6, <2>1 DEF color
    <3>2. cells[at + 1] = Layout(e)[1] /\ Layout(e)[1] = ColorOf(e)[1]
      BY <1>1, <1>9, <3>1
    <3>3. ColorOf(e)[1] = Color(e.number)
      BY <3>1
    <3> QED
      BY <1>4, <2>1, <3>1, <3>2, <3>3
  <2>2. CASE ~header.hasColor
    BY <1>4, <1>6, <2>2
  <2> QED
    BY <2>1, <2>2
<1>11. d.context = ContextOf(e)
  <2>1. CASE header.onContext
    <3>1. x = 1 /\ c + 1 \in 1 .. n /\ ContextOf(e) = <<Context(e.number)>>
          /\ at + 1 + color = at + (c + 1) /\ 1 \in 1 .. x
      BY <1>1, <1>6, <2>1 DEF context
    <3>2. cells[at + (c + 1)] = Layout(e)[c + 1] /\ Layout(e)[c + 1] = ContextOf(e)[1]
      BY <1>1, <1>9, <3>1
    <3>3. ContextOf(e)[1] = Context(e.number)
      BY <3>1
    <3> QED
      BY <1>4, <2>1, <3>1, <3>2, <3>3
  <2>2. CASE ~header.onContext
    BY <1>4, <1>6, <2>2
  <2> QED
    BY <2>1, <2>2
<1>12. /\ name.text = NameIn(e, n + 1) /\ name.used \in Nat
       /\ IF NameEnd(e) <= n
          THEN name.text = FormatText(e) /\ b + name.used = NameEnd(e)
          ELSE \/ name.text = <<>>
               \/ /\ n <= b + name.used
                  /\ \E k \in 1 .. Len(FormatText(e)) : name.text = SubSeq(FormatText(e), 1, k)
       /\ ~IsOld(e) /\ n < NameEnd(e) => b + name.used = n
  BY <1>8 DEF IsReadName, b
<1>13. /\ NameEnd(e) \in Nat /\ L \in Nat /\ Ends(e)[0] = NameEnd(e)
       /\ r.args \in Seq(Argument) /\ NameEnd(e) <= L
       /\ b \in Nat
  <2>1. L \in Nat /\ NameEnd(e) <= L
    BY <1>1, <1>9, LayoutPlaces
  <2>2. Ends(e)[0] = NameEnd(e) /\ Ends(e)[0] \in Nat
    <3>1. r.args \in Seq(Argument)
      BY <1>1 DEF Emitted
    <3>2. 0 \in 0 .. Len(r.args)
      BY <3>1
    <3> QED
      BY <1>9, <3>2 DEF IsPlacing
  <2> QED
    BY <1>1, <1>6, <2>1, <2>2 DEF Emitted
<1> DEFINE u == name.used
           y == NameEnd(e)
<1> HIDE DEF L
<1>14. /\ source - at = 1 + b + u /\ source \in Nat /\ source = at + 1 + b + u
       /\ u \in Nat /\ y \in Nat /\ n \in Nat /\ at \in Nat /\ b \in Nat /\ L \in Nat
       /\ n <= L /\ y <= L
  <2>1. source = start + u
    BY DEF source
  <2>2. u \in Nat /\ y \in Nat /\ y <= L
    BY <1>12, <1>13
  <2> HIDE DEF u, y
  <2> QED
    BY <1>1, <1>7, <1>13, <2>1, <2>2
<1>19. /\ y <= n => b + u = y
       /\ ~IsOld(e) /\ n < y => b + u = n
  BY <1>12
<1> HIDE DEF u, y
<1>15. ASSUME r.args = <<>> PROVE L = y /\ Formatted(e) = <<>>
  <2>1. Len(r.args) = 0
    BY <1>15
  <2> QED
    BY <1>9, <1>13, <1>15, <2>1 DEF IsPlacing, Formatted, L, y
<1>16. ASSUME r.args # <<>> PROVE y < L
  <2>1. 1 \in 1 .. Len(r.args) /\ 1 - 1 = 0
    BY <1>13, <1>16
  <2>2. Ends(e)[1] = Ends(e)[0] + Len(ArgumentOf(e, 1)) /\ Ends(e)[1] <= L
    BY <1>9, <2>1 DEF IsPlacing, L
  <2>3. Len(ArgumentOf(e, 1)) \in Nat \ {0}
    BY <1>1, <2>1, ArgumentNotEmpty
  <2>4. Ends(e)[0] = y
    BY <1>13 DEF y
  <2> DEFINE w == Len(ArgumentOf(e, 1))
  <2> HIDE DEF w
  <2>5. y + w <= L /\ w \in Nat \ {0}
    BY <2>2, <2>3, <2>4 DEF w
  <2> QED
    BY <1>14, <2>5
<1>17. ASSUME SpecifiersFit(r), ~HasNull(e)
       PROVE  IF n = L THEN d.arguments = Formatted(e)
              ELSE \A j \in DOMAIN d.arguments : IsReadOf(d.arguments[j], e, j, n)
  <2>1. CASE NoVarArgs(header, source - at)
    <3>1. d.arguments = <<>>
      BY <1>4, <2>1
    <3>2. CASE n = L
      <4>1. CASE IsOld(e)
        <5>1. r.args = <<>>
          BY <1>2, <2>1, <4>1 DEF NoVarArgs
        <5> QED
          BY <1>15, <3>1, <3>2, <5>1
      <4>2. CASE ~IsOld(e)
        <5>1. source - at = n + 1
          BY <1>2, <2>1, <4>2 DEF NoVarArgs
        <5>2. y = n
          BY <1>14, <1>19, <3>2, <4>2, <5>1
        <5>3. r.args = <<>>
          BY <1>14, <1>16, <3>2, <5>2
        <5> QED
          BY <1>15, <3>1, <3>2, <5>3
      <4> QED
        BY <4>1, <4>2
    <3>3. CASE n # L
      <4>1. DOMAIN d.arguments = {}
        BY <3>1
      <4> QED
        BY <3>3, <4>1
    <3> QED
      BY <3>2, <3>3
  <2>2. CASE ~NoVarArgs(header, source - at)
    <3> DEFINE specs == Specs(name.text)
               a == PopulateFormatArguments(cells, specs, source, end).arguments
    <3>1. d.arguments = a
      BY <1>4, <2>2
    <3>2. CASE y <= n
      <4>1. specs = r.specs
        <5>1. FormatText(e) \in Seq(CellsOf(e)) /\ IsText(FormatText(e))
          BY <1>1, FormatCells, NamesAreText
        <5>2. Len(FormatText(e)) \in 1 .. Len(FormatText(e))
              /\ SubSeq(FormatText(e), 1, Len(FormatText(e))) = FormatText(e)
          BY <5>1, SubSeqFull DEF IsText
        <5> QED
          BY <1>1, <1>12, <1>17, <3>2, <5>2, SpecsRead DEF y
      <4>2. source = at + 1 + Ends(e)[0]
        <5>1. source = at + 1 + y
          BY <1>14, <1>19, <3>2
        <5> QED
          BY <1>13, <5>1 DEF y
      <4>3. r.args # <<>> \/ n # L
        <5> SUFFICES ASSUME r.args = <<>>, n = L PROVE FALSE
          OBVIOUS
        <5>1. IsOld(e) => header.noVarArgs
          BY <1>2
        <5>2. ~IsOld(e) => ~header.legacy /\ source - at = header.size
          <6>1. source - at = n + 1
            BY <1>14, <1>15, <1>19, <3>2
          <6> QED
            BY <1>2, <6>1
        <5> QED
          BY <2>2, <5>1, <5>2 DEF NoVarArgs
      <4>4. ArgumentsRight(a, e, n)
        BY <1>1, <1>5, <1>13, <3>2, <4>1, <4>2, <4>3, PopulatedArguments DEF L, y
      <4> HIDE DEF a
      <4> QED
        BY <1>17, <3>1, <4>4 DEF ArgumentsRight, L
    <3>3. CASE ~(y <= n)
      <4>1. n # L
        BY <1>14, <3>3
      <4>2. /\ end \in Int /\ source \in Int
            /\ \/ specs = <<>>
               \/ specs = r.specs /\ end <= source
        <5>1. CASE name.text = <<>>
          <6>1. specs = <<>>
            BY <5>1 DEF Specs
          <6> QED
            BY <1>5, <1>14, <6>1
        <5>2. CASE name.text # <<>>
          <6>1. n <= b + u
                /\ \E k \in 1 .. Len(FormatText(e)) : name.text = SubSeq(FormatText(e), 1, k)
            BY <1>12, <3>3, <5>2 DEF u, y
          <6>2. specs = r.specs
            BY <1>1, <1>17, <6>1, SpecsRead
          <6>3. end <= source /\ end \in Int /\ source \in Int
            BY <1>5, <1>14, <6>1
          <6> QED
            BY <6>2, <6>3
        <5> QED
          BY <5>1, <5>2
      <4>3. \A j \in DOMAIN a : a[j] = <<>>
        <5> HIDE DEF specs
        <5>1. \E R : specs \in Seq(R)
          <6>1. <<>> \in Seq({})
            OBVIOUS
          <6> QED
            BY <4>2, <6>1
        <5> QED
          BY <4>2, <5>1, NothingPopulated
      <4> HIDE DEF a
      <4> QED
        BY <3>1, <4>1, <4>3 DEF IsReadOf, IsPartOf
    <3> QED
      BY <3>2, <3>3
  <2> QED
    BY <2>1, <2>2
<1>18. ArgumentsRight(d.arguments, e, n)
  BY <1>17 DEF ArgumentsRight, L
<1> QED
  BY <1>4, <1>10, <1>11, <1>12, <1>18 DEF d
=============================================================================
