------------------------- MODULE ContextEventsProofs -------------------------
(***************************************************************************)
(* What is made of an event in the buffer on the stack has space there, for *)
(* events of any length and both formats.  What D3D12 is given of an event, *)
(* from there or from a block, is that event, as far as there was space,    *)
(* and is decoded as such; from a block it is never less.                   *)
(*                                                                          *)
(* The last needs the records in a block and in the buffer read alongside:  *)
(* the reader is at the same argument in both until the shorter has ended.  *)
(***************************************************************************)
EXTENDS ContextBlobs, EventReadingProofs
-----------------------------------------------------------------------------
\* What the assumption says of the limit of the buffer.
LEMMA BufferLimits ==
    /\ BufferLimit \in Nat /\ 4 <= BufferLimit /\ SizeMax \in Nat /\ BufferLimit <= SizeMax
    /\ BufferLimit + 2 <= GraphicsRecordSpace /\ GraphicsRecordSpace \in Nat
    /\ BiasedLimit + BufferLimit <= CopyLimit
BY BlockAssumption, ContextAssumption, FormatAssumption DEF BufferLimit, CopyLimit, BiasedLimit

(* What is copied into the buffer is as much as there is space for.         *)
LEMMA CopiedAdds ==
    ASSUME NEW e, ChunkOf(e) = 1, NEW C, NEW record \in Seq(C), NEW cells \in Seq(CellsOf(e))
    PROVE  Adds(record, Copied(record, cells), cells, e, BufferLimit)
<1> DEFINE n == Len(record)
           w == Len(cells)
           room == Max({BufferLimit - n, 0})
           m == Min({w, room})
           text == SubSeq(cells, 1, m)
<1>1. n \in Nat /\ w \in Nat /\ BufferLimit \in Nat
  BY BufferLimits
<1>2. room = IF BufferLimit - n >= 0 THEN BufferLimit - n ELSE 0
  BY <1>1, MaxOfTwo
<1>3. room \in Nat
  BY <1>1, <1>2
<1> HIDE DEF room
<1>4. m = IF w <= room THEN w ELSE room
  BY <1>1, <1>3, MinOfTwo
<1>5. m \in 0 .. w
  BY <1>1, <1>3, <1>4
<1>6. Copied(record, cells) = record \o text
  BY DEF Copied, m, room, n, w
<1> HIDE DEF m
<1>7. /\ text \in Seq(CellsOf(e)) /\ Len(text) = m
      /\ \A k \in 1 .. m : text[k] = cells[k]
  BY <1>5
<1>8. n >= BufferLimit => text = <<>>
  <2> SUFFICES ASSUME n >= BufferLimit PROVE text = <<>>
    OBVIOUS
  <2>1. m = 0
    BY <1>1, <1>2, <1>4
  <2> HIDE DEF text
  <2> QED
    BY <1>7, <2>1
<1>9. ~(n >= BufferLimit) => IsCopied(text, cells, e, n, BufferLimit)
  <2> SUFFICES ASSUME ~(n >= BufferLimit) PROVE IsCopied(text, cells, e, n, BufferLimit)
    OBVIOUS
  <2>1. m = w \/ BufferLimit <= n + m
    BY <1>1, <1>2, <1>4
  <2>2. n + m < BufferLimit + 1 /\ m <= w
    BY <1>1, <1>2, <1>4
  <2> HIDE DEF n, w, text
  <2> QED
    BY <1>7, <2>1, <2>2 DEF IsCopied, w
<1> HIDE DEF text
<1> QED
  BY <1>6, <1>8, <1>9 DEF Adds, IsAdded, n
-----------------------------------------------------------------------------
(* The name and the arguments of the record in the buffer, each on what     *)
(* there was before it.                                                     *)
LocalBegun(r, n) == <<Garbage>> \o (IF r.hasColor THEN <<Color(n)>> ELSE <<>>)
LocalNamed(r, n) ==
    LET placed == Copied(LocalBegun(r, n), <<Context(n)>>)
    IN  IF r.format = 0
        THEN Append(placed, Zero)
        ELSE Copied(placed, StringCells(n, FormatPart, r.format, r.specs))
LocalHeader(r, size) == PIXEncodeEventInfo(0, r.type, size, r.hasColor, TRUE)
IsLocalWriting(f, r, n) ==
    /\ f[0] = LocalNamed(r, n)
    /\ \A j \in 1 .. Len(r.args) : f[j] = Copied(f[j - 1], ArgumentCells(n, j, r.args[j]))
    /\ LocalRecord(r, n) =
          [f[Len(r.args)] EXCEPT ![1] = LocalHeader(r, Len(f[Len(r.args)]))]

(* There is such a sequence of records: the fold over the arguments has     *)
(* values for all sets of them.                                             *)
LEMMA LocalWriting ==
    ASSUME NEW r, NEW n, Len(r.args) \in Nat, NEW Q, LocalNamed(r, n) \in Q,
           \A s \in Q, j \in 1 .. Len(r.args) : Copied(s, ArgumentCells(n, j, r.args[j])) \in Q,
           DOMAIN r.args = 1 .. Len(r.args)
    PROVE  \E f : IsLocalWriting(f, r, n)
<1> DEFINE named == LocalNamed(r, n)
           D == DOMAIN r.args
           N == Len(r.args)
           Op(s, j) == Copied(s, ArgumentCells(n, j, r.args[j]))
           step == [p \in Q \X D |-> Op(p[1], p[2])]
           order == [j \in D |-> j]
           Folds(g) == g = [s \in SUBSET D |->
                               IF s = {} THEN named
                               ELSE Op(g[s \ {Max(s)}], order[Max(s)])]
           h == CHOOSE g : Folds(g)
<1>1. N \in Nat /\ D = 1 .. N /\ DOMAIN order = D
  OBVIOUS
<1>2. LocalRecord(r, n) = [h[D] EXCEPT ![1] = LocalHeader(r, Len(h[D]))]
  BY DEF LocalRecord, LocalNamed, LocalBegun, LocalHeader, FoldLeft, MapThenFoldSet
<1>3. named \in Q
  OBVIOUS
<1>4. ASSUME NEW s \in Q, NEW j \in D PROVE Op(s, j) \in Q
  OBVIOUS
<1> HIDE DEF Op, named, N, D
<1>5. IsStep(step, Q, N) /\ \A s \in Q, j \in D : step[<<s, j>>] = Op(s, j)
  BY <1>1, <1>4 DEF IsStep
<1> HIDE DEF step
<1>6. PICK g \in [SUBSET D -> Q] : IsFold(g, named, step, N)
  BY <1>1, <1>3, <1>5, FoldExists
<1>7. Folds(g)
  <2>1. ASSUME NEW s \in SUBSET D
        PROVE  g[s] = IF s = {} THEN named ELSE Op(g[s \ {Max(s)}], order[Max(s)])
    <3>1. CASE s = {}
      BY <1>1, <1>6, <3>1 DEF IsFold
    <3>2. CASE s # {}
      <4> DEFINE m == Max(s)
      <4>1. m \in s
        BY <1>1, <3>2, Largest
      <4>2. m \in D /\ s \ {m} \in SUBSET D
        BY <4>1
      <4>3. g[s] = step[<<g[s \ {m}], m>>]
        BY <1>1, <1>6, <3>2 DEF IsFold
      <4> HIDE DEF m
      <4>4. g[s \ {m}] \in Q /\ order[m] = m
        BY <1>6, <4>2
      <4>5. g[s] = Op(g[s \ {m}], order[m])
        BY <1>5, <4>2, <4>3, <4>4
      <4> QED
        BY <3>2, <4>5 DEF m
    <3> QED
      BY <3>1, <3>2
  <2> HIDE DEF order
  <2> QED
    BY <1>6, <2>1
<1>8. Folds(h)
  <2> HIDE DEF Folds
  <2> QED
    BY <1>7, Zenon
<1> HIDE DEF h
<1> DEFINE f == [i \in 0 .. N |-> h[1 .. i]]
<1>9. f[0] = named
  <2>1. {} \in SUBSET D /\ 1 .. 0 = {} /\ 0 \in 0 .. N
    BY <1>1
  <2>2. h[{}] = named
    BY <1>8, <2>1
  <2> QED
    BY <2>1, <2>2
<1>10. ASSUME NEW j \in 1 .. N PROVE f[j] = Op(f[j - 1], j)
  <2> DEFINE s == 1 .. j
  <2>1. j \in Nat /\ 1 <= j /\ j <= N /\ j \in 0 .. N /\ j - 1 \in 0 .. N
        /\ j \in Nat \ {0}
    BY <1>1
  <2>2. s \in SUBSET D /\ j \in s /\ j \in D
    BY <1>1, <2>1
  <2>3. s \ {j} = 1 .. (j - 1)
    BY <2>1
  <2>4. order[j] = j
    BY <2>2
  <2>5. Max(s) = j
    BY <2>1, <2>2, LargestIsLast
  <2>6. s # {}
    BY <2>2
  <2> HIDE DEF s, order
  <2>7. h[s] = Op(h[s \ {j}], order[j])
    BY <1>8, <2>2, <2>5, <2>6
  <2>8. f[j] = h[s] /\ f[j - 1] = h[s \ {j}]
    BY <2>1, <2>3 DEF s
  <2> QED
    BY <2>4, <2>7, <2>8
<1>11. f[N] = h[D]
  <2>1. N \in 0 .. N
    BY <1>1
  <2> QED
    BY <1>1, <2>1
<1> HIDE DEF f
<1>12. IsLocalWriting(f, r, n)
  BY <1>2, <1>9, <1>10, <1>11 DEF IsLocalWriting, Op, named, N
<1> QED
  BY <1>12
(* The event of a call of the present format.                               *)
PresentEvent(r, n) == [number |-> n, request |-> r]

(* A blob is what there is of an event, with a header that says so.         *)
IsBlobOf(blob, e, n) ==
    /\ n \in Nat /\ n <= Len(Layout(e)) /\ Len(blob) = n + 1
    /\ \A k \in 1 .. n : blob[1 + k] = Layout(e)[k]
    /\ blob[1].kind = "header" /\ IsHeaderOf(PIXDecodeEventInfo(blob[1]), e, n)

\* It is all of the event, or at least as much as there is space for in the buffer.
IsBlobUpTo(blob, e, limit) ==
    /\ IsBlobOf(blob, e, Len(blob) - 1)
    /\ Len(blob) - 1 = Len(Layout(e)) \/ limit <= Len(blob)

LEMMA PresentEmitted ==
    ASSUME NEW r \in Request, NEW n
    PROVE  LET e == PresentEvent(r, n)
           IN  /\ Emitted(e) /\ ~IsOld(e) /\ ChunkOf(e) = 1 /\ e.number = n /\ e.request = r
BY DEF PresentEvent, Emitted, IsOld, ChunkOf, Request

\* The header says how much of an event there is.
LEMMA HeaderOfBlob ==
    ASSUME NEW r \in Request, NEW n, NEW t, NEW size \in Nat \ {0}
    PROVE  LET header == PIXEncodeEventInfo(t, r.type, size, r.hasColor, r.onContext)
           IN  /\ header.kind = "header"
               /\ IsHeaderOf(PIXDecodeEventInfo(header), PresentEvent(r, n), size - 1)
<1> DEFINE header == PIXEncodeEventInfo(t, r.type, size, r.hasColor, r.onContext)
           e == PresentEvent(r, n)
           d == PIXDecodeEventInfo(header)
<1>1. ~IsOld(e) /\ e.request = r /\ r.hasColor \in BOOLEAN /\ r.onContext \in BOOLEAN
  BY PresentEmitted DEF Request
<1>2. /\ header.kind = "header" /\ header.size = size /\ size # 0 /\ size = (size - 1) + 1
      /\ header.hasColor = r.hasColor /\ header.onContext = r.onContext
  BY DEF PIXEncodeEventInfo
<1> HIDE DEF header, e
<1>3. /\ ~d.legacy /\ ~d.noVarArgs /\ d.size = size
      /\ d.hasColor = r.hasColor /\ d.onContext = r.onContext
  BY <1>2 DEF PIXDecodeEventInfo
<1> HIDE DEF d
<1>4. IsHeaderOf(d, e, size - 1)
  BY <1>1, <1>2, <1>3 DEF IsHeaderOf
<1> QED
  BY <1>2, <1>4 DEF d, header, e

(* The record in the buffer is its event, as far as there is space for it.  *)
LEMMA LocalRecordHolds ==
    ASSUME NEW r \in Request, r.onContext, r.type # "end", NEW n
    PROVE  /\ IsBlobUpTo(LocalRecord(r, n), PresentEvent(r, n), BufferLimit)
           /\ Len(LocalRecord(r, n)) \in Nat /\ Len(LocalRecord(r, n)) <= BufferLimit
<1> DEFINE e == PresentEvent(r, n)
           C == CellsOf(e) \cup {Garbage}
           B == BufferLimit
           c == Len(ColorOf(e))
           x == Len(ContextOf(e))
           N == Len(r.args)
           placed == Copied(LocalBegun(r, n), <<Context(n)>>)
           named == LocalNamed(r, n)
<1>1. /\ Emitted(e) /\ ChunkOf(e) = 1 /\ e.number = n /\ e.request = r /\ ~IsOld(e)
      /\ r.format \in Nat /\ r.args \in Seq(Argument) /\ r.hasColor \in BOOLEAN
      /\ N \in Nat /\ DOMAIN r.args = 1 .. N
  <2>1. r.format \in Nat /\ r.args \in Seq(Argument) /\ r.hasColor \in BOOLEAN
    BY DEF Request
  <2> QED
    BY <2>1, PresentEmitted
<1> HIDE DEF e
<1>2. /\ CellsOf(e) \subseteq C /\ Garbage \in C
      /\ Color(n) \in CellsOf(e) /\ Context(n) \in CellsOf(e) /\ Zero \in CellsOf(e)
      /\ \A j \in Nat : Value(n, j) \in CellsOf(e) /\ StringInfo(n, j, 1) \in CellsOf(e)
      /\ \A j \in Nat, i \in Nat, k \in Nat, specs \in {<<>>, r.specs} :
            Chars(n, j, i, k, specs) \in CellsOf(e)
  BY <1>1 DEF CellsOf
<1> HIDE DEF C
<1>3. ASSUME NEW part \in Nat, NEW k \in Nat, NEW specs \in {<<>>, r.specs}
      PROVE  /\ StringCells(n, part, k, specs) \in Seq(CellsOf(e))
             /\ StringCells(n, part, k, specs) = CharsOf(e, part, k, specs)
  <2>1. \A i \in 1 .. k : Chars(n, part, i, k, specs) \in CellsOf(e)
    BY <1>2
  <2> QED
    BY <1>1, <2>1 DEF StringCells, CharsOf
<1>4. B \in Nat /\ 4 <= B
  BY BufferLimits
<1> HIDE DEF B
<1>5. ASSUME NEW record, NEW m, RecordUpTo(record, e, C, B, m),
             NEW cells \in Seq(CellsOf(e)), IsPartAt(cells, e, m)
      PROVE  /\ RecordUpTo(Copied(record, cells), e, C, B, m + Len(cells))
             /\ Copied(record, cells) \in Seq(C)
  <2>1. record \in Seq(C)
    BY <1>5 DEF RecordUpTo
  <2>2. Adds(record, Copied(record, cells), cells, e, B)
    BY <1>1, <2>1, CopiedAdds DEF B
  <2>3. RecordUpTo(Copied(record, cells), e, C, B, m + Len(cells))
    BY <1>1, <1>2, <1>4, <1>5, <2>2, RecordGoesOn
  <2> QED
    BY <2>3 DEF RecordUpTo
<1>6. c \in {0, 1} /\ x = 1 /\ ContextOf(e) = <<Context(n)>>
  BY <1>1 DEF ColorOf, ContextOf
<1>7. IsPartAt(ColorOf(e), e, 0) /\ IsPartAt(ContextOf(e), e, c) /\ IsPartAt(FormatOf(e), e, c + x)
      /\ \A j \in 1 .. N : IsPartAt(ArgumentOf(e, j), e, Ends(e)[j - 1])
  BY <1>1, LayoutParts
<1>8. IsPlacing(Ends(e), e) /\ Len(Layout(e)) \in Nat
  BY <1>1, LayoutPlaces
<1>9. RecordUpTo(LocalBegun(r, n), e, C, B, c)
  <2> DEFINE begun == LocalBegun(r, n)
  <2>1. CASE r.hasColor
    <3>1. ColorOf(e) = <<Color(n)>> /\ c = 1
      BY <1>1, <2>1 DEF ColorOf
    <3>2. begun = <<Garbage, Color(n)>>
      BY <1>2, <2>1, Pair DEF LocalBegun
    <3>3. begun \in Seq(C) /\ Len(begun) = 2 /\ begun[2] = Color(n)
      BY <1>2, <3>2
    <3>4. Layout(e)[1] = Color(n) /\ 1 <= Len(Layout(e))
      BY <1>7, <3>1 DEF IsPartAt
    <3> HIDE DEF begun, c
    <3>5. \A k \in 1 .. Len(begun) - 1 : begun[1 + k] = Layout(e)[k]
      BY <3>3, <3>4
    <3> QED
      BY <1>1, <1>4, <3>1, <3>3, <3>4, <3>5 DEF RecordUpTo, begun
  <2>2. CASE ~r.hasColor
    <3>1. ColorOf(e) = <<>> /\ c = 0
      BY <1>1, <2>2 DEF ColorOf
    <3>2. begun = <<Garbage>>
      BY <2>2 DEF LocalBegun
    <3>3. begun \in Seq(C) /\ Len(begun) = 1
      BY <1>2, <3>2
    <3> HIDE DEF begun, c
    <3>4. \A k \in 1 .. Len(begun) - 1 : begun[1 + k] = Layout(e)[k]
      BY <3>3
    <3> QED
      BY <1>1, <1>4, <1>8, <3>1, <3>3, <3>4 DEF RecordUpTo, begun
  <2> QED
    BY <1>1, <2>1, <2>2
<1>10. RecordUpTo(placed, e, C, B, c + x)
  <2>1. ContextOf(e) \in Seq(CellsOf(e))
    BY <1>2, <1>6
  <2> QED
    BY <1>5, <1>6, <1>7, <1>9, <2>1
<1> HIDE DEF placed
<1>11. RecordUpTo(named, e, C, B, Ends(e)[0])
  <2>1. Ends(e)[0] = c + x + Len(FormatOf(e))
    BY <1>8 DEF IsPlacing, NameEnd
  <2>2. FormatOf(e) = FormatText(e)
    BY <1>1 DEF FormatOf
  <2>3. CASE r.format = 0
    <3>1. FormatOf(e) = <<Zero>> /\ named = Append(placed, Zero)
      BY <1>1, <2>2, <2>3 DEF FormatText, LocalNamed, placed
    <3>2. placed \in Seq(C) /\ Len(placed) - 1 <= c + x /\ c + x \in Nat /\ c + x <= 2
      <4> HIDE DEF c, x
      <4>1. placed \in Seq(C) /\ Len(placed) - 1 <= c + x
        BY <1>10 DEF RecordUpTo
      <4>2. c + x \in Nat /\ c + x <= 2
        BY <1>6
      <4> QED
        BY <4>1, <4>2
    <3> DEFINE cells == <<Zero>>
    <3>3. cells \in Seq(CellsOf(e)) /\ Len(cells) = 1
      BY <1>2
    <3>4. named = placed \o cells
      BY <1>2, <3>1, <3>2, AppendIsConcat
    <3>5. Adds(placed, named, cells, e, B)
      <4>1. Len(placed) < B /\ Len(placed) + 1 < B + 1
        BY <1>4, <3>2
      <4> HIDE DEF cells
      <4>2. IsAdded(cells, cells, e, placed, B)
        BY <1>1, <1>4, <3>2, <3>3, <4>1 DEF IsAdded, IsCopied
      <4> QED
        BY <3>4, <4>2 DEF Adds
    <3>6. IsPartAt(cells, e, c + x)
      BY <1>7, <3>1
    <3> HIDE DEF cells, named, c, x
    <3>7. RecordUpTo(named, e, C, B, c + x + Len(cells))
      BY <1>1, <1>2, <1>4, <1>10, <3>5, <3>6, RecordGoesOn
    <3> QED
      BY <2>1, <3>1, <3>7 DEF cells
  <2>4. CASE r.format # 0
    <3> DEFINE cells == StringCells(n, FormatPart, r.format, r.specs)
    <3>1. cells \in Seq(CellsOf(e)) /\ cells = CharsOf(e, FormatPart, r.format, r.specs)
      BY <1>1, <1>3 DEF FormatPart
    <3>2. FormatOf(e) = cells
      BY <1>1, <2>2, <2>4, <3>1 DEF FormatText
    <3>3. named = Copied(placed, cells)
      BY <2>4 DEF LocalNamed, placed
    <3> HIDE DEF cells, named, c, x
    <3> QED
      BY <1>5, <1>7, <1>10, <2>1, <3>1, <3>2, <3>3
  <2> QED
    BY <2>3, <2>4
<1>12. ASSUME NEW j \in 1 .. N
       PROVE  /\ ArgumentCells(n, j, r.args[j]) = ArgumentOf(e, j)
              /\ ArgumentOf(e, j) \in Seq(CellsOf(e))
  <2> DEFINE a == r.args[j]
  <2>1. ArgumentOf(e, j) \in Seq(CellsOf(e))
    BY <1>1, ArgumentHasCells
  <2>2. a \in Argument /\ j \in Nat
    BY <1>1, ElementOfSeq
  <2>3. a.kind \in {"value", "string", "null"} /\ a.qwords \in Nat
    <3> HIDE DEF a
    <3> QED
      BY <2>2 DEF Argument
  <2> SUFFICES ArgumentCells(n, j, a) = ArgumentOf(e, j)
    BY <2>1
  <2>4. CASE a.kind # "string"
    <3>1. e.request.args[j] = a
      BY <1>1
    <3> HIDE DEF a
    <3>2. CASE a.kind = "value"
      BY <1>1, <3>1, <3>2 DEF ArgumentCells, ArgumentOf, TextOf
    <3>3. CASE a.kind = "null"
      BY <1>1, <3>1, <3>3 DEF ArgumentCells, ArgumentOf, TextOf
    <3> QED
      BY <2>3, <2>4, <3>2, <3>3
  <2>5. CASE a.kind = "string"
    <3> DEFINE s == CharsOf(e, j, a.qwords, <<>>)
    <3>1. ArgumentOf(e, j) = StringOf(e, j, s)
      BY <1>1, <2>5 DEF ArgumentOf, TextOf
    <3>2. s \in Seq(CellsOf(e)) /\ s = StringCells(n, j, a.qwords, <<>>)
      BY <1>3, <2>2, <2>3
    <3> HIDE DEF s
    <3>3. StringOf(e, j, s) = <<StringInfo(n, j, 1)>> \o s
      <4>1. Len(s) \in Nat /\ 1 * ((Len(s) + 1 - 1) \div 1) = Len(s)
        BY <3>2
      <4>2. [i \in 1 .. Len(s) |-> IF i <= Len(s) THEN s[i] ELSE Padding] = s
        BY <3>2
      <4> QED
        BY <1>1, <4>1, <4>2 DEF StringOf
    <3>4. ArgumentCells(n, j, a) = <<StringInfo(n, j, 1)>> \o StringCells(n, j, a.qwords, <<>>)
      BY <2>5 DEF ArgumentCells
    <3> QED
      BY <3>1, <3>2, <3>3, <3>4
  <2> QED
    BY <2>4, <2>5
<1>13. PICK f : IsLocalWriting(f, r, n)
  <2> DEFINE Q == Seq(C)
  <2>1. named \in Q
    BY <1>11 DEF RecordUpTo
  <2>2. ASSUME NEW s \in Q, NEW j \in 1 .. N
        PROVE  Copied(s, ArgumentCells(n, j, r.args[j])) \in Q
    <3>1. Adds(s, Copied(s, ArgumentOf(e, j)), ArgumentOf(e, j), e, B)
      BY <1>1, <1>12, CopiedAdds DEF B
    <3> QED
      BY <1>2, <1>12, <3>1, AddedCells
  <2> HIDE DEF Q
  <2> QED
    BY <1>1, <2>1, <2>2, LocalWriting
<1> DEFINE T == {j \in 0 .. N : RecordUpTo(f[j], e, C, B, Ends(e)[j])}
<1>14. 0 \in T
  BY <1>1, <1>11, <1>13 DEF IsLocalWriting
<1>15. ASSUME NEW i \in 0 .. N - 1, i \in T PROVE i + 1 \in T
  <2> DEFINE j == i + 1
  <2>1. j \in 1 .. N /\ j - 1 = i /\ j \in 0 .. N
    BY <1>1
  <2> HIDE DEF j
  <2>2. f[j] = Copied(f[i], ArgumentOf(e, j))
    BY <1>12, <1>13, <2>1 DEF IsLocalWriting
  <2>3. IsPartAt(ArgumentOf(e, j), e, Ends(e)[i]) /\ Ends(e)[j] = Ends(e)[i] + Len(ArgumentOf(e, j))
    BY <1>1, <1>7, <1>8, <2>1 DEF IsPlacing
  <2>4. RecordUpTo(f[j], e, C, B, Ends(e)[j])
    BY <1>5, <1>12, <1>15, <2>1, <2>2, <2>3
  <2> QED
    BY <2>1, <2>4 DEF j
<1> HIDE DEF T
<1>16. N \in T
  <2>1. N \in 0 .. N
    BY <1>1
  <2> HIDE DEF N
  <2> QED
    BY <1>1, <1>14, <1>15, <2>1, Induction, Zenon
<1> DEFINE made == f[N]
           size == Len(made)
           header == LocalHeader(r, size)
           record == LocalRecord(r, n)
           L == Layout(e)
<1>17. RecordUpTo(made, e, C, B, Len(L))
  <2>1. Ends(e)[N] = Len(L)
    BY <1>1, <1>8 DEF IsPlacing
  <2> QED
    BY <1>16, <2>1 DEF T
<1>18. record = [made EXCEPT ![1] = header]
  BY <1>13 DEF IsLocalWriting
<1> HIDE DEF made
<1>19. /\ made \in Seq(C) /\ size \in Nat \ {0} /\ size - 1 <= Len(L)
       /\ \A k \in 1 .. size - 1 : made[1 + k] = L[k]
       /\ size - 1 = Len(L) \/ size = B
       /\ size <= B
  BY <1>1, <1>4, <1>17 DEF RecordUpTo
<1> HIDE DEF header, record
<1>20. DOMAIN made = 1 .. size
  BY <1>19
<1> HIDE DEF size
<1>21. /\ Len(record) = size /\ record[1] = header
       /\ \A k \in 2 .. size : record[k] = made[k]
  BY <1>18, <1>19, <1>20
<1>22. header.kind = "header" /\ IsHeaderOf(PIXDecodeEventInfo(header), e, size - 1)
  BY <1>19, HeaderOfBlob DEF header, LocalHeader, e
<1>23. /\ size - 1 \in Nat /\ (size - 1) + 1 = size
       /\ \A k \in 1 .. size - 1 : record[1 + k] = L[k]
  BY <1>19, <1>21
<1>24. IsBlobOf(record, e, size - 1)
  BY <1>19, <1>21, <1>22, <1>23 DEF IsBlobOf
<1>25. IsBlobUpTo(record, e, B)
  BY <1>19, <1>21, <1>24 DEF IsBlobUpTo, L
<1>26. Len(record) \in Nat /\ Len(record) <= B
  BY <1>19, <1>21
<1> QED
  BY <1>25, <1>26 DEF record, e, B
-----------------------------------------------------------------------------
(* The event of a call whose blob is of version 1.                          *)
OldEvent(r, n, chunk) ==
    [number |-> n,
     request |-> [type |-> r.type, hasColor |-> TRUE, onContext |-> FALSE,
                  format |-> r.format, specs |-> r.specs, args |-> r.args, chunk |-> chunk]]

IsOldOf(e, r, n, chunk) ==
    /\ Emitted(e) /\ IsOld(e) /\ ChunkOf(e) = chunk /\ e.number = n
    /\ HasPartsOf(r, e) /\ e.request.type = r.type
    /\ e.request.hasColor = TRUE /\ e.request.onContext = FALSE

LEMMA OldEmitted ==
    ASSUME NEW r \in Request, NEW n, NEW chunk, chunk \in {1, 2}
    PROVE  IsOldOf(OldEvent(r, n, chunk), r, n, chunk)
BY DEF IsOldOf, OldEvent, Emitted, IsOld, ChunkOf, Request, HasPartsOf

\* What the header of a blob of version 1 says.
LEMMA OldHeaderOfBlob ==
    ASSUME NEW r \in Request, r.type # "end", NEW n, NEW chunk \in {1, 2}, NEW k
    PROVE  LET header == LegacyEventInfo(0, r.type, HasVarArgs(r), FALSE)
           IN  /\ header.kind = "header"
               /\ IsHeaderOf(PIXDecodeEventInfo(header), OldEvent(r, n, chunk), k)
<1> DEFINE header == LegacyEventInfo(0, r.type, HasVarArgs(r), FALSE)
           e == OldEvent(r, n, chunk)
           d == PIXDecodeEventInfo(header)
<1>1. /\ IsOld(e) /\ e.request.args = r.args
      /\ e.request.hasColor = TRUE /\ e.request.onContext = FALSE
  <2>1. IsOldOf(e, r, n, chunk)
    BY OldEmitted
  <2> HIDE DEF e
  <2> QED
    BY <2>1 DEF IsOldOf, HasPartsOf
<1>2. /\ header.kind = "header" /\ header.size = 0 /\ header.type = r.type
      /\ header.varArgs = HasVarArgs(r) /\ header.onContext = FALSE
  BY DEF LegacyEventInfo
<1> HIDE DEF header, e
<1>3. /\ d.legacy /\ (d.noVarArgs <=> ~HasVarArgs(r))
      /\ d.hasColor = TRUE /\ d.onContext = FALSE
  BY <1>2 DEF PIXDecodeEventInfo
<1> HIDE DEF d
<1>4. IsHeaderOf(d, e, k)
  BY <1>1, <1>3 DEF IsHeaderOf, HasVarArgs
<1> QED
  BY <1>2, <1>4 DEF d, header, e

\* So is the record of version 1, if it has a name.
LEMMA OldRecordHolds ==
    ASSUME NEW r \in Request, r.type # "end", r.format # 0, NEW n, NEW chunk \in {1, 2}
    PROVE  IsBlobUpTo(LegacyLocalRecord(r, n, chunk), OldEvent(r, n, chunk), BufferLimit)
<1> DEFINE e == OldEvent(r, n, chunk)
           header == LegacyEventInfo(0, r.type, HasVarArgs(r), FALSE)
           C == CellsOf(e) \cup {header}
           B == BufferLimit
           L == Layout(e)
           N == Len(r.args)
           color == Color(n)
           begun == <<header, color>>
           record == LegacyLocalRecord(r, n, chunk)
<1>1. /\ Emitted(e) /\ IsOld(e) /\ ChunkOf(e) = chunk /\ e.number = n /\ HasPartsOf(r, e)
      /\ e.request.type = r.type /\ e.request.hasColor = TRUE /\ e.request.onContext = FALSE
  <2>1. IsOldOf(e, r, n, chunk)
    BY OldEmitted
  <2> HIDE DEF e
  <2> QED
    BY <2>1 DEF IsOldOf
<1>2. r.format \in Nat /\ N \in Nat
  BY DEF Request
<1>3. \A k : IsHeaderOf(PIXDecodeEventInfo(header), e, k)
  BY OldHeaderOfBlob
<1>4. header.kind = "header"
  BY DEF LegacyEventInfo
<1> HIDE DEF e, header
<1>5. CellsOf(e) \subseteq C /\ header \in C /\ color \in C
  BY <1>1 DEF CellsOf
<1> HIDE DEF C, color
<1>6. begun \in Seq(C) /\ Len(begun) = 2 /\ begun[1] = header /\ begun[2] = color
  BY <1>5
<1> HIDE DEF begun
<1>7. ColorOf(e) = <<color>> /\ ContextOf(e) = <<>>
  BY <1>1 DEF ColorOf, ContextOf, color
<1>8. B \in Nat /\ 4 <= B /\ B \in Int
  BY BufferLimits
<1> HIDE DEF B
<1>9. RecordUpTo(begun, e, C, B, Before(e))
  <2>1. Len(ColorOf(e)) = 1 /\ Len(ContextOf(e)) = 0 /\ ColorOf(e)[1] = color
    BY <1>7
  <2>2. IsPartAt(ColorOf(e), e, 0)
    BY <1>1, LayoutParts
  <2>3. Before(e) = 1
    BY <2>1 DEF Before
  <2>4. L[1] = color /\ 1 <= Len(L)
    BY <2>1, <2>2 DEF IsPartAt
  <2> HIDE DEF L
  <2>5. \A k \in 1 .. Len(begun) - 1 : begun[1 + k] = L[k]
    BY <1>6, <2>4
  <2> QED
    BY <1>1, <1>6, <1>8, <2>3, <2>4, <2>5 DEF RecordUpTo, L
<1>10. PICK f : IsWriting(f, begun, B, n, r, chunk)
  <2> DEFINE Q == Seq(C)
  <2>1. Stays(Q, begun, B, n, r, chunk)
    <3>1. ASSUME NEW s \in Q, NEW part \in Nat, NEW a, NEW specs \in {<<>>, r.specs},
                 a.kind \in {"value", "string", "null"}, a.qwords \in Nat
          PROVE  LegacyArgument(s, B, n, part, a, specs, chunk) \in Q
      <4>1. Copyable(e, part, a, specs, C, s, B)
        BY <1>1, <1>5, <1>8, <3>1 DEF Copyable, HasPartsOf
      <4>2. Adds(s, LegacyArgument(s, B, n, part, a, specs, chunk), Whole(e, part, a, specs),
                 e, B)
        BY <1>1, <4>1, CopiedArgument
      <4> QED
        BY <1>5, <4>2, AddedCells
    <3> DEFINE format == [kind |-> IF r.format = 0 THEN "null" ELSE "string",
                          qwords |-> r.format]
    <3>2. format.kind \in {"value", "string", "null"} /\ format.qwords \in Nat
          /\ FormatPart \in Nat
      BY <1>2 DEF FormatPart
    <3> HIDE DEF format, Q
    <3>3. begun \in Q
      BY <1>6 DEF Q
    <3>4. LegacyArgument(begun, B, n, FormatPart, format, r.specs, chunk) \in Q
      BY <3>1, <3>2, <3>3
    <3>5. ASSUME NEW s \in Q, NEW j \in 1 .. N
          PROVE  LegacyArgument(s, B, n, j, r.args[j], <<>>, chunk) \in Q
      <4> DEFINE a == r.args[j]
      <4>1. a \in Argument /\ j \in Nat
        BY ElementOfSeq DEF Request
      <4> HIDE DEF a
      <4>2. a.kind \in {"value", "string", "null"} /\ a.qwords \in Nat
        BY <4>1 DEF Argument
      <4>3. LegacyArgument(s, B, n, j, a, <<>>, chunk) \in Q
        BY <3>1, <4>1, <4>2
      <4> QED
        BY <4>3 DEF a
    <3> QED
      BY <3>4, <3>5 DEF Stays, format
  <2> HIDE DEF Q
  <2> QED
    BY <1>2, <2>1, WritingWithin
<1>11. RecordUpTo(f[N], e, C, B, Len(L)) /\ f[N][1] = header
  <2>1. HasOldName(e)
    BY <1>1, <1>2 DEF HasOldName, HasPartsOf
  <2>2. WritesRecord(f, begun, r, e, C, B)
    BY <1>1, <1>5, <1>8, <1>9, <1>10, <2>1 DEF WritesRecord
  <2> QED
    BY <1>6, <2>2, RecordWritten
<1>12. RecordUpTo(record, e, C, B, Len(L)) /\ record[1] = header
  <2>1. record = f[N]
    BY <1>10 DEF IsWriting, LegacyLocalRecord, begun, header, color, B
  <2> HIDE DEF record
  <2> QED
    BY <1>11, <2>1
<1> HIDE DEF record
<1> DEFINE size == Len(record)
           k == size - 1
<1>13. /\ size \in Nat \ {0} /\ size - 1 <= Len(L)
       /\ \A i \in 1 .. size - 1 : record[1 + i] = L[i]
       /\ size - 1 = Len(L) \/ B <= size
  BY <1>12 DEF RecordUpTo
<1> HIDE DEF size
<1>14. /\ k \in Nat /\ size = k + 1 /\ k <= Len(L)
       /\ \A i \in 1 .. k : record[1 + i] = L[i]
       /\ k = Len(L) \/ k + 1 >= B
  BY <1>8, <1>13
<1> HIDE DEF k
<1>15. IsBlobOf(record, e, k)
  <2>1. record[1].kind = "header" /\ IsHeaderOf(PIXDecodeEventInfo(record[1]), e, k)
    BY <1>3, <1>4, <1>12
  <2> QED
    BY <1>14, <2>1 DEF IsBlobOf, L, size
<1>16. IsBlobUpTo(record, e, B)
  <2>1. k = Len(record) - 1
    BY DEF k, size
  <2>2. k = Len(Layout(e)) \/ B <= Len(record)
    BY <1>14, <2>1 DEF L, size
  <2> QED
    BY <1>15, <2>1, <2>2 DEF IsBlobUpTo
<1> QED
  BY <1>16 DEF record, e, B
-----------------------------------------------------------------------------
(* In chunks of two qwords the last may end one behind the limit.           *)
LEMMA LegacyRecordWithin ==
    ASSUME NEW r \in Request, NEW n, NEW chunk \in {1, 2}
    PROVE  LET record == LegacyLocalRecord(r, n, chunk)
           IN  Len(record) \in Nat /\ Len(record) <= BufferLimit + 1
<1> DEFINE e == [number |-> n,
                 request |-> [format |-> r.format, specs |-> r.specs, args |-> r.args,
                              chunk |-> chunk]]
           header == LegacyEventInfo(0, r.type, HasVarArgs(r), FALSE)
           begun == <<header, Color(n)>>
           C == CellsOf(e) \cup {header}
           Q == {s \in Seq(C) : Len(s) < BufferLimit + chunk}
           format == [kind |-> IF r.format = 0 THEN "null" ELSE "string", qwords |-> r.format]
           N == Len(r.args)
<1>1. /\ N \in Nat /\ r.format \in Nat /\ r.args \in Seq(Argument)
      /\ BufferLimit \in Nat /\ 4 <= BufferLimit
  BY BufferLimits DEF Request
<1>2. ChunkOf(e) = chunk /\ e.number = n /\ e.request.specs = r.specs
  BY DEF ChunkOf, IsOld
<1>3. Emitted(e)
  BY <1>1, <1>2 DEF Emitted
<1> HIDE DEF e
<1>4. CellsOf(e) \subseteq C /\ begun \in Seq(C) /\ Len(begun) = 2
  <2>1. header \in C /\ Color(n) \in C
    BY <1>2 DEF CellsOf
  <2> HIDE DEF C, header
  <2> QED
    BY <2>1 DEF C
<1> HIDE DEF C, begun
<1>5. begun \in Q
  <2>1. 2 < BufferLimit + chunk
    BY <1>1
  <2>2. Len(begun) < BufferLimit + chunk
    BY <1>4, <2>1
  <2> QED
    BY <1>4, <2>2
<1>6. ASSUME NEW s \in Q, NEW part \in Nat, NEW a, NEW specs \in {<<>>, r.specs},
             a.kind \in {"value", "string", "null"}, a.qwords \in Nat
      PROVE  LegacyArgument(s, BufferLimit, n, part, a, specs, chunk) \in Q
  <2> DEFINE longer == LegacyArgument(s, BufferLimit, n, part, a, specs, chunk)
  <2>1. s \in Seq(C) /\ Len(s) < BufferLimit + chunk /\ BufferLimit \in Int
    BY <1>1
  <2>2. Copyable(e, part, a, specs, C, s, BufferLimit)
    BY <1>2, <1>3, <1>4, <1>6, <2>1 DEF Copyable
  <2>3. Adds(s, longer, Whole(e, part, a, specs), e, BufferLimit)
    BY <1>2, <2>2, CopiedArgument
  <2> HIDE DEF longer
  <2>4. longer \in Seq(C)
    BY <1>4, <2>1, <2>3, AddedCells
  <2>5. Len(longer) < BufferLimit + chunk
    BY <1>2, <2>1, <2>3, AddedBelow
  <2> QED
    BY <2>4, <2>5 DEF longer
<1>7. Stays(Q, begun, BufferLimit, n, r, chunk)
  <2>1. format.kind \in {"value", "string", "null"} /\ format.qwords \in Nat
        /\ FormatPart \in Nat
    BY <1>1 DEF FormatPart
  <2> HIDE DEF format, Q
  <2>2. LegacyArgument(begun, BufferLimit, n, FormatPart, format, r.specs, chunk) \in Q
    BY <1>5, <1>6, <2>1
  <2>3. ASSUME NEW s \in Q, NEW j \in 1 .. N
        PROVE  LegacyArgument(s, BufferLimit, n, j, r.args[j], <<>>, chunk) \in Q
    <3> DEFINE a == r.args[j]
    <3>1. a \in Argument /\ j \in Nat
      BY <1>1, ElementOfSeq
    <3> HIDE DEF a
    <3>2. a.kind \in {"value", "string", "null"} /\ a.qwords \in Nat
      BY <3>1 DEF Argument
    <3>3. LegacyArgument(s, BufferLimit, n, j, a, <<>>, chunk) \in Q
      BY <1>6, <3>1, <3>2
    <3> QED
      BY <3>3 DEF a
  <2> QED
    BY <2>2, <2>3 DEF Stays, format
<1>8. PICK f : /\ IsWriting(f, begun, BufferLimit, n, r, chunk)
               /\ \A j \in 0 .. Len(r.args) : f[j] \in Q
  <2> HIDE DEF Q
  <2> QED
    BY <1>1, <1>7, WritingWithin
<1>9. LegacyLocalRecord(r, n, chunk) = f[N]
  BY <1>8 DEF IsWriting, LegacyLocalRecord, begun
<1>10. f[N] \in Q
  <2> HIDE DEF Q
  <2> QED
    BY <1>1, <1>8
<1>11. Len(f[N]) \in Nat /\ Len(f[N]) < BufferLimit + chunk
  BY <1>10
<1> QED
  BY <1>1, <1>9, <1>11
-----------------------------------------------------------------------------
(* What holds of an event between its two halves: the record in the block   *)
(* is complete, and stays as it is.                                         *)
IsPending(p, mem) ==
    /\ p.request \in Requests /\ p.request.onContext
    /\ p.start # NoRecord =>
          \E n, t : /\ IsFinished(mem, p.start, n, PresentEvent(p.request, p.number), t)
                    /\ p.size = PIXGetEventSize(n + 1)
PendingInv == pending # NoRecord => IsPending(pending, memory)

(* What holds of the data of a call.                                        *)
IsCalled(c, v2) ==
    /\ c.request \in Requests /\ c.request.onContext /\ c.chunk \in {1, 2}
    /\ v2 => /\ IsBlobUpTo(c.blob, PresentEvent(c.request, c.number), BufferLimit)
             /\ ~c.inBlock => Len(c.blob) <= BufferLimit
    /\ ~v2 => ~c.inBlock /\ c.blob = LegacyLocalRecord(c.request, c.number, c.chunk)
CallInv == HasBlob => IsCalled(call, gpuMarkersV2)

ContextInv == WriterIInv /\ Progress /\ PendingInv /\ CallInv

LEMMA ContextInitially == ContextInit => ContextInv
BY WriterInit DEF ContextInit, ContextInv, PendingInv, CallInv, HasBlob, Progress, Init

(* The record in the block up to the size in its header, if that saturates, *)
(* holds more than the buffer has space for.                                *)
LEMMA RecordInBlockHolds ==
    ASSUME NEW p, NEW mem, IsPending(p, mem), p.start # NoRecord, p.request.type # "end"
    PROVE  IsBlobUpTo([i \in 1 .. p.size |-> mem[p.start + i - 1]],
                      PresentEvent(p.request, p.number), BufferLimit)
<1> DEFINE r == p.request
           e == PresentEvent(r, p.number)
           at == p.start
           size == p.size
           k == size - 1
           blob == [i \in 1 .. size |-> mem[at + i - 1]]
           L == Layout(e)
           B == BufferLimit
<1>1. PICK n, t : IsFinished(mem, at, n, e, t) /\ size = PIXGetEventSize(n + 1)
  BY DEF IsPending
<1>2. r \in Request /\ r.onContext
  BY BlockAssumption DEF IsPending
<1>3. Emitted(e) /\ e.request = r
  BY <1>2, PresentEmitted
<1> HIDE DEF e
<1>4. /\ at \in Nat /\ at < BiasedLimit /\ n \in Nat
      /\ mem[at] = Header(r, t, n + 1)
      /\ n <= Len(L) /\ \A i \in 1 .. n : mem[at + i] = L[i]
      /\ n = Len(L) \/ at + n + 1 = CopyLimit
  BY <1>1, <1>3 DEF IsFinished, Holds
<1>5. Len(L) \in Nat
  BY <1>3, LayoutPlaces
<1> HIDE DEF L, B, at, r
<1>6. /\ B \in Nat /\ B <= SizeMax /\ SizeMax \in Nat /\ 1 <= B /\ BiasedLimit + B <= CopyLimit
      /\ BiasedLimit \in Nat /\ CopyLimit \in Nat
  BY BufferLimits, Limits DEF B
<1>7. size = IF n + 1 > SizeMax THEN SizeMax ELSE n + 1
  BY <1>1 DEF PIXGetEventSize
<1> HIDE DEF size
<1>8. /\ size \in Nat \ {0} /\ k \in Nat /\ k <= n /\ size = k + 1 /\ k <= Len(L)
      /\ k = Len(L) \/ B <= size
  BY <1>4, <1>5, <1>6, <1>7
<1>9. /\ Len(blob) = size /\ blob[1] = mem[at]
      /\ \A i \in 1 .. k : blob[1 + i] = L[i]
  <2>1. Len(blob) = size /\ \A i \in 1 .. size : blob[i] = mem[at + i - 1]
    BY <1>8
  <2>2. blob[1] = mem[at]
    <3>1. 1 \in 1 .. size /\ at + 1 - 1 = at
      BY <1>4, <1>8
    <3> HIDE DEF blob
    <3> QED
      BY <2>1, <3>1
  <2>3. ASSUME NEW i \in 1 .. k PROVE blob[1 + i] = L[i]
    <3>1. 1 + i \in 1 .. size /\ at + (1 + i) - 1 = at + i /\ i \in 1 .. n
      BY <1>4, <1>8
    <3>2. mem[at + i] = L[i]
      BY <1>4, <3>1
    <3> HIDE DEF blob, k
    <3> QED
      BY <2>1, <3>1, <3>2
  <2> QED
    BY <2>1, <2>2, <2>3
<1> HIDE DEF blob
<1>10. blob[1].kind = "header" /\ IsHeaderOf(PIXDecodeEventInfo(blob[1]), e, k)
  <2> DEFINE header == PIXEncodeEventInfo(t, r.type, size, r.hasColor, r.onContext)
  <2>1. blob[1] = header
    BY <1>1, <1>4, <1>9 DEF Header, size
  <2>2. header.kind = "header" /\ IsHeaderOf(PIXDecodeEventInfo(header), e, size - 1)
    BY <1>2, <1>8, HeaderOfBlob DEF e
  <2> HIDE DEF header
  <2> QED
    BY <2>1, <2>2
<1> HIDE DEF k
<1>11. IsBlobOf(blob, e, k)
  BY <1>8, <1>9, <1>10 DEF IsBlobOf, L
<1>12. IsBlobUpTo(blob, e, B)
  <2>1. Len(blob) - 1 = k
    BY <1>8, <1>9
  <2> QED
    BY <1>8, <1>9, <1>11, <2>1 DEF IsBlobUpTo, L
<1> QED
  BY <1>12 DEF blob, e, B, r, at, size

LEMMA CpuHalfKeeps ==
    ASSUME ContextInv, CpuHalf
    PROVE  ContextInv'
<1>1. WriterIInv /\ Progress /\ WriterNext
  BY DEF ContextInv, CpuHalf
<1>2. WriterIInv'
  BY <1>1, WriterStep
<1>3. Progress'
  BY <1>1, WriterProgress
<1>4. CallInv'
  BY DEF ContextInv, CpuHalf, CallInv, HasBlob
<1>5. PendingInv'
  <2> SUFFICES ASSUME pending' # NoRecord PROVE IsPending(pending', memory')
    BY DEF PendingInv
  <2> DEFINE n == position - destination - 1
  <2>1. /\ pc # "idle" /\ pc' = "idle" /\ request.onContext
        /\ pending' = [request |-> request, number |-> serial, start |-> destination,
                       size |-> PIXGetEventSize(position - destination)]
    BY DEF CpuHalf, RecordStart
  <2>2. request \in Requests
    BY <1>1, <2>1 DEF Progress
  <2>3. ~MarkEnd
    <3> SUFFICES ASSUME MarkEnd PROVE FALSE
      OBVIOUS
    <3>1. Len(Layout(Now)) = 0
      BY <1>1, <2>1 DEF MarkEnd, Progress
    <3>2. NameEnd(Now) <= Len(Layout(Now)) /\ FormatOf(Now) \in Seq(CellsOf(Now))
      BY <2>2, NowEmitted, LayoutPlaces, FormatCells
    <3>3. Len(ColorOf(Now)) \in Nat /\ Len(ContextOf(Now)) = 1
      BY <2>1, <2>2, NowEmitted DEF ColorOf, ContextOf
    <3> QED
      BY <3>1, <3>2, <3>3 DEF NameEnd
  <2>4. FinishEvent
    BY <1>1, <2>1, <2>3
       DEF WriterNext, BeginEvent, AllocateBlock, AllocationFails, CopyContext, CopyFormat,
           CopyArgument
  <2>5. IsFinished(memory', destination, n, Now, time)
    BY <1>1, <2>4, FinishedRecord
  <2>6. position - destination = n + 1 /\ Now = PresentEvent(request, serial)
    <3>1. position \in Nat /\ destination \in Nat
      BY <1>1, <2>1 DEF WriterIInv, WriterTypeOK, Positions
    <3> QED
      BY <3>1 DEF Now, PresentEvent
  <2> HIDE DEF n
  <2>7. /\ pending'.request = request /\ pending'.number = serial
        /\ pending'.start = destination /\ pending'.size = PIXGetEventSize(n + 1)
    BY <2>1, <2>6
  <2> QED
    BY <2>1, <2>2, <2>5, <2>6, <2>7 DEF IsPending
<1> QED
  BY <1>2, <1>3, <1>4, <1>5 DEF ContextInv

\* A step that writes nothing into a block: the block stays, or is left.
LeavesBlock ==
    /\ UNCHANGED <<memory, blocks, beginTimestamp, clock, pc, request, argument, position, time>>
    /\ pc = "idle" /\ destination' = NoDestination /\ serial' \in Nat
WritesNothing == UNCHANGED writerVars \/ LeavesBlock

LEMMA NothingWritten ==
    ASSUME WriterIInv, Progress, WritesNothing
    PROVE  WriterIInv' /\ Progress'
<1>1. CASE UNCHANGED writerVars
  <2>1. WriterIInv'
    BY <1>1, WriterStep
  <2>2. Progress'
    BY <1>1 DEF writerVars, blockVars, eventVars, Progress, Now, ArgumentsReached
  <2> QED
    BY <2>1, <2>2
<1>2. CASE LeavesBlock
  <2>1. WriterIInv'
    BY <1>2 DEF LeavesBlock, WriterIInv, WriterTypeOK, Positions, Ended, Offsets
  <2>2. Progress'
    BY <1>2 DEF LeavesBlock, Progress
  <2> QED
    BY <2>1, <2>2
<1> QED
  BY <1>1, <1>2 DEF WritesNothing

LEMMA GpuHalfKeeps ==
    ASSUME ContextInv, GpuHalf
    PROVE  ContextInv'
<1> DEFINE r == pending.request
           n == pending.number
           BlobOf(chunk) ==
               CASE InBlock -> RecordInBlock
                 [] gpuMarkersV2 /\ ~InBlock -> LocalRecord(r, n)
                 [] ~gpuMarkersV2 -> LegacyLocalRecord(r, n, chunk)
<1>1. /\ pending # NoRecord /\ r.type # "end" /\ IsPending(pending, memory)
      /\ r \in Requests /\ r.onContext /\ r \in Request
  BY BlockAssumption DEF GpuHalf, ContextInv, PendingInv, IsPending
<1>2. PICK chunk \in {1, 2} : CallD3D12(chunk, BlobOf(chunk))
  BY DEF GpuHalf
<1>3. /\ call'.request = r /\ call'.number = n /\ call'.chunk = chunk
      /\ call'.inBlock = InBlock /\ call'.blob = BlobOf(chunk)
      /\ pending' = NoRecord /\ UNCHANGED <<writerVars, gpuMarkersV2>>
  BY <1>2 DEF CallD3D12
<1>4. ASSUME gpuMarkersV2
      PROVE  /\ IsBlobUpTo(BlobOf(chunk), PresentEvent(r, n), BufferLimit)
             /\ ~InBlock => Len(BlobOf(chunk)) <= BufferLimit
  <2>1. CASE InBlock
    <3>1. BlobOf(chunk) = RecordInBlock /\ pending.start # NoRecord
      BY <1>4, <2>1 DEF InBlock
    <3>2. IsBlobUpTo(RecordInBlock, PresentEvent(r, n), BufferLimit)
      BY <1>1, <3>1, RecordInBlockHolds DEF RecordInBlock
    <3> HIDE DEF BlobOf
    <3> QED
      BY <2>1, <3>1, <3>2
  <2>2. CASE ~InBlock
    <3>1. BlobOf(chunk) = LocalRecord(r, n)
      BY <1>4, <2>2
    <3> HIDE DEF BlobOf, r, n
    <3>2. /\ IsBlobUpTo(LocalRecord(r, n), PresentEvent(r, n), BufferLimit)
          /\ Len(LocalRecord(r, n)) <= BufferLimit
      BY <1>1, LocalRecordHolds
    <3> QED
      BY <3>1, <3>2
  <2> QED
    BY <2>1, <2>2
<1>5. ASSUME ~gpuMarkersV2
      PROVE  ~InBlock /\ BlobOf(chunk) = LegacyLocalRecord(r, n, chunk)
  BY <1>5 DEF InBlock
<1> HIDE DEF BlobOf, r, n
<1>6. IsCalled(call', gpuMarkersV2)
  BY <1>1, <1>2, <1>3, <1>4, <1>5 DEF IsCalled
<1>7. WriterIInv' /\ Progress' /\ PendingInv'
  <2>1. WriterIInv /\ Progress
    BY DEF ContextInv
  <2> QED
    BY <1>3, <2>1, NothingWritten DEF WritesNothing, PendingInv
<1>8. CallInv'
  BY <1>3, <1>6 DEF CallInv
<1> QED
  BY <1>7, <1>8 DEF ContextInv

LEMMA ContextStep == ContextInv /\ [Next]_vars => ContextInv'
<1> SUFFICES ASSUME ContextInv, [Next]_vars PROVE ContextInv'
  OBVIOUS
<1>1. UNCHANGED <<call, gpuMarkersV2>> => CallInv'
  BY DEF ContextInv, CallInv, HasBlob
<1>2. CASE Switch
  <2>1. WriterIInv /\ Progress /\ PendingInv
    BY DEF ContextInv
  <2>2. UNCHANGED <<writerVars, pending, call, gpuMarkersV2>>
    BY <1>2 DEF Switch
  <2>3. WriterIInv' /\ Progress'
    BY <2>1, <2>2, NothingWritten DEF WritesNothing
  <2>4. PendingInv'
    BY <2>1, <2>2 DEF PendingInv, writerVars, blockVars
  <2> QED
    BY <1>1, <2>2, <2>3, <2>4 DEF ContextInv
<1>3. CASE CpuHalf
  BY <1>3, CpuHalfKeeps
<1>4. ASSUME NEW r \in Requests, CpuHalfWithoutRecord(r) PROVE ContextInv'
  <2>1. serial' \in Nat
    BY <1>4 DEF CpuHalfWithoutRecord, ContextInv, WriterIInv, WriterTypeOK
  <2>2. /\ pending = NoRecord /\ pc = "idle" /\ r.onContext
        /\ destination' = NoDestination
        /\ pending' = [request |-> r, number |-> serial', start |-> NoRecord, size |-> 0]
        /\ UNCHANGED <<memory, blocks, beginTimestamp, clock, pc, request, argument, position,
                       time>>
        /\ UNCHANGED <<call, gpuMarkersV2>>
    BY <1>4 DEF CpuHalfWithoutRecord
  <2>3. WriterIInv' /\ Progress'
    <3>1. WriterIInv /\ Progress
      BY DEF ContextInv
    <3>2. LeavesBlock
      BY <2>1, <2>2 DEF LeavesBlock
    <3> QED
      BY <3>1, <3>2, NothingWritten DEF WritesNothing
  <2>4. IsPending(pending', memory')
    <3>1. pending'.request = r /\ pending'.start = NoRecord
      BY <2>2
    <3> QED
      BY <2>2, <3>1 DEF IsPending
  <2> QED
    BY <1>1, <2>2, <2>3, <2>4 DEF ContextInv, PendingInv
<1>5. CASE Flush
  <2>1. /\ pending = NoRecord /\ pc = "idle" /\ destination' = NoDestination
        /\ UNCHANGED <<memory, blocks, beginTimestamp, clock, pc, request, argument, position,
                       time, serial>>
        /\ UNCHANGED <<call, gpuMarkersV2, pending>>
    BY <1>5 DEF Flush, eventVars, gpuVars
  <2>2. serial' \in Nat
    BY <2>1 DEF ContextInv, WriterIInv, WriterTypeOK
  <2>3. WriterIInv' /\ Progress' /\ PendingInv'
    <3>1. WriterIInv /\ Progress
      BY DEF ContextInv
    <3>2. LeavesBlock
      BY <2>1, <2>2 DEF LeavesBlock
    <3>3. WriterIInv' /\ Progress'
      BY <3>1, <3>2, NothingWritten DEF WritesNothing
    <3> QED
      BY <2>1, <3>3 DEF PendingInv
  <2> QED
    BY <1>1, <2>1, <2>3 DEF ContextInv
<1>6. CASE GpuHalf
  BY <1>6, GpuHalfKeeps
<1>7. CASE GpuEnd
  <2>1. /\ pending.request.type = "end" /\ call'.request = pending.request
        /\ pending' = NoRecord /\ UNCHANGED writerVars
    BY <1>7 DEF GpuEnd, CallD3D12
  <2>2. WriterIInv' /\ Progress' /\ PendingInv'
    <3>1. WriterIInv /\ Progress
      BY DEF ContextInv
    <3> QED
      BY <2>1, <3>1, NothingWritten DEF WritesNothing, PendingInv
  <2>3. CallInv'
    BY <2>1 DEF CallInv, HasBlob
  <2> QED
    BY <2>2, <2>3 DEF ContextInv
<1>8. CASE UNCHANGED vars
  <2>1. UNCHANGED writerVars /\ UNCHANGED <<pending, memory>> /\ UNCHANGED <<call, gpuMarkersV2>>
    BY <1>8 DEF vars, gpuVars, writerVars, blockVars
  <2>2. WriterIInv' /\ Progress' /\ PendingInv'
    <3>1. WriterIInv /\ Progress /\ PendingInv
      BY DEF ContextInv
    <3>2. WriterIInv' /\ Progress'
      BY <2>1, <3>1, NothingWritten DEF WritesNothing
    <3>3. PendingInv'
      BY <2>1, <3>1 DEF PendingInv
    <3> QED
      BY <3>2, <3>3
  <2> QED
    BY <1>1, <2>1, <2>2 DEF ContextInv
<1> QED
  BY <1>2, <1>3, <1>4, <1>5, <1>6, <1>7, <1>8 DEF Next

LEMMA ContextInvariant == Spec => []ContextInv
BY ContextInitially, ContextStep, PTL DEF Spec
-----------------------------------------------------------------------------
(* PIXBeginEvent and PIXSetMarker on a context never write behind the       *)
(* buffer on their stack, however long an event and whichever its format.   *)
THEOREM BufferNeverOverrun == Spec => []BufferFits
<1>1. ContextInv => BufferFits
  <2> SUFFICES ASSUME ContextInv, HasBlob, ~call.inBlock
               PROVE  Len(call.blob) + 1 <= GraphicsRecordSpace
    BY DEF BufferFits
  <2>1. IsCalled(call, gpuMarkersV2)
    BY DEF ContextInv, CallInv
  <2>2. call.request \in Request /\ call.chunk \in {1, 2}
    BY <2>1, BlockAssumption DEF IsCalled
  <2>3. CASE gpuMarkersV2
    <3>1. Len(call.blob) <= BufferLimit
      BY <2>1, <2>3 DEF IsCalled
    <3>2. Len(call.blob) \in Int
      BY <2>1, <2>3 DEF IsCalled, IsBlobUpTo, IsBlobOf
    <3> QED
      BY <3>1, <3>2, BufferLimits
  <2>4. CASE ~gpuMarkersV2
    <3>1. call.blob = LegacyLocalRecord(call.request, call.number, call.chunk)
      BY <2>1, <2>4 DEF IsCalled
    <3>2. Len(call.blob) \in Nat /\ Len(call.blob) <= BufferLimit + 1
      BY <2>2, <3>1, LegacyRecordWithin
    <3> QED
      BY <3>2, BufferLimits
  <2> QED
    BY <2>3, <2>4
<1> QED
  BY <1>1, ContextInvariant, PTL
-----------------------------------------------------------------------------
(* What the decoder finds in a blob.                                        *)
IsDecoded(d, e, n) ==
    /\ d.color = ColorOf(e) /\ d.context = ContextOf(e)
    /\ d.name = NameIn(e, n + 1)
    /\ ArgumentsRight(d.arguments, e, n)

\* The blob as the decoder reads it.
CellsOfBlob(blob) == [i \in 0 .. Len(blob) - 1 |-> blob[i + 1]]

LEMMA BlobCells ==
    ASSUME NEW blob, NEW e, NEW n, IsBlobOf(blob, e, n), Emitted(e)
    PROVE  /\ IsStoredEvent(CellsOfBlob(blob), 0, e, n)
           /\ IsHeaderOf(PIXDecodeEventInfo(CellsOfBlob(blob)[0]), e, n)
           /\ EndOfArguments(CellsOfBlob(blob), 0, n + 1) = n + 1
           /\ Len(blob) = n + 1 /\ n \in Nat
<1> DEFINE cells == CellsOfBlob(blob)
           header == PIXDecodeEventInfo(blob[1])
<1>1. /\ n \in Nat /\ n <= Len(Layout(e)) /\ Len(blob) = n + 1
      /\ \A k \in 1 .. n : blob[1 + k] = Layout(e)[k]
      /\ IsHeaderOf(header, e, n)
  BY DEF IsBlobOf
<1>2. cells[0] = blob[1]
  BY <1>1 DEF CellsOfBlob
<1>3. \A k \in 1 .. n : cells[0 + k] = Layout(e)[k]
  <2> SUFFICES ASSUME NEW k \in 1 .. n PROVE cells[k] = Layout(e)[k]
    OBVIOUS
  <2>1. k \in 0 .. Len(blob) - 1 /\ k + 1 = 1 + k
    BY <1>1
  <2>2. cells[k] = blob[1 + k]
    BY <2>1 DEF CellsOfBlob
  <2> QED
    BY <1>1, <2>2
<1> HIDE DEF cells
<1>4. IsStoredEvent(cells, 0, e, n)
  BY <1>1, <1>3 DEF IsStoredEvent
<1>5. EndOfArguments(cells, 0, n + 1) = n + 1
  <2>1. PIXDecodeEventInfo(cells[0]) = header
    BY <1>2
  <2>2. EndOfArguments(cells, 0, n + 1) = IF HasSize(header) THEN 0 + header.size ELSE n + 1
    BY <2>1 DEF EndOfArguments
  <2>3. HasSize(header) => header.size = n + 1
    BY <1>1 DEF HasSize, IsHeaderOf
  <2> HIDE DEF header
  <2> QED
    BY <1>1, <2>2, <2>3
<1> QED
  BY <1>1, <1>2, <1>4, <1>5 DEF cells

LEMMA BlobRead ==
    ASSUME NEW blob, NEW e, NEW n, IsBlobOf(blob, e, n), Emitted(e), e.request.type # "end",
           Before(e) <= n, n >= 1, NEW S, e.request.specs \in Seq(S)
    PROVE  IsDecoded(TryDecode(blob), e, n)
<1> DEFINE cells == CellsOfBlob(blob)
<1>1. /\ IsStoredEvent(cells, 0, e, n) /\ IsHeaderOf(PIXDecodeEventInfo(cells[0]), e, n)
      /\ EndOfArguments(cells, 0, n + 1) = n + 1 /\ Len(blob) = n + 1 /\ n \in Nat
  BY BlobCells
<1>2. TryDecode(blob) = ReadEvent(cells, 0, n + 1)
  BY <1>1 DEF TryDecode, CellsOfBlob
<1> HIDE DEF cells
<1>3. 0 + 1 + n = n + 1 /\ n + 1 \in Nat /\ 0 \in Nat
  BY <1>1
<1>4. IsNamed(cells, 0, e, n, n + 1)
  <2>1. AtEnd(cells, 0 + 1 + n, n + 1)
    BY <1>3 DEF AtEnd
  <2> QED
    BY <1>1, <1>3, <2>1 DEF IsNamed
<1>5. EndOfArguments(cells, 0, n + 1) = 0 + 1 + n
  BY <1>1, <1>3
<1> DEFINE d == ReadEvent(cells, 0, n + 1)
<1>6. /\ d.color = ColorOf(e) /\ d.context = ContextOf(e)
      /\ d.name = NameIn(e, n + 1)
      /\ ArgumentsRight(d.arguments, e, n)
  BY <1>1, <1>4, <1>5, EventRead
<1> QED
  BY <1>2, <1>6 DEF IsDecoded

(* There is always space for what is before the name, and a name is never   *)
(* empty.                                                                   *)
LEMMA NameReached ==
    ASSUME NEW e, Emitted(e), e.request.type # "end"
    PROVE  Before(e) \in Nat /\ Before(e) <= 2 /\ Before(e) + 1 <= NameEnd(e)
           /\ NameEnd(e) \in Nat /\ NameEnd(e) <= Len(Layout(e)) /\ Len(Layout(e)) \in Nat
<1> DEFINE c == Len(ColorOf(e))
           x == Len(ContextOf(e))
           f == Len(FormatOf(e))
<1>1. c \in {0, 1} /\ x \in {0, 1}
  BY DEF ColorOf, ContextOf
<1>2. f \in Nat /\ 1 <= f
  <2>1. FormatText(e) \in Seq(CellsOf(e)) /\ IsText(FormatText(e))
    BY FormatCells, NamesAreText
  <2>2. CASE IsOld(e)
    <3> DEFINE s == FormatText(e)
               k == Chunks(Len(s), ChunkOf(e)) * ChunkOf(e)
    <3>1. FormatOf(e) = StringOf(e, FormatPart, s)
      BY <2>2 DEF FormatOf
    <3>2. Len(StringOf(e, FormatPart, s)) = 1 + k
          /\ k \in Len(s) .. Len(s) + ChunkOf(e) - 1
      BY <2>1, StringPlaces
    <3>3. Len(s) \in Nat /\ ChunkOf(e) \in Int
      BY <2>1 DEF Emitted
    <3> HIDE DEF k, s
    <3>4. f = 1 + k
      BY <3>1, <3>2
    <3> QED
      BY <3>2, <3>3, <3>4
  <2>3. CASE ~IsOld(e)
    BY <2>1, <2>3 DEF FormatOf, IsText
  <2> QED
    BY <2>2, <2>3
<1>3. NameEnd(e) <= Len(Layout(e)) /\ Layout(e) \in Seq(CellsOf(e))
  BY LayoutPlaces
<1>4. Before(e) = c + x /\ NameEnd(e) = c + x + f /\ Len(Layout(e)) \in Nat
  BY <1>3 DEF Before, NameEnd
<1> HIDE DEF c, x, f
<1>5. c + x \in Nat /\ c + x <= 2 /\ c + x + f \in Nat /\ (c + x) + 1 <= c + x + f
  BY <1>1, <1>2
<1> QED
  BY <1>3, <1>4, <1>5

\* So is the event of a blob, which is there up to some limit.
LEMMA BlobIsDecoded ==
    ASSUME NEW blob, NEW e, IsBlobUpTo(blob, e, BufferLimit), Emitted(e),
           e.request.type # "end", NEW S, e.request.specs \in Seq(S)
    PROVE  IsDecoded(TryDecode(blob), e, Len(blob) - 1) /\ IsBlobOf(blob, e, Len(blob) - 1)
<1> DEFINE n == Len(blob) - 1
<1>1. IsBlobOf(blob, e, n)
  BY DEF IsBlobUpTo
<1>2. n \in Nat /\ Len(blob) = n + 1
  BY <1>1 DEF IsBlobOf
<1>3. n = Len(Layout(e)) \/ BufferLimit <= Len(blob)
  BY DEF IsBlobUpTo
<1>4. Before(e) <= n /\ n >= 1
  <2>1. /\ Before(e) \in Nat /\ Before(e) <= 2 /\ Before(e) + 1 <= NameEnd(e)
        /\ NameEnd(e) \in Nat /\ NameEnd(e) <= Len(Layout(e)) /\ Len(Layout(e)) \in Nat
    BY NameReached
  <2>2. 4 <= BufferLimit /\ BufferLimit \in Nat
    BY BufferLimits
  <2> HIDE DEF n
  <2> QED
    BY <1>2, <1>3, <2>1, <2>2
<1> HIDE DEF n
<1>5. IsDecoded(TryDecode(blob), e, n)
  BY <1>1, <1>4, BlobRead
<1> QED
  BY <1>1, <1>5 DEF n

(* A record of version 1 without a name has a 0 there, which is no string   *)
(* info, so that neither a name nor arguments are found.                    *)
IsNameless(record, header, color) ==
    /\ Len(record) \in Nat /\ 3 <= Len(record)
    /\ record[1] = header /\ record[2] = color /\ record[3] = Zero

LEMMA NamelessRecord ==
    ASSUME NEW r \in Request, r.type # "end", r.format = 0, NEW n, NEW chunk \in {1, 2}
    PROVE  IsNameless(LegacyLocalRecord(r, n, chunk),
                      LegacyEventInfo(0, r.type, HasVarArgs(r), FALSE), Color(n))
<1> DEFINE e == OldEvent(r, n, chunk)
           header == LegacyEventInfo(0, r.type, HasVarArgs(r), FALSE)
           color == Color(n)
           C == CellsOf(e) \cup {header}
           B == BufferLimit
           N == Len(r.args)
           begun == <<header, color>>
           record == LegacyLocalRecord(r, n, chunk)
           Q == {s \in Seq(C) : IsNameless(s, header, color)}
           format == [kind |-> IF r.format = 0 THEN "null" ELSE "string", qwords |-> r.format]
           named == LegacyArgument(begun, B, n, FormatPart, format, r.specs, chunk)
<1>1. /\ Emitted(e) /\ ChunkOf(e) = chunk /\ e.number = n /\ HasPartsOf(r, e)
  <2>1. IsOldOf(e, r, n, chunk)
    BY OldEmitted
  <2> HIDE DEF e
  <2> QED
    BY <2>1 DEF IsOldOf
<1>2. N \in Nat /\ B \in Int /\ 4 <= B
  BY BufferLimits DEF Request
<1>3. record = LegacyArguments(begun, B, n, r, chunk)
  BY DEF LegacyLocalRecord
<1> HIDE DEF e, header
<1>4. CellsOf(e) \subseteq C /\ header \in C /\ color \in C /\ Zero \in C
  BY <1>1 DEF CellsOf
<1> HIDE DEF C, color, B
<1>5. begun \in Seq(C) /\ Len(begun) = 2 /\ begun[1] = header /\ begun[2] = color
  BY <1>4
<1> HIDE DEF begun
<1>6. named \in Q
  <2>1. format.kind = "null"
    OBVIOUS
  <2> HIDE DEF format
  <2>2. Len(begun) < B /\ ~(Len(begun) >= B)
    BY <1>2, <1>5
  <2>3. named = Append(begun, Zero)
    BY <2>1, <2>2 DEF LegacyArgument
  <2> HIDE DEF named
  <2>4. /\ Append(begun, Zero) \in Seq(C) /\ Len(Append(begun, Zero)) = Len(begun) + 1
        /\ \A i \in 1 .. Len(begun) : Append(begun, Zero)[i] = begun[i]
        /\ Append(begun, Zero)[Len(begun) + 1] = Zero
    <3>1. begun \in Seq(C) /\ Zero \in C
      BY <1>4, <1>5
    <3> QED
      BY <3>1, AppendProperties
  <2>5. /\ named \in Seq(C) /\ Len(named) = 3
        /\ named[1] = header /\ named[2] = color /\ named[3] = Zero
    BY <1>5, <2>3, <2>4
  <2>6. IsNameless(named, header, color)
    BY <2>5 DEF IsNameless
  <2> QED
    BY <2>5, <2>6
<1>7. ASSUME NEW s \in Q, NEW j \in 1 .. N
      PROVE  LegacyArgument(s, B, n, j, r.args[j], <<>>, chunk) \in Q
  <2> DEFINE a == r.args[j]
             longer == LegacyArgument(s, B, n, j, a, <<>>, chunk)
  <2>1. a \in Argument /\ j \in Nat
    BY ElementOfSeq DEF Request
  <2> HIDE DEF a
  <2>2. a.kind \in {"value", "string", "null"} /\ a.qwords \in Nat
    BY <2>1 DEF Argument
  <2>3. s \in Seq(C) /\ IsNameless(s, header, color)
    OBVIOUS
  <2>4. Copyable(e, j, a, <<>>, C, s, B)
    BY <1>1, <1>2, <1>4, <2>1, <2>2, <2>3 DEF Copyable
  <2>5. Adds(s, longer, Whole(e, j, a, <<>>), e, B)
    BY <1>1, <2>4, CopiedArgument
  <2> HIDE DEF longer
  <2>6. longer \in Seq(C) /\ BeginsWith(longer, s)
    BY <1>4, <2>3, <2>5, AddedCells, AddedBehind
  <2>7. IsNameless(longer, header, color)
    <3>1. 3 <= Len(s) /\ Len(s) \in Nat /\ Len(longer) \in Nat /\ Len(s) <= Len(longer)
      BY <2>3, <2>6 DEF IsNameless, BeginsWith
    <3>2. 1 \in 1 .. Len(s) /\ 2 \in 1 .. Len(s) /\ 3 \in 1 .. Len(s) /\ 3 <= Len(longer)
      BY <3>1
    <3>3. longer[1] = s[1] /\ longer[2] = s[2] /\ longer[3] = s[3]
      BY <2>6, <3>2 DEF BeginsWith
    <3> QED
      BY <2>3, <3>1, <3>2, <3>3 DEF IsNameless
  <2> QED
    BY <2>6, <2>7 DEF longer, a
<1>8. Stays(Q, begun, B, n, r, chunk)
  <2> HIDE DEF Q
  <2> QED
    BY <1>6, <1>7 DEF Stays
<1>9. PICK f : /\ IsWriting(f, begun, B, n, r, chunk)
               /\ \A j \in 0 .. Len(r.args) : f[j] \in Q
  <2> HIDE DEF Q
  <2> QED
    BY <1>2, <1>8, WritingWithin
<1>10. record = f[N]
  BY <1>3, <1>9 DEF IsWriting
<1>11. f[N] \in Q
  <2> HIDE DEF Q
  <2> QED
    BY <1>2, <1>9
<1> QED
  BY <1>10, <1>11 DEF header, color

LEMMA NamelessDecoded ==
    ASSUME NEW record, NEW r \in Request, r.type # "end", NEW n,
           IsNameless(record, LegacyEventInfo(0, r.type, HasVarArgs(r), FALSE), Color(n))
    PROVE  /\ TryDecode(record).color = <<Color(n)>> /\ TryDecode(record).context = <<>>
           /\ TryDecode(record).name = <<>> /\ TryDecode(record).arguments = <<>>
<1> DEFINE cells == CellsOfBlob(record)
           limit == Len(record)
           info == LegacyEventInfo(0, r.type, HasVarArgs(r), FALSE)
           d == TryDecode(record)
<1>1. /\ limit \in Nat /\ 3 <= limit
      /\ record[1] = info /\ record[2] = Color(n) /\ record[3] = Zero
  BY DEF IsNameless
<1>2. cells[0] = info /\ cells[1] = Color(n) /\ cells[2] = Zero
  <2> HIDE DEF limit, info
  <2>1. 0 \in 0 .. limit - 1 /\ 1 \in 0 .. limit - 1 /\ 2 \in 0 .. limit - 1
    BY <1>1
  <2>2. \A i \in 0 .. limit - 1 : cells[i] = record[i + 1]
    BY DEF CellsOfBlob, limit
  <2> HIDE DEF cells
  <2>3. cells[0] = record[0 + 1] /\ cells[1] = record[1 + 1] /\ cells[2] = record[2 + 1]
    BY <2>1, <2>2
  <2> QED
    BY <1>1, <2>3
<1>3. d = ReadEvent(cells, 0, limit)
  BY DEF TryDecode, CellsOfBlob
<1> HIDE DEF d, cells, limit, info
<1>11. PICK at \in Nat : at = 0
  OBVIOUS
<1> DEFINE header == PIXDecodeEventInfo(cells[at])
           color == IF header.hasColor THEN 1 ELSE 0
           context == IF header.onContext THEN 1 ELSE 0
           start == at + 1 + color + context
           name == IF header.legacy THEN ReadArgumentString(cells, start, limit)
                                    ELSE ReadFormat(cells, start, limit)
           source == start + name.used
           a == PopulateFormatArguments(cells, Specs(name.text), source,
                                        EndOfArguments(cells, at, limit)).arguments
<1>4. /\ header.legacy /\ header.hasColor = TRUE /\ header.onContext = FALSE
  <2>1. info.size = 0 /\ info.type = r.type /\ info.onContext = FALSE
    BY DEF LegacyEventInfo, info
  <2> QED
    BY <1>2, <1>11, <2>1 DEF PIXDecodeEventInfo
<1>12. at + 1 < limit /\ d = ReadEvent(cells, at, limit)
  BY <1>1, <1>3, <1>11
<1>5. /\ d.color = (IF header.hasColor THEN <<cells[at + 1]>> ELSE <<>>)
      /\ d.context = (IF header.onContext THEN <<cells[at + 1 + color]>> ELSE <<>>)
      /\ d.name = name.text
      /\ d.arguments = IF NoVarArgs(header, source - at) THEN <<>> ELSE a
  BY <1>1, <1>12, FieldsRead
<1> HIDE DEF header
<1>6. start = 2 /\ at + 1 = 1
  BY <1>4, <1>11
<1>7. ReadArgumentString(cells, 2, limit) = NothingRead
  BY <1>1, <1>2 DEF ReadArgumentString, Zero
<1>8. name.text = <<>> /\ source \in Int
  BY <1>4, <1>6, <1>7 DEF NothingRead
<1>9. a = <<>>
  <2>1. Specs(name.text) = <<>>
    BY <1>8 DEF Specs
  <2>2. EndOfArguments(cells, at, limit) = limit
    BY <1>4 DEF EndOfArguments, HasSize, header
  <2>3. <<>> \in Seq({}) /\ limit \in Int
    BY <1>1
  <2> HIDE DEF source
  <2>4. PopulateFormatArguments(cells, <<>>, source, limit).arguments = <<>>
    BY <1>8, <2>3, NothingPopulated
  <2> QED
    BY <2>1, <2>2, <2>4
<1> HIDE DEF a
<1>10. d.arguments = <<>>
  BY <1>5, <1>9
<1> QED
  BY <1>2, <1>4, <1>5, <1>6, <1>8, <1>10 DEF d
-----------------------------------------------------------------------------
\* The event of a call is the one that its blob was made for.
LEMMA EventOfCall ==
    ASSUME HasBlob, IsCalled(call, gpuMarkersV2)
    PROVE  /\ call.request \in Request /\ call.request.type # "end"
           /\ gpuMarkersV2 => EventOf(call) = PresentEvent(call.request, call.number)
           /\ ~gpuMarkersV2 => EventOf(call) = OldEvent(call.request, call.number, call.chunk)
BY BlockAssumption DEF HasBlob, IsCalled, EventOf, PresentEvent, OldEvent

(* The blob of an event and what is decoded of it are what BlobIsTheEvent   *)
(* asks for.                                                                *)
BlobShows(blob, d, e) ==
    /\ Head(blob).kind = "header"
    /\ d.color = ColorOf(e) /\ d.context = ContextOf(e)
    /\ d.name = NameOf(e, Len(blob))
    /\ \/ HasNull(e) \/ ~SpecifiersFit(e.request)
       \/ Len(blob) > Len(Layout(e)) /\ d.arguments = Formatted(e)
       \/ Len(blob) <= Len(Layout(e)) /\ \A j \in DOMAIN d.arguments :
                                            IsReadOf(d.arguments[j], e, j, Len(blob) - 1)

LEMMA NamedBlobShows ==
    ASSUME NEW blob, NEW e, IsBlobUpTo(blob, e, BufferLimit), Emitted(e),
           e.request.type # "end", NEW S, e.request.specs \in Seq(S),
           ~(IsOld(e) /\ e.request.format = 0)
    PROVE  BlobShows(blob, TryDecode(blob), e)
<1> DEFINE n == Len(blob) - 1
           d == TryDecode(blob)
           L == Layout(e)
<1>1. IsDecoded(d, e, n) /\ IsBlobOf(blob, e, n)
  BY BlobIsDecoded
<1> HIDE DEF d, L
<1>2. n \in Nat /\ Len(blob) = n + 1 /\ blob[1].kind = "header" /\ n <= Len(L)
  BY <1>1 DEF IsBlobOf, L
<1>3. Len(L) \in Nat
  BY NameReached DEF L
<1> HIDE DEF n
<1>4. /\ d.color = ColorOf(e) /\ d.context = ContextOf(e)
      /\ d.name = NameIn(e, Len(blob)) /\ ArgumentsRight(d.arguments, e, n)
  BY <1>1, <1>2 DEF IsDecoded
<1>5. d.name = NameOf(e, Len(blob))
  BY <1>4 DEF NameOf
<1>6. IF n = Len(L) THEN Len(blob) > Len(L) ELSE Len(blob) <= Len(L)
  BY <1>2, <1>3
<1>7. \/ HasNull(e) \/ ~SpecifiersFit(e.request)
      \/ Len(blob) > Len(L) /\ d.arguments = Formatted(e)
      \/ Len(blob) <= Len(L) /\ \A j \in DOMAIN d.arguments :
                                    IsReadOf(d.arguments[j], e, j, Len(blob) - 1)
  BY <1>2, <1>4, <1>6 DEF ArgumentsRight, L
<1>8. Head(blob) = blob[1]
  BY DEF Head
<1> QED
  BY <1>2, <1>4, <1>5, <1>7, <1>8 DEF BlobShows, L, d

LEMMA NamelessBlobShows ==
    ASSUME NEW r \in Request, r.type # "end", r.format = 0, NEW n, NEW chunk \in {1, 2}
    PROVE  BlobShows(LegacyLocalRecord(r, n, chunk),
                     TryDecode(LegacyLocalRecord(r, n, chunk)), OldEvent(r, n, chunk))
<1> DEFINE record == LegacyLocalRecord(r, n, chunk)
           header == LegacyEventInfo(0, r.type, HasVarArgs(r), FALSE)
           e == OldEvent(r, n, chunk)
           d == TryDecode(record)
<1>1. IsNameless(record, header, Color(n))
  BY NamelessRecord
<1>2. /\ d.color = <<Color(n)>> /\ d.context = <<>> /\ d.name = <<>> /\ d.arguments = <<>>
  BY <1>1, NamelessDecoded
<1>3. header.kind = "header"
  BY DEF LegacyEventInfo
<1>4. /\ Emitted(e) /\ IsOld(e) /\ e.number = n /\ HasPartsOf(r, e)
      /\ e.request.type = r.type /\ e.request.hasColor = TRUE /\ e.request.onContext = FALSE
  <2>1. IsOldOf(e, r, n, chunk)
    BY OldEmitted
  <2> HIDE DEF e
  <2> QED
    BY <2>1 DEF IsOldOf
<1> HIDE DEF record, header, e, d
<1>5. Head(record).kind = "header"
  <2>1. Head(record) = record[1]
    BY DEF Head
  <2> QED
    BY <1>1, <1>3, <2>1 DEF IsNameless
<1>6. d.color = ColorOf(e) /\ d.context = ContextOf(e)
  BY <1>2, <1>4 DEF ColorOf, ContextOf
<1>7. d.name = NameOf(e, Len(record))
  BY <1>2, <1>4 DEF NameOf, HasPartsOf
<1>8. SpecifiersFit(e.request) => Formatted(e) = <<>>
  <2> SUFFICES ASSUME SpecifiersFit(e.request), e.request.args # <<>> PROVE Formatted(e) = <<>>
    BY DEF Formatted
  <2>1. e.request.specs = <<>>
    BY <1>4 DEF SpecifiersFit, HasPartsOf
  <2>2. Min({Len(e.request.specs), MaxArguments}) = 0
    <3>1. Len(e.request.specs) = 0
      BY <2>1
    <3> QED
      BY <3>1, MinOfTwo, FormatAssumption
  <2>3. Formatted(e) = [j \in 1 .. 0 |-> IF j <= Len(e.request.args) THEN TextOf(e, j) ELSE <<>>]
    BY <2>2 DEF Formatted
  <2> QED
    BY <2>3
<1>9. Len(Layout(e)) \in Nat /\ Len(record) \in Nat
  BY <1>1, <1>4, NameReached DEF IsNameless
<1>10. Len(record) > Len(Layout(e)) \/ Len(record) <= Len(Layout(e))
  BY <1>9
<1>11. DOMAIN d.arguments = {}
  BY <1>2
<1> QED
  BY <1>2, <1>5, <1>6, <1>7, <1>8, <1>10, <1>11 DEF BlobShows, record, e, d

(* D3D12 is given the event that was emitted: its header, color, context,   *)
(* name and arguments, or as much of them as there is space for, of either  *)
(* format, from the block or from the buffer.                               *)
THEOREM EveryBlobIsTheEvent == Spec => []BlobIsTheEvent
<1>1. ContextInv => BlobIsTheEvent
  <2> SUFFICES ASSUME ContextInv, HasBlob
               PROVE  BlobShows(call.blob, TryDecode(call.blob), EventOf(call))
    BY DEF BlobIsTheEvent, BlobShows
  <2> DEFINE r == call.request
             n == call.number
  <2>1. IsCalled(call, gpuMarkersV2)
    BY DEF ContextInv, CallInv
  <2>2. /\ r \in Request /\ r.type # "end"
        /\ gpuMarkersV2 => EventOf(call) = PresentEvent(r, n)
        /\ ~gpuMarkersV2 => EventOf(call) = OldEvent(r, n, call.chunk)
    BY <2>1, EventOfCall
  <2>3. r.specs \in Seq(Specifier)
    BY <2>2 DEF Request
  <2>4. CASE gpuMarkersV2
    <3> DEFINE e == PresentEvent(r, n)
    <3>1. IsBlobUpTo(call.blob, e, BufferLimit)
      BY <2>1, <2>4 DEF IsCalled
    <3>2. Emitted(e) /\ ~IsOld(e) /\ e.request = r
      BY <2>2, PresentEmitted
    <3> HIDE DEF e, r
    <3>3. e.request.type # "end" /\ e.request.specs \in Seq(Specifier)
      BY <2>2, <2>3, <3>2
    <3>4. BlobShows(call.blob, TryDecode(call.blob), e)
      BY <3>1, <3>2, <3>3, NamedBlobShows
    <3> QED
      BY <2>2, <2>4, <3>4 DEF e
  <2>5. CASE ~gpuMarkersV2
    <3> DEFINE e == OldEvent(r, n, call.chunk)
    <3>1. call.blob = LegacyLocalRecord(r, n, call.chunk) /\ call.chunk \in {1, 2}
      BY <2>1, <2>5 DEF IsCalled
    <3>2. CASE r.format = 0
      BY <2>2, <2>5, <3>1, <3>2, NamelessBlobShows
    <3>3. CASE r.format # 0
      <4>1. IsBlobUpTo(call.blob, e, BufferLimit)
        BY <2>2, <3>1, <3>3, OldRecordHolds
      <4>2. IsOldOf(e, r, n, call.chunk)
        BY <2>2, <3>1, OldEmitted
      <4> HIDE DEF e, r
      <4>3. Emitted(e) /\ e.request.type # "end" /\ e.request.specs \in Seq(Specifier)
            /\ ~(IsOld(e) /\ e.request.format = 0)
        BY <2>2, <2>3, <3>3, <4>2 DEF IsOldOf, HasPartsOf
      <4>4. BlobShows(call.blob, TryDecode(call.blob), e)
        BY <4>1, <4>3, NamedBlobShows
      <4> QED
        BY <2>2, <2>5, <4>4 DEF e
    <3> QED
      BY <3>2, <3>3
  <2> QED
    BY <2>4, <2>5
<1> QED
  BY <1>1, ContextInvariant, PTL
-----------------------------------------------------------------------------
(* Two records of the same event, of which one was cut, are read alongside. *)

\* A set of numbers has a smallest.
LEMMA Least ==
    ASSUME NEW s, s \subseteq Nat, s # {}
    PROVE  Min(s) \in s
<1> DEFINE R == OpToRel(<, Nat)
<1>1. \A m, k \in Nat : m < k => <<m, k>> \in R
  BY DEF OpToRel
<1>2. IsWellFoundedOn(R, Nat)
  BY NatLessThanWellFounded, Zenon
<1> HIDE DEF R
<1>3. PICK x \in s : \A y \in s : ~(<<y, x>> \in R)
  BY <1>2, WFMin
<1>4. ASSUME NEW y \in s PROVE x <= y
  <2>1. x \in Nat /\ y \in Nat /\ ~(<<y, x>> \in R)
    BY <1>3
  <2>2. ~(y < x)
    BY <1>1, <2>1
  <2> QED
    BY <2>1, <2>2
<1> QED
  BY <1>3, <1>4 DEF Min

\* Whatever is read is finite.
IsFinite(read) == read.used \in Nat /\ Len(read.text) \in Nat

LEMMA ReadsFinite ==
    ASSUME NEW cells, NEW at, NEW e, NEW n, IsStoredEvent(cells, at, e, n), NEW q \in Nat,
           NEW spec
    PROVE  IsFinite(ReadArgument(cells, spec, at + 1 + q, at + 1 + n))
<1> DEFINE L == Layout(e)
           p == at + 1 + q
           end == at + 1 + n
           read == ReadArgument(cells, spec, p, end)
           chunk == cells[p].chunk
           length == StringEnd(cells, p + 1, end) - (p + 1)
           used == chunk * ((length + chunk - 1) \div chunk)
           text == [i \in 1 .. length |-> cells[(p + 1) + i - 1]]
<1>1. /\ Emitted(e) /\ at \in Nat /\ n \in Nat /\ n <= Len(L)
      /\ \A k \in 1 .. n : cells[at + k] = L[k]
  BY DEF IsStoredEvent
<1>2. L \in Seq(CellsOf(e)) /\ ChunkOf(e) \in {1, 2}
  BY <1>1, LayoutPlaces DEF Emitted
<1>3. IsFinite(NothingRead)
  BY DEF IsFinite, NothingRead
<1>4. p \in Nat /\ end \in Nat /\ p = at + (q + 1)
  BY <1>1
<1>5. p < end => q + 1 \in 1 .. n
  BY <1>1
<1> HIDE DEF p, end
<1>6. CASE spec = "value"
  <2>1. read = IF p < end THEN [used |-> 1, text |-> <<cells[p]>>] ELSE NothingRead
    BY <1>6 DEF ReadArgument, ReadValue
  <2>2. IsFinite([used |-> 1, text |-> <<cells[p]>>])
    BY DEF IsFinite
  <2> QED
    BY <1>3, <2>1, <2>2 DEF p, end
<1>7. CASE spec # "value"
  <2>1. read = ReadArgumentString(cells, p, end)
    BY <1>7 DEF ReadArgument
  <2>2. CASE p >= end \/ cells[p].kind # "info" \/ AtEnd(cells, p + 1, end)
    BY <1>3, <2>1, <2>2 DEF ReadArgumentString, p, end
  <2>3. CASE ~(p >= end \/ cells[p].kind # "info" \/ AtEnd(cells, p + 1, end))
    <3>1. p < end /\ cells[p].kind = "info"
      BY <1>4, <2>3
    <3>2. p + 1 <= end
      BY <1>4, <3>1
    <3>3. chunk \in {1, 2}
      <4>1. q + 1 \in 1 .. n /\ q + 1 \in 1 .. Len(L)
        BY <1>1, <1>2, <1>5, <3>1
      <4>2. cells[p] = L[q + 1]
        BY <1>1, <1>4, <4>1
      <4>3. L[q + 1] \in CellsOf(e)
        BY <1>2, <4>1
      <4>4. \A c \in CellsOf(e) : c.kind = "info" => c.chunk = ChunkOf(e)
        BY DEF CellsOf, Color, Context, Zero, Padding, Value, StringInfo, Chars
      <4> QED
        BY <1>2, <3>1, <4>2, <4>3, <4>4
    <3>4. length \in Nat
      <4> DEFINE Endings == {i \in p + 1 .. end : AtEnd(cells, i, end)
                                                  \/ (i > p + 1 /\ Terminates(cells, i - 1))}
      <4>1. end \in p + 1 .. end /\ AtEnd(cells, end, end)
        BY <1>4, <3>2 DEF AtEnd
      <4>2. Endings # {} /\ Endings \subseteq p + 1 .. end /\ Endings \subseteq Nat
        BY <1>4, <4>1
      <4>3. StringEnd(cells, p + 1, end) = Min(Endings)
        BY DEF StringEnd
      <4> HIDE DEF Endings
      <4>4. Min(Endings) \in p + 1 .. end
        BY <4>2, Least
      <4> QED
        BY <1>4, <4>3, <4>4
    <3> HIDE DEF length, chunk
    <3>5. used \in Nat
      <4>1. used = chunk * Chunks(length, chunk)
        BY DEF Chunks
      <4>2. Chunks(length, chunk) \in Nat
        BY <3>3, <3>4, ChunkBounds
      <4> HIDE DEF used
      <4> QED
        BY <3>3, <4>1, <4>2
    <3>6. Len(text) = length
      BY <3>4
    <3> HIDE DEF used, text
    <3> DEFINE found == [used |-> used, text |-> text]
    <3>7. read = [found EXCEPT !.used = @ + 1]
      <4>1. Text(cells, p + 1, end, chunk) = found
        BY DEF Text, length, used, text
      <4> HIDE DEF found
      <4> QED
        BY <2>1, <2>3, <4>1 DEF ReadArgumentString, chunk
    <3>8. read.used = used + 1 /\ read.text = text
      <4>1. found.used = used /\ found.text = text /\ DOMAIN found = {"used", "text"}
        OBVIOUS
      <4> HIDE DEF found, read
      <4> QED
        BY <3>7, <4>1
    <3> HIDE DEF read
    <3>9. IsFinite(read)
      BY <3>4, <3>5, <3>6, <3>8 DEF IsFinite
    <3> QED
      BY <3>9 DEF read, p, end
  <2> QED
    BY <2>2, <2>3
<1> QED
  BY <1>6, <1>7

\* An offset in the layout lies in an argument.
AtPart(q, e, h) ==
    /\ h \in 1 .. Len(e.request.args) /\ q \in Nat
    /\ Ends(e)[h - 1] <= q /\ q < Ends(e)[h]

\* There is string info only at the beginning of a string.
LEMMA InfoPlace ==
    ASSUME NEW e, Emitted(e), NEW q, NEW h, AtPart(q, e, h), Layout(e)[q + 1].kind = "info"
    PROVE  /\ IsString(e, h) /\ Ends(e)[h - 1] = q
           /\ Layout(e)[q + 1] = StringInfo(e.number, h, ChunkOf(e))
<1> DEFINE a == e.request.args[h]
           W == ArgumentOf(e, h)
           L == Layout(e)
           x == Ends(e)[h - 1]
           y == Ends(e)[h]
           i == q - x + 1
<1>1. h \in 1 .. Len(e.request.args) /\ q \in Nat /\ x <= q /\ q < y
  BY DEF AtPart
<1>2. /\ x \in Nat /\ y \in Nat /\ Len(W) \in Nat /\ y = x + Len(W)
      /\ \A k \in 1 .. Len(W) : L[x + k] = W[k]
  BY <1>1, ArgumentPlace
<1>3. a.kind \in {"value", "string", "null"}
  <2>1. a \in Argument
    BY <1>1, ElementOfSeq DEF Emitted
  <2> HIDE DEF a
  <2> QED
    BY <2>1 DEF Argument
<1> HIDE DEF a, W, L, x, y
<1>4. i \in 1 .. Len(W) /\ x + i = q + 1
  BY <1>1, <1>2
<1>5. L[q + 1] = W[i]
  BY <1>2, <1>4
<1>6. W[i].kind = "info"
  BY <1>5 DEF L
<1> HIDE DEF i
<1>7. CASE a.kind = "value"
  <2>1. W = <<Value(e.number, h)>>
    BY <1>7 DEF ArgumentOf, TextOf, a, W
  <2>2. W[i] = Value(e.number, h)
    BY <1>4, <2>1
  <2> QED
    BY <1>6, <2>2 DEF Value
<1>8. CASE a.kind = "null"
  <2>1. W = <<Zero>>
    BY <1>8 DEF ArgumentOf, a, W
  <2>2. W[i] = Zero
    BY <1>4, <2>1
  <2> QED
    BY <1>6, <2>2 DEF Zero
<1>9. CASE a.kind = "string"
  <2>1. IsString(e, h)
    BY <1>1, <1>9 DEF IsString, a
  <2>2. /\ W[1] = StringInfo(e.number, h, ChunkOf(e))
        /\ \A k \in 2 .. Len(W) : W[k].kind # "info"
    BY <2>1, StringArgument DEF W
  <2>3. i = 1
    BY <1>2, <1>4, <1>6, <2>2
  <2>4. x = q
    BY <1>1, <1>2, <1>4, <2>3
  <2> QED
    BY <1>5, <2>1, <2>2, <2>3, <2>4 DEF x, L
<1> QED
  BY <1>3, <1>7, <1>8, <1>9

\* What is behind an argument lies in the next.
LEMMA Onward ==
    ASSUME NEW e, Emitted(e), NEW q, NEW h, AtPart(q, e, h), NEW r \in Nat,
           q <= r, r <= Ends(e)[h], r < Len(Layout(e))
    PROVE  \E g \in {h, h + 1} : AtPart(r, e, g)
<1> DEFINE N == Len(e.request.args)
           E == Ends(e)
<1>1. h \in 1 .. N /\ q \in Nat /\ E[h - 1] <= q
  BY DEF AtPart
<1>2. E[h - 1] \in Nat /\ E[h] \in Nat
  BY <1>1, ArgumentPlace
<1>3. N \in Nat /\ E[N] = Len(Layout(e)) /\ Len(Layout(e)) \in Nat
  BY LayoutPlaces DEF IsPlacing, Emitted
<1> HIDE DEF N, E
<1>4. E[h - 1] <= r /\ r <= E[h]
  BY <1>1, <1>2 DEF E
<1>5. CASE r < E[h]
  <2>1. AtPart(r, e, h)
    BY <1>1, <1>4, <1>5 DEF AtPart, E, N
  <2> QED
    BY <2>1
<1>6. CASE ~(r < E[h])
  <2>1. r = E[h]
    BY <1>2, <1>4, <1>6
  <2>2. h # N
    BY <1>3, <2>1
  <2>3. h + 1 \in 1 .. N /\ (h + 1) - 1 = h
    BY <1>1, <1>3, <2>2
  <2> DEFINE w == Len(ArgumentOf(e, h + 1))
  <2>4. w \in Nat \ {0}
    BY <2>3, ArgumentNotEmpty DEF N
  <2>5. E[h + 1] = E[(h + 1) - 1] + w /\ E[h + 1] \in Nat
    BY <2>3, ArgumentPlace DEF N, E
  <2> HIDE DEF w
  <2>6. r < E[h + 1] /\ E[(h + 1) - 1] <= r
    BY <1>2, <2>1, <2>3, <2>4, <2>5
  <2>7. AtPart(r, e, h + 1)
    BY <2>3, <2>6 DEF AtPart, E, N
  <2> QED
    BY <2>7
<1> QED
  BY <1>5, <1>6

\* The beginnings of a sequence.
LEMMA Beginnings ==
    ASSUME NEW S, NEW s \in Seq(S), NEW j \in 0 .. Len(s), NEW k \in 0 .. Len(s), j <= k
    PROVE  IsPrefix(SubSeq(s, 1, j), SubSeq(s, 1, k))
<1> DEFINE a == SubSeq(s, 1, j)
           b == SubSeq(s, 1, k)
<1>1. /\ a = [i \in 1 .. j |-> s[i]] /\ a \in Seq(S) /\ Len(a) = j
      /\ b = [i \in 1 .. k |-> s[i]] /\ b \in Seq(S) /\ Len(b) = k
  OBVIOUS
<1>2. j \in Nat /\ k \in Nat
  OBVIOUS
<1> HIDE DEF a, b
<1>3. \A i \in 1 .. j : a[i] = s[i] /\ b[i] = s[i]
  BY <1>1, <1>2
<1>4. SubSeq(a, 1, j) = SubSeq(b, 1, j)
  <2>1. SubSeq(a, 1, j) = [i \in 1 .. j |-> a[i]] /\ SubSeq(b, 1, j) = [i \in 1 .. j |-> b[i]]
    BY <1>1, <1>2
  <2> QED
    BY <1>3, <2>1
<1> QED
  BY <1>1, <1>4 DEF IsPrefix, a, b

LEMMA NothingIsPrefix ==
    ASSUME NEW t, Len(t) \in Nat
    PROVE  IsPrefix(<<>>, t)
<1>1. Len(<<>>) = 0 /\ 0 <= Len(t)
  OBVIOUS
<1>2. SubSeq(<<>>, 1, 0) = SubSeq(t, 1, 0)
  BY DEF SubSeq
<1> QED
  BY <1>1, <1>2 DEF IsPrefix

(* What both readings have read of an argument.  That of the record that    *)
(* was cut is at its end, or both are at the same place, or the former is   *)
(* at the string info at its end.                                           *)
Together(a, b, e, n, q, h) ==
    /\ IsFinite(a) /\ IsFinite(b) /\ IsPrefix(a.text, b.text)
    /\ \/ n <= q + a.used
       \/ b.used = a.used /\ \E g \in {h, h + 1} : AtPart(q + a.used, e, g)
       \/ a.used = 0 /\ q + 1 = n /\ Layout(e)[n] = StringInfo(e.number, h, ChunkOf(e))

LEMMA ReadTogether ==
    ASSUME NEW small, NEW large, NEW at, NEW e, NEW n, NEW m,
           IsStoredEvent(small, at, e, n), IsStoredEvent(large, at, e, m), n <= m,
           NEW q, NEW h, AtPart(q, e, h), q < n, NEW spec
    PROVE  Together(ReadArgument(small, spec, at + 1 + q, at + 1 + n),
                    ReadArgument(large, spec, at + 1 + q, at + 1 + m), e, n, q, h)
<1> DEFINE L == Layout(e)
           p == at + 1 + q
           a == ReadArgument(small, spec, p, at + 1 + n)
           b == ReadArgument(large, spec, p, at + 1 + m)
<1>1. /\ Emitted(e) /\ at \in Nat /\ n \in Nat /\ m \in Nat /\ n <= Len(L)
      /\ \A k \in 1 .. n : small[at + k] = L[k]
      /\ \A k \in 1 .. m : large[at + k] = L[k]
  BY DEF IsStoredEvent
<1>2. h \in 1 .. Len(e.request.args) /\ q \in Nat /\ Ends(e)[h - 1] <= q /\ q < Ends(e)[h]
  BY DEF AtPart
<1>3. IsFinite(a) /\ IsFinite(b)
  BY <1>2, ReadsFinite
<1>4. small[p] = L[q + 1] /\ large[p] = L[q + 1]
  <2>1. q + 1 \in 1 .. n /\ q + 1 \in 1 .. m /\ p = at + (q + 1)
    BY <1>1, <1>2
  <2> QED
    BY <1>1, <2>1
<1>5. Ends(e)[h] \in Nat /\ Ends(e)[h] <= Len(L) /\ Len(L) \in Nat
  BY <1>1, <1>2, ArgumentPlace
<1>6. p < at + 1 + n /\ p < at + 1 + m
  BY <1>1, <1>2
<1> DEFINE Good == Together(a, b, e, n, q, h)
           Goes(r) == n <= r \/ \E g \in {h, h + 1} : AtPart(r, e, g)
<1>7. ASSUME NEW r \in Nat, q <= r, r <= Ends(e)[h] PROVE Goes(r)
  <2>1. CASE r < Len(L)
    BY <1>1, <1>7, <2>1, Onward
  <2>2. CASE ~(r < Len(L))
    BY <1>1, <1>5, <2>2
  <2> QED
    BY <2>1, <2>2
<1> SUFFICES Good
  OBVIOUS
<1> HIDE DEF Good, Goes
<1>8. ASSUME b.used = a.used, Goes(q + a.used), IsPrefix(a.text, b.text) PROVE Good
  BY <1>3, <1>8 DEF Good, Goes, Together
<1>9. CASE spec = "value"
  <2>1. /\ a = [used |-> 1, text |-> <<small[p]>>]
        /\ b = [used |-> 1, text |-> <<large[p]>>]
    BY <1>6, <1>9 DEF ReadArgument, ReadValue
  <2>2. a.used = 1 /\ b.used = 1 /\ a.text = <<L[q + 1]>> /\ b.text = <<L[q + 1]>>
    BY <1>4, <2>1
  <2> HIDE DEF a, b
  <2>3. IsPrefix(a.text, b.text)
    BY <2>2 DEF IsPrefix
  <2>4. Goes(q + 1)
    <3>1. q + 1 \in Nat /\ q <= q + 1 /\ q + 1 <= Ends(e)[h]
      BY <1>2, <1>5
    <3> QED
      BY <1>7, <3>1
  <2> QED
    BY <1>8, <2>2, <2>3, <2>4
<1>10. CASE spec # "value" /\ L[q + 1].kind # "info"
  <2>1. a = NothingRead /\ b = NothingRead
    BY <1>4, <1>10 DEF ReadArgument, ReadArgumentString
  <2> HIDE DEF a, b
  <2>2. a.used = 0 /\ b.used = 0 /\ a.text = <<>> /\ b.text = <<>> /\ Len(<<>>) \in Nat
    BY <2>1 DEF NothingRead
  <2>3. Goes(q + 0)
    <3>1. q \in Nat /\ q <= q /\ q <= Ends(e)[h] /\ q + 0 = q
      BY <1>2, <1>5
    <3>2. Goes(q)
      BY <1>7, <3>1
    <3> QED
      BY <3>1, <3>2
  <2> QED
    BY <1>8, <2>2, <2>3, NothingIsPrefix
<1>11. CASE spec # "value" /\ L[q + 1].kind = "info"
  <2> DEFINE s == TextOf(e, h)
             W == ArgumentOf(e, h)
             w == Len(W)
             i == Stored(e, h, n)
             j == Stored(e, h, m)
             y == Ends(e)[h]
  <2>1. /\ IsString(e, h) /\ Ends(e)[h - 1] = q
        /\ L[q + 1] = StringInfo(e.number, h, ChunkOf(e))
    BY <1>1, <1>11, InfoPlace
  <2>2. /\ W = StringOf(e, h, s) /\ (\E S : s \in Seq(S))
        /\ Len(s) \in Nat \ {0} /\ w \in Nat /\ 1 + Len(s) <= w
    BY <2>1, StringArgument
  <2>3. y = q + w /\ y <= Len(L)
    BY <1>1, <1>2, <2>1, ArgumentPlace
  <2>4. IsReadString(a, e, h, s, i) /\ IsReadString(b, e, h, s, j)
    <3>1. Ends(e)[h - 1] <= n /\ Ends(e)[h - 1] <= m
      BY <1>1, <1>2, <2>1
    <3>2. IsReadString(a, e, h, s, i)
      BY <1>11, <2>1, <3>1, StringArgumentRead
    <3>3. IsReadString(b, e, h, s, j)
      BY <1>11, <2>1, <3>1, StringArgumentRead
    <3> QED
      BY <3>2, <3>3
  <2>5. i = (IF n - q < w THEN n - q ELSE w) /\ j = (IF m - q < w THEN m - q ELSE w)
    BY <2>1 DEF Stored
  <2> HIDE DEF a, b, s, w, i, j, y, W, L
  <2>6. i \in Nat /\ j \in Nat /\ 1 <= i /\ i <= j
        /\ (i < w => i = n - q) /\ (i = w => j = w) /\ i <= w /\ j <= w
    BY <1>1, <1>2, <2>2, <2>5
  <2>7. CASE i <= 1
    <3>1. a.used = 0 /\ a.text = <<>>
      BY <2>4, <2>7 DEF IsReadString, NothingRead
    <3>2. q + 1 = n
      BY <1>1, <1>2, <2>2, <2>6, <2>7
    <3>3. IsPrefix(a.text, b.text)
      BY <1>3, <3>1, NothingIsPrefix DEF IsFinite
    <3>4. L[n] = StringInfo(e.number, h, ChunkOf(e))
      BY <2>1, <3>2
    <3> QED
      BY <1>3, <3>1, <3>2, <3>3, <3>4 DEF Good, Together, L
  <2>8. CASE ~(i <= 1)
    <3>1. PICK k \in 1 .. Len(s) :
             /\ a.text = SubSeq(s, 1, k) /\ a.used \in Nat
             /\ IF i - 1 < Len(s) THEN k = i - 1 /\ a.used >= i
                                  ELSE k = Len(s) /\ a.used = w
      BY <2>2, <2>4, <2>8 DEF IsReadString, w
    <3>2. ~(j <= 1)
      BY <2>6, <2>8
    <3>3. PICK l \in 1 .. Len(s) :
             /\ b.text = SubSeq(s, 1, l) /\ b.used \in Nat
             /\ IF j - 1 < Len(s) THEN l = j - 1 /\ b.used >= j
                                  ELSE l = Len(s) /\ b.used = w
      BY <2>2, <2>4, <3>2 DEF IsReadString, w
    <3>4. IsPrefix(a.text, b.text)
      <4>1. k \in 0 .. Len(s) /\ l \in 0 .. Len(s) /\ k <= l
        BY <2>2, <2>6, <3>1, <3>3
      <4>2. PICK S : s \in Seq(S)
        BY <2>2
      <4>3. IsPrefix(SubSeq(s, 1, k), SubSeq(s, 1, l))
        BY <4>1, <4>2, Beginnings
      <4> QED
        BY <3>1, <3>3, <4>3
    <3>5. CASE i - 1 < Len(s)
      <4>1. i = n - q
        BY <2>2, <2>6, <3>5
      <4>2. n <= q + a.used
        <5>1. a.used >= i /\ a.used \in Nat
          BY <3>1, <3>5
        <5> QED
          BY <1>1, <1>2, <4>1, <5>1
      <4> QED
        BY <1>3, <3>4, <4>2 DEF Good, Together
    <3>6. CASE ~(i - 1 < Len(s))
      <4>1. ~(j - 1 < Len(s))
        BY <2>2, <2>6, <3>6
      <4>2. a.used = w /\ b.used = w
        BY <3>1, <3>3, <3>6, <4>1
      <4>3. y \in Nat /\ q <= y /\ y <= Ends(e)[h]
        BY <1>2, <1>5 DEF y
      <4>4. Goes(y)
        BY <1>7, <4>3
      <4> QED
        BY <1>8, <2>3, <3>4, <4>2, <4>4
    <3> QED
      BY <3>5, <3>6
  <2> QED
    BY <2>7, <2>8
<1> QED
  BY <1>9, <1>10, <1>11

(* How far the arguments of both have been read, from an offset on.  What   *)
(* is read of the one that was cut is the beginning of what is read of the  *)
(* other, but for the string info at its end, taken for a value behind it.  *)
Alike(a, b, e, i) ==
    \A j \in 1 .. i :
        \/ IsPrefix(a.arguments[j], b.arguments[j])
        \/ \E h \in 1 .. j - 1 : a.arguments[j] = <<StringInfo(e.number, h, ChunkOf(e))>>
Progresses(a, i) ==
    a.used \in Nat /\ (\E S : a.arguments \in Seq(S)) /\ Len(a.arguments) = i
Behind(a, n, y) == n <= y + a.used
AtSame(a, b, e, n, y, i) ==
    b.used = a.used /\ y + a.used < n /\ \E h \in 1 .. i + 1 : AtPart(y + a.used, e, h)
AtCut(a, e, n, y, i) ==
    /\ y + a.used + 1 = n
    /\ \E h \in 1 .. i : Layout(e)[n] = StringInfo(e.number, h, ChunkOf(e))
InStep(a, b, e, n, y, i) ==
    /\ Progresses(a, i) /\ Progresses(b, i) /\ Alike(a, b, e, i)
    /\ Behind(a, n, y) \/ AtSame(a, b, e, n, y, i) \/ AtCut(a, e, n, y, i)

\* One argument more, of both.
LEMMA BothGoOn ==
    ASSUME NEW small, NEW large, NEW at, NEW e, NEW n, NEW m,
           IsStoredEvent(small, at, e, n), IsStoredEvent(large, at, e, m), n <= m,
           NEW y \in Nat, NEW i \in Nat, NEW spec, NEW a, NEW b, InStep(a, b, e, n, y, i)
    PROVE  InStep(WithNext(small, spec, a, at + 1 + y, at + 1 + n),
                  WithNext(large, spec, b, at + 1 + y, at + 1 + m), e, n, y, i + 1)
<1> DEFINE source == at + 1 + y
           p == y + a.used
           q == y + b.used
           c == WithNext(small, spec, a, source, at + 1 + n)
           d == WithNext(large, spec, b, source, at + 1 + m)
           x == ReadArgument(small, spec, source + a.used, at + 1 + n)
           z == ReadArgument(large, spec, source + b.used, at + 1 + m)
<1>1. /\ at \in Nat /\ n \in Nat /\ m \in Nat
      /\ \A k \in 1 .. n : small[at + k] = Layout(e)[k]
  BY DEF IsStoredEvent
<1>2. /\ a.used \in Nat /\ (\E S : a.arguments \in Seq(S)) /\ Len(a.arguments) = i
      /\ b.used \in Nat /\ (\E S : b.arguments \in Seq(S)) /\ Len(b.arguments) = i
      /\ Alike(a, b, e, i)
  BY DEF InStep, Progresses
<1>3. /\ \E S : c.arguments \in Seq(S)
      /\ Len(c.arguments) = i + 1 /\ c.used = a.used + x.used
      /\ \A j \in 1 .. i : c.arguments[j] = a.arguments[j]
      /\ c.arguments[i + 1] = x.text
  BY <1>2, OneMore
<1>4. /\ \E S : d.arguments \in Seq(S)
      /\ Len(d.arguments) = i + 1 /\ d.used = b.used + z.used
      /\ \A j \in 1 .. i : d.arguments[j] = b.arguments[j]
      /\ d.arguments[i + 1] = z.text
  BY <1>2, OneMore
<1>5. p \in Nat /\ q \in Nat
  BY <1>2
<1>6. source + a.used = at + 1 + p /\ source + b.used = at + 1 + q
  <2> DEFINE u == a.used
             w == b.used
  <2>1. u \in Nat /\ w \in Nat /\ at \in Nat
    BY <1>1, <1>2
  <2> HIDE DEF u, w
  <2>2. at + 1 + y + u = at + 1 + (y + u) /\ at + 1 + y + w = at + 1 + (y + w)
    BY <2>1
  <2> QED
    BY <2>2 DEF u, w
<1>7. /\ x = ReadArgument(small, spec, at + 1 + p, at + 1 + n)
      /\ z = ReadArgument(large, spec, at + 1 + q, at + 1 + m)
  BY <1>6
<1>8. IsFinite(x) /\ IsFinite(z)
  <2> HIDE DEF x, z, p, q
  <2>1. /\ IsFinite(ReadArgument(small, spec, at + 1 + p, at + 1 + n))
        /\ IsFinite(ReadArgument(large, spec, at + 1 + q, at + 1 + m))
    BY <1>5, ReadsFinite
  <2> QED
    BY <1>7, <2>1
<1> HIDE DEF c, d, x, z, source
<1>9. Progresses(c, i + 1) /\ Progresses(d, i + 1)
  BY <1>2, <1>3, <1>4, <1>8 DEF Progresses, IsFinite
<1>10. ASSUME \/ IsPrefix(x.text, z.text)
              \/ \E h \in 1 .. i : x.text = <<StringInfo(e.number, h, ChunkOf(e))>>
       PROVE  Alike(c, d, e, i + 1)
  <2> SUFFICES ASSUME NEW j \in 1 .. i + 1
               PROVE  \/ IsPrefix(c.arguments[j], d.arguments[j])
                      \/ \E h \in 1 .. j - 1 :
                            c.arguments[j] = <<StringInfo(e.number, h, ChunkOf(e))>>
    BY DEF Alike
  <2>1. CASE j = i + 1
    <3>1. j - 1 = i /\ c.arguments[j] = x.text /\ d.arguments[j] = z.text
      BY <1>3, <1>4, <2>1
    <3> QED
      BY <1>10, <3>1
  <2>2. CASE j # i + 1
    <3>1. j \in 1 .. i
      BY <2>2
    <3>2. c.arguments[j] = a.arguments[j] /\ d.arguments[j] = b.arguments[j]
      BY <1>3, <1>4, <3>1
    <3> QED
      BY <1>2, <3>1, <3>2 DEF Alike
  <2> QED
    BY <2>1, <2>2
<1>11. y + c.used = p + x.used
  BY <1>2, <1>3, <1>8 DEF IsFinite
<1>12. CASE Behind(a, n, y)
  <2>1. n <= p
    BY <1>12 DEF Behind
  <2> HIDE DEF p
  <2>2. at + 1 + p \in Int /\ at + 1 + n \in Int /\ at + 1 + n <= at + 1 + p
    BY <1>1, <1>5, <2>1
  <2>3. x.used = 0 /\ x.text = <<>>
    BY <1>7, <2>2, NothingBehind
  <2>4. IsPrefix(x.text, z.text)
    BY <1>8, <2>3, NothingIsPrefix DEF IsFinite
  <2>5. n <= y + c.used
    BY <1>5, <1>11, <2>1, <2>3
  <2> QED
    BY <1>9, <1>10, <2>4, <2>5 DEF InStep, Behind, c, d, source
<1>13. CASE AtSame(a, b, e, n, y, i)
  <2>1. b.used = a.used /\ p < n /\ q = p
    BY <1>13 DEF AtSame
  <2>2. PICK h \in 1 .. i + 1 : AtPart(p, e, h)
    BY <1>13 DEF AtSame
  <2> HIDE DEF p, q
  <2>3. Together(x, z, e, n, p, h)
    <3>1. Together(ReadArgument(small, spec, at + 1 + p, at + 1 + n),
                   ReadArgument(large, spec, at + 1 + p, at + 1 + m), e, n, p, h)
      BY <2>1, <2>2, ReadTogether
    <3> QED
      BY <1>7, <2>1, <3>1
  <2>4. Alike(c, d, e, i + 1)
    BY <1>10, <2>3 DEF Together
  <2>5. CASE n <= p + x.used
    BY <1>9, <1>11, <2>4, <2>5 DEF InStep, Behind, c, d, source
  <2>6. CASE ~(n <= p + x.used) /\ z.used = x.used /\ \E g \in {h, h + 1} : AtPart(p + x.used, e, g)
    <3>1. PICK g \in {h, h + 1} : AtPart(p + x.used, e, g)
      BY <2>6
    <3>2. g \in 1 .. (i + 1) + 1
      BY <3>1
    <3>3. d.used = c.used /\ y + c.used < n
      BY <1>1, <1>3, <1>4, <1>5, <1>8, <1>11, <2>1, <2>6 DEF IsFinite
    <3>4. AtSame(c, d, e, n, y, i + 1)
      BY <1>11, <3>1, <3>2, <3>3 DEF AtSame
    <3> QED
      BY <1>9, <2>4, <3>4 DEF InStep, c, d, source
  <2>7. CASE /\ x.used = 0 /\ p + 1 = n
             /\ Layout(e)[n] = StringInfo(e.number, h, ChunkOf(e))
    <3>1. y + c.used + 1 = n
      BY <1>5, <1>11, <2>7
    <3>2. AtCut(c, e, n, y, i + 1)
      BY <2>7, <3>1 DEF AtCut
    <3> QED
      BY <1>9, <2>4, <3>2 DEF InStep, c, d, source
  <2> QED
    BY <2>3, <2>5, <2>6, <2>7 DEF Together
<1>14. CASE AtCut(a, e, n, y, i)
  <2>1. p + 1 = n
    BY <1>14 DEF AtCut
  <2>2. PICK h \in 1 .. i : Layout(e)[n] = StringInfo(e.number, h, ChunkOf(e))
    BY <1>14 DEF AtCut
  <2> HIDE DEF p
  <2>3. /\ at + 1 + p = at + n /\ at + n < at + 1 + n /\ ~(at + n >= at + 1 + n)
        /\ at + n + 1 >= at + 1 + n /\ n \in 1 .. n
    BY <1>1, <1>5, <2>1
  <2>4. CASE spec = "value"
    <3>1. x = [used |-> 1, text |-> <<small[at + n]>>]
      BY <1>7, <2>3, <2>4 DEF ReadArgument, ReadValue
    <3>2. small[at + n] = StringInfo(e.number, h, ChunkOf(e))
      BY <1>1, <2>2, <2>3
    <3>3. x.used = 1 /\ x.text = <<StringInfo(e.number, h, ChunkOf(e))>>
      BY <3>1, <3>2
    <3>4. n <= y + c.used
      BY <1>1, <1>5, <1>11, <2>1, <3>3
    <3> QED
      BY <1>9, <1>10, <3>3, <3>4 DEF InStep, Behind, c, d, source
  <2>5. CASE spec # "value"
    <3>1. AtEnd(small, at + n + 1, at + 1 + n)
      BY <2>3 DEF AtEnd
    <3>2. x = NothingRead
      BY <1>7, <2>3, <2>5, <3>1 DEF ReadArgument, ReadArgumentString
    <3>3. x.used = 0 /\ x.text = <<>>
      BY <3>2 DEF NothingRead
    <3>4. IsPrefix(x.text, z.text)
      BY <1>8, <3>3, NothingIsPrefix DEF IsFinite
    <3>5. y + c.used + 1 = n /\ h \in 1 .. i + 1
      BY <1>5, <1>11, <2>1, <2>2, <3>3
    <3>6. AtCut(c, e, n, y, i + 1)
      BY <2>2, <3>5 DEF AtCut
    <3> QED
      BY <1>9, <1>10, <3>4, <3>6 DEF InStep, c, d, source
  <2> QED
    BY <2>4, <2>5
<1> QED
  BY <1>12, <1>13, <1>14 DEF InStep

\* All the arguments of both.
ArgumentsAlike(a, b, e) ==
    /\ DOMAIN a = DOMAIN b /\ DOMAIN a \subseteq Nat
    /\ \A j \in DOMAIN a :
          \/ IsPrefix(a[j], b[j])
          \/ \E h \in 1 .. j - 1 : a[j] = <<StringInfo(e.number, h, ChunkOf(e))>>

LEMMA PopulatedTogether ==
    ASSUME NEW small, NEW large, NEW at, NEW e, NEW n, NEW m,
           IsStoredEvent(small, at, e, n), IsStoredEvent(large, at, e, m), n <= m,
           Ends(e)[0] <= n, NEW S, NEW specs \in Seq(S),
           e.request.args # <<>> \/ n <= Ends(e)[0]
    PROVE  ArgumentsAlike(
              PopulateFormatArguments(small, specs, at + 1 + Ends(e)[0], at + 1 + n).arguments,
              PopulateFormatArguments(large, specs, at + 1 + Ends(e)[0], at + 1 + m).arguments,
              e)
<1> DEFINE y == Ends(e)[0]
           M == HowMany(specs)
           source == at + 1 + y
           all == PopulateFormatArguments(small, specs, source, at + 1 + n)
           full == PopulateFormatArguments(large, specs, source, at + 1 + m)
<1>1. PICK f : IsPopulating(f, small, specs, source, at + 1 + n)
  BY Populating
<1>2. PICK g : IsPopulating(g, large, specs, source, at + 1 + m)
  BY Populating
<1>3. /\ f[0] = [used |-> 0, arguments |-> <<>>] /\ all = f[M]
      /\ \A j \in 1 .. M : f[j] = WithNext(small, specs[j], f[j - 1], source, at + 1 + n)
      /\ g[0] = [used |-> 0, arguments |-> <<>>] /\ full = g[M]
      /\ \A j \in 1 .. M : g[j] = WithNext(large, specs[j], g[j - 1], source, at + 1 + m)
  BY <1>1, <1>2 DEF IsPopulating
<1>4. Emitted(e) /\ n \in Nat /\ n <= Len(Layout(e))
  BY DEF IsStoredEvent
<1>5. IsPlacing(Ends(e), e) /\ e.request.args \in Seq(Argument)
  BY <1>4, LayoutPlaces DEF Emitted
<1>6. y \in Nat
  BY <1>5 DEF IsPlacing
<1>7. M \in Nat
  <2>1. M = IF Len(specs) <= MaxArguments THEN Len(specs) ELSE MaxArguments
    BY MinOfTwo, FormatAssumption DEF HowMany
  <2> QED
    BY <2>1, FormatAssumption
<1> DEFINE T == {i \in 0 .. M : InStep(f[i], g[i], e, n, y, i)}
<1> HIDE DEF all, full, M
<1>8. 0 \in T
  <2>1. f[0].used = 0 /\ f[0].arguments = <<>> /\ g[0].used = 0 /\ g[0].arguments = <<>>
    BY <1>3
  <2>2. <<>> \in Seq({}) /\ Len(<<>>) = 0
    OBVIOUS
  <2>3. Progresses(f[0], 0) /\ Progresses(g[0], 0)
    BY <2>1, <2>2 DEF Progresses
  <2>4. Alike(f[0], g[0], e, 0)
    BY DEF Alike
  <2>5. y + f[0].used = y
    BY <1>6, <2>1
  <2>6. CASE n <= y
    BY <1>7, <2>3, <2>4, <2>5, <2>6 DEF InStep, Behind
  <2>7. CASE ~(n <= y)
    <3>1. 1 \in 1 .. Len(e.request.args) /\ 1 - 1 = 0
      BY <1>5, <2>7
    <3>2. Len(ArgumentOf(e, 1)) \in Nat \ {0}
      BY <1>4, <3>1, ArgumentNotEmpty
    <3>3. Ends(e)[1] = Ends(e)[1 - 1] + Len(ArgumentOf(e, 1))
      BY <1>4, <3>1, ArgumentPlace
    <3>4. y < Ends(e)[1]
      <4> DEFINE w == Len(ArgumentOf(e, 1))
                 last == Ends(e)[1]
      <4>1. last = y + w /\ w \in Nat \ {0}
        BY <3>1, <3>2, <3>3
      <4> HIDE DEF w, last, y
      <4>2. y < last
        BY <1>6, <4>1
      <4> QED
        BY <4>2 DEF last
    <3>5. AtPart(y, e, 1)
      BY <1>6, <3>1, <3>4 DEF AtPart
    <3>6. 1 \in 1 .. 0 + 1 /\ y < n
      BY <1>4, <1>6, <2>7
    <3>7. AtSame(f[0], g[0], e, n, y, 0)
      BY <2>1, <2>5, <3>5, <3>6 DEF AtSame
    <3> QED
      BY <1>7, <2>3, <2>4, <3>7 DEF InStep
  <2> QED
    BY <2>6, <2>7
<1>9. \A i \in 0 .. M - 1 : i \in T => i + 1 \in T
  <2> SUFFICES ASSUME NEW i \in 0 .. M - 1, InStep(f[i], g[i], e, n, y, i)
               PROVE  i + 1 \in T
    OBVIOUS
  <2>1. i + 1 \in 1 .. M /\ (i + 1) - 1 = i /\ i \in Nat /\ i + 1 \in 0 .. M
    BY <1>7
  <2>2. /\ f[i + 1] = WithNext(small, specs[i + 1], f[i], source, at + 1 + n)
        /\ g[i + 1] = WithNext(large, specs[i + 1], g[i], source, at + 1 + m)
    BY <1>3, <2>1
  <2> HIDE DEF y
  <2>3. InStep(WithNext(small, specs[i + 1], f[i], at + 1 + y, at + 1 + n),
               WithNext(large, specs[i + 1], g[i], at + 1 + y, at + 1 + m), e, n, y, i + 1)
    BY <1>6, <2>1, BothGoOn
  <2> QED
    BY <2>1, <2>2, <2>3
<1> HIDE DEF T
<1>10. \A i \in 0 .. M : i \in T
  BY <1>7, <1>8, <1>9, Induction
<1>11. InStep(all, full, e, n, y, M)
  BY <1>3, <1>7, <1>10 DEF T
<1> DEFINE a == all.arguments
           b == full.arguments
<1>12. PICK A : a \in Seq(A) /\ Len(a) = M
  BY <1>11 DEF InStep, Progresses
<1>13. PICK B : b \in Seq(B) /\ Len(b) = M
  BY <1>11 DEF InStep, Progresses
<1>14. Alike(all, full, e, M)
  BY <1>11 DEF InStep
<1>15. DOMAIN a = 1 .. M /\ DOMAIN b = 1 .. M /\ 1 .. M \subseteq Nat
  BY <1>7, <1>12, <1>13
<1> QED
  BY <1>14, <1>15 DEF ArgumentsAlike, Alike, all, full
-----------------------------------------------------------------------------
(* Behind the name of an event of the present format its arguments are read *)
(* for the specifiers of all of the name, or not at all.                    *)
IsReadBehindName(arguments, cells, at, e, n) ==
    IF n <= NameEnd(e)
    THEN arguments = <<>>
    ELSE arguments = PopulateFormatArguments(cells, Specs(FormatText(e)),
                                             at + 1 + Ends(e)[0], at + 1 + n).arguments

LEMMA ReadBehindName ==
    ASSUME NEW blob, NEW e, NEW n, IsBlobOf(blob, e, n), Emitted(e), ~IsOld(e),
           e.request.type # "end", Before(e) <= n, n >= 1, NEW at \in Nat, at = 0
    PROVE  IsReadBehindName(TryDecode(blob).arguments, CellsOfBlob(blob), at, e, n)
<1> DEFINE cells == CellsOfBlob(blob)
           limit == n + 1
           d == TryDecode(blob)
           header == PIXDecodeEventInfo(cells[at])
           color == IF header.hasColor THEN 1 ELSE 0
           context == IF header.onContext THEN 1 ELSE 0
           start == at + 1 + color + context
           name == IF header.legacy THEN ReadArgumentString(cells, start, limit)
                                    ELSE ReadFormat(cells, start, limit)
           source == start + name.used
           end == EndOfArguments(cells, at, limit)
           all == PopulateFormatArguments(cells, Specs(name.text), source, end)
<1>1. /\ IsStoredEvent(cells, at, e, n) /\ IsHeaderOf(header, e, n)
      /\ end = n + 1 /\ Len(blob) = n + 1 /\ n \in Nat
  BY BlobCells
<1>2. d = ReadEvent(cells, at, limit)
  BY <1>1 DEF TryDecode, CellsOfBlob
<1>3. at + 1 < limit /\ limit \in Nat /\ at + 1 + n = limit
  BY <1>1
<1> HIDE DEF d, cells, limit
<1>4. /\ d.color = (IF header.hasColor THEN <<cells[at + 1]>> ELSE <<>>)
      /\ d.context = (IF header.onContext THEN <<cells[at + 1 + color]>> ELSE <<>>)
      /\ d.name = name.text
      /\ d.arguments = IF NoVarArgs(header, source - at) THEN <<>> ELSE all.arguments
  BY <1>2, <1>3, FieldsRead
<1> HIDE DEF header, all, end
<1>5. /\ ~header.legacy /\ ~header.noVarArgs /\ header.size = n + 1
      /\ header.hasColor = e.request.hasColor /\ header.onContext = e.request.onContext
  BY <1>1 DEF IsHeaderOf
<1>6. start = at + 1 + Before(e)
  <2>1. color = Len(ColorOf(e)) /\ context = Len(ContextOf(e))
    BY <1>5 DEF ColorOf, ContextOf
  <2>2. color \in Nat /\ context \in Nat
    OBVIOUS
  <2> HIDE DEF color, context
  <2>3. Before(e) = color + context
    BY <2>1 DEF Before
  <2> QED
    BY <2>2, <2>3
<1>7. IsNamed(cells, at, e, n, limit)
  <2>1. AtEnd(cells, at + 1 + n, limit)
    BY <1>3 DEF AtEnd
  <2> QED
    BY <1>1, <1>3, <2>1 DEF IsNamed
<1>8. IsReadName(ReadFormat(cells, at + 1 + Before(e), limit), e, n)
  BY <1>7, PresentNameRead
<1>9. IsReadName(name, e, n)
  BY <1>5, <1>6, <1>8
<1> HIDE DEF name, start, limit, context, color
<1> DEFINE y == NameEnd(e)
           b == Before(e)
           u == name.used
<1>10. /\ u \in Nat /\ (y <= n => name.text = FormatText(e) /\ b + u = y)
       /\ (n < y => b + u = n)
  BY <1>9 DEF IsReadName
<1>11. y \in Nat /\ b \in Nat /\ Ends(e)[0] = y
  <2>1. y \in Nat /\ b \in Nat
    BY NameReached
  <2>2. IsPlacing(Ends(e), e)
    BY LayoutPlaces
  <2> QED
    BY <2>1, <2>2 DEF IsPlacing
<1>12. source = at + 1 + b + u
  BY <1>6 DEF source
<1> HIDE DEF y, b, u, source
<1>13. CASE n <= y
  <2>1. source - at = n + 1
    BY <1>1, <1>10, <1>11, <1>12, <1>13
  <2>2. d.arguments = <<>>
    BY <1>4, <1>5, <2>1 DEF NoVarArgs
  <2> QED
    BY <1>13, <2>2 DEF IsReadBehindName, d, y
<1>14. CASE ~(n <= y)
  <2>1. y <= n /\ source - at # n + 1 /\ source = at + 1 + y
    BY <1>1, <1>10, <1>11, <1>12, <1>14
  <2>2. d.arguments = all.arguments
    BY <1>4, <1>5, <2>1 DEF NoVarArgs
  <2>3. end = at + 1 + n /\ source = at + 1 + Ends(e)[0]
    BY <1>1, <1>3, <1>11, <2>1 DEF limit
  <2>4. all = PopulateFormatArguments(cells, Specs(FormatText(e)), at + 1 + Ends(e)[0], at + 1 + n)
    BY <1>10, <2>1, <2>3 DEF all
  <2> QED
    BY <1>14, <2>2, <2>4 DEF IsReadBehindName, d, y, cells
<1> QED
  BY <1>13, <1>14

(* What is decoded of more of an event goes at least as far as what is      *)
(* decoded of less of it.                                                   *)
NothingLost(l, d, e) ==
    /\ IsPrefix(l.name, d.name)
    /\ \A j \in DOMAIN l.arguments :
          \/ j \in DOMAIN d.arguments /\ IsPrefix(l.arguments[j], d.arguments[j])
          \/ \E i \in 1 .. j - 1 : l.arguments[j] = <<StringInfo(e.number, i, ChunkOf(e))>>

LEMMA NamesGoOn ==
    ASSUME NEW e, Emitted(e), NEW n \in Int, NEW m \in Int, n <= m
    PROVE  IsPrefix(NameIn(e, n), NameIn(e, m))
<1> DEFINE s == FormatText(e)
           before == 1 + Len(ColorOf(e)) + Len(ContextOf(e)) + (IF IsOld(e) THEN 1 ELSE 0)
           At(k) == IF k < 0 THEN 0 ELSE IF k < Len(s) THEN k ELSE Len(s)
           w == Len(s)
<1>1. s \in Seq(CellsOf(e)) /\ w \in Nat
  BY FormatCells
<1>2. before \in Int
  BY DEF ColorOf, ContextOf
<1>3. NameIn(e, n) = Truncated(s, n - before) /\ NameIn(e, m) = Truncated(s, m - before)
  BY DEF NameIn
<1> HIDE DEF s, before
<1>4. n - before \in Int /\ m - before \in Int /\ n - before <= m - before
  BY <1>2
<1>5. /\ Truncated(s, n - before) = SubSeq(s, 1, At(n - before))
      /\ Truncated(s, m - before) = SubSeq(s, 1, At(m - before))
  BY <1>1, <1>4, TruncatedTo
<1>6. /\ At(n - before) \in 0 .. w /\ At(m - before) \in 0 .. w
      /\ At(n - before) <= At(m - before)
  <2> HIDE DEF w
  <2> QED
    BY <1>1, <1>4 DEF w
<1> HIDE DEF At
<1>7. IsPrefix(SubSeq(s, 1, At(n - before)), SubSeq(s, 1, At(m - before)))
  BY <1>1, <1>6, Beginnings
<1> QED
  BY <1>3, <1>5, <1>7

LEMMA MoreIsDecoded ==
    ASSUME NEW local, NEW blob, NEW e, NEW n, NEW m,
           IsBlobOf(local, e, n), IsBlobOf(blob, e, m), n <= m, Emitted(e), ~IsOld(e),
           e.request.type # "end", Before(e) <= n, n >= 1, NEW S, e.request.specs \in Seq(S)
    PROVE  NothingLost(TryDecode(local), TryDecode(blob), e)
<1> DEFINE l == TryDecode(local)
           d == TryDecode(blob)
           small == CellsOfBlob(local)
           large == CellsOfBlob(blob)
           y == NameEnd(e)
           specs == Specs(FormatText(e))
<1>1. PICK at \in Nat : at = 0
  OBVIOUS
<1>2. n \in Nat /\ m \in Nat
  BY DEF IsBlobOf
<1>3. Before(e) <= m /\ m >= 1 /\ Before(e) \in Nat
  <2>1. Before(e) \in Nat
    BY NameReached
  <2> QED
    BY <1>2, <2>1
<1>4. IsStoredEvent(small, at, e, n) /\ IsStoredEvent(large, at, e, m)
  <2>1. IsStoredEvent(small, 0, e, n)
    BY BlobCells
  <2>2. IsStoredEvent(large, 0, e, m)
    BY BlobCells
  <2> QED
    BY <1>1, <2>1, <2>2
<1>5. IsPrefix(l.name, d.name)
  <2>1. IsDecoded(l, e, n)
    BY BlobRead
  <2>2. IsDecoded(d, e, m)
    BY <1>3, BlobRead
  <2>3. n + 1 \in Int /\ m + 1 \in Int /\ n + 1 <= m + 1
    BY <1>2
  <2>4. IsPrefix(NameIn(e, n + 1), NameIn(e, m + 1))
    BY <2>3, NamesGoOn
  <2> QED
    BY <2>1, <2>2, <2>4 DEF IsDecoded
<1>6. IsReadBehindName(l.arguments, small, at, e, n)
  BY <1>1, ReadBehindName
<1>7. IsReadBehindName(d.arguments, large, at, e, m)
  BY <1>1, <1>3, ReadBehindName
<1> HIDE DEF l, d, small, large
<1>8. y \in Nat /\ Ends(e)[0] = y
  <2>1. y \in Nat
    BY NameReached
  <2>2. IsPlacing(Ends(e), e)
    BY LayoutPlaces
  <2> QED
    BY <2>1, <2>2 DEF IsPlacing
<1>9. CASE n <= y
  <2>1. l.arguments = <<>>
    BY <1>6, <1>9 DEF IsReadBehindName
  <2>2. DOMAIN l.arguments = {}
    BY <2>1
  <2> QED
    BY <1>5, <2>2 DEF NothingLost, l, d
<1>10. CASE ~(n <= y)
  <2> DEFINE a == PopulateFormatArguments(small, specs, at + 1 + Ends(e)[0],
                                          at + 1 + n).arguments
             b == PopulateFormatArguments(large, specs, at + 1 + Ends(e)[0],
                                          at + 1 + m).arguments
  <2>1. ~(m <= y) /\ Ends(e)[0] <= n
    <3> HIDE DEF y
    <3> QED
      BY <1>2, <1>8, <1>10
  <2>2. l.arguments = a /\ d.arguments = b
    BY <1>6, <1>7, <1>10, <2>1 DEF IsReadBehindName
  <2>3. \E R : specs \in Seq(R)
    <3>1. CASE e.request.format = 0
      <4>1. FormatText(e) = <<Zero>>
        BY <3>1 DEF FormatText
      <4>2. specs = <<>>
        BY <4>1 DEF Specs, Zero
      <4>3. <<>> \in Seq({})
        OBVIOUS
      <4> HIDE DEF specs
      <4> QED
        BY <4>2, <4>3
    <3>2. CASE e.request.format # 0
      <4> DEFINE f == e.request.format
                 s == FormatText(e)
      <4>1. f \in Nat
        BY DEF Emitted
      <4>2. s = [i \in 1 .. f |-> Chars(e.number, FormatPart, i, f, e.request.specs)]
        BY <3>2 DEF FormatText, CharsOf
      <4>3. 1 \in 1 .. f
        BY <3>2, <4>1
      <4> HIDE DEF f, s
      <4>4. s[1] = Chars(e.number, FormatPart, 1, f, e.request.specs)
        BY <4>2, <4>3
      <4>5. s # <<>> /\ Head(s) = s[1]
        <5>1. s \in Seq(CellsOf(e)) /\ IsText(s)
          BY FormatCells, NamesAreText DEF s
        <5> QED
          BY <5>1 DEF IsText
      <4>6. specs = e.request.specs
        BY <4>4, <4>5 DEF Specs, Chars, s
      <4> HIDE DEF specs
      <4> QED
        BY <4>6
    <3> QED
      BY <3>1, <3>2
  <2>4. e.request.args # <<>>
    <3> SUFFICES ASSUME e.request.args = <<>> PROVE FALSE
      OBVIOUS
    <3>1. Len(e.request.args) = 0
      BY <3>1
    <3>2. Ends(e)[0] = Len(Layout(e))
      BY <3>1, LayoutPlaces DEF IsPlacing
    <3>3. n <= Len(Layout(e))
      BY DEF IsBlobOf
    <3> QED
      BY <1>8, <1>10, <3>2, <3>3
  <2> HIDE DEF specs
  <2>5. ArgumentsAlike(a, b, e)
    <3>1. PICK R : specs \in Seq(R)
      BY <2>3
    <3> QED
      BY <1>4, <2>1, <2>4, <3>1, PopulatedTogether
  <2> HIDE DEF a, b
  <2> QED
    BY <1>5, <2>2, <2>5 DEF NothingLost, ArgumentsAlike, l, d
<1> QED
  BY <1>9, <1>10

(* D3D12 is given at least as much of an event that is captured, wherever   *)
(* in a block its record began, as of one that is not.                      *)
THEOREM CaptureNeverLoses == Spec => []CaptureLosesNothing
<1>1. ContextInv => CaptureLosesNothing
  <2> SUFFICES ASSUME ContextInv, HasBlob, call.inBlock
               PROVE  LET d == TryDecode(call.blob)
                          local == TryDecode(LocalRecord(call.request, call.number))
                      IN  /\ IsPrefix(local.name, d.name)
                          /\ \A j \in DOMAIN local.arguments :
                                \/ j \in DOMAIN d.arguments
                                   /\ IsPrefix(local.arguments[j], d.arguments[j])
                                \/ \E i \in 1 .. j - 1 :
                                      local.arguments[j] = <<StringInfo(call.number, i, 1)>>
    BY DEF CaptureLosesNothing
  <2> DEFINE r == call.request
             e == PresentEvent(r, call.number)
             blob == call.blob
             local == LocalRecord(r, call.number)
             n == Len(local) - 1
             m == Len(blob) - 1
             L == Len(Layout(e))
  <2>1. IsCalled(call, gpuMarkersV2)
    BY DEF ContextInv, CallInv
  <2>2. r \in Request /\ r.type # "end" /\ r.onContext
    BY <2>1, EventOfCall DEF IsCalled
  <2>3. IsBlobUpTo(blob, e, BufferLimit)
    BY <2>1 DEF IsCalled
  <2>4. IsBlobUpTo(local, e, BufferLimit) /\ Len(local) <= BufferLimit
    BY <2>2, LocalRecordHolds
  <2>5. Emitted(e) /\ ~IsOld(e) /\ ChunkOf(e) = 1 /\ e.number = call.number /\ e.request = r
    BY <2>2, PresentEmitted
  <2>6. r.specs \in Seq(Specifier)
    BY <2>2 DEF Request
  <2> HIDE DEF e, r, blob, local
  <2>7. IsBlobOf(local, e, n) /\ IsBlobOf(blob, e, m)
    BY <2>3, <2>4 DEF IsBlobUpTo
  <2>8. /\ n \in Nat /\ m \in Nat /\ n <= L /\ m <= L
        /\ Len(local) = n + 1 /\ Len(blob) = m + 1
    BY <2>7 DEF IsBlobOf
  <2>9. /\ n = L \/ BufferLimit <= Len(local)
        /\ m = L \/ BufferLimit <= Len(blob)
    BY <2>3, <2>4 DEF IsBlobUpTo
  <2>10. /\ Before(e) \in Nat /\ Before(e) <= 2 /\ Before(e) + 1 <= NameEnd(e)
         /\ NameEnd(e) \in Nat /\ NameEnd(e) <= L /\ L \in Nat
    BY <2>2, <2>5, NameReached
  <2> HIDE DEF n, m, L
  <2>11. n <= m /\ Before(e) <= n /\ n >= 1
    <3>1. 4 <= BufferLimit /\ BufferLimit \in Nat
      BY BufferLimits
    <3> QED
      BY <2>4, <2>8, <2>9, <2>10, <3>1
  <2>12. e.request.type # "end" /\ e.request.specs \in Seq(Specifier)
    BY <2>2, <2>5, <2>6
  <2>13. NothingLost(TryDecode(local), TryDecode(blob), e)
    BY <2>5, <2>7, <2>11, <2>12, MoreIsDecoded
  <2> QED
    BY <2>5, <2>13 DEF NothingLost, local, blob, r
<1> QED
  BY <1>1, ContextInvariant, PTL
=============================================================================
