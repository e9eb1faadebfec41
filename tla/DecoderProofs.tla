---------------------------- MODULE DecoderProofs ----------------------------
(***************************************************************************)
(* What the decoder finds in a block is what was written there, for any     *)
(* size of the block and any events whose sizes their headers can say.      *)
(***************************************************************************)
EXTENDS RoundTripProofs, EventReadingProofs
-----------------------------------------------------------------------------
(* Those of the first n in a list that are in a set, for each n.            *)
ChosenTrace(K, list, set) ==
    /\ K \in [0 .. Len(list) -> Seq(Range(list))]
    /\ K[0] = <<>>
    /\ \A n \in 1 .. Len(list) :
          K[n] = IF list[n] \in set THEN Append(K[n - 1], list[n]) ELSE K[n - 1]

LEMMA AmongFollows ==
    ASSUME NEW list, list \in Seq(Range(list)), NEW set
    PROVE  \E K : ChosenTrace(K, list, set) /\ K[Len(list)] = Among(list, set)
<1> DEFINE N == Len(list)
           S == Seq(Range(list))
           Add(s, e) == IF e \in set THEN Append(s, e) ELSE s
           Entry(g, n) == IF n = 0 THEN <<>> ELSE Add(g[n - 1], list[n])
           Is(g) == g = [n \in 0 .. N |-> Entry(g, n)]
           step == [p \in S \X (1 .. N) |-> Add(p[1], list[p[2]])]
           K == CHOOSE g : Is(g)
<1>1. N \in Nat /\ <<>> \in S
  OBVIOUS
<1>2. \A n \in 1 .. N : list[n] \in Range(list)
  BY DEF Range
<1>3. IsStep(step, S, N)
  <2>1. ASSUME NEW s \in S, NEW n \in 1 .. N PROVE Add(s, list[n]) \in S
    BY <1>2, AppendProperties
  <2> HIDE DEF S, N, Add
  <2> QED
    BY <2>1 DEF IsStep
<1>4. PICK f \in [0 .. N -> S] : IsTrace(f, <<>>, step, N)
  BY <1>1, <1>3, Recursion
<1>5. ASSUME NEW n \in 1 .. N PROVE f[n] = Add(f[n - 1], list[n])
  <2>1. n - 1 \in 0 .. N
    BY <1>1
  <2>2. f[n - 1] \in S
    BY <1>4, <2>1
  <2>3. step[<<f[n - 1], n>>] = Add(f[n - 1], list[n])
    <3> HIDE DEF S, N, Add
    <3> QED
      BY <2>2
  <2> HIDE DEF step, Add
  <2> QED
    BY <1>4, <2>3 DEF IsTrace
<1>6. Is(f)
  <2>1. f[0] = <<>>
    BY <1>4 DEF IsTrace
  <2>2. \A n \in 0 .. N : f[n] = Entry(f, n)
    <3> HIDE DEF Add, N
    <3> QED
      BY <1>1, <1>5, <2>1
  <2> HIDE DEF Entry, N
  <2> QED
    BY <1>4, <2>2
<1>7. Is(K)
  <2> HIDE DEF Is
  <2> QED
    BY <1>6
<1>8. Among(list, set) = K[N]
  BY DEF Among
<1> HIDE DEF K
<1>9. \A n \in 0 .. N : K[n] = Entry(K, n)
  <2> HIDE DEF Entry, N
  <2> QED
    BY <1>7
<1>10. K[0] = <<>>
  BY <1>1, <1>9
<1>11. \A n \in 1 .. N : K[n] = Add(K[n - 1], list[n])
  <2> HIDE DEF Add, N
  <2> QED
    BY <1>1, <1>9
<1>12. K \in [0 .. N -> S]
  <2> DEFINE T == {n \in 0 .. N : K[n] \in S}
  <2>1. 0 \in T
    BY <1>1, <1>10
  <2>2. ASSUME NEW n \in 0 .. N - 1, n \in T PROVE n + 1 \in T
    <3>1. K[n + 1] = Add(K[n], list[n + 1]) /\ n + 1 \in 1 .. N
      <4>1. n + 1 \in 1 .. N /\ (n + 1) - 1 = n
        BY <1>1
      <4> HIDE DEF Add, N
      <4> QED
        BY <1>11, <4>1
    <3>2. Add(K[n], list[n + 1]) \in S
      BY <1>2, <2>2, <3>1, AppendProperties
    <3> HIDE DEF S, N, Add
    <3> QED
      BY <3>1, <3>2
  <2> HIDE DEF T
  <2>3. \A n \in 0 .. N : n \in T
    <3> HIDE DEF N
    <3> QED
      BY <1>1, <2>1, <2>2, Induction
  <2>4. \A n \in 0 .. N : K[n] \in S
    <3> HIDE DEF N, S
    <3> QED
      BY <2>3 DEF T
  <2>5. \A n \in 0 .. N : Entry(K, n) \in S
    <3> HIDE DEF N, S, Entry
    <3> QED
      BY <1>9, <2>4
  <2> HIDE DEF S, N, Entry
  <2> QED
    BY <1>7, <2>5
<1>13. ChosenTrace(K, list, set)
  BY <1>10, <1>11, <1>12 DEF ChosenTrace
<1> QED
  BY <1>8, <1>13

(* Those of the first n events that the decoder knows, for each n.          *)
KnownTrace(K, list) ==
    /\ K \in [0 .. Len(list) -> Seq(Range(list))]
    /\ K[0] = <<>>
    /\ \A n \in 1 .. Len(list) :
          K[n] = IF IsKnownOpcode(list[n].request.type) THEN Append(K[n - 1], list[n])
                                                        ELSE K[n - 1]

LEMMA KnownFollows ==
    ASSUME NEW list, list \in Seq(Range(list))
    PROVE  \E K : KnownTrace(K, list) /\ K[Len(list)] = Among(list, KnownIn(list))
<1>1. PICK K : ChosenTrace(K, list, KnownIn(list)) /\ K[Len(list)] = Among(list, KnownIn(list))
  BY AmongFollows
<1>2. ASSUME NEW n \in 1 .. Len(list)
      PROVE  list[n] \in KnownIn(list) <=> IsKnownOpcode(list[n].request.type)
  <2>1. list[n] \in Range(list)
    BY DEF Range
  <2> QED
    BY <2>1 DEF KnownIn
<1>3. KnownTrace(K, list)
  BY <1>1, <1>2 DEF ChosenTrace, KnownTrace
<1> QED
  BY <1>1, <1>3

(* What the first k and the first n events have of these: the ones are the  *)
(* beginning of the others, which are later events.                         *)
Grows(K, list, k, n) ==
    /\ Len(K[k]) <= Len(K[n])
    /\ \A i \in 1 .. Len(K[k]) : K[n][i] = K[k][i]
    /\ \A i \in Len(K[k]) + 1 .. Len(K[n]) : \E j \in k + 1 .. n : K[n][i] = list[j]

LEMMA KnownGrows ==
    ASSUME NEW list, list \in Seq(Range(list)), NEW K, KnownTrace(K, list),
           NEW n \in 0 .. Len(list), NEW k \in 0 .. n
    PROVE  Grows(K, list, k, n)
<1> DEFINE N == Len(list)
           S == Range(list)
           T == {m \in 0 .. N : \A i \in 0 .. m : Grows(K, list, i, m)}
<1>1. N \in Nat
  OBVIOUS
<1>2. ASSUME NEW m \in 0 .. N PROVE K[m] \in Seq(S) /\ Len(K[m]) \in Nat
  <2>1. K[m] \in Seq(S)
    BY DEF KnownTrace
  <2> QED
    BY <2>1
<1>3. ASSUME NEW m \in 0 .. N PROVE Grows(K, list, m, m)
  <2> HIDE DEF N
  <2> QED
    BY <1>2 DEF Grows
<1>4. 0 \in T
  BY <1>1, <1>3
<1>5. ASSUME NEW m \in 0 .. N - 1, m \in T PROVE m + 1 \in T
  <2> DEFINE o == m + 1
  <2>1. o \in 1 .. N /\ o \in 0 .. N /\ o - 1 = m /\ m \in 0 .. N
    BY <1>1
  <2> DEFINE s == K[m]
             t == K[o]
             e == list[o]
  <2>2. t = IF IsKnownOpcode(e.request.type) THEN Append(s, e) ELSE s
    BY <2>1 DEF KnownTrace
  <2>3. s \in Seq(S) /\ Len(s) \in Nat /\ t \in Seq(S) /\ Len(t) \in Nat
    BY <1>2, <2>1
  <2> SUFFICES ASSUME NEW i \in 0 .. o PROVE Grows(K, list, i, o)
    BY <2>1
  <2>4. CASE i = o
    <3> HIDE DEF N, o
    <3> QED
      BY <1>3, <2>1, <2>4
  <2>5. CASE i # o
    <3>1. i \in 0 .. m /\ i \in 0 .. N
      BY <2>1, <2>5
    <3>2. Grows(K, list, i, m)
      BY <1>5, <3>1
    <3> DEFINE u == K[i]
    <3>3. Len(u) \in Nat
      BY <1>2, <3>1
    <3>4. Grows(K, list, m, o)
      <4>1. CASE IsKnownOpcode(e.request.type)
        <5>1. t = Append(s, e)
          BY <2>2, <4>1
        <5>2. Len(t) = Len(s) + 1 /\ t[Len(s) + 1] = e
              /\ \A l \in 1 .. Len(s) : t[l] = s[l]
          <6>1. e \in S
            BY <2>1 DEF Range
          <6> HIDE DEF s, t, e, S
          <6> QED
            BY <2>3, <5>1, <6>1
        <5>3. \A l \in Len(s) + 1 .. Len(t) : \E j \in m + 1 .. o : t[l] = e /\ j = o
          BY <2>1, <2>3, <5>2
        <5> QED
          BY <5>2, <5>3 DEF Grows
      <4>2. CASE ~IsKnownOpcode(e.request.type)
        <5>1. t = s
          BY <2>2, <4>2
        <5> HIDE DEF s, t
        <5>2. Len(s) <= Len(t) /\ (\A l \in 1 .. Len(s) : t[l] = s[l])
              /\ Len(s) + 1 .. Len(t) = {}
          BY <2>3, <5>1
        <5> QED
          BY <5>2 DEF Grows, s, t
      <4> QED
        BY <4>1, <4>2
    <3>5. Len(u) <= Len(s) /\ Len(s) <= Len(t)
      BY <3>2, <3>4 DEF Grows
    <3>6. Len(u) <= Len(t)
      BY <2>3, <3>3, <3>5
    <3>7. \A l \in 1 .. Len(u) : t[l] = u[l]
      <4> TAKE l \in 1 .. Len(u)
      <4>1. l \in 1 .. Len(s)
        BY <2>3, <3>3, <3>5
      <4>2. s[l] = u[l]
        BY <3>2 DEF Grows
      <4>3. t[l] = s[l]
        BY <3>4, <4>1 DEF Grows
      <4> QED
        BY <4>2, <4>3
    <3>8. \A l \in Len(u) + 1 .. Len(t) : \E j \in i + 1 .. o : t[l] = list[j]
      <4> TAKE l \in Len(u) + 1 .. Len(t)
      <4>1. CASE l <= Len(s)
        <5>1. l \in Len(u) + 1 .. Len(s) /\ l \in 1 .. Len(s)
          BY <2>3, <3>3, <4>1
        <5>2. PICK j \in i + 1 .. m : s[l] = list[j]
          BY <3>2, <5>1 DEF Grows
        <5>3. t[l] = s[l]
          BY <3>4, <5>1 DEF Grows
        <5>4. j \in i + 1 .. o
          BY <2>1, <3>1, <5>2
        <5> QED
          BY <5>2, <5>3, <5>4
      <4>2. CASE ~(l <= Len(s))
        <5>1. l \in Len(s) + 1 .. Len(t)
          BY <2>3, <3>3, <4>2
        <5>2. PICK j \in m + 1 .. o : t[l] = list[j]
          BY <3>4, <5>1 DEF Grows
        <5>3. j \in i + 1 .. o
          BY <2>1, <3>1, <5>2
        <5> QED
          BY <5>2, <5>3
      <4> QED
        BY <4>1, <4>2
    <3> QED
      BY <3>6, <3>7, <3>8 DEF Grows
  <2> QED
    BY <2>4, <2>5
<1> HIDE DEF T
<1>6. n \in T
  BY <1>1, <1>4, <1>5, Induction
<1> QED
  BY <1>6 DEF T
-----------------------------------------------------------------------------
(* The decoder reads as it is proved in EventReadingProofs.                 *)
LEMMA SameHeader == ASSUME NEW m
                    PROVE  Parser!PIXDecodeEventInfo(m) = PIXDecodeEventInfo(m)
BY Zenon DEF Parser!PIXDecodeEventInfo, PIXDecodeEventInfo

LEMMA SameEnd ==
    ASSUME NEW cells, NEW at, NEW limit
    PROVE  Parser!AtEnd(cells, at, limit) <=> AtEnd(cells, at, limit)
BY DEF Parser!AtEnd, AtEnd, Parser!Marker, Marker

LEMMA SameArguments ==
    ASSUME NEW cells, NEW specs, NEW at, NEW limit
    PROVE  Parser!PopulateFormatArguments(cells, specs, at, limit)
               = PopulateFormatArguments(cells, specs, at, limit)
BY Zenon
   DEF Parser!PopulateFormatArguments, PopulateFormatArguments,
       Parser!FoldLeft, FoldLeft, Parser!MapThenFoldSet, MapThenFoldSet, Parser!Max, Max,
       Parser!ReadArgument, ReadArgument, Parser!ReadValue, ReadValue,
       Parser!ReadArgumentString, ReadArgumentString, Parser!Text, Text,
       Parser!StringEnd, StringEnd, Parser!Min, Min, Parser!Terminates, Terminates,
       Parser!AtEnd, AtEnd, Parser!Marker, Marker, Parser!NothingRead, NothingRead

LEMMA SameReading ==
    ASSUME NEW cells, NEW at, NEW limit
    PROVE  Parser!ReadEvent(cells, at, limit) = ReadEvent(cells, at, limit)
<1>1. \A m : Parser!PIXDecodeEventInfo(m) = PIXDecodeEventInfo(m)
  BY SameHeader
<1>2. \A source : Parser!ReadArgumentString(cells, source, limit)
                      = ReadArgumentString(cells, source, limit)
  BY Zenon
     DEF Parser!ReadArgumentString, ReadArgumentString, Parser!Text, Text,
         Parser!StringEnd, StringEnd, Parser!Min, Min, Parser!Terminates, Terminates,
         Parser!AtEnd, AtEnd, Parser!Marker, Marker, Parser!NothingRead, NothingRead
<1>3. \A source : Parser!ReadFormat(cells, source, limit) = ReadFormat(cells, source, limit)
  BY Zenon
     DEF Parser!ReadFormat, ReadFormat, Parser!Text, Text,
         Parser!StringEnd, StringEnd, Parser!Min, Min, Parser!Terminates, Terminates,
         Parser!AtEnd, AtEnd, Parser!Marker, Marker, Parser!NothingRead, NothingRead
<1>4. \A specs, source, end : Parser!PopulateFormatArguments(cells, specs, source, end)
                                 = PopulateFormatArguments(cells, specs, source, end)
  BY SameArguments
<1>5. \A text : Parser!Specs(text) = Specs(text)
  BY Zenon DEF Parser!Specs, Specs
<1>6. Parser!EndOfArguments(cells, at, limit) = EndOfArguments(cells, at, limit)
  BY <1>1, Zenon DEF Parser!EndOfArguments, EndOfArguments, Parser!HasSize, HasSize
<1>7. Parser!NothingOfEvent = NothingOfEvent /\ Parser!Unformatted = Unformatted
  BY Zenon DEF Parser!NothingOfEvent, NothingOfEvent, Parser!Unformatted, Unformatted
<1>8. \A header, used : Parser!NoVarArgs(header, used) = NoVarArgs(header, used)
  BY Zenon DEF Parser!NoVarArgs, NoVarArgs
<1> QED
  BY <1>1, <1>2, <1>3, <1>4, <1>5, <1>6, <1>7, <1>8 DEF Parser!ReadEvent, ReadEvent
-----------------------------------------------------------------------------
(* A record that is followed by the end marker where its event was cut.     *)
Readable(e) ==
    /\ IsRecord(memory, destination, e)
    /\ destination \in Nat /\ destination < BlockQwords /\ memory[destination] = Marker
    /\ Cut(e) => EndOf(e) = destination

\* The decoder knows its size.
SizeKnown(e) == e.request.type = "end" \/ (~IsOld(e) /\ e.size < SizeMax)

\* What the assumptions say of its request.
LEMMA RequestOf ==
    ASSUME NEW e, e.request \in Requests \cup OldRequests
    PROVE  /\ Emitted(e)
           /\ e.request.hasColor \in BOOLEAN /\ e.request.onContext \in BOOLEAN
           /\ e.request.type = "end" => ~e.request.hasColor /\ e.request.args = <<>>
           /\ IsOld(e) => e.request.hasColor = (e.request.type # "end")
           /\ e.request.specs \in Seq(Specifier)
<1>1. CASE e.request \in Requests
  <2>1. e.request \in Request
    BY <1>1, BlockAssumption
  <2>2. ~IsOld(e) /\ ChunkOf(e) = 1
    BY <2>1 DEF IsOld, ChunkOf, Request
  <2> QED
    BY <1>1, <2>1, <2>2, BlockAssumption DEF Request, Emitted
<1>2. CASE e.request \in OldRequests
  <2>1. e.request \in OldRequest
    BY <1>2, RoundTripAssumption
  <2>2. IsOld(e) /\ ChunkOf(e) \in {1, 2}
    BY <2>1 DEF IsOld, ChunkOf, OldRequest
  <2> QED
    BY <1>2, <2>1, <2>2, RoundTripAssumption DEF OldRequest, Emitted
<1> QED
  BY <1>1, <1>2

\* What a header is decoded to.
LEMMA DecodedHeader ==
    ASSUME NEW m
    PROVE  LET header == Parser!PIXDecodeEventInfo(m)
           IN  /\ header.time = m.time /\ header.type = m.type /\ header.size = m.size
               /\ header.onContext = m.onContext
               /\ header.legacy <=> m.size = 0
               /\ m.size = 0 => header.hasColor = (m.type # "end")
               /\ m.size # 0 => header.hasColor = m.hasColor
               /\ header.noVarArgs <=> m.size = 0 /\ m.type # "end" /\ ~m.varArgs
BY DEF Parser!PIXDecodeEventInfo

(* The decoder finds in its header what the event is; the header of version *)
(* 1 says nothing of a size.                                                *)
Describes(header, e) ==
    /\ header.type = e.request.type
    /\ header.time = e.time % TimeModulus
    /\ header.onContext = e.request.onContext
    /\ header.hasColor = e.request.hasColor
    /\ header.legacy <=> IsOld(e)
    /\ ~IsOld(e) => header.size = PIXGetEventSize(e.size) /\ ~header.noVarArgs
    /\ IsOld(e) /\ e.request.type = "end" => ~header.noVarArgs

LEMMA HeaderRead ==
    ASSUME NEW e, Readable(e)
    PROVE  /\ Describes(Parser!PIXDecodeEventInfo(memory[e.start]), e)
           /\ ~Parser!AtEnd(memory, e.start, BlockQwords)
           /\ memory[e.start].onContext = e.request.onContext
           /\ ~IsOld(e) => memory[e.start].size = PIXGetEventSize(e.size)
<1> DEFINE m == memory[e.start]
           header == Parser!PIXDecodeEventInfo(m)
<1>1. /\ m = HeaderOf(e) /\ e.size \in Nat \ {0}
      /\ e.start \in Nat /\ e.start < BlockQwords /\ BlockQwords \in Nat
  BY Limits DEF Readable, IsRecord
<1>2. IsOld(e) => e.request.hasColor = (e.request.type # "end")
  BY RequestOf DEF Readable, IsRecord
<1>3. /\ header.time = m.time /\ header.type = m.type /\ header.size = m.size
      /\ header.onContext = m.onContext
      /\ header.legacy <=> m.size = 0
      /\ m.size = 0 => header.hasColor = (m.type # "end")
      /\ m.size # 0 => header.hasColor = m.hasColor
      /\ header.noVarArgs <=> m.size = 0 /\ m.type # "end" /\ ~m.varArgs
  BY DecodedHeader
<1> HIDE DEF header
<1>4. /\ m.kind = "header" /\ m.time = e.time % TimeModulus /\ m.type = e.request.type
      /\ m.onContext = e.request.onContext
      /\ IsOld(e) => m.size = 0
      /\ ~IsOld(e) => m.size = PIXGetEventSize(e.size) /\ m.size # 0
                       /\ m.hasColor = e.request.hasColor
  <2>1. CASE IsOld(e)
    BY <1>1, <2>1 DEF HeaderOf, LegacyEventInfo
  <2>2. CASE ~IsOld(e)
    <3> DEFINE size == PIXGetEventSize(e.size)
    <3>1. size # 0
      BY <1>1, FormatAssumption DEF PIXGetEventSize
    <3> HIDE DEF size
    <3>2. HeaderOf(e) = PIXEncodeEventInfo(e.time, e.request.type, size, e.request.hasColor,
                                           e.request.onContext)
      BY <2>2 DEF HeaderOf, Header, size
    <3> QED
      BY <1>1, <2>2, <3>1, <3>2 DEF PIXEncodeEventInfo, size
  <2> QED
    BY <2>1, <2>2
<1> HIDE DEF m
<1>5. m # Marker
  BY <1>4 DEF Marker
<1>6. ~Parser!AtEnd(memory, e.start, BlockQwords)
  BY <1>1, <1>5 DEF Parser!AtEnd, Parser!Marker, Marker, m
<1>7. Describes(header, e)
  <2>1. header.hasColor = e.request.hasColor
    BY <1>2, <1>3, <1>4
  <2>2. header.legacy <=> IsOld(e)
    BY <1>3, <1>4
  <2>3. ~IsOld(e) => header.size = PIXGetEventSize(e.size) /\ ~header.noVarArgs
    BY <1>3, <1>4
  <2>4. IsOld(e) /\ e.request.type = "end" => ~header.noVarArgs
    BY <1>3, <1>4
  <2> QED
    BY <1>3, <1>4, <2>1, <2>2, <2>3, <2>4 DEF Describes
<1> QED
  BY <1>4, <1>6, <1>7 DEF m, header

\* The sizes of records: whole, or at least as long as what is never cut.
LEMMA SizeOf ==
    ASSUME NEW e, Readable(e)
    PROVE  /\ Cut(e) => e.size >= 4
           /\ ~Cut(e) => e.size = Len(Layout(e)) + 1
           /\ Len(Layout(e)) \in Nat /\ e.size \in Nat
           /\ \A k \in 1 .. e.size - 1 : memory[e.start + k] = Layout(e)[k]
<1>1. /\ e.start \in Nat /\ e.size \in Nat \ {0} /\ e.start < BiasedLimit
      /\ e.size - 1 <= Len(Layout(e))
      /\ \A k \in 1 .. e.size - 1 : memory[e.start + k] = Layout(e)[k]
      /\ Cut(e) => EndOf(e) \in CopyLimit .. CopyLimit + ChunkOf(e) - 1
  BY DEF Readable, IsRecord, Holds
<1>2. Layout(e) \in Seq(CellsOf(e))
  BY RequestOf, LayoutPlaces DEF Readable, IsRecord
<1>3. Len(Layout(e)) \in Nat
  BY <1>2
<1>4. ASSUME Cut(e) PROVE e.size >= 4
  <2>1. CopyLimit <= EndOf(e) /\ EndOf(e) \in Int
    BY <1>1, <1>4, Limits DEF EndOf
  <2> QED
    BY <1>1, <2>1, Limits DEF EndOf
<1>5. ASSUME ~Cut(e) PROVE e.size = Len(Layout(e)) + 1
  BY <1>1, <1>3, <1>5 DEF Cut
<1> QED
  BY <1>1, <1>3, <1>4, <1>5

(* Its color, context and name are those that were written, and so are its  *)
(* arguments, as far as they are there.                                     *)
LEMMA NameRead ==
    ASSUME NEW e, Readable(e), ~IsOld(e), e.request.type # "end", e.size < SizeMax
    PROVE  LET data == Parser!ReadEvent(memory, e.start, BlockQwords)
           IN  /\ data.color = ColorOf(e) /\ data.context = ContextOf(e)
               /\ data.name = NameIn(e, e.size)
               /\ ArgumentsRight(data.arguments, e, e.size - 1)
<1> DEFINE at == e.start
           header == PIXDecodeEventInfo(memory[at])
           data == Parser!ReadEvent(memory, at, BlockQwords)
           n == e.size - 1
           b == Before(e)
           L == Len(Layout(e))
<1>1. /\ e.request \in Requests \cup OldRequests /\ at \in Nat
      /\ EndOf(e) <= destination /\ destination \in Nat /\ destination < BlockQwords
      /\ memory[destination] = Marker /\ (Cut(e) => EndOf(e) = destination)
      /\ BlockQwords \in Nat /\ EndOf(e) = at + e.size
  BY Limits DEF Readable, IsRecord, EndOf
<1>2. /\ Emitted(e) /\ e.request.hasColor \in BOOLEAN /\ e.request.onContext \in BOOLEAN
      /\ e.request.specs \in Seq(Specifier)
  BY <1>1, RequestOf
<1>3. /\ header.legacy <=> IsOld(e)
      /\ header.hasColor = e.request.hasColor /\ header.onContext = e.request.onContext
      /\ header.size = PIXGetEventSize(e.size) /\ ~header.noVarArgs
  <2>1. Describes(header, e)
    BY HeaderRead, SameHeader
  <2> HIDE DEF header
  <2> QED
    BY <2>1 DEF Describes
<1>4. /\ Cut(e) => e.size >= 4
      /\ ~Cut(e) => e.size = L + 1
      /\ Cut(e) => e.size <= L
      /\ L \in Nat /\ e.size \in Nat
  BY SizeOf DEF Cut
<1>12. \A i \in 1 .. n : memory[at + i] = Layout(e)[i]
  BY SizeOf
<1>5. b \in 0 .. 2 /\ b + 1 <= L
  <2> DEFINE c == Len(ColorOf(e))
             x == Len(ContextOf(e))
             m == Len(FormatText(e))
  <2>1. c \in {0, 1} /\ x \in {0, 1}
    BY <1>2 DEF ColorOf, ContextOf
  <2>2. FormatOf(e) = FormatText(e) /\ m \in Nat \ {0}
    BY <1>2, NamesAreText DEF FormatOf, IsText
  <2>3. NameEnd(e) <= L /\ L \in Nat
    BY <1>2, <1>4, LayoutPlaces
  <2>4. NameEnd(e) = c + x + m
    BY <2>2 DEF NameEnd
  <2>5. b = c + x
    BY DEF Before
  <2> HIDE DEF L, c, x, m, b
  <2> QED
    BY <2>1, <2>2, <2>3, <2>4, <2>5
<1> HIDE DEF header, L, b
<1>6. n \in Nat /\ n >= 1 /\ b <= n /\ n <= L /\ (n < L => Cut(e))
      /\ at + 1 + n = EndOf(e) /\ at + 1 + n <= BlockQwords /\ n + 1 = e.size
  BY <1>1, <1>4, <1>5
<1>7. IsNamed(memory, at, e, n, BlockQwords)
  <2>1. n < L => AtEnd(memory, at + 1 + n, BlockQwords)
    <3> HIDE DEF n
    <3> QED
      BY <1>1, <1>6 DEF AtEnd
  <2>2. IsStoredEvent(memory, at, e, n)
    <3> HIDE DEF n
    <3> QED
      BY <1>1, <1>2, <1>6, <1>12 DEF IsStoredEvent, L
  <2> HIDE DEF n
  <2> QED
    BY <1>1, <1>6, <2>1, <2>2 DEF IsNamed, L, b
<1>8. header.size = e.size
  <2>1. PIXGetEventSize(e.size) = e.size
    BY <1>4, FormatAssumption DEF PIXGetEventSize
  <2> QED
    BY <1>3, <2>1
<1>9. IsHeaderOf(header, e, n)
  <2> HIDE DEF n
  <2> QED
    BY <1>2, <1>3, <1>6, <1>8 DEF IsHeaderOf
<1>10. EndOfArguments(memory, at, BlockQwords) = at + 1 + n
  <2>1. HasSize(header)
    BY <1>3, <1>8 DEF HasSize
  <2>2. EndOfArguments(memory, at, BlockQwords) = at + header.size
    BY <2>1 DEF EndOfArguments, header
  <2> QED
    BY <1>1, <1>4, <1>8, <2>2
<1>11. data = ReadEvent(memory, at, BlockQwords)
  BY SameReading
<1> HIDE DEF data, n, at
<1> QED
  <2>1. IsHeaderOf(PIXDecodeEventInfo(memory[at]), e, n)
    BY <1>9 DEF header
  <2>2. /\ data.color = ColorOf(e) /\ data.context = ContextOf(e)
        /\ data.name = NameIn(e, n + 1) /\ ArgumentsRight(data.arguments, e, n)
    BY <1>2, <1>6, <1>7, <1>10, <1>11, <2>1, EventRead
  <2>3. data.name = NameIn(e, e.size)
    BY <1>6, <2>2
  <2> QED
    BY <2>2, <2>3 DEF data, n, at

\* Of one that ends there is a context at most.
LEMMA EndRead ==
    ASSUME NEW e, Readable(e), e.request.type = "end"
    PROVE  LET data == Parser!ReadEndEvent(memory, e.start)
           IN  /\ data.color = ColorOf(e) /\ data.context = ContextOf(e)
               /\ data.name = NameIn(e, e.size)
               /\ ArgumentsRight(data.arguments, e, e.size - 1)
               /\ e.size = 1 + data.used /\ data.used \in Nat
               /\ ~e.request.onContext => e.size = 1
<1> DEFINE at == e.start
           context == ContextOf(e)
           data == Parser!ReadEndEvent(memory, at)
           nothing == Parser!NothingOfEvent
<1>1. /\ Emitted(e) /\ ~e.request.hasColor /\ e.request.args = <<>>
      /\ e.request.onContext \in BOOLEAN
  BY RequestOf DEF Readable, IsRecord
<1>2. /\ Cut(e) => e.size >= 4
      /\ ~Cut(e) => e.size = Len(Layout(e)) + 1
      /\ Len(Layout(e)) \in Nat /\ e.size \in Nat
      /\ \A k \in 1 .. e.size - 1 : memory[at + k] = Layout(e)[k]
      /\ Cut(e) <=> e.size <= Len(Layout(e))
  BY SizeOf DEF Cut
<1>3. ColorOf(e) = <<>> /\ Len(FormatOf(e)) = 0
  BY <1>1 DEF ColorOf, FormatOf, FormatText
<1>4. /\ context = IF e.request.onContext THEN <<Context(e.number)>> ELSE <<>>
      /\ Len(context) = IF e.request.onContext THEN 1 ELSE 0
  BY DEF ContextOf
<1>5. Len(Layout(e)) = Len(context)
      /\ \A k \in 1 .. Len(context) : Layout(e)[0 + k] = context[k]
  <2>1. /\ IsPlacing(Ends(e), e)
        /\ \A k \in 1 .. Len(context) : Layout(e)[Len(ColorOf(e)) + k] = context[k]
    BY <1>1, LayoutPlaces
  <2>2. Len(e.request.args) = 0 /\ Len(ColorOf(e)) = 0
    BY <1>1, <1>3
  <2>3. Len(Layout(e)) = NameEnd(e)
    BY <2>1, <2>2 DEF IsPlacing
  <2>4. Len(context) \in Nat
    BY <1>1, <1>4
  <2> QED
    BY <1>3, <2>1, <2>2, <2>3, <2>4 DEF NameEnd
<1>6. e.size = 1 + Len(context)
  BY <1>1, <1>2, <1>4, <1>5
<1>7. memory[at].onContext = e.request.onContext
  BY HeaderRead
<1>8. /\ nothing.color = <<>> /\ nothing.context = <<>> /\ nothing.name = <<>>
      /\ nothing.used = 0 /\ nothing.arguments = <<>>
  BY DEF Parser!NothingOfEvent
<1>9. /\ data.color = <<>> /\ data.name = <<>> /\ data.arguments = <<>>
      /\ data.context = (IF e.request.onContext THEN <<memory[at + 1]>> ELSE <<>>)
      /\ data.used = IF e.request.onContext THEN 1 ELSE 0
  <2>1. CASE e.request.onContext
    <3>1. data = [nothing EXCEPT !.context = <<memory[at + 1]>>, !.used = 1]
      BY <1>7, <2>1 DEF Parser!ReadEndEvent
    <3> QED
      BY <2>1, <3>1 DEF Parser!NothingOfEvent
  <2>2. CASE ~e.request.onContext
    <3>1. data = nothing
      BY <1>7, <2>2 DEF Parser!ReadEndEvent
    <3> HIDE DEF data, nothing
    <3> QED
      BY <1>8, <2>2, <3>1
  <2> QED
    BY <1>1, <2>1, <2>2
<1>10. data.context = context
  <2>1. CASE e.request.onContext
    <3>1. Len(context) = 1 /\ context = <<Context(e.number)>> /\ e.size = 2
      BY <1>4, <1>6, <2>1
    <3>2. memory[at + 1] = Layout(e)[1] /\ Layout(e)[0 + 1] = context[1]
      BY <1>2, <1>5, <3>1
    <3>3. context[1] = Context(e.number)
      BY <3>1
    <3> HIDE DEF data, context
    <3> QED
      BY <1>9, <2>1, <3>1, <3>2, <3>3
  <2>2. CASE ~e.request.onContext
    BY <1>4, <1>9, <2>2
  <2> QED
    BY <1>1, <2>1, <2>2
<1>11. NameIn(e, e.size) = <<>>
  <2> DEFINE rest == e.size - (1 + Len(ColorOf(e)) + Len(ContextOf(e))
                               + (IF IsOld(e) THEN 1 ELSE 0))
             most == IF rest >= 0 THEN rest ELSE 0
  <2>1. rest \in Int
    BY <1>2, <1>3, <1>4
  <2>2. NameIn(e, e.size) = Truncated(<<>>, rest)
    BY DEF NameIn, FormatText
  <2> HIDE DEF rest
  <2>3. Max({rest, 0}) = most /\ most \in Nat
    BY <2>1, MaxOfTwo
  <2> HIDE DEF most
  <2>4. Min({0, most}) = 0
    BY <2>3, MinOfTwo
  <2>5. Len(<<>>) = 0 /\ SubSeq(<<>>, 1, 0) = <<>>
    OBVIOUS
  <2> QED
    BY <2>2, <2>3, <2>4, <2>5 DEF Truncated
<1>12. ArgumentsRight(data.arguments, e, e.size - 1)
  <2>1. Formatted(e) = <<>>
    BY <1>1 DEF Formatted
  <2>2. e.size - 1 = Len(Layout(e))
    BY <1>4, <1>5, <1>6
  <2> HIDE DEF data
  <2> QED
    BY <1>9, <2>1, <2>2 DEF ArgumentsRight
<1> HIDE DEF data
<1> QED
  BY <1>1, <1>3, <1>4, <1>6, <1>9, <1>10, <1>11, <1>12 DEF data, at
-----------------------------------------------------------------------------
\* The time of an event, as it is restored.
Restored(t) ==
    LET s == maskedTimeBits + (t % TimeModulus)
    IN  IF s < previousTimestamp THEN s + TimeModulus ELSE s

\* What one turn of the loop does at an event.
Turn(e) ==
    /\ currentPosition' = EndOf(e)
    /\ IF IsKnownOpcode(e.request.type)
       THEN /\ \E d : /\ decoded' = Append(decoded, d)
                      /\ d.type = e.request.type /\ d.time = Restored(e.time)
                      /\ d.color = ColorOf(e) /\ d.context = ContextOf(e)
                      /\ d.name = NameIn(e, e.size)
                      /\ ArgumentsRight(d.arguments, e, e.size - 1)
            /\ previousTimestamp' = Restored(e.time)
            /\ maskedTimeBits' = Restored(e.time) - (e.time % TimeModulus)
       ELSE UNCHANGED <<decoded, previousTimestamp, maskedTimeBits>>

LEMMA TurnOfTheLoop ==
    ASSUME NEW e, Readable(e), SizeKnown(e), currentPosition = e.start,
           Parser!ProcessEvents
    PROVE  Turn(e)
<1> DEFINE at == currentPosition
           header == Parser!PIXDecodeEventInfo(memory[at])
<1>1. /\ Describes(header, e)
      /\ ~IsOld(e) => memory[at].size = PIXGetEventSize(e.size)
  BY HeaderRead
<1>2. Parser!Current = header
  BY DEF Parser!Current
<1>3. header.type = e.request.type /\ header.time = e.time % TimeModulus
      /\ header.onContext = e.request.onContext
  BY <1>1 DEF Describes
<1>4. Parser!RestoredTime(header) = Restored(e.time)
  BY <1>3 DEF Parser!RestoredTime, Parser!Carry, Restored
<1>5. e.size \in Nat \ {0} /\ SizeMax \in Nat \ {0} /\ EndOf(e) = at + e.size /\ at \in Nat
  BY FormatAssumption DEF Readable, IsRecord, EndOf
<1>6. ASSUME ~IsOld(e), e.size < SizeMax
      PROVE  Parser!HasSize(header) /\ Parser!BySize(at) = EndOf(e)
  <2>1. PIXGetEventSize(e.size) = e.size
    BY <1>5, <1>6 DEF PIXGetEventSize
  <2>2. header.size = e.size /\ ~header.legacy
    BY <1>1, <1>6, <2>1 DEF Describes
  <2> HIDE DEF header
  <2> QED
    BY <1>1, <1>5, <1>6, <2>1, <2>2 DEF Parser!HasSize, Parser!BySize
<1> HIDE DEF header
<1>7. ASSUME NEW data, NEW next, Parser!Deliver(data, next),
             IsKnownOpcode(e.request.type), next = EndOf(e),
             data.color = ColorOf(e), data.context = ContextOf(e), data.name = NameIn(e, e.size),
             ArgumentsRight(data.arguments, e, e.size - 1)
      PROVE  Turn(e)
  <2> DEFINE d == [type |-> header.type, time |-> Parser!RestoredTime(header),
                   color |-> data.color, context |-> data.context,
                   name |-> data.name, arguments |-> data.arguments]
  <2>1. /\ decoded' = Append(decoded, d) /\ currentPosition' = next
        /\ previousTimestamp' = Parser!RestoredTime(header)
        /\ maskedTimeBits' = Parser!RestoredTime(header) - header.time
    BY <1>2, <1>7 DEF Parser!Deliver
  <2>2. /\ d.type = e.request.type /\ d.time = Restored(e.time)
        /\ d.color = ColorOf(e) /\ d.context = ContextOf(e) /\ d.name = NameIn(e, e.size)
        /\ d.arguments = data.arguments
    BY <1>3, <1>4, <1>7
  <2> HIDE DEF d
  <2> QED
    BY <1>3, <1>4, <1>7, <2>1, <2>2 DEF Turn
<1>8. \A known : Parser!AtHeader(known) => known = IsKnownOpcode(e.request.type)
  BY <1>2, <1>3 DEF Parser!AtHeader, IsKnownOpcode, Parser!IsKnownOpcode
<1>9. CASE Parser!SkipUnknown
  <2>1. ~IsKnownOpcode(e.request.type)
    BY <1>8, <1>9 DEF Parser!SkipUnknown
  <2>2. e.request.type # "end"
    BY <2>1 DEF IsKnownOpcode
  <2>3. ~IsOld(e) /\ e.size < SizeMax
    BY <2>2 DEF SizeKnown
  <2>4. ~header.legacy
    BY <1>1, <2>3 DEF Describes
  <2>5. currentPosition' = EndOf(e) /\ UNCHANGED <<decoded, previousTimestamp, maskedTimeBits>>
    BY <1>2, <1>6, <1>9, <2>3, <2>4 DEF Parser!SkipUnknown
  <2> QED
    BY <2>1, <2>5 DEF Turn
<1>10. CASE Parser!EndEvent
  <2>1. IsKnownOpcode(e.request.type) /\ e.request.type = "end"
    BY <1>2, <1>3, <1>8, <1>10 DEF Parser!EndEvent
  <2> DEFINE data == Parser!ReadEndEvent(memory, at)
             next == IF header.onContext /\ Parser!HasSize(header)
                     THEN Parser!BySize(at) ELSE at + 1 + data.used
  <2>2. Parser!Deliver(data, next)
    BY <1>2, <1>10 DEF Parser!EndEvent
  <2>3. /\ data.color = ColorOf(e) /\ data.context = ContextOf(e)
        /\ data.name = NameIn(e, e.size) /\ e.size = 1 + data.used /\ data.used \in Nat
        /\ ArgumentsRight(data.arguments, e, e.size - 1)
    BY <2>1, EndRead
  <2>4. next = EndOf(e)
    <3> HIDE DEF data
    <3>1. CASE Parser!HasSize(header)
      <4>1. ~header.legacy /\ header.size < SizeMax
        BY <3>1 DEF Parser!HasSize
      <4>2. ~IsOld(e) /\ PIXGetEventSize(e.size) < SizeMax
        BY <1>1, <4>1 DEF Describes
      <4>3. e.size < SizeMax
        BY <1>5, <4>2 DEF PIXGetEventSize
      <4> QED
        BY <1>5, <1>6, <2>3, <4>2, <4>3
    <3>2. CASE ~Parser!HasSize(header)
      BY <1>5, <2>3, <3>2
    <3> QED
      BY <3>1, <3>2
  <2> HIDE DEF data, next
  <2> QED
    BY <1>7, <2>1, <2>2, <2>3, <2>4
<1>11. ASSUME e.request.type # "end"
       PROVE  ~IsOld(e) /\ e.size < SizeMax /\ ~header.noVarArgs
  <2>1. ~IsOld(e) /\ e.size < SizeMax
    BY <1>11 DEF SizeKnown
  <2> QED
    BY <1>1, <2>1 DEF Describes
<1>12. CASE Parser!NamedEvent
  <2>1. IsKnownOpcode(e.request.type) /\ e.request.type # "end"
    BY <1>2, <1>3, <1>8, <1>12 DEF Parser!NamedEvent
  <2> DEFINE data == Parser!ReadEvent(memory, at, BlockQwords)
             next == Parser!BySize(at)
  <2>2. Parser!Deliver(data, next)
    BY <1>12 DEF Parser!NamedEvent
  <2>3. /\ data.color = ColorOf(e) /\ data.context = ContextOf(e)
        /\ data.name = NameIn(e, e.size) /\ ArgumentsRight(data.arguments, e, e.size - 1)
    BY <1>11, <2>1, NameRead
  <2>4. next = EndOf(e)
    BY <1>6, <1>11, <2>1
  <2> HIDE DEF data, next
  <2> QED
    BY <1>7, <2>1, <2>2, <2>3, <2>4
<1>13. CASE Parser!LegacyNamedEvent
  <2>1. header.noVarArgs
    BY <1>2, <1>13 DEF Parser!LegacyNamedEvent
  <2>2. ~header.noVarArgs
    <3>1. CASE e.request.type = "end"
      BY <1>1, <3>1 DEF Describes
    <3>2. CASE e.request.type # "end"
      BY <1>11, <3>2
    <3> QED
      BY <3>1, <3>2
  <2> QED
    BY <2>1, <2>2
<1>14. CASE Parser!LongEvent
  <2>1. ~Parser!HasSize(header) /\ e.request.type # "end"
    BY <1>2, <1>3, <1>14 DEF Parser!LongEvent
  <2> QED
    BY <1>6, <1>11, <2>1
<1> QED
  BY <1>9, <1>10, <1>12, <1>13, <1>14 DEF Parser!ProcessEvents
-----------------------------------------------------------------------------
(* Time does not go back: neither from event to event nor before the block. *)
TimesInv ==
    /\ beginTimestamp <= clock
    /\ pc # "idle" => time = clock
    /\ \A i \in 1 .. Len(events) :
          /\ events[i].time \in Nat
          /\ beginTimestamp <= events[i].time /\ events[i].time <= clock
          /\ \A j \in 1 .. i : events[j].time <= events[i].time

\* An event that is added has a time not before the clock's last value.
LEMMA TimesGoOn ==
    ASSUME RecordsInv, TimesInv, NEW e, events' = Append(events, e),
           e.time = clock', clock' \in Nat, clock <= clock', beginTimestamp' = beginTimestamp,
           pc' = "idle"
    PROVE  TimesInv'
<1> DEFINE n == Len(events)
<1>1. events \in Seq(Range(events)) /\ n \in Nat
  BY DEF RecordsInv, History
<1>2. Len(events') = n + 1 /\ events'[n + 1] = e /\ \A i \in 1 .. n : events'[i] = events[i]
  BY <1>1
<1>3. beginTimestamp \in Nat /\ clock \in Nat
  BY DEF RecordsInv, WriterIInv, WriterTypeOK
<1> HIDE DEF n
<1>4. \A i \in 1 .. n : /\ events[i].time \in Nat /\ beginTimestamp <= events[i].time
                        /\ events[i].time <= clock
                        /\ \A j \in 1 .. i : events[j].time <= events[i].time
  BY DEF TimesInv, n
<1>5. ASSUME NEW i \in 1 .. n + 1
      PROVE  /\ events'[i].time \in Nat
             /\ beginTimestamp <= events'[i].time /\ events'[i].time <= clock'
             /\ \A j \in 1 .. i : events'[j].time <= events'[i].time
  <2>1. CASE i = n + 1
    <3>1. events'[i].time = clock' /\ beginTimestamp <= clock
      BY <1>2, <2>1 DEF TimesInv
    <3>2. ASSUME NEW j \in 1 .. i PROVE events'[j].time <= clock'
      <4>1. CASE j = i
        <5>1. events'[j].time = clock'
          BY <3>1, <4>1, Zenon
        <5> QED
          BY <5>1
      <4>2. CASE j # i
        <5>1. j \in 1 .. n
          BY <1>1, <2>1, <4>2 DEF n
        <5> QED
          BY <1>2, <1>3, <1>4, <5>1
      <4> QED
        BY <4>1, <4>2
    <3>3. \A j \in 1 .. i : events'[j].time <= events'[i].time
      BY <3>1, <3>2, Zenon
    <3>4. clock' \in Nat /\ beginTimestamp <= clock' /\ clock' <= clock'
      BY <1>3, <3>1
    <3> QED
      BY <3>1, <3>3, <3>4, Zenon
  <2>2. CASE i # n + 1
    <3>1. i \in 1 .. n /\ \A j \in 1 .. i : j \in 1 .. n
      BY <1>1, <2>2 DEF n
    <3> QED
      BY <1>2, <1>3, <1>4, <3>1
  <2> QED
    BY <2>1, <2>2
<1> QED
  BY <1>2, <1>3, <1>5 DEF TimesInv

LEMMA TimesStep == RecordsInv /\ TimesInv /\ [Next]_vars => TimesInv'
<1> SUFFICES ASSUME RecordsInv, TimesInv, [Next]_vars PROVE TimesInv'
  OBVIOUS
<1>1. beginTimestamp \in Nat /\ clock \in Nat /\ Len(events) \in Nat
  BY DEF RecordsInv, History, WriterIInv, WriterTypeOK
<1>2. ASSUME NEW a \in Advances PROVE a \in Nat
  BY BlockAssumption
<1>3. ASSUME NEW r \in Requests, BeginEvent(r) PROVE TimesInv'
  <2>1. PICK a \in Advances : clock' = clock + a
    BY <1>3 DEF BeginEvent
  <2>2. clock' \in Nat /\ clock <= clock'
    BY <1>1, <1>2, <2>1
  <2> QED
    BY <1>1, <1>3, <2>2 DEF BeginEvent, TimesInv
<1>4. ASSUME NEW r \in Requests, AllocateBlock(r) PROVE TimesInv'
  <2>1. PICK a \in Advances : clock' = clock + a
    BY <1>4 DEF AllocateBlock
  <2>2. clock' \in Nat /\ beginTimestamp' = clock' /\ time' = clock' /\ events' = <<>>
    BY <1>1, <1>2, <1>4, <2>1 DEF AllocateBlock
  <2> QED
    BY <2>2 DEF TimesInv
<1>5. CASE AllocationFails
  <2>1. events' = <<>> /\ pc' = "idle" /\ clock' = clock /\ beginTimestamp' = beginTimestamp
    BY <1>5 DEF AllocationFails, eventVars
  <2> QED
    BY <2>1 DEF TimesInv
<1>6. CASE CopyContext \/ CopyFormat \/ CopyArgument
  <2>1. /\ pc # "idle" /\ time' = time /\ clock' = clock /\ beginTimestamp' = beginTimestamp
        /\ events' = events
    BY <1>6 DEF CopyContext, CopyFormat, CopyArgument
  <2> QED
    BY <2>1 DEF TimesInv
<1>7. ASSUME NEW size, pc # "idle", Publish(size) PROVE TimesInv'
  <2> DEFINE e == [request |-> request, number |-> serial, time |-> time,
                   start |-> destination, size |-> size]
  <2>1. /\ events' = Append(events, e) /\ pc' = "idle" /\ clock' = clock
        /\ beginTimestamp' = beginTimestamp
    BY <1>7 DEF Publish
  <2>2. e.time = clock
    BY <1>7 DEF TimesInv
  <2> HIDE DEF e
  <2>3. clock <= clock' /\ clock' \in Nat /\ e.time = clock'
    BY <1>1, <2>1, <2>2
  <2> QED
    BY <2>1, <2>3, TimesGoOn
<1>8. CASE FinishEvent \/ MarkEnd
  BY <1>7, <1>8 DEF FinishEvent, MarkEnd
<1>9. ASSUME NEW r \in OldRequests, OldEvent(r) PROVE TimesInv'
  <2>1. PICK a \in Advances : clock' = clock + a
    BY <1>9 DEF OldEvent
  <2>2. clock' \in Nat /\ clock <= clock'
    BY <1>1, <1>2, <2>1
  <2> DEFINE size == Len(LegacyRecord(r, serial', clock', CopyLimit - destination))
             e == [request |-> r, number |-> serial', time |-> clock',
                   start |-> destination, size |-> size]
  <2>3. /\ events' = Append(events, e) /\ pc' = "idle" /\ beginTimestamp' = beginTimestamp
    BY <1>9 DEF OldEvent
  <2>4. e.time = clock'
    OBVIOUS
  <2> HIDE DEF e
  <2> QED
    BY <2>2, <2>3, <2>4, TimesGoOn
<1>10. CASE FlushBlock \/ Read \/ UNCHANGED vars
  <2>1. UNCHANGED <<beginTimestamp, clock, pc, time, events>>
    BY <1>10 DEF FlushBlock, Read, vars, writerVars, blockVars, eventVars
  <2> QED
    BY <2>1 DEF TimesInv
<1> QED
  BY <1>3, <1>4, <1>5, <1>6, <1>8, <1>9, <1>10 DEF Next, Write, WriterNext
-----------------------------------------------------------------------------
(* A block that is read has events and an end marker, and nothing has been  *)
(* read of one that is not.                                                 *)
FlushedInv ==
    /\ flushed \in BOOLEAN
    /\ flushed => destination \in Nat \ {0} /\ pc # "mark"
    /\ ~flushed => currentPosition = 0 /\ decoded = <<>>

LEMMA FlushedStep == RecordsInv /\ FlushedInv /\ [EndedNext]_vars => FlushedInv'
<1> SUFFICES ASSUME RecordsInv, FlushedInv, [EndedNext]_vars PROVE FlushedInv'
  OBVIOUS
<1>1. CASE Write
  <2>1. ~flushed /\ UNCHANGED <<flushed, currentPosition, decoded>>
    BY <1>1 DEF Write, readerVars
  <2> QED
    BY <2>1 DEF FlushedInv
<1>2. ASSUME NEW r \in OldRequests, OldEvent(r) PROVE FlushedInv'
  <2>1. ~flushed /\ UNCHANGED <<flushed, currentPosition, decoded>>
    BY <1>2 DEF OldEvent, readerVars
  <2> QED
    BY <2>1 DEF FlushedInv
<1>3. CASE FlushBlock /\ pc # "mark"
  <2>1. /\ flushed' = TRUE /\ destination' = destination /\ pc' = pc
        /\ destination # NoDestination /\ destination > 0
    BY <1>3 DEF FlushBlock, writerVars, blockVars, eventVars
  <2>2. destination \in Nat
    BY <2>1 DEF RecordsInv, WriterIInv, WriterTypeOK, Offsets
  <2> QED
    BY <1>3, <2>1, <2>2 DEF FlushedInv
<1>4. CASE Read
  BY <1>4 DEF Read, FlushedInv, writerVars, blockVars, eventVars
<1>5. CASE UNCHANGED vars
  BY <1>5 DEF vars, FlushedInv, writerVars, blockVars, eventVars, readerVars
<1>6. FlushBlock => flushed' /\ ~flushed
  BY DEF FlushBlock
<1> QED
  BY <1>1, <1>2, <1>3, <1>4, <1>5, <1>6 DEF EndedNext, Next

\* All of its records can be read.
LEMMA RecordsReadable ==
    ASSUME RecordsInv, FlushedInv, flushed, NEW i \in 1 .. Len(events)
    PROVE  Readable(events[i])
<1>1. destination \in Nat /\ destination < BlockQwords /\ memory[destination] = Marker
  <2>1. destination \in Nat \ {0} /\ pc # "mark"
    BY DEF FlushedInv
  <2>2. NoDestination # destination
    BY <2>1, BlockAssumption
  <2> QED
    BY <2>1, <2>2, Limits DEF RecordsInv, WriterIInv, WriterTypeOK, Ended, Offsets
<1>2. events \in Seq(Range(events))
  BY DEF RecordsInv, History
<1>3. IsRecord(memory, destination, events[i])
  BY DEF RecordsInv, History
<1>4. ASSUME Cut(events[i]) PROVE EndOf(events[i]) = destination
  <2>1. i \in DOMAIN events
    BY <1>2
  <2>2. i = Len(events)
    BY <1>4, <2>1, RecordsAreWhole DEF RecordsWhole
  <2>3. events # <<>>
    BY <1>2, <2>2
  <2> QED
    BY <2>2, <2>3 DEF RecordsInv, History
<1> QED
  BY <1>1, <1>3, <1>4 DEF Readable
-----------------------------------------------------------------------------
(* The lower bits of a time are enough to restore it, if it is less than    *)
(* the modulus after the one before.                                        *)
LEMMA Division == ASSUME NEW t \in Nat, NEW m \in Nat \ {0}
                  PROVE  /\ t % m \in 0 .. m - 1 /\ t \div m \in Nat
                         /\ t = m * (t \div m) + (t % m)
OBVIOUS

LEMMA Multiples == ASSUME NEW d \in Int, NEW m \in Nat \ {0}
                   PROVE  /\ d >= 2 => m * d >= 2 * m
                          /\ d <= -1 => m * d <= -m
                          /\ d = 1 => m * d = m
                          /\ d = 0 => m * d = 0
OBVIOUS

LEMMA TimeRestored ==
    ASSUME NEW m \in Nat \ {0}, NEW p \in Nat, NEW t \in Nat, p <= t, t - p < m
    PROVE  LET s == (p - (p % m)) + (t % m) IN t = IF s < p THEN s + m ELSE s
<1> DEFINE a == p \div m
           b == t \div m
           x == p % m
           y == t % m
<1>1. /\ x \in 0 .. m - 1 /\ a \in Nat /\ p = m * a + x
      /\ y \in 0 .. m - 1 /\ b \in Nat /\ t = m * b + y
  BY Division
<1> HIDE DEF a, b, x, y
<1>2. m * b - m * a = m * (b - a) /\ b - a \in Int
  BY <1>1
<1> DEFINE d == b - a
           z == m * d
<1>3. /\ d >= 2 => z >= 2 * m
      /\ d <= -1 => z <= -m
      /\ d = 1 => z = m
      /\ d = 0 => z = 0
  BY <1>2, Multiples
<1>4. d \in Int /\ z \in Int /\ z = (t - y) - (p - x)
  BY <1>1, <1>2
<1> HIDE DEF z, d
<1>5. z = 0 \/ z = m
  BY <1>1, <1>3, <1>4
<1>6. t = (p - x) + y + z
  BY <1>1, <1>4
<1>7. LET s == (p - x) + y IN t = IF s < p THEN s + m ELSE s
  BY <1>1, <1>5, <1>6
<1> QED
  BY <1>7 DEF x, y
-----------------------------------------------------------------------------
(* The decoder knows the size of every record: none saturates and none but  *)
(* that of an event that ends is of version 1.                              *)
SizesKnown == \A i \in 1 .. Len(events) : SizeKnown(events[i])

(* Between two known events, and between the beginning of the block and the *)
(* first, passes less time than headers can tell.                           *)
InTime ==
    \A i \in 1 .. Len(Known) :
       Known[i].time - (IF i = 1 THEN beginTimestamp ELSE Known[i - 1].time) < TimeModulus

\* What a call of the callback says of an event.
Matches(d, e) ==
    /\ d.type = e.request.type /\ d.time = e.time
    /\ d.color = ColorOf(e) /\ d.context = ContextOf(e) /\ d.name = NameIn(e, e.size)

(* The decoder has read the first k events: it stands behind them, and if   *)
(* their times can be restored, it has found them as they are.              *)
LastTime(list) == IF Len(list) = 0 THEN beginTimestamp ELSE list[Len(list)].time
Found(list) ==
    /\ \A i \in 1 .. Len(list) : Matches(decoded[i], list[i])
    /\ previousTimestamp = LastTime(list)
    /\ maskedTimeBits = previousTimestamp - (previousTimestamp % TimeModulus)
\* Their arguments are right, whatever their times are.
AllRight(list) ==
    \A i \in 1 .. Len(list) : ArgumentsRight(decoded[i].arguments, list[i], list[i].size - 1)
Reached(K, k) ==
    /\ k \in 0 .. Len(events)
    /\ currentPosition = IF k = 0 THEN 0 ELSE EndOf(events[k])
    /\ (\E S : decoded \in Seq(S)) /\ Len(decoded) = Len(K[k])
    /\ InTime => Found(K[k])
    /\ AllRight(K[k])

IsKnown(K) == KnownTrace(K, events) /\ K[Len(events)] = Known
ReaderInv == flushed /\ SizesKnown => \E K, k : IsKnown(K) /\ Reached(K, k)

\* What is known among the first events are events.
LEMMA KnownAreEvents ==
    ASSUME NEW K, IsKnown(K), Len(events) \in Nat, NEW k \in 0 .. Len(events)
    PROVE  K[k] \in Seq(Range(events)) /\ Known \in Seq(Range(events))
<1> DEFINE N == Len(events)
           S == Seq(Range(events))
<1>1. K \in [0 .. N -> S] /\ K[N] = Known
  BY DEF IsKnown, KnownTrace
<1>2. N \in 0 .. N /\ k \in 0 .. N
  OBVIOUS
<1> HIDE DEF N, S
<1>3. K[k] \in S /\ K[N] \in S
  BY <1>1, <1>2
<1>4. Known \in S
  BY <1>1, <1>3
<1> QED
  BY <1>3, <1>4 DEF S

\* The time of the next known event is restored.
LEMMA NextTime ==
    ASSUME RecordsInv, TimesInv, NEW K, IsKnown(K), NEW k \in 0 .. Len(events) - 1,
           IsKnownOpcode(events[k + 1].request.type), InTime, Found(K[k])
    PROVE  Restored(events[k + 1].time) = events[k + 1].time
<1> DEFINE e == events[k + 1]
           N == Len(events)
           list == K[k]
           n == Len(list)
           last == LastTime(list)
<1>1. N \in Nat /\ events \in Seq(Range(events)) /\ k \in 0 .. N /\ k + 1 \in 1 .. N
      /\ k + 1 \in 0 .. N /\ (k + 1) - 1 = k
  BY DEF RecordsInv, History
<1>2. /\ list \in Seq(Range(events)) /\ n \in Nat
      /\ K[k + 1] = Append(list, e) /\ K[N] = Known
  <2>1. list \in Seq(Range(events))
    BY <1>1 DEF IsKnown, KnownTrace
  <2>2. K[N] = Known
    BY DEF IsKnown
  <2>3. K[k + 1] = Append(list, e)
    <3> DEFINE m == k + 1
    <3>1. m \in 1 .. N /\ m - 1 = k
      BY <1>1
    <3> HIDE DEF m, N
    <3>2. K[m] = Append(K[m - 1], events[m])
      BY <3>1 DEF IsKnown, KnownTrace, N, m
    <3> QED
      BY <3>1, <3>2 DEF m
  <2> HIDE DEF list
  <2> QED
    BY <2>1, <2>2, <2>3
<1>3. Grows(K, events, 0, k) /\ Grows(K, events, k, N) /\ Grows(K, events, k + 1, N)
  BY <1>1, KnownGrows DEF IsKnown
<1>4. Len(K[k + 1]) = n + 1 /\ K[k + 1][n + 1] = e
  <2>1. e \in Range(events)
    BY <1>1 DEF Range
  <2> HIDE DEF e, list
  <2> QED
    BY <1>2, <2>1 DEF n
<1>5. /\ n + 1 \in 1 .. Len(Known) /\ Known[n + 1] = e
      /\ n # 0 => Known[n] = list[n]
  <2>1. n + 1 <= Len(Known) /\ Len(Known) \in Nat
    <3>1. Known \in Seq(Range(events))
      <4> HIDE DEF list, e, N
      <4> QED
        BY <1>1, KnownAreEvents DEF N
    <3> QED
      BY <1>2, <1>3, <1>4, <3>1 DEF Grows
  <2>2. n + 1 \in 1 .. Len(K[k + 1])
    BY <1>2, <1>4
  <2>3. K[N][n + 1] = K[k + 1][n + 1]
    BY <1>3, <2>2 DEF Grows
  <2>4. ASSUME n # 0 PROVE K[N][n] = list[n]
    <3>1. n \in 1 .. Len(list)
      BY <1>2, <2>4
    <3> QED
      BY <1>3, <3>1 DEF Grows
  <2> HIDE DEF n, e, list
  <2> QED
    BY <1>2, <1>4, <2>1, <2>3, <2>4
<1>6. K[0] = <<>> /\ Len(K[0]) = 0
  BY DEF IsKnown, KnownTrace
<1>7. last \in Nat /\ last <= e.time /\ e.time \in Nat
  <2>1. e.time \in Nat /\ beginTimestamp <= e.time /\ beginTimestamp \in Nat
    BY <1>1 DEF TimesInv, RecordsInv, WriterIInv, WriterTypeOK
  <2>2. CASE n = 0
    BY <2>1, <2>2 DEF LastTime
  <2>3. CASE n # 0
    <3>1. n \in Len(K[0]) + 1 .. Len(K[k])
      BY <1>2, <1>6, <2>3
    <3>2. PICK j \in 0 + 1 .. k : K[k][n] = events[j]
      BY <1>3, <3>1 DEF Grows
    <3>3. j \in 1 .. k + 1 /\ j \in 1 .. N
      BY <1>1
    <3>4. events[j].time \in Nat /\ events[j].time <= e.time
      BY <1>1, <3>3 DEF TimesInv
    <3>5. last = events[j].time
      BY <2>3, <3>2 DEF LastTime
    <3> HIDE DEF last, e
    <3> QED
      BY <2>1, <3>4, <3>5
  <2> QED
    BY <2>2, <2>3
<1>8. e.time - last < TimeModulus
  <2>1. e.time - (IF n + 1 = 1 THEN beginTimestamp ELSE Known[(n + 1) - 1].time) < TimeModulus
    <3> HIDE DEF n, e
    <3> QED
      BY <1>5 DEF InTime
  <2>2. CASE n = 0
    BY <2>1, <2>2 DEF LastTime
  <2>3. CASE n # 0
    <3>1. n + 1 # 1 /\ (n + 1) - 1 = n /\ last = list[n].time /\ Known[n] = list[n]
      BY <1>2, <1>5, <2>3 DEF LastTime
    <3> HIDE DEF n, e, last, list
    <3> QED
      BY <2>1, <3>1
  <2> QED
    BY <2>2, <2>3
<1>9. previousTimestamp = last /\ maskedTimeBits = last - (last % TimeModulus)
  BY DEF Found
<1>10. TimeModulus \in Nat \ {0}
  BY FormatAssumption
<1> HIDE DEF last, e
<1>11. LET s == (last - (last % TimeModulus)) + (e.time % TimeModulus)
       IN  e.time = IF s < last THEN s + TimeModulus ELSE s
  BY <1>7, <1>8, <1>10, TimeRestored
<1>12. Restored(e.time) = e.time
  BY <1>9, <1>11, Zenon DEF Restored
<1> QED
  BY <1>12 DEF e
(* The decoder stands at the next record, or at the end marker behind the   *)
(* last one.                                                                *)
LEMMA ReaderPlace ==
    ASSUME RecordsInv, FlushedInv, flushed, NEW K, NEW k, Reached(K, k)
    PROVE  /\ k < Len(events) => /\ currentPosition = events[k + 1].start
                                 /\ ~Parser!Finished /\ currentPosition < destination
           /\ k = Len(events) => Parser!Finished /\ currentPosition = destination
<1>1. Len(events) \in Nat /\ k \in 0 .. Len(events) /\ events \in Seq(Range(events))
      /\ currentPosition = IF k = 0 THEN 0 ELSE EndOf(events[k])
  BY DEF RecordsInv, History, Reached
<1>2. destination \in Nat \ {0} /\ memory[destination] = Marker
  <2>1. destination \in Nat \ {0} /\ pc # "mark"
    BY DEF FlushedInv
  <2>2. NoDestination # destination
    BY <2>1, BlockAssumption
  <2> QED
    BY <2>1, <2>2 DEF RecordsInv, WriterIInv, Ended
<1>3. ASSUME k < Len(events)
      PROVE  currentPosition = events[k + 1].start /\ ~Parser!Finished
             /\ currentPosition < destination
  <2> DEFINE i == k + 1
             e == events[i]
  <2>1. i \in 1 .. Len(events) /\ i - 1 = k /\ (i = 1 <=> k = 0)
    BY <1>1, <1>3
  <2> HIDE DEF i
  <2>2. e.start = IF i = 1 THEN 0 ELSE EndOf(events[i - 1])
    BY <2>1 DEF RecordsInv, History
  <2>3. Readable(e)
    BY <2>1, RecordsReadable
  <2>4. currentPosition = e.start
    BY <1>1, <2>1, <2>2
  <2>5. ~Parser!AtEnd(memory, e.start, BlockQwords)
    BY <2>3, HeaderRead
  <2>6. e.start \in Nat /\ e.size \in Nat \ {0} /\ e.start + e.size <= destination
    BY <2>3 DEF Readable, IsRecord, EndOf
  <2> HIDE DEF e
  <2>7. ~Parser!Finished
    BY <2>4, <2>5 DEF Parser!Finished
  <2> QED
    BY <1>2, <2>4, <2>6, <2>7 DEF e, i
<1>4. ASSUME k = Len(events) PROVE Parser!Finished /\ currentPosition = destination
  <2>1. events # <<>>
    <3> SUFFICES ASSUME events = <<>> PROVE FALSE
      OBVIOUS
    <3>1. destination \in {0, NoDestination}
      BY DEF RecordsInv, History
    <3> QED
      BY <1>2, <3>1, BlockAssumption
  <2>2. destination = EndOf(events[Len(events)])
    BY <2>1 DEF RecordsInv, History
  <2>3. k # 0
    BY <1>1, <1>4, <2>1
  <2>4. currentPosition = destination
    BY <1>1, <1>4, <2>2, <2>3
  <2> QED
    BY <1>2, <2>4 DEF Parser!Finished, Parser!AtEnd, Parser!Marker, Marker
<1> QED
  BY <1>3, <1>4

(* A turn of the loop reads the next event.                                 *)
LEMMA ReadGoesOn ==
    ASSUME RecordsInv, TimesInv, FlushedInv, flushed, SizesKnown,
           NEW K, IsKnown(K), NEW k, Reached(K, k), Read
    PROVE  k < Len(events) /\ Reached(K, k + 1)'
<1> DEFINE e == events[k + 1]
           list == K[k]
           N == Len(events)
<1>1. /\ events \in Seq(Range(events)) /\ N \in Nat /\ k \in 0 .. N
      /\ (\E S : decoded \in Seq(S)) /\ Len(decoded) = Len(list)
      /\ InTime => Found(list)
      /\ AllRight(list)
  BY DEF RecordsInv, History, Reached
<1>2. UNCHANGED <<memory, destination, beginTimestamp, events>>
  BY DEF Read, writerVars, blockVars
<1>3. ~Parser!Finished
  BY DEF Read, Parser!ProcessEvents, Parser!SkipUnknown, Parser!EndEvent, Parser!NamedEvent,
         Parser!LegacyNamedEvent, Parser!LongEvent, Parser!AtHeader, Parser!Finished
<1>4. k < N /\ currentPosition = e.start
  <2>1. k # N
    BY <1>3, ReaderPlace
  <2>2. k < N
    BY <1>1, <2>1
  <2> QED
    BY <2>2, ReaderPlace
<1>5. k + 1 \in 1 .. N /\ k \in 0 .. N - 1 /\ k + 1 # 0
  BY <1>1, <1>4
<1>6. Readable(e) /\ SizeKnown(e)
  BY <1>5, RecordsReadable DEF SizesKnown
<1>7. Turn(e)
  BY <1>4, <1>6, TurnOfTheLoop DEF Read
<1>8. currentPosition' = IF k + 1 = 0 THEN 0 ELSE EndOf(events'[k + 1])
  BY <1>2, <1>5, <1>7 DEF Turn
<1>9. list \in Seq(Range(events)) /\ Len(list) \in Nat
  <2>1. list \in Seq(Range(events))
    BY <1>1 DEF IsKnown, KnownTrace
  <2> QED
    BY <2>1
<1>10. K[k + 1] = IF IsKnownOpcode(e.request.type) THEN Append(list, e) ELSE list
  <2> DEFINE m == k + 1
  <2>1. m \in 1 .. N /\ m - 1 = k
    BY <1>1, <1>5
  <2> HIDE DEF m, N
  <2>2. K[m] = IF IsKnownOpcode(events[m].request.type) THEN Append(K[m - 1], events[m])
                                                        ELSE K[m - 1]
    BY <2>1 DEF IsKnown, KnownTrace, N
  <2> QED
    BY <2>1, <2>2 DEF m
<1>11. InTime' = InTime
  BY <1>2 DEF InTime, Known
<1> DEFINE next == K[k + 1]
<1>12. /\ (\E S : decoded' \in Seq(S)) /\ Len(decoded') = Len(next) /\ (InTime => Found(next)')
       /\ AllRight(next)'
  <2>1. CASE ~IsKnownOpcode(e.request.type)
    <3>1. next = list /\ UNCHANGED <<decoded, previousTimestamp, maskedTimeBits>>
      BY <1>7, <1>10, <2>1 DEF Turn
    <3>2. ASSUME InTime PROVE Found(list)'
      <4>1. Found(list)
        BY <1>1, <3>2
      <4> HIDE DEF list, e
      <4> QED
        BY <1>2, <3>1, <4>1 DEF Found, LastTime, Matches
    <3>3. AllRight(list)'
      <4> HIDE DEF list
      <4> QED
        BY <1>1, <3>1 DEF AllRight
    <3> HIDE DEF next, list
    <3> QED
      BY <1>1, <3>1, <3>2, <3>3
  <2>2. CASE IsKnownOpcode(e.request.type)
    <3>1. PICK d : /\ decoded' = Append(decoded, d)
                   /\ d.type = e.request.type /\ d.time = Restored(e.time)
                   /\ d.color = ColorOf(e) /\ d.context = ContextOf(e)
                   /\ d.name = NameIn(e, e.size)
                   /\ ArgumentsRight(d.arguments, e, e.size - 1)
      BY <1>7, <2>2 DEF Turn
    <3>2. /\ previousTimestamp' = Restored(e.time)
          /\ maskedTimeBits' = Restored(e.time) - (e.time % TimeModulus)
      BY <1>7, <2>2 DEF Turn
    <3>3. PICK S : decoded \in Seq(S)
      BY <1>1
    <3> DEFINE n == Len(list)
    <3>4. /\ decoded' \in Seq(S \cup {d}) /\ Len(decoded') = n + 1
          /\ decoded'[n + 1] = d /\ \A i \in 1 .. n : decoded'[i] = decoded[i]
      <4>1. decoded \in Seq(S \cup {d}) /\ d \in S \cup {d}
        BY <3>3
      <4> HIDE DEF list
      <4> QED
        BY <1>1, <3>1, <4>1
    <3>5. /\ next = Append(list, e) /\ Len(next) = n + 1
          /\ next[n + 1] = e /\ \A i \in 1 .. n : next[i] = list[i]
      <4>1. e \in Range(events)
        BY <1>1, <1>5 DEF Range
      <4>2. next = Append(list, e)
        BY <1>10, <2>2
      <4> HIDE DEF list, e, next
      <4> QED
        BY <1>9, <4>1, <4>2
    <3>6. ASSUME InTime PROVE Found(next)'
      <4>1. Found(list)
        BY <1>1, <3>6
      <4>2. Restored(e.time) = e.time
        BY <1>5, <2>2, <3>6, <4>1, NextTime
      <4> HIDE DEF e, list, next
      <4>3. Matches(d, e)
        BY <3>1, <4>2 DEF Matches
      <4>4. ASSUME NEW i \in 1 .. n + 1 PROVE Matches(decoded'[i], next[i])
        <5>1. CASE i = n + 1
          <6>1. decoded'[i] = d /\ next[i] = e
            BY <3>4, <3>5, <5>1
          <6> QED
            BY <4>3, <6>1
        <5>2. CASE i # n + 1
          <6>1. i \in 1 .. n
            BY <1>9, <5>2
          <6>2. Matches(decoded[i], list[i])
            BY <4>1, <6>1 DEF Found
          <6> QED
            BY <3>4, <3>5, <6>1, <6>2
        <5> QED
          BY <5>1, <5>2
      <4>5. LastTime(next)' = e.time
        <5>1. Len(next) # 0
          BY <1>9, <3>5
        <5> QED
          BY <3>5, <5>1 DEF LastTime
      <4>6. previousTimestamp' = LastTime(next)'
            /\ maskedTimeBits' = previousTimestamp' - (previousTimestamp' % TimeModulus)
        BY <3>2, <4>2, <4>5
      <4>7. \A i \in 1 .. Len(next) : Matches(decoded'[i], next[i])
        BY <3>5, <4>4
      <4> HIDE DEF n
      <4> QED
        BY <4>6, <4>7 DEF Found, Matches
    <3>7. AllRight(next)'
      <4> HIDE DEF e, list, next
      <4> SUFFICES ASSUME NEW i \in 1 .. n + 1
                   PROVE  ArgumentsRight(decoded'[i].arguments, next[i], next[i].size - 1)
        BY <3>5 DEF AllRight
      <4>1. CASE i = n + 1
        <5>1. decoded'[i] = d /\ next[i] = e
          BY <3>4, <3>5, <4>1
        <5> QED
          BY <3>1, <5>1
      <4>2. CASE i # n + 1
        <5>1. i \in 1 .. n
          BY <1>9, <4>2
        <5>2. ArgumentsRight(decoded[i].arguments, list[i], list[i].size - 1)
          BY <1>1, <5>1 DEF AllRight
        <5>3. decoded'[i] = decoded[i] /\ next[i] = list[i]
          BY <3>4, <3>5, <5>1
        <5> QED
          BY <5>2, <5>3
      <4> QED
        BY <4>1, <4>2
    <3> HIDE DEF next, n
    <3> QED
      BY <3>4, <3>5, <3>6, <3>7
  <2> QED
    BY <2>1, <2>2
<1> HIDE DEF next, e, list
<1>13. k + 1 \in 0 .. Len(events')
  BY <1>1, <1>2, <1>5
<1>14. /\ Len(decoded') = Len(K[k + 1]) /\ (InTime' => Found(K[k + 1])')
       /\ AllRight(K[k + 1])'
  BY <1>11, <1>12 DEF next
<1> QED
  BY <1>4, <1>8, <1>12, <1>13, <1>14 DEF Reached
-----------------------------------------------------------------------------
(* What the proof is by: the records of the block, their times, the moment  *)
(* the block was taken, and how far the decoder has come.                   *)
DecoderInv == RecordsInv /\ TimesInv /\ FlushedInv /\ ReaderInv

LEMMA DecoderInitially == RoundTripInit => DecoderInv
<1> SUFFICES ASSUME RoundTripInit PROVE DecoderInv
  OBVIOUS
<1>1. RecordsInv
  BY RecordsInitially
<1>2. /\ events = <<>> /\ beginTimestamp = 0 /\ clock = 0 /\ pc = "idle" /\ flushed = FALSE
      /\ currentPosition = 0 /\ decoded = <<>>
  BY DEF RoundTripInit, Init
<1>3. TimesInv
  BY <1>2 DEF TimesInv
<1>4. FlushedInv
  BY <1>2 DEF FlushedInv
<1>5. ReaderInv
  BY <1>2 DEF ReaderInv
<1> QED
  BY <1>1, <1>3, <1>4, <1>5 DEF DecoderInv

LEMMA DecoderStep == DecoderInv /\ [EndedNext]_vars => DecoderInv'
<1> SUFFICES ASSUME DecoderInv, [EndedNext]_vars PROVE DecoderInv'
  OBVIOUS
<1>1. RecordsInv /\ TimesInv /\ FlushedInv /\ ReaderInv
  BY DEF DecoderInv
<1>2. [Next]_vars
  BY DEF EndedNext
<1>3. RecordsInv' /\ TimesInv' /\ FlushedInv'
  BY <1>1, <1>2, RecordsStep, TimesStep, FlushedStep
<1>4. ReaderInv'
  <2>1. CASE Write \/ \E r \in OldRequests : OldEvent(r)
    <3>1. ~flushed'
      BY <2>1 DEF Write, OldEvent, readerVars
    <3> QED
      BY <3>1 DEF ReaderInv
  <2>2. CASE FlushBlock
    <3>1. /\ events' = events /\ currentPosition' = 0 /\ decoded' = <<>>
          /\ beginTimestamp' = beginTimestamp
          /\ previousTimestamp' = beginTimestamp
          /\ maskedTimeBits' = beginTimestamp - (beginTimestamp % TimeModulus)
      BY <2>2 DEF FlushBlock, Parser!ParserStarts, writerVars, blockVars
    <3>2. events \in Seq(Range(events))
      BY <1>1 DEF RecordsInv, History
    <3>3. PICK K : KnownTrace(K, events) /\ K[Len(events)] = Known
      BY <3>2, KnownFollows DEF Known
    <3>4. IsKnown(K)'
      BY <3>1, <3>3 DEF IsKnown, Known
    <3>5. Len(events) \in Nat /\ K[0] = <<>>
      BY <3>2, <3>3 DEF KnownTrace
    <3>6. Found(K[0])' /\ AllRight(K[0])'
      BY <3>1, <3>5 DEF Found, LastTime, AllRight
    <3>7. Reached(K, 0)'
      <4>1. <<>> \in Seq({}) /\ Len(<<>>) = 0
        OBVIOUS
      <4> QED
        BY <3>1, <3>5, <3>6, <4>1 DEF Reached
    <3> QED
      BY <3>4, <3>7 DEF ReaderInv
  <2>3. CASE Read
    <3>1. /\ flushed /\ events' = events
      BY <2>3 DEF Read, writerVars
    <3> SUFFICES ASSUME SizesKnown' PROVE ReaderInv'
      BY DEF ReaderInv
    <3>2. SizesKnown
      BY <3>1 DEF SizesKnown
    <3>3. PICK K, k : IsKnown(K) /\ Reached(K, k)
      BY <1>1, <3>1, <3>2 DEF ReaderInv
    <3>4. Reached(K, k + 1)'
      BY <1>1, <2>3, <3>1, <3>2, <3>3, ReadGoesOn
    <3>5. IsKnown(K)'
      BY <3>1, <3>3 DEF IsKnown, Known
    <3> QED
      BY <3>4, <3>5 DEF ReaderInv
  <2>4. CASE UNCHANGED vars
    <3>1. UNCHANGED <<events, beginTimestamp, readerVars>>
      BY <2>4 DEF vars, writerVars, blockVars
    <3>2. UNCHANGED <<flushed, currentPosition, maskedTimeBits, previousTimestamp, decoded>>
      BY <3>1 DEF readerVars
    <3> SUFFICES ASSUME flushed', SizesKnown' PROVE \E K, k : IsKnown(K)' /\ Reached(K, k)'
      BY DEF ReaderInv
    <3>3. PICK K, k : IsKnown(K) /\ Reached(K, k)
      BY <1>1, <3>1, <3>2 DEF ReaderInv, SizesKnown
    <3>4. IsKnown(K)' /\ InTime' = InTime
      BY <3>1, <3>3 DEF IsKnown, Known, InTime
    <3>5. Found(K[k])' = Found(K[k]) /\ AllRight(K[k])' = AllRight(K[k])
      BY <3>1, <3>2 DEF Found, LastTime, Matches, AllRight
    <3>6. Reached(K, k)'
      BY <3>1, <3>2, <3>3, <3>4, <3>5 DEF Reached
    <3> QED
      BY <3>4, <3>6
  <2> QED
    BY <2>1, <2>2, <2>3, <2>4 DEF EndedNext, Next
<1> QED
  BY <1>3, <1>4 DEF DecoderInv

LEMMA DecoderInvariant == EndedSpec => []DecoderInv
BY DecoderInitially, DecoderStep, PTL DEF EndedSpec
-----------------------------------------------------------------------------
\* Each record begins behind those before it.
LEMMA RecordsAscend ==
    ASSUME RecordsInv, NEW j \in 1 .. Len(events), NEW i \in 1 .. j - 1
    PROVE  EndOf(events[i]) <= events[j].start
<1> DEFINE N == Len(events)
           T == {n \in 0 .. N : \A m \in 1 .. n : \A l \in 1 .. m - 1 :
                                   EndOf(events[l]) <= events[m].start}
<1>1. N \in Nat
  BY DEF RecordsInv, History
<1>2. ASSUME NEW m \in 1 .. N
      PROVE  /\ events[m].start \in Nat /\ EndOf(events[m]) \in Nat
             /\ events[m].start < EndOf(events[m])
             /\ m # 1 => events[m].start = EndOf(events[m - 1])
  <2>1. /\ IsRecord(memory, destination, events[m])
        /\ events[m].start = IF m = 1 THEN 0 ELSE EndOf(events[m - 1])
    BY DEF RecordsInv, History
  <2>2. events[m].start \in Nat /\ events[m].size \in Nat \ {0}
    BY <2>1 DEF IsRecord
  <2> QED
    BY <2>1, <2>2 DEF EndOf
<1>3. 0 \in T
  BY <1>1
<1>4. ASSUME NEW n \in 0 .. N - 1, n \in T PROVE n + 1 \in T
  <2> DEFINE o == n + 1
  <2>1. o \in 1 .. N /\ o \in 0 .. N /\ o - 1 = n
    BY <1>1
  <2>2. ASSUME NEW l \in 1 .. n PROVE EndOf(events[l]) <= events[o].start
    <3>1. n \in 1 .. N /\ l \in 1 .. N /\ o # 1
      BY <1>1, <2>1
    <3>2. events[o].start = EndOf(events[n])
      <4> HIDE DEF o
      <4> QED
        BY <1>2, <2>1, <3>1
    <3>3. CASE l = n
      BY <1>2, <3>1, <3>2, <3>3
    <3>4. CASE l # n
      <4>1. n \in 1 .. n /\ l \in 1 .. n - 1
        BY <3>1, <3>4
      <4>2. EndOf(events[l]) <= events[n].start
        BY <1>4, <4>1
      <4> QED
        BY <1>2, <3>1, <3>2, <4>2
    <3> QED
      BY <3>3, <3>4
  <2>3. \A m \in 1 .. n : \A l \in 1 .. m - 1 : EndOf(events[l]) <= events[m].start
    BY <1>4
  <2>4. \A m \in 1 .. o : m \in 1 .. n \/ m = o
    BY <2>1
  <2> HIDE DEF o, N
  <2> QED
    BY <2>1, <2>2, <2>3, <2>4
<1> HIDE DEF T
<1>5. \A n \in 0 .. N : n \in T
  <2> HIDE DEF N
  <2> QED
    BY <1>1, <1>3, <1>4, Induction
<1>6. j \in 0 .. N /\ j \in 1 .. j
  BY <1>1
<1>7. j \in T
  BY <1>5, <1>6
<1> QED
  BY <1>6, <1>7 DEF T

(* The events that were found are those in front of the decoder's place.    *)
LEMMA ReaderInStep == DecoderInv /\ SizesKnown => InStep
<1> SUFFICES ASSUME DecoderInv, SizesKnown, flushed
             PROVE  /\ \/ currentPosition = destination
                       \/ \E i \in DOMAIN events : currentPosition = events[i].start
                    /\ Parser!Finished <=> currentPosition = destination
                    /\ Len(decoded) <= Len(Known)
                    /\ \A i \in DOMAIN Known :
                          i <= Len(decoded) <=> Known[i].start < currentPosition
  BY DEF InStep
<1> DEFINE N == Len(events)
<1>1. RecordsInv /\ FlushedInv /\ N \in Nat /\ events \in Seq(Range(events))
      /\ DOMAIN events = 1 .. N
  BY DEF DecoderInv, RecordsInv, History
<1>2. PICK K, k : IsKnown(K) /\ Reached(K, k)
  BY DEF DecoderInv, ReaderInv
<1>3. k \in 0 .. N /\ Len(decoded) = Len(K[k])
      /\ currentPosition = IF k = 0 THEN 0 ELSE EndOf(events[k])
  BY <1>2 DEF Reached
<1>4. /\ k < N => /\ currentPosition = events[k + 1].start
                 /\ ~Parser!Finished /\ currentPosition < destination
      /\ k = N => Parser!Finished /\ currentPosition = destination
  BY <1>1, <1>2, ReaderPlace
<1>5. ASSUME NEW j \in 1 .. N
      PROVE  /\ events[j].start \in Nat /\ EndOf(events[j]) \in Nat
             /\ events[j].start < EndOf(events[j])
  <2>1. IsRecord(memory, destination, events[j])
    BY <1>1 DEF RecordsInv, History
  <2>2. events[j].start \in Nat /\ events[j].size \in Nat \ {0}
    BY <2>1 DEF IsRecord
  <2> QED
    BY <2>2 DEF EndOf
<1>6. currentPosition \in Nat
  <2>1. k # 0 => k \in 1 .. N
    BY <1>3
  <2> QED
    BY <1>3, <1>5, <2>1
<1>7. destination \in Nat
  BY <1>1 DEF FlushedInv
<1> HIDE DEF N
<1>8. k # N => k < N /\ k + 1 \in 1 .. N
  BY <1>1, <1>3
<1>9. /\ \/ currentPosition = destination
         \/ \E i \in DOMAIN events : currentPosition = events[i].start
      /\ Parser!Finished <=> currentPosition = destination
  <2>1. CASE k = N
    BY <1>4, <2>1
  <2>2. CASE k # N
    <3>1. k + 1 \in DOMAIN events /\ currentPosition = events[k + 1].start
      BY <1>1, <1>4, <1>8, <2>2
    <3>2. ~Parser!Finished /\ currentPosition # destination
      <4>1. currentPosition < destination /\ ~Parser!Finished
        BY <1>4, <1>8, <2>2
      <4> QED
        BY <1>6, <1>7, <4>1
    <3> QED
      BY <3>1, <3>2
  <2> QED
    BY <2>1, <2>2
<1>10. Grows(K, events, k, N) /\ Grows(K, events, 0, k) /\ Len(K[0]) = 0 /\ K[N] = Known
  <2>1. KnownTrace(K, events) /\ K[N] = Known
    BY <1>2 DEF IsKnown, N
  <2>2. K[0] = <<>> /\ N \in 0 .. N /\ k \in 0 .. N /\ 0 \in 0 .. k
    BY <1>1, <1>3, <2>1 DEF KnownTrace
  <2>3. Grows(K, events, k, N)
    BY <1>1, <1>3, <2>1, <2>2, KnownGrows
  <2>4. Grows(K, events, 0, k)
    BY <1>1, <2>1, <2>2, KnownGrows
  <2> QED
    BY <2>1, <2>2, <2>3, <2>4
<1>11. Known \in Seq(Range(events)) /\ DOMAIN Known = 1 .. Len(Known) /\ Len(Known) \in Nat
       /\ Len(K[k]) \in Nat
  <2>2. Known \in Seq(Range(events)) /\ K[k] \in Seq(Range(events))
    BY <1>1, <1>2, <1>3, KnownAreEvents DEF N
  <2> HIDE DEF N
  <2> QED
    BY <2>2
<1>12. Len(decoded) <= Len(Known)
  BY <1>3, <1>10 DEF Grows
<1>13. ASSUME NEW i \in 1 .. Len(Known)
       PROVE  i <= Len(decoded) <=> Known[i].start < currentPosition
  <2>1. CASE i <= Len(decoded)
    <3>1. i \in 1 .. Len(K[k]) /\ i \in Len(K[0]) + 1 .. Len(K[k])
      BY <1>3, <1>10, <1>11, <2>1
    <3>2. PICK j \in 0 + 1 .. k : K[k][i] = events[j]
      BY <1>10, <3>1 DEF Grows
    <3>3. Known[i] = events[j]
      BY <1>10, <3>1, <3>2 DEF Grows
    <3>4. j \in 1 .. N /\ k \in 1 .. N /\ k # 0
      BY <1>1, <1>3
    <3>5. EndOf(events[j]) <= EndOf(events[k])
      <4>1. CASE j = k
        BY <1>5, <3>4, <4>1
      <4>2. CASE j # k
        <5>1. j \in 1 .. k - 1
          BY <3>4, <4>2
        <5>2. EndOf(events[j]) <= events[k].start
          BY <1>1, <3>4, <5>1, RecordsAscend DEF N
        <5> QED
          BY <1>5, <3>4, <5>2
      <4> QED
        BY <4>1, <4>2
    <3>6. currentPosition = EndOf(events[k])
      BY <1>3, <3>4
    <3>7. events[j].start < currentPosition
      BY <1>5, <3>4, <3>5, <3>6
    <3> QED
      BY <2>1, <3>3, <3>7
  <2>2. CASE ~(i <= Len(decoded))
    <3>1. i \in Len(K[k]) + 1 .. Len(Known)
      BY <1>3, <1>11, <2>2
    <3>2. PICK j \in k + 1 .. N : Known[i] = events[j]
      BY <1>10, <3>1 DEF Grows
    <3>3. j \in 1 .. N
      BY <1>1, <1>3
    <3>4. currentPosition <= events[j].start
      <4>1. CASE k = 0
        BY <1>3, <1>5, <3>3, <4>1
      <4>2. CASE k # 0
        <5>1. k \in 1 .. j - 1 /\ currentPosition = EndOf(events[k])
          BY <1>1, <1>3, <4>2
        <5> QED
          BY <1>1, <3>3, <5>1, RecordsAscend DEF N
      <4> QED
        BY <4>1, <4>2
    <3>5. ~(events[j].start < currentPosition)
      BY <1>5, <1>6, <3>3, <3>4
    <3> QED
      BY <2>2, <3>2, <3>5
  <2> QED
    BY <2>1, <2>2
<1> QED
  BY <1>9, <1>11, <1>12, <1>13
-----------------------------------------------------------------------------
(* The events that were found are the first ones, each as it was written.   *)
LEMMA ReaderFinds == DecoderInv /\ SizesKnown /\ InTime => DecodedAsWritten
<1> SUFFICES ASSUME DecoderInv, SizesKnown, InTime, NEW i \in DOMAIN decoded
             PROVE  i <= Len(Known) /\ Matches(decoded[i], Known[i])
  BY DEF DecodedAsWritten, Matches
<1>1. flushed
  BY DEF DecoderInv, FlushedInv
<1>2. PICK K, k : IsKnown(K) /\ Reached(K, k)
  BY <1>1 DEF DecoderInv, ReaderInv
<1>3. k \in 0 .. Len(events) /\ Len(events) \in Nat /\ events \in Seq(Range(events))
  BY <1>2 DEF Reached, DecoderInv, RecordsInv, History
<1>4. Len(decoded) = Len(K[k]) /\ i \in 1 .. Len(K[k]) /\ Found(K[k])
  BY <1>2 DEF Reached
<1>5. Len(events) \in 0 .. Len(events) /\ k \in 0 .. Len(events)
      /\ KnownTrace(K, events) /\ K[Len(events)] = Known
  BY <1>2, <1>3 DEF IsKnown
<1>6. Grows(K, events, k, Len(events))
  BY <1>3, <1>5, KnownGrows
<1>7. Known[i] = K[k][i]
  BY <1>4, <1>5, <1>6 DEF Grows
<1>8. i <= Len(Known)
  <2>1. Known \in Seq(Range(events)) /\ K[k] \in Seq(Range(events))
    BY <1>2, <1>3, KnownAreEvents
  <2>2. Len(K[k]) <= Len(Known)
    BY <1>5, <1>6 DEF Grows
  <2>3. Len(Known) \in Nat /\ Len(K[k]) \in Nat
    BY <2>1
  <2> QED
    BY <1>4, <2>2, <2>3
<1>9. Matches(decoded[i], K[k][i])
  BY <1>4 DEF Found
<1> QED
  BY <1>7, <1>8, <1>9

(* Their arguments are right, whatever their times are: the whole of them   *)
(* where the record is whole, parts of them where it is cut.                *)
LEMMA ReaderFindsArguments ==
    ASSUME DecoderInv, SizesKnown, NEW i \in DOMAIN decoded
    PROVE  /\ ArgumentsRight(decoded[i].arguments, Known[i], Known[i].size - 1)
           /\ Readable(Known[i])
<1>1. flushed /\ RecordsInv /\ FlushedInv
  BY DEF DecoderInv, FlushedInv
<1>2. PICK K, k : IsKnown(K) /\ Reached(K, k)
  BY <1>1 DEF DecoderInv, ReaderInv
<1> DEFINE N == Len(events)
<1>3. k \in 0 .. N /\ N \in Nat /\ events \in Seq(Range(events))
  BY <1>2 DEF Reached, DecoderInv, RecordsInv, History
<1>4. Len(decoded) = Len(K[k]) /\ i \in 1 .. Len(K[k]) /\ AllRight(K[k])
  BY <1>2 DEF Reached
<1>5. N \in 0 .. N /\ k \in 0 .. N /\ 0 \in 0 .. k
      /\ KnownTrace(K, events) /\ K[N] = Known /\ K[0] = <<>> /\ Len(K[0]) = 0
  BY <1>2, <1>3 DEF IsKnown, KnownTrace
<1>6. Grows(K, events, k, N) /\ Grows(K, events, 0, k)
  BY <1>3, <1>5, KnownGrows
<1>7. Known[i] = K[k][i]
  BY <1>4, <1>5, <1>6 DEF Grows
<1>8. PICK j \in 0 + 1 .. k : K[k][i] = events[j]
  <2>1. i \in Len(K[0]) + 1 .. Len(K[k])
    BY <1>4, <1>5
  <2> QED
    BY <1>6, <2>1 DEF Grows
<1>9. j \in 1 .. N
  BY <1>3
<1>10. Readable(events[j])
  BY <1>1, <1>9, RecordsReadable
<1>11. ArgumentsRight(decoded[i].arguments, K[k][i], K[k][i].size - 1)
  BY <1>4 DEF AllRight
<1> QED
  BY <1>7, <1>8, <1>10, <1>11

LEMMA ReaderFindsAll == DecoderInv /\ SizesKnown => ArgumentsAsPassed
<1> SUFFICES ASSUME DecoderInv, SizesKnown, NEW i \in DOMAIN decoded,
                    SpecifiersFit(Known[i].request), ~HasNull(Known[i]), ~Cut(Known[i])
             PROVE  decoded[i].arguments = Formatted(Known[i])
  BY DEF ArgumentsAsPassed
<1> DEFINE e == Known[i]
<1>1. ArgumentsRight(decoded[i].arguments, e, e.size - 1) /\ Readable(e)
  BY ReaderFindsArguments
<1> HIDE DEF e
<1>2. e.size - 1 = Len(Layout(e))
  <2>1. ~Cut(e)
    BY DEF e
  <2>2. e.size = Len(Layout(e)) + 1 /\ Len(Layout(e)) \in Nat
    BY <1>1, <2>1, SizeOf
  <2> QED
    BY <2>2
<1> QED
  BY <1>1, <1>2 DEF ArgumentsRight, e

LEMMA ReaderFindsParts == DecoderInv /\ SizesKnown => CutIsPrefix
<1> SUFFICES ASSUME DecoderInv, SizesKnown, NEW i \in DOMAIN decoded,
                    SpecifiersFit(Known[i].request), ~HasNull(Known[i]), Cut(Known[i]),
                    ~EndsAtInfo(Known[i], Known[i].size - 1)
             PROVE  \A j \in DOMAIN decoded[i].arguments :
                       IsPartOf(decoded[i].arguments[j], Known[i], j)
  BY DEF CutIsPrefix
<1> DEFINE e == Known[i]
<1>1. ArgumentsRight(decoded[i].arguments, e, e.size - 1) /\ Readable(e)
  BY ReaderFindsArguments
<1> HIDE DEF e
<1>2. e.size - 1 # Len(Layout(e))
  <2>1. Cut(e)
    BY DEF e
  <2>2. e.size <= Len(Layout(e)) /\ Len(Layout(e)) \in Nat /\ e.size \in Nat
    BY <1>1, <2>1, SizeOf DEF Cut
  <2> QED
    BY <2>2
<1> QED
  BY <1>1, <1>2 DEF ArgumentsRight, IsReadOf, e
-----------------------------------------------------------------------------
\* An entry for an event.
EntryOf(e, hasContext) ==
    [type |-> e.request.type, time |-> e.time, hasContext |-> hasContext]

\* The entries of an event, one for each timeline that it is on.
EntriesFor(e, ignoreEventContexts, gpuOnlyEvents) ==
    LET On(hasContext) == OnTimeline(e, hasContext, ignoreEventContexts, gpuOnlyEvents)
    IN  IF On(TRUE)
        THEN IF On(FALSE) THEN <<EntryOf(e, TRUE), EntryOf(e, FALSE)>> ELSE <<EntryOf(e, TRUE)>>
        ELSE IF On(FALSE) THEN <<EntryOf(e, FALSE)>> ELSE <<>>

LEMMA EntriesAre ==
    ASSUME NEW d, NEW e, Matches(d, e), e.request.onContext \in BOOLEAN,
           NEW ign \in BOOLEAN, NEW gpuOnly \in BOOLEAN
    PROVE  Entries(d, ign, gpuOnly) = EntriesFor(e, ign, gpuOnly)
<1> DEFINE entry == [type |-> d.type, time |-> d.time, hasContext |-> FALSE]
           other == [type |-> d.type, time |-> d.time, hasContext |-> TRUE]
           p == Entries(d, ign, gpuOnly)
<1>1. /\ d.type = e.request.type /\ d.time = e.time
      /\ d.context # <<>> <=> e.request.onContext
  BY DEF Matches, ContextOf
<1>2. entry = EntryOf(e, FALSE) /\ other = EntryOf(e, TRUE)
  BY <1>1, Zenon DEF EntryOf
<1> HIDE DEF entry, other
<1>3. CASE ~e.request.onContext
  <2>1. p = <<entry>>
    BY <1>1, <1>3 DEF Entries, entry
  <2>2. ~OnTimeline(e, TRUE, ign, gpuOnly) /\ OnTimeline(e, FALSE, ign, gpuOnly)
    BY <1>3 DEF OnTimeline
  <2> HIDE DEF p
  <2> QED
    BY <1>2, <2>1, <2>2 DEF EntriesFor, p
<1>4. CASE e.request.onContext /\ ign
  <2>1. p = <<>>
    BY <1>1, <1>4 DEF Entries
  <2>2. ~OnTimeline(e, TRUE, ign, gpuOnly) /\ ~OnTimeline(e, FALSE, ign, gpuOnly)
    BY <1>4 DEF OnTimeline
  <2> HIDE DEF p
  <2> QED
    BY <2>1, <2>2 DEF EntriesFor, p
<1>5. CASE e.request.onContext /\ ~ign
  <2> DEFINE copied == d.type # "marker" /\ ~gpuOnly
  <2>1. p = <<other>> \o (IF copied THEN <<entry>> ELSE <<>>)
    BY <1>1, <1>5 DEF Entries, HasCpuCopy, entry, other
  <2>2. OnTimeline(e, TRUE, ign, gpuOnly) /\ (OnTimeline(e, FALSE, ign, gpuOnly) <=> copied)
    BY <1>1, <1>5 DEF OnTimeline
  <2>3. p = IF copied THEN <<other, entry>> ELSE <<other>>
    <3> HIDE DEF p, copied
    <3>1. <<other>> \o <<entry>> = <<other, entry>>
      <4> DEFINE S == {other, entry}
      <4>1. other \in S /\ entry \in S
        OBVIOUS
      <4> HIDE DEF S
      <4> QED
        BY <4>1, Pair
    <3>2. <<other>> \o <<>> = <<other>>
      <4>1. <<other>> \in Seq({other})
        OBVIOUS
      <4> QED
        BY <4>1, ConcatEmptySeq
    <3> QED
      BY <2>1, <3>1, <3>2
  <2> HIDE DEF p, copied
  <2> QED
    BY <1>2, <2>2, <2>3 DEF EntriesFor, p
<1> QED
  BY <1>3, <1>4, <1>5

\* An event and its entry are added.
LEMMA StampsGrow ==
    ASSUME NEW S, NEW s \in Seq(S), NEW T, NEW t \in Seq(T),
           EntryStamps(s) = EventStamps(t),
           NEW e \in T, NEW h, EntryOf(e, h) \in S
    PROVE  EntryStamps(Append(s, EntryOf(e, h))) = EventStamps(Append(t, e))
<1> DEFINE x == EntryOf(e, h)
           u == Append(s, x)
           v == Append(t, e)
           n == Len(s)
<1>1. x.type = e.request.type /\ x.time = e.time
  BY DEF EntryOf
<1>2. Len(s) = Len(t) /\ n \in Nat
      /\ \A i \in 1 .. n : <<s[i].type, s[i].time>> = <<t[i].request.type, t[i].time>>
  <2>1. DOMAIN s = 1 .. Len(s) /\ DOMAIN t = 1 .. Len(t) /\ Len(s) \in Nat /\ Len(t) \in Nat
    OBVIOUS
  <2>2. DOMAIN EntryStamps(s) = DOMAIN s /\ DOMAIN EventStamps(t) = DOMAIN t
    BY DEF EntryStamps, EventStamps
  <2>3. Len(s) = Len(t)
    <3> DEFINE m == Len(t)
    <3>1. 1 .. n = 1 .. m /\ n \in Nat /\ m \in Nat
      <4>1. DOMAIN s = DOMAIN t
        BY <2>2, Zenon
      <4> QED
        BY <2>1, <4>1, Zenon
    <3> HIDE DEF m, n
    <3>2. n = m
      BY <3>1
    <3> QED
      BY <3>2 DEF m, n
  <2>4. \A i \in 1 .. n : EntryStamps(s)[i] = <<s[i].type, s[i].time>>
                         /\ EventStamps(t)[i] = <<t[i].request.type, t[i].time>>
    BY <2>1, <2>3 DEF EntryStamps, EventStamps
  <2> QED
    BY <2>1, <2>3, <2>4
<1>3. /\ DOMAIN u = 1 .. n + 1 /\ DOMAIN v = 1 .. n + 1
      /\ u[n + 1] = x /\ v[n + 1] = e
      /\ \A i \in 1 .. n : u[i] = s[i] /\ v[i] = t[i]
  <2> HIDE DEF x
  <2>1. x \in S
    BY DEF x
  <2>2. Len(u) = n + 1 /\ u[n + 1] = x /\ (\A i \in 1 .. n : u[i] = s[i]) /\ u \in Seq(S)
    BY <2>1
  <2>3. Len(v) = n + 1 /\ v[n + 1] = e /\ (\A i \in 1 .. n : v[i] = t[i]) /\ v \in Seq(T)
    BY <1>2
  <2>4. DOMAIN u = 1 .. Len(u) /\ DOMAIN v = 1 .. Len(v)
    BY <2>2, <2>3
  <2> QED
    BY <2>2, <2>3, <2>4
<1> HIDE DEF u, v, x, n
<1>4. ASSUME NEW i \in 1 .. n + 1
      PROVE  <<u[i].type, u[i].time>> = <<v[i].request.type, v[i].time>>
  <2>1. CASE i = n + 1
    BY <1>1, <1>3, <2>1
  <2>2. CASE i # n + 1
    <3>1. i \in 1 .. n
      BY <1>2, <2>2
    <3> QED
      BY <1>2, <1>3, <3>1
  <2> QED
    BY <2>1, <2>2
<1> QED
  BY <1>3, <1>4 DEF EntryStamps, EventStamps, u, v, x

(* The entries of each known event are behind those of the ones before it:  *)
(* at[n] entries are for the first n.                                       *)
AreEntries(list, known, at, ign, gpuOnly) ==
    /\ at \in [0 .. Len(known) -> Nat] /\ at[0] = 0 /\ at[Len(known)] = Len(list)
    /\ \A n \in 1 .. Len(known) :
          LET p == EntriesFor(known[n], ign, gpuOnly)
          IN  /\ at[n] = at[n - 1] + Len(p) /\ at[n] <= Len(list)
              /\ \A k \in 1 .. Len(p) : list[at[n - 1] + k] = p[k]

LEMMA TimelinesEqual ==
    ASSUME NEW list, list \in Seq(Range(list)), NEW known, known \in Seq(Range(known)),
           NEW at, NEW ign \in BOOLEAN, NEW gpuOnly \in BOOLEAN, NEW h \in BOOLEAN,
           AreEntries(list, known, at, ign, gpuOnly)
    PROVE  LET entries == {x \in Range(list) : x.hasContext = h}
               emitted == {e \in Range(known) : OnTimeline(e, h, ign, gpuOnly)}
           IN  EntryStamps(Among(list, entries)) = EventStamps(Among(known, emitted))
<1> DEFINE S == Range(list)
           T == Range(known)
           N == Len(known)
           M == Len(list)
           entries == {x \in S : x.hasContext = h}
           emitted == {e \in T : OnTimeline(e, h, ign, gpuOnly)}
           Same(s, t) == s \in Seq(S) /\ t \in Seq(T) /\ EntryStamps(s) = EventStamps(t)
<1>1. PICK R : ChosenTrace(R, list, entries) /\ R[M] = Among(list, entries)
  BY AmongFollows
<1>2. PICK Q : ChosenTrace(Q, known, emitted) /\ Q[N] = Among(known, emitted)
  BY AmongFollows
<1>3. /\ N \in Nat /\ M \in Nat
      /\ \A n \in 1 .. N : known[n] \in T
      /\ \A k \in 1 .. M : list[k] \in S
  BY DEF Range
<1>4. /\ \A k \in 0 .. M : R[k] \in Seq(S)
      /\ R[0] = <<>>
      /\ \A k \in 1 .. M : R[k] = IF list[k] \in entries THEN Append(R[k - 1], list[k])
                                                         ELSE R[k - 1]
  BY <1>1 DEF ChosenTrace
<1>5. /\ \A n \in 0 .. N : Q[n] \in Seq(T)
      /\ Q[0] = <<>>
      /\ \A n \in 1 .. N : Q[n] = IF known[n] \in emitted THEN Append(Q[n - 1], known[n])
                                                           ELSE Q[n - 1]
  BY <1>2 DEF ChosenTrace
<1>6. ASSUME NEW k \in 1 .. M PROVE list[k] \in entries <=> list[k].hasContext = h
  BY <1>3
<1>7. ASSUME NEW n \in 1 .. N
      PROVE  known[n] \in emitted <=> OnTimeline(known[n], h, ign, gpuOnly)
  BY <1>3
<1> HIDE DEF S, T, N, M, entries, emitted
<1>8. /\ at \in [0 .. N -> Nat] /\ at[0] = 0 /\ at[N] = M
      /\ \A n \in 1 .. N :
            LET p == EntriesFor(known[n], ign, gpuOnly)
            IN  /\ at[n] = at[n - 1] + Len(p) /\ at[n] <= M
                /\ \A k \in 1 .. Len(p) : list[at[n - 1] + k] = p[k]
  BY DEF AreEntries, N, M
\* An entry that is on the timeline is added to it.
<1>9. ASSUME NEW k \in 1 .. M, NEW e \in T, NEW g \in BOOLEAN, list[k] = EntryOf(e, g)
      PROVE  R[k] = IF g = h THEN Append(R[k - 1], EntryOf(e, g)) ELSE R[k - 1]
  <2>1. list[k].hasContext = g
    BY <1>9 DEF EntryOf
  <2> QED
    BY <1>4, <1>6, <1>9, <2>1
<1>10. ASSUME NEW n \in 1 .. N, Same(R[at[n - 1]], Q[n - 1]) PROVE Same(R[at[n]], Q[n])
  <2> DEFINE e == known[n]
             p == EntriesFor(e, ign, gpuOnly)
             a == at[n - 1]
             b == at[n]
             t == Q[n - 1]
             on == OnTimeline(e, h, ign, gpuOnly)
  <2>1. a \in Nat /\ b \in Nat /\ b = a + Len(p) /\ b <= M /\ M \in Nat
        /\ \A k \in 1 .. Len(p) : list[a + k] = p[k]
    <3>1. n - 1 \in 0 .. N /\ n \in 0 .. N
      BY <1>3
    <3> HIDE DEF p
    <3> QED
      BY <1>3, <1>8, <3>1 DEF p
  <2>2. e \in T /\ R[a] \in Seq(S) /\ t \in Seq(T) /\ EntryStamps(R[a]) = EventStamps(t)
    BY <1>3, <1>10
  <2>3. Q[n] = IF on THEN Append(t, e) ELSE t
    BY <1>5, <1>7
  <2> DEFINE onContexts == OnTimeline(e, TRUE, ign, gpuOnly)
             onCpu == OnTimeline(e, FALSE, ign, gpuOnly)
             x == EntryOf(e, TRUE)
             y == EntryOf(e, FALSE)
             Good == Same(R[b], Q[n])
  <2> SUFFICES Good
    OBVIOUS
  <2>4. p = IF onContexts THEN IF onCpu THEN <<x, y>> ELSE <<x>>
                          ELSE IF onCpu THEN <<y>> ELSE <<>>
    BY DEF EntriesFor
  <2>5. (h = TRUE => (on <=> onContexts)) /\ (h = FALSE => (on <=> onCpu))
    BY Zenon
  <2>6. ASSUME R[b] = R[a], ~on PROVE Good
    BY <2>2, <2>3, <2>6
  <2>7. ASSUME NEW g \in BOOLEAN, EntryOf(e, g) \in S, R[b] = Append(R[a], EntryOf(e, g)), on
        PROVE  Good
    <3>1. EntryStamps(Append(R[a], EntryOf(e, g))) = EventStamps(Append(t, e))
      BY <2>2, <2>7, StampsGrow
    <3>2. Append(R[a], EntryOf(e, g)) \in Seq(S) /\ Append(t, e) \in Seq(T)
      BY <2>2, <2>7
    <3> QED
      BY <2>3, <2>7, <3>1, <3>2
  <2>8. e \in T /\ a \in Nat /\ b \in Nat /\ b = a + Len(p) /\ b <= M /\ M \in Nat
    BY <2>1, <2>2
  <2> HIDE DEF Good, e, p, a, b, on, t
  <2>9. ASSUME Len(p) = 0, ~on PROVE Good
    <3>1. a = b
      BY <2>8, <2>9
    <3> QED
      BY <2>6, <2>9, <3>1
  <2>10. ASSUME NEW g \in BOOLEAN, p = <<EntryOf(e, g)>>, on <=> g = h PROVE Good
    <3>1. Len(p) = 1 /\ p[1] = EntryOf(e, g)
      BY <2>10
    <3>2. b = a + 1 /\ b \in 1 .. M /\ b - 1 = a
      BY <2>8, <3>1
    <3>3. list[b] = EntryOf(e, g)
      <4>1. 1 \in 1 .. Len(p)
        BY <3>1
      <4> QED
        BY <2>1, <3>1, <3>2, <4>1
    <3>4. R[b] = (IF g = h THEN Append(R[a], EntryOf(e, g)) ELSE R[a]) /\ EntryOf(e, g) \in S
      BY <1>3, <1>9, <2>8, <3>2, <3>3
    <3>5. CASE g = h
      BY <2>7, <2>10, <3>4, <3>5
    <3>6. CASE g # h
      BY <2>6, <2>10, <3>4, <3>6
    <3> QED
      BY <3>5, <3>6
  <2>11. ASSUME p = <<x, y>>, on PROVE Good
    <3> DEFINE m == a + 1
    <3>1. Len(p) = 2 /\ p[1] = x /\ p[2] = y /\ 1 \in 1 .. Len(p) /\ 2 \in 1 .. Len(p)
      BY <2>11
    <3>2. /\ b = m + 1 /\ m \in 1 .. M /\ b \in 1 .. M /\ m - 1 = a /\ b - 1 = m
          /\ b = a + 2
      BY <2>8, <3>1
    <3>3. list[m] = x /\ list[b] = y
      BY <2>1, <3>1, <3>2
    <3> HIDE DEF m
    <3>4. R[m] = (IF TRUE = h THEN Append(R[a], x) ELSE R[a]) /\ x \in S
      BY <1>3, <1>9, <2>8, <3>2, <3>3
    <3>5. R[b] = (IF FALSE = h THEN Append(R[m], y) ELSE R[m]) /\ y \in S
      BY <1>3, <1>9, <2>8, <3>2, <3>3
    <3>6. CASE h = TRUE
      <4>1. R[b] = Append(R[a], x)
        BY <3>4, <3>5, <3>6
      <4> QED
        BY <2>7, <2>11, <3>4, <4>1
    <3>7. CASE h = FALSE
      <4>1. R[b] = Append(R[a], y)
        BY <3>4, <3>5, <3>7
      <4> QED
        BY <2>7, <2>11, <3>5, <4>1
    <3> QED
      BY <3>6, <3>7
  <2> HIDE DEF onContexts, onCpu
  <2>12. CASE ~onContexts /\ ~onCpu
    <3>1. p = <<>> /\ ~on
      BY <2>4, <2>5, <2>12
    <3>2. Len(p) = 0
      BY <3>1
    <3> QED
      BY <2>9, <3>1, <3>2
  <2>13. CASE onContexts /\ ~onCpu
    <3>1. p = <<x>> /\ (on <=> TRUE = h)
      BY <2>4, <2>5, <2>13
    <3> QED
      BY <2>10, <3>1
  <2>14. CASE ~onContexts /\ onCpu
    <3>1. p = <<y>> /\ (on <=> FALSE = h)
      BY <2>4, <2>5, <2>14
    <3> QED
      BY <2>10, <3>1
  <2>15. CASE onContexts /\ onCpu
    <3>1. p = <<x, y>> /\ on
      BY <2>4, <2>5, <2>15
    <3> QED
      BY <2>11, <3>1
  <2> QED
    BY <2>12, <2>13, <2>14, <2>15
<1> DEFINE X == {n \in 0 .. N : Same(R[at[n]], Q[n])}
<1>11. 0 \in X
  <2>1. EntryStamps(<<>>) = EventStamps(<<>>)
    BY DEF EntryStamps, EventStamps
  <2>2. Same(<<>>, <<>>)
    BY <2>1
  <2> HIDE DEF Same
  <2> QED
    BY <1>3, <1>4, <1>5, <1>8, <2>2
<1>12. ASSUME NEW n \in 0 .. N - 1, n \in X PROVE n + 1 \in X
  <2>1. n + 1 \in 1 .. N /\ (n + 1) - 1 = n /\ n + 1 \in 0 .. N
    BY <1>3
  <2> DEFINE m == n + 1
  <2> HIDE DEF Same, m
  <2>2. Same(R[at[m - 1]], Q[m - 1])
    BY <1>12, <2>1 DEF m
  <2>3. Same(R[at[m]], Q[m])
    BY <1>10, <2>1, <2>2 DEF m
  <2> QED
    BY <2>1, <2>3 DEF m
<1> HIDE DEF X
<1>13. \A n \in 0 .. N : n \in X
  BY <1>3, <1>11, <1>12, Induction
<1>14. Same(R[at[N]], Q[N])
  <2> HIDE DEF Same
  <2> QED
    BY <1>3, <1>13 DEF X
<1> QED
  BY <1>1, <1>2, <1>8, <1>14 DEF S, T, entries, emitted

\* At the end the decoder has found every known event.
LEMMA ReaderFindsEach ==
    ASSUME DecoderInv, SizesKnown, InTime, flushed, Parser!Finished
    PROVE  /\ Known \in Seq(Range(Known)) /\ Len(decoded) = Len(Known)
           /\ DOMAIN decoded = 1 .. Len(Known)
           /\ \A i \in 1 .. Len(Known) : /\ Matches(decoded[i], Known[i])
                                        /\ Known[i].request.onContext \in BOOLEAN
<1>1. RecordsInv /\ FlushedInv /\ events \in Seq(Range(events)) /\ Len(events) \in Nat
  BY DEF DecoderInv, RecordsInv, History
<1>2. PICK K, k : IsKnown(K) /\ Reached(K, k)
  BY DEF DecoderInv, ReaderInv
<1>3. k = Len(events)
  <2>1. k \in 0 .. Len(events)
    BY <1>2 DEF Reached
  <2>2. ~(k < Len(events))
    BY <1>1, <1>2, ReaderPlace
  <2> QED
    BY <1>1, <2>1, <2>2
<1>4. KnownTrace(K, events) /\ K[k] = Known
  BY <1>2, <1>3 DEF IsKnown
<1>5. Known \in Seq(Range(events))
  BY <1>1, <1>2, <1>3, KnownAreEvents
<1>6. Len(decoded) = Len(Known) /\ (\E S : decoded \in Seq(S)) /\ Found(Known)
  BY <1>2, <1>4 DEF Reached
<1>7. Known \in Seq(Range(Known)) /\ DOMAIN decoded = 1 .. Len(Known)
  <2>1. DOMAIN decoded = 1 .. Len(decoded)
    BY <1>6
  <2>2. Len(Known) \in Nat /\ Known \in [1 .. Len(Known) -> Range(Known)]
    BY <1>5 DEF Range
  <2>3. Known \in Seq(Range(Known))
    <3> DEFINE s == Known
               R == Range(Known)
    <3> HIDE DEF R, s
    <3> QED
      BY <2>2 DEF R, s
  <2> QED
    BY <1>6, <2>1, <2>3
<1>8. ASSUME NEW i \in 1 .. Len(Known)
      PROVE  Matches(decoded[i], Known[i]) /\ Known[i].request.onContext \in BOOLEAN
  <2>1. i \in DOMAIN decoded
    BY <1>7
  <2>2. Readable(Known[i])
    BY <2>1, ReaderFindsArguments
  <2>3. Known[i].request.onContext \in BOOLEAN
    BY <2>2, RequestOf DEF Readable, IsRecord
  <2> QED
    BY <1>6, <2>3 DEF Found
<1> QED
  BY <1>6, <1>7, <1>8

LEMMA ReaderTimelines == DecoderInv /\ SizesKnown /\ InTime => TimelinesComplete
<1> SUFFICES ASSUME DecoderInv, SizesKnown, InTime, flushed, Parser!Finished,
                    NEW ign \in BOOLEAN, NEW gpuOnly \in BOOLEAN, NEW h \in BOOLEAN
             PROVE  LET list == DecodeTimingBlock(ign, gpuOnly)
                        entries == {x \in Range(list) : x.hasContext = h}
                        emitted == {e \in Range(Known) : OnTimeline(e, h, ign, gpuOnly)}
                    IN  EntryStamps(Among(list, entries)) = EventStamps(Among(Known, emitted))
  BY DEF TimelinesComplete
<1> DEFINE n == Len(Known)
           list == DecodeTimingBlock(ign, gpuOnly)
           parts == [i \in 1 .. n |-> Entries(decoded[i], ign, gpuOnly)]
           C == {EntryOf(Known[i], TRUE) : i \in 1 .. n}
                    \cup {EntryOf(Known[i], FALSE) : i \in 1 .. n}
<1>1. /\ Known \in Seq(Range(Known)) /\ n \in Nat /\ DOMAIN decoded = 1 .. n
      /\ \A i \in 1 .. n : /\ Matches(decoded[i], Known[i])
                           /\ Known[i].request.onContext \in BOOLEAN
  BY ReaderFindsEach
<1>2. ASSUME NEW i \in 1 .. n PROVE parts[i] = EntriesFor(Known[i], ign, gpuOnly)
  BY <1>1, EntriesAre
<1>3. ASSUME NEW i \in 1 .. n PROVE EntriesFor(Known[i], ign, gpuOnly) \in Seq(C)
  <2> DEFINE x == EntryOf(Known[i], TRUE)
             y == EntryOf(Known[i], FALSE)
  <2>1. x \in C /\ y \in C
    OBVIOUS
  <2> HIDE DEF x, y, C
  <2>2. <<x, y>> \in Seq(C) /\ <<x>> \in Seq(C) /\ <<y>> \in Seq(C) /\ <<>> \in Seq(C)
    BY <2>1
  <2> QED
    BY <2>2 DEF EntriesFor, x, y
<1>4. parts \in [1 .. n -> Seq(C)]
  <2>1. \A i \in 1 .. n : parts[i] \in Seq(C)
    BY <1>2, <1>3
  <2> HIDE DEF C
  <2> QED
    BY <2>1
<1>5. list = FlattenSeq(parts)
  BY <1>1, Zenon DEF DecodeTimingBlock
<1> HIDE DEF parts, C, n
<1>6. PICK f : Concatenates(f, parts, n, C) /\ FlattenSeq(parts) = f[n]
  BY <1>1, <1>4, FlattenConcatenates
<1> HIDE DEF list
<1>7. list = f[n] /\ (\A i \in 0 .. n : f[i] \in Seq(C)) /\ f[0] = <<>>
  BY <1>5, <1>6 DEF Concatenates
<1>8. list \in Seq(C)
  BY <1>1, <1>7
<1>9. list \in Seq(Range(list))
  <2>1. Len(list) \in Nat /\ list \in [1 .. Len(list) -> Range(list)]
    BY <1>8 DEF Range
  <2> DEFINE R == Range(list)
  <2> HIDE DEF R
  <2> QED
    BY <2>1 DEF R
<1> DEFINE at == [i \in 0 .. n |-> Len(f[i])]
<1>10. AreEntries(list, Known, at, ign, gpuOnly)
  <2>1. at \in [0 .. n -> Nat] /\ at[0] = 0 /\ at[n] = Len(list)
    <3>1. \A i \in 0 .. n : Len(f[i]) \in Nat
      BY <1>7
    <3>2. 0 \in 0 .. n /\ n \in 0 .. n /\ Len(<<>>) = 0
      BY <1>1
    <3> QED
      BY <1>7, <3>1, <3>2
  <2>2. ASSUME NEW i \in 1 .. n
        PROVE  LET p == EntriesFor(Known[i], ign, gpuOnly)
               IN  /\ at[i] = at[i - 1] + Len(p) /\ at[i] <= Len(list)
                   /\ \A k \in 1 .. Len(p) : list[at[i - 1] + k] = p[k]
    <3>1. Placed(f, parts, n, i)
      BY <1>1, <1>6, ConcatenatedPlaces
    <3>2. i \in 0 .. n /\ i - 1 \in 0 .. n
      BY <1>1
    <3>3. at[i] = Len(f[i]) /\ at[i - 1] = Len(f[i - 1])
      BY <3>2
    <3> HIDE DEF at
    <3> QED
      BY <1>2, <1>7, <3>1, <3>3 DEF Placed
  <2> HIDE DEF at
  <2> QED
    BY <2>1, <2>2 DEF AreEntries, n
<1> HIDE DEF at
<1>11. EntryStamps(Among(list, {x \in Range(list) : x.hasContext = h}))
         = EventStamps(Among(Known, {e \in Range(Known) : OnTimeline(e, h, ign, gpuOnly)}))
  BY <1>1, <1>9, <1>10, TimelinesEqual
<1> QED
  BY <1>11 DEF list

LEMMA RoundTripTypes == DecoderInv /\ SizesKnown => TypeOK
<1> SUFFICES ASSUME DecoderInv, SizesKnown PROVE TypeOK
  OBVIOUS
<1>1. WriterTypeOK /\ flushed \in BOOLEAN /\ BlockQwords \in Nat /\ 1 <= BlockQwords
      /\ Len(events) \in Nat /\ DOMAIN events = 1 .. Len(events)
  BY Limits DEF DecoderInv, RecordsInv, WriterIInv, FlushedInv, History
<1>2. ASSUME NEW i \in 1 .. Len(events)
      PROVE  events[i].size \in Nat \ {0} /\ EndOf(events[i]) \in Nat
             /\ events[i].size <= EndOf(events[i]) /\ EndOf(events[i]) < BlockQwords
  <2>1. IsRecord(memory, destination, events[i])
    BY DEF DecoderInv, RecordsInv, History
  <2>2. events[i].start \in Nat /\ events[i].size \in Nat \ {0} /\ EndOf(events[i]) <= destination
    BY <2>1 DEF IsRecord
  <2>3. EndOf(events[i]) = events[i].start + events[i].size
    BY DEF EndOf
  <2>4. destination \in Nat /\ destination < BlockQwords
    <3>1. destination = EndOf(events[Len(events)]) /\ Len(events) \in 1 .. Len(events)
      BY <1>1 DEF DecoderInv, RecordsInv, History
    <3>2. events[Len(events)].start \in Nat /\ events[Len(events)].size \in Nat
      BY <3>1 DEF DecoderInv, RecordsInv, History, IsRecord
    <3>3. destination \in Nat
      BY <3>1, <3>2 DEF EndOf
    <3>4. destination \in Offsets \/ destination = NoDestination
      BY <1>1 DEF WriterTypeOK
    <3> QED
      BY <1>1, <3>3, <3>4, BlockAssumption DEF Offsets
  <2> QED
    BY <1>1, <2>2, <2>3, <2>4
<1>3. \A i \in DOMAIN events : events[i].size \in 1 .. BlockQwords
  BY <1>1, <1>2
<1>4. currentPosition \in Offsets
  <2>1. CASE ~flushed
    BY <1>1, <2>1 DEF DecoderInv, FlushedInv, Offsets
  <2>2. CASE flushed
    <3>1. PICK K, k : IsKnown(K) /\ Reached(K, k)
      BY <2>2 DEF DecoderInv, ReaderInv
    <3>2. k \in 0 .. Len(events) /\ currentPosition = IF k = 0 THEN 0 ELSE EndOf(events[k])
      BY <3>1 DEF Reached
    <3>3. k # 0 => k \in 1 .. Len(events)
      BY <1>1, <3>2
    <3> QED
      BY <1>1, <1>2, <3>2, <3>3 DEF Offsets
  <2> QED
    BY <2>1, <2>2
<1> QED
  BY <1>1, <1>3, <1>4 DEF TypeOK
-----------------------------------------------------------------------------
(* BlockParser reads a block from record to record: where the headers say   *)
(* the sizes, it jumps over no event, finds none that is not there and      *)
(* stops at the end marker, not at what the memory held before.             *)
THEOREM DecoderKeepsStep == EndedSpec => [](SizesKnown => InStep)
<1>1. DecoderInv => (SizesKnown => InStep)
  BY ReaderInStep
<1> QED
  BY <1>1, DecoderInvariant, PTL

(* PIXBeginEvent and the others, then BlockParser: each event is found as   *)
(* it was emitted, with its time, color, context and name, provided that    *)
(* less time passes between known events than a header can say.             *)
THEOREM EveryEventDecoded == EndedSpec => [](SizesKnown /\ InTime => DecodedAsWritten)
<1>1. DecoderInv => (SizesKnown /\ InTime => DecodedAsWritten)
  BY ReaderFinds
<1> QED
  BY <1>1, DecoderInvariant, PTL

(* PIXBeginEvent with arguments, then PopulateFormatArguments: an event     *)
(* that is whole has the arguments that were passed, 0 for those that were  *)
(* not, up to as many as the decoder takes.                                 *)
THEOREM EveryArgumentDecoded == EndedSpec => [](SizesKnown => ArgumentsAsPassed)
<1>1. DecoderInv => (SizesKnown => ArgumentsAsPassed)
  BY ReaderFindsAll
<1> QED
  BY <1>1, DecoderInvariant, PTL

(* Of an event that was cut at the end of its block, at any place but right *)
(* behind a string info, the decoder finds parts of what was passed, each   *)
(* in its place, and nothing else.                                          *)
THEOREM CutArgumentsDecoded == EndedSpec => [](SizesKnown => CutIsPrefix)
<1>1. DecoderInv => (SizesKnown => CutIsPrefix)
  BY ReaderFindsParts
<1> QED
  BY <1>1, DecoderInvariant, PTL

(* DecodeTimingBlock: the list of a decoded block has the thread's timeline *)
(* and the events on contexts, each complete and in order, in every mode.   *)
THEOREM EveryTimelineComplete == EndedSpec => [](SizesKnown /\ InTime => TimelinesComplete)
<1>1. DecoderInv => (SizesKnown /\ InTime => TimelinesComplete)
  BY ReaderTimelines
<1> QED
  BY <1>1, DecoderInvariant, PTL

(* The types of writer and decoder: the decoder does not leave the block.   *)
THEOREM DecoderTypes == EndedSpec => [](SizesKnown => TypeOK)
<1>1. DecoderInv => (SizesKnown => TypeOK)
  BY RoundTripTypes
<1> QED
  BY <1>1, DecoderInvariant, PTL
=============================================================================
