--------------------------- MODULE RoundTripProofs ---------------------------
(***************************************************************************)
(* For any events of both formats, any size of the block, any reserved      *)
(* space the assumptions allow and any number of events in a block: what is *)
(* in the block is the layout of its events, one behind the other.          *)
(***************************************************************************)
EXTENDS RoundTrip, EventBlockProofs
-----------------------------------------------------------------------------
(* A record of version 1 is its event as far as there is space: it begins   *)
(* with a header, the layout follows, all of it or up to the limit, which   *)
(* the last chunk can exceed.                                               *)
IsOldEvent(e) ==
    /\ Emitted(e) /\ IsOld(e)
    /\ e.request.hasColor = (e.request.type # "end") /\ e.request.onContext \in BOOLEAN
    /\ IF e.request.type = "end" THEN e.request.args = <<>> ELSE e.request.format > 0
IsWhole(record, header, e, limit) ==
    /\ RecordUpTo(record, e, CellsOf(e) \cup {header}, limit, Len(Layout(e)))
    /\ record[1] = header

\* Every record that LegacyRecord makes is.
LEMMA RecordHoldsEvent ==
    ASSUME NEW e, IsOldEvent(e), NEW t, NEW limit \in Int, limit >= 3
    PROVE  IsWhole(LegacyRecord(e.request, e.number, t, limit),
                   LegacyEventInfo(t, e.request.type, HasVarArgs(e.request),
                                   e.request.onContext),
                   e, limit)
<1>0. /\ Emitted(e) /\ IsOld(e)
      /\ e.request.hasColor = (e.request.type # "end") /\ e.request.onContext \in BOOLEAN
      /\ e.request.type = "end" => e.request.args = <<>>
      /\ e.request.type # "end" => e.request.format > 0
  BY DEF IsOldEvent
<1> DEFINE r == e.request
           header == LegacyEventInfo(t, r.type, HasVarArgs(r), r.onContext)
           begun == Begun(e, header)
           C == CellsOf(e) \cup {header}
           c == Len(ColorOf(e)) + Len(ContextOf(e))
           n == Len(r.args)
           written == LegacyRecord(r, e.number, t, limit)
<1>1. RecordUpTo(begun, e, C, limit, c) /\ begun[1] = header
  BY <1>0, RecordBegins
<1>2. ChunkOf(e) = r.chunk
  BY <1>0 DEF ChunkOf
<1> SUFFICES RecordUpTo(written, e, C, limit, Len(Layout(e))) /\ written[1] = header
  BY DEF IsWhole
<1>3. CASE r.type = "end"
  <2>1. written = begun
    BY <1>3 DEF LegacyRecord, Begun
  <2>2. Len(FormatOf(e)) = 0
    BY <1>3 DEF FormatOf, FormatText
  <2>3. c \in Nat
    BY DEF ColorOf, ContextOf
  <2>4. n = 0
    BY <1>0, <1>3
  <2>5. Len(Layout(e)) = c
    <3>1. IsPlacing(Ends(e), e)
      BY <1>0, LayoutPlaces
    <3> QED
      BY <2>2, <2>3, <2>4, <3>1 DEF IsPlacing, NameEnd
  <2> HIDE DEF c, begun, written, header
  <2> QED
    BY <1>1, <2>1, <2>5
<1>4. CASE r.type # "end"
  <2>1. written = LegacyArguments(begun, limit, e.number, r, ChunkOf(e))
    BY <1>2, <1>4 DEF LegacyRecord, Begun
  <2>2. begun \in Seq(C)
    BY <1>1 DEF RecordUpTo
  <2>3. CellsOf(e) \subseteq C
    OBVIOUS
  <2> HIDE DEF C, begun, written, header
  <2>4. PICK f : IsWriting(f, begun, limit, e.number, r, ChunkOf(e))
    BY <1>0, <2>2, <2>3, WritingExists
  <2>5. RecordUpTo(f[n], e, C, limit, Len(Layout(e))) /\ f[n][1] = header
    <3>1. WritesRecord(f, begun, r, e, C, limit)
      BY <1>0, <1>1, <1>4, <2>3, <2>4 DEF WritesRecord, HasOldName, HasPartsOf, Before
    <3> QED
      BY <1>1, <3>1, RecordWritten
  <2> QED
    BY <2>1, <2>4, <2>5 DEF IsWriting
<1> QED
  BY <1>3, <1>4
-----------------------------------------------------------------------------
EndOf(e) == e.start + e.size

\* The header of an event.
HeaderOf(e) ==
    IF IsOld(e)
    THEN LegacyEventInfo(e.time, e.request.type, HasVarArgs(e.request), e.request.onContext)
    ELSE Header(e.request, e.time, e.size)
\* A complete record.
IsRecord(mem, upTo, e) ==
    /\ e.request \in Requests \cup OldRequests /\ e.number \in Nat
    /\ e.start \in Nat /\ e.size \in Nat \ {0}
    /\ e.start < BiasedLimit /\ EndOf(e) <= upTo
    /\ mem[e.start] = HeaderOf(e)
    /\ Holds(mem, e.start, e, e.size - 1)
    /\ Cut(e) => EndOf(e) \in CopyLimit .. CopyLimit + ChunkOf(e) - 1

(* What RecordsWhole says of the events there are, and that the last one    *)
(* ends where the next will begin.                                          *)
History ==
    /\ events \in Seq(Range(events))
    /\ IF events = <<>> THEN destination \in {0, NoDestination}
                        ELSE destination = EndOf(events[Len(events)])
    /\ \A i \in 1 .. Len(events) :
          /\ IsRecord(memory, destination, events[i])
          /\ events[i].start = IF i = 1 THEN 0 ELSE EndOf(events[i - 1])

(* What the proof is by: the records that are complete, the one that is     *)
(* being written, and the bounds of the writer.                             *)
RecordsInv == WriterIInv /\ Progress /\ History
-----------------------------------------------------------------------------
\* The memory of a complete record does not change, and there may be more behind it.
LEMMA RecordStays ==
    ASSUME NEW e, destination \in Nat, IsRecord(memory, destination, e), NEW upTo \in Nat,
           destination <= upTo,
           NEW mem, \A i \in Offsets : i < destination => mem[i] = memory[i],
           destination \in Offsets
    PROVE  IsRecord(mem, upTo, e)
<1> DEFINE n == e.size - 1
<1>1. /\ e.start \in Nat /\ e.size \in Nat \ {0} /\ EndOf(e) <= destination
      /\ Holds(memory, e.start, e, n) /\ memory[e.start] = HeaderOf(e)
  BY DEF IsRecord
<1>2. EndOf(e) <= upTo
  BY <1>1 DEF EndOf
<1>3. Holds(mem, e.start, e, n)
  <2>1. n \in Nat /\ \A k \in 1 .. n : e.start + k \in 0 .. destination - 1
    BY <1>1 DEF EndOf
  <2>2. \A i \in 0 .. destination - 1 : mem[i] = memory[i]
    BY BlockAssumption DEF Offsets
  <2> HIDE DEF n
  <2> QED
    BY <1>1, <2>1, <2>2 DEF Holds
<1>4. mem[e.start] = HeaderOf(e)
  <2>1. e.start \in Offsets /\ e.start < destination
    BY <1>1, BlockAssumption DEF EndOf, Offsets
  <2> QED
    BY <1>1, <2>1
<1> QED
  BY <1>2, <1>3, <1>4 DEF IsRecord

\* Nothing changes for the events there are.
LEMMA HistoryStays ==
    ASSUME History, WriterTypeOK, events' = events, destination' = destination,
           destination \in Nat => \A i \in Offsets : i < destination => memory'[i] = memory[i]
    PROVE  History'
<1>1. CASE events = <<>>
  BY <1>1 DEF History
<1>2. CASE events # <<>>
  <2>1. Len(events) \in Nat /\ Len(events) # 0
    BY <1>2 DEF History
  <2>2. destination \in Nat /\ destination \in Offsets
    <3>1. destination = EndOf(events[Len(events)])
      BY <1>2 DEF History
    <3>2. IsRecord(memory, destination, events[Len(events)])
      BY <2>1 DEF History
    <3> QED
      BY <3>1, <3>2, BlockAssumption DEF IsRecord, EndOf, WriterTypeOK
  <2>3. ASSUME NEW i \in 1 .. Len(events) PROVE IsRecord(memory', destination, events[i])
    <3>1. IsRecord(memory, destination, events[i])
      BY DEF History
    <3> QED
      BY <2>2, <3>1, RecordStays
  <2> QED
    BY <2>3 DEF History
<1> QED
  BY <1>1, <1>2

\* There is one event more.
LEMMA HistoryGrows ==
    ASSUME History, WriterTypeOK, destination \in Offsets, NEW e,
           events' = Append(events, e), e.start = destination,
           destination' = EndOf(e), IsRecord(memory', destination', e),
           \A i \in Offsets : i < destination => memory'[i] = memory[i]
    PROVE  History'
<1> DEFINE n == Len(events)
<1>1. destination \in Nat /\ destination' \in Nat /\ destination <= destination'
  BY DEF IsRecord, EndOf, Offsets
<1>2. /\ n \in Nat /\ Len(events') = n + 1 /\ events'[n + 1] = e
      /\ \A i \in 1 .. n : events'[i] = events[i]
      /\ events' # <<>>
  <2> DEFINE S == Range(events) \cup {e}
  <2>1. events \in Seq(S) /\ e \in S
    BY SeqMonotonic DEF History
  <2> HIDE DEF S
  <2> QED
    BY <2>1, AppendProperties
<1>3. events' \in Seq(Range(events'))
  <2> DEFINE S == Range(events) \cup {e}
  <2>1. events \in Seq(S) /\ e \in S
    BY SeqMonotonic DEF History
  <2> HIDE DEF S
  <2>2. events' \in Seq(S)
    BY <2>1, AppendProperties
  <2>3. \A i \in 1 .. Len(events') : events'[i] \in Range(events')
    BY <2>2, LenProperties DEF Range
  <2> QED
    BY <2>2, <2>3
<1>4. destination' = EndOf(events'[Len(events')])
  BY <1>2
<1>5. ASSUME NEW i \in 1 .. n + 1
      PROVE  /\ IsRecord(memory', destination', events'[i])
             /\ events'[i].start = IF i = 1 THEN 0 ELSE EndOf(events'[i - 1])
  <2>1. CASE i = n + 1
    <3>1. IF n = 0 THEN destination = 0 ELSE destination = EndOf(events[n])
      <4>1. n = 0 <=> events = <<>>
        BY <1>2 DEF History
      <4> QED
        BY <1>1, <4>1, BlockAssumption DEF History
    <3>2. n # 0 => events'[i - 1] = events[n]
      BY <1>2, <2>1
    <3> QED
      BY <1>2, <2>1, <3>1, <3>2
  <2>2. CASE i # n + 1
    <3>1. i \in 1 .. n /\ (i # 1 => i - 1 \in 1 .. n)
      BY <1>2, <2>2
    <3>2. /\ IsRecord(memory, destination, events[i])
          /\ events[i].start = IF i = 1 THEN 0 ELSE EndOf(events[i - 1])
      BY <3>1 DEF History
    <3>3. IsRecord(memory', destination', events[i])
      BY <1>1, <3>2, RecordStays
    <3> QED
      BY <1>2, <3>1, <3>2, <3>3
  <2> QED
    BY <2>1, <2>2
<1> QED
  BY <1>2, <1>3, <1>4, <1>5 DEF History

\* The event that is being written is published.
LEMMA PublishGrows ==
    ASSUME RecordsInv, NEW size \in Nat \ {0}, Publish(size), pc # "idle",
           position = destination + size, size - 1 <= Len(Layout(Now)),
           size <= Len(Layout(Now)) => position = CopyLimit,
           memory'[destination] = Header(request, time, size),
           \A i \in Offsets : i # destination /\ i # position => memory'[i] = memory[i]
    PROVE  Progress' /\ History'
<1> DEFINE e == [request |-> request, number |-> serial, time |-> time,
                 start |-> destination, size |-> size]
           n == position - destination - 1
<1>1. destination' = position /\ pc' = "idle" /\ events' = Append(events, e)
  BY DEF Publish
<1>2. /\ destination \in Offsets /\ destination \in Nat /\ destination < BiasedLimit
      /\ request \in Requests /\ Holds(memory, destination, Now, n)
      /\ position \in Nat /\ destination < position /\ position <= CopyLimit
      /\ WriterTypeOK /\ History /\ CopyLimit \in Nat /\ CopyLimit < BlockQwords
      /\ serial \in Nat
  BY Limits, BlockAssumption
     DEF RecordsInv, WriterIInv, WriterTypeOK, Positions, Progress
<1>3. /\ e.request = request /\ e.number = serial /\ e.start = destination /\ e.size = size
  OBVIOUS
<1>4. Layout(e) = Layout(Now) /\ ChunkOf(e) = 1 /\ HeaderOf(e) = Header(request, time, size)
  <2>1. /\ ChunkOf(Now) = 1 /\ ~IsOld(Now)
        /\ Now.number = serial /\ Now.request = request
    BY <1>2, NowEmitted
  <2>2. e.time = time
    OBVIOUS
  <2> HIDE DEF e
  <2>3. ~IsOld(e)
    BY <1>3, <2>1 DEF IsOld
  <2> QED
    BY <1>3, <2>1, <2>2, <2>3, SameLayout DEF HeaderOf
<1> HIDE DEF e
<1>5. EndOf(e) = position
  BY <1>3 DEF EndOf
<1>6. Holds(memory', destination, e, size - 1)
  <2>1. n = size - 1 /\ n \in Nat
    BY <1>2
  <2>2. \A k \in 1 .. n : memory'[destination + k] = memory[destination + k]
    <3> TAKE k \in 1 .. n
    <3>1. destination + k \in Offsets /\ destination + k # destination
          /\ destination + k # position
      BY <1>2, Limits DEF Offsets
    <3> QED
      BY <3>1
  <2> HIDE DEF n
  <2> QED
    BY <1>2, <1>4, <2>1, <2>2 DEF Holds
<1>7. IsRecord(memory', destination', e)
  <2>2. memory'[e.start] = HeaderOf(e)
    BY <1>3, <1>4
  <2>1. Cut(e) => EndOf(e) \in CopyLimit .. CopyLimit + ChunkOf(e) - 1
    BY <1>2, <1>3, <1>4, <1>5 DEF Cut
  <2> QED
    BY <1>1, <1>2, <1>3, <1>5, <1>6, <2>1, <2>2 DEF IsRecord
<1>8. History'
  <2>1. ASSUME NEW i \in Offsets, i < destination PROVE memory'[i] = memory[i]
    <3>1. i # destination /\ i # position
      BY <1>2, <2>1 DEF Offsets
    <3> QED
      BY <3>1
  <2> QED
    BY <1>1, <1>2, <1>3, <1>5, <1>7, <2>1, HistoryGrows
<1> QED
  BY <1>1, <1>8 DEF Progress

\* That is so where the record ends,
LEMMA FinishGrows ==
    ASSUME RecordsInv, FinishEvent
    PROVE  Progress' /\ History'
<1> DEFINE size == position - destination
           n == position - destination - 1
<1>1. pc # "idle" /\ Publish(size)
  BY DEF FinishEvent
<1>2. /\ destination \in Nat /\ destination < position /\ position \in Nat
      /\ Holds(memory, destination, Now, n) /\ request \in Requests
  BY <1>1 DEF RecordsInv, WriterIInv, WriterTypeOK, Positions, Progress
<1>3. size \in Nat \ {0} /\ position = destination + size /\ size - 1 = n /\ n + 1 = size
  BY <1>2
<1>4. IsFinished(memory', destination, n, Now, time)
  BY FinishedRecord DEF RecordsInv
<1>5. /\ n <= Len(Layout(Now)) /\ Len(Layout(Now)) \in Nat
      /\ memory'[destination] = Header(request, time, size)
      /\ n = Len(Layout(Now)) \/ position = CopyLimit
  <2>1. Layout(Now) \in Seq(CellsOf(Now))
    BY <1>2, NowEmitted, LayoutPlaces
  <2>2. /\ n = Len(Layout(Now)) \/ destination + n + 1 = CopyLimit
        /\ memory'[destination] = Header(request, time, n + 1)
    BY <1>4 DEF IsFinished, Now
  <2>3. destination + n + 1 = position
    BY <1>2
  <2> HIDE DEF n, size
  <2> QED
    BY <1>2, <1>3, <2>1, <2>2, <2>3 DEF Holds
<1>6. \A i \in Offsets : i # destination /\ i # position => memory'[i] = memory[i]
  BY DEF FinishEvent, EndMarked, RecordsInv, WriterIInv, WriterTypeOK
<1>7. size <= Len(Layout(Now)) => position = CopyLimit
  BY <1>3, <1>5
<1> HIDE DEF size
<1> QED
  BY <1>1, <1>3, <1>5, <1>6, <1>7, PublishGrows

\* and for PIXEndEvent without a context.
LEMMA MarkGrows ==
    ASSUME RecordsInv, MarkEnd
    PROVE  Progress' /\ History'
<1> DEFINE n == position - destination - 1
<1>1. pc = "mark" /\ Publish(1)
  BY DEF MarkEnd
<1>2. n = 0 /\ n = Len(Layout(Now)) /\ destination \in Nat /\ position \in Nat
  BY <1>1 DEF RecordsInv, Progress, WriterIInv, WriterTypeOK, Positions
<1>3. position = destination + 1 /\ 1 - 1 <= Len(Layout(Now)) /\ ~(1 <= Len(Layout(Now)))
  BY <1>2
<1>4. \A i \in Offsets : i # destination /\ i # position => memory'[i] = memory[i]
  BY DEF MarkEnd, EndMarked, RecordsInv, WriterIInv, WriterTypeOK
<1>5. memory'[destination] = Header(request, time, 1)
  <2>1. memory' = [memory EXCEPT ![position] = Marker] /\ position # destination
    BY <1>2, <1>3 DEF MarkEnd, EndMarked
  <2>2. memory[destination] = Header(request, time, 1)
    BY <1>1 DEF RecordsInv, Progress
  <2>3. destination \in DOMAIN memory
    BY <1>2, BlockAssumption DEF RecordsInv, WriterIInv, WriterTypeOK
  <2> QED
    BY <2>1, <2>2, <2>3
<1> QED
  BY <1>1, <1>3, <1>4, <1>5, PublishGrows

\* A step of the writer.
LEMMA WriterRecords ==
    ASSUME RecordsInv, WriterNext
    PROVE  RecordsInv'
<1>1. WriterIInv'
  BY WriterStep DEF RecordsInv
<1> SUFFICES Progress' /\ History'
  BY <1>1 DEF RecordsInv
<1>2. ASSUME NEW r \in Requests, BeginEvent(r) PROVE Progress' /\ History'
  <2>1. /\ destination \in Nat /\ destination < BiasedLimit
        /\ BeginRecord(r, destination) /\ destination' = destination /\ events' = events
    BY <1>2, BlockAssumption
       DEF BeginEvent, HasRoom, RecordsInv, WriterIInv, WriterTypeOK, Offsets
  <2>2. Progress' /\ \A i \in Offsets : i < destination => memory'[i] = memory[i]
    BY <2>1, RecordBegun DEF RecordsInv, WriterIInv
  <2> QED
    BY <2>1, <2>2, HistoryStays DEF RecordsInv, WriterIInv
<1>3. ASSUME NEW r \in Requests, AllocateBlock(r) PROVE Progress' /\ History'
  <2>1. BeginRecord(r, 0) /\ destination' = 0 /\ events' = <<>> /\ 0 < BiasedLimit
    BY <1>3, Limits DEF AllocateBlock
  <2>2. Progress'
    BY <2>1, RecordBegun DEF RecordsInv, WriterIInv
  <2> QED
    BY <2>1, <2>2 DEF History
<1>4. CASE AllocationFails
  BY <1>4 DEF AllocationFails, eventVars, Progress, History
<1>5. CASE CopyContext
  <2>1. Progress' /\ \A i \in Offsets : i <= destination => memory'[i] = memory[i]
    BY <1>5, ContextProgress DEF RecordsInv
  <2>2. destination' = destination /\ events' = events
    BY <1>5 DEF CopyContext
  <2> QED
    BY <2>1, <2>2, HistoryStays DEF RecordsInv, WriterIInv, Offsets
<1>6. CASE CopyFormat
  <2>1. Progress' /\ \A i \in Offsets : i <= destination => memory'[i] = memory[i]
    BY <1>6, FormatProgress DEF RecordsInv
  <2>2. destination' = destination /\ events' = events
    BY <1>6 DEF CopyFormat
  <2> QED
    BY <2>1, <2>2, HistoryStays DEF RecordsInv, WriterIInv, Offsets
<1>7. CASE CopyArgument
  <2>1. Progress' /\ \A i \in Offsets : i <= destination => memory'[i] = memory[i]
    BY <1>7, ArgumentProgress DEF RecordsInv
  <2>2. destination' = destination /\ events' = events
    BY <1>7 DEF CopyArgument
  <2> QED
    BY <2>1, <2>2, HistoryStays DEF RecordsInv, WriterIInv, Offsets
<1>8. CASE FinishEvent
  BY <1>8, FinishGrows
<1>9. CASE MarkEnd
  BY <1>9, MarkGrows
<1> QED
  BY <1>1, <1>2, <1>3, <1>4, <1>5, <1>6, <1>7, <1>8, <1>9 DEF WriterNext
-----------------------------------------------------------------------------
(* An event of code with the earlier format, whose record may exceed the    *)
(* limit by a chunk, but never the block.                                   *)
LEMMA OldEventRecords ==
    ASSUME RecordsInv, NEW r \in OldRequests, OldEvent(r)
    PROVE  RecordsInv'
<1> DEFINE limit == CopyLimit - destination
           record == LegacyRecord(r, serial', clock', limit)
           e == [request |-> r, number |-> serial', time |-> clock',
                 start |-> destination, size |-> Len(record)]
           L == Layout(e)
<1>1. /\ pc = "idle" /\ memory' = Put(destination, Append(record, Marker))
      /\ destination' = destination + Len(record) /\ events' = Append(events, e)
      /\ serial' = serial + 1
      /\ UNCHANGED <<blocks, beginTimestamp, pc, request, argument, position, time>>
  BY DEF OldEvent
<1>2. clock' \in Nat
  BY BlockAssumption DEF OldEvent, RecordsInv, WriterIInv, WriterTypeOK
<1>3. /\ WriterTypeOK /\ History /\ serial' \in Nat
      /\ destination \in Nat /\ destination < BiasedLimit /\ destination \in Offsets
      /\ CopyLimit \in Nat /\ BiasedLimit \in Nat /\ BiasedLimit + 3 <= CopyLimit
      /\ limit \in Nat /\ limit >= 3
  BY <1>1, Limits, BlockAssumption
     DEF OldEvent, HasRoom, RecordsInv, WriterIInv, WriterTypeOK, Offsets
<1>4. /\ e.request = r /\ e.number = serial' /\ e.start = destination
      /\ e.size = Len(record)
  OBVIOUS
<1>5. /\ Emitted(e) /\ IsOld(e) /\ ChunkOf(e) \in Nat /\ ChunkOf(e) <= ReservedTailSpace
      /\ r.hasColor = (r.type # "end") /\ r.onContext \in BOOLEAN
      /\ r.type = "end" => r.args = <<>>
      /\ r.type # "end" => r.format > 0
  <2>1. r \in OldRequest /\ r.chunk <= ReservedTailSpace /\ (r.hasColor <=> r.type # "end")
        /\ IF r.type = "end" THEN r.args = <<>> ELSE r.format > 0
    BY RoundTripAssumption
  <2> HIDE DEF e
  <2>2. IsOld(e) /\ ChunkOf(e) = r.chunk
    BY <1>4, <2>1 DEF IsOld, ChunkOf, OldRequest
  <2>3. r.chunk \in {1, 2} /\ r.hasColor \in BOOLEAN
    BY <2>1 DEF OldRequest
  <2> QED
    BY <1>4, <2>1, <2>2, <2>3 DEF Emitted, OldRequest
<1> HIDE DEF e, limit, L
<1> DEFINE header == HeaderOf(e)
<1>6. /\ RecordUpTo(record, e, CellsOf(e) \cup {header}, limit, Len(L))
      /\ record[1] = header
  <2>1. IsOldEvent(e)
    BY <1>4, <1>5 DEF IsOldEvent
  <2>2. e.time = clock'
    BY DEF e
  <2>3. HeaderOf(e) = LegacyEventInfo(clock', e.request.type, HasVarArgs(e.request),
                                      e.request.onContext)
    BY <1>5, <2>2 DEF HeaderOf
  <2>4. IsWhole(LegacyRecord(e.request, e.number, clock', limit), header, e, limit)
    BY <1>3, <2>1, <2>3, RecordHoldsEvent
  <2> QED
    BY <1>4, <2>4 DEF IsWhole, L
<1> HIDE DEF header
<1> HIDE DEF record
<1> DEFINE n == Len(record)
<1>7. /\ record \in Seq(CellsOf(e) \cup {header}) /\ n \in Nat /\ 1 <= n
      /\ n - 1 <= Len(L) /\ Len(L) \in Nat
      /\ \A k \in 1 .. n - 1 : record[1 + k] = L[k]
      /\ n - 1 = Len(L) \/ limit <= n
      /\ n < limit + ChunkOf(e)
  BY <1>6 DEF RecordUpTo, L
<1>8. destination + n < BlockQwords /\ EndOf(e) = destination + n
      /\ (limit <= n => CopyLimit <= destination + n)
      /\ destination + n <= CopyLimit + ChunkOf(e) - 1
  <2>1. BlockQwords = CopyLimit + ReservedTailSpace /\ ReservedTailSpace \in Nat
    BY BlockAssumption DEF CopyLimit, BiasedLimit
  <2>2. EndOf(e) = destination + n
    BY <1>4 DEF EndOf
  <2>3. limit = CopyLimit - destination
    BY DEF limit
  <2> DEFINE c == ChunkOf(e)
  <2>4. c \in Nat /\ c <= ReservedTailSpace /\ n < limit + c /\ n \in Nat
    BY <1>5, <1>7
  <2> HIDE DEF n, c
  <2>5. destination + n < CopyLimit + c
    BY <1>3, <2>3, <2>4
  <2>6. destination + n < BlockQwords /\ destination + n <= CopyLimit + c - 1
    BY <1>3, <2>1, <2>4, <2>5
  <2>7. limit <= n => CopyLimit <= destination + n
    BY <1>3, <2>3, <2>4
  <2> QED
    BY <2>2, <2>6, <2>7 DEF c
<1>9. /\ DOMAIN memory' = Offsets
      /\ memory'[destination + n] = Marker
      /\ memory'[destination] = record[1]
      /\ \A k \in 1 .. n - 1 : memory'[destination + k] = record[1 + k]
      /\ \A i \in Offsets : i < destination => memory'[i] = memory[i]
  <2> DEFINE cells == Append(record, Marker)
             C == CellsOf(e) \cup {header, Marker}
  <2>1. record \in Seq(C) /\ Marker \in C
    <3>1. CellsOf(e) \cup {header} \subseteq C
      OBVIOUS
    <3> HIDE DEF C
    <3>2. Marker \in C
      BY DEF C
    <3> QED
      BY <1>7, <3>1, <3>2, SeqMonotonic
  <2> HIDE DEF C
  <2>2. /\ cells \in Seq(C) /\ Len(cells) = n + 1 /\ cells[n + 1] = Marker
        /\ \A i \in 1 .. n : cells[i] = record[i]
    BY <2>1, AppendProperties
  <2> HIDE DEF cells
  <2>3. DOMAIN cells = 1 .. n + 1
    BY <2>2
  <2>4. memory' = [i \in Offsets |-> IF i - destination + 1 \in 1 .. n + 1
                                     THEN cells[i - destination + 1] ELSE memory[i]]
    BY <1>1, <2>3 DEF Put, cells
  <2>5. \A k \in 0 .. n : destination + k \in Offsets
    BY <1>3, <1>7, <1>8, Limits DEF Offsets
  <2>10. n \in Nat
    BY <1>7
  <2> HIDE DEF n
  <2>6. ASSUME NEW k \in 0 .. n PROVE memory'[destination + k] = cells[k + 1]
    <3> DEFINE i == destination + k
    <3>1. i \in Offsets /\ i - destination + 1 = k + 1 /\ k + 1 \in 1 .. n + 1
      BY <1>3, <2>5, <2>10
    <3> HIDE DEF i
    <3>2. memory'[i] = cells[k + 1]
      BY <2>4, <3>1
    <3> QED
      BY <3>2 DEF i
  <2>7. memory'[destination + n] = Marker
    BY <2>2, <2>6, <2>10
  <2>8. ASSUME NEW k \in 1 .. n - 1 PROVE memory'[destination + k] = record[1 + k]
    <3>1. k \in 0 .. n /\ 1 + k \in 1 .. n /\ 1 + k = k + 1
      BY <2>10
    <3> QED
      BY <2>2, <2>6, <3>1
  <2>9. ASSUME NEW i \in Offsets, i < destination PROVE memory'[i] = memory[i]
    BY <1>3, <2>4, <2>9 DEF Offsets
  <2>11. memory'[destination] = record[1]
    <3>1. 0 \in 0 .. n /\ 1 \in 1 .. n /\ destination + 0 = destination /\ 0 + 1 = 1
      BY <1>3, <1>7, <2>10 DEF n
    <3> QED
      BY <2>2, <2>6, <3>1
  <2> QED
    BY <2>4, <2>7, <2>8, <2>9, <2>11
<1>10. destination' = destination + n /\ destination' \in Offsets
  <2>1. destination' = destination + n
    BY <1>1
  <2>2. n \in Nat /\ destination \in Nat /\ destination + n < BlockQwords
    BY <1>3, <1>7, <1>8 DEF Offsets
  <2> HIDE DEF n
  <2>3. destination + n \in 0 .. BlockQwords - 1
    BY <2>2, Limits
  <2> QED
    BY <2>1, <2>3 DEF Offsets
<1>11. WriterIInv'
  <2>1. WriterTypeOK'
    BY <1>1, <1>2, <1>3, <1>9, <1>10
       DEF WriterTypeOK, Offsets
  <2> QED
    BY <1>1, <1>9, <1>10, <2>1 DEF WriterIInv, Positions, Ended
<1>12. IsRecord(memory', destination', e)
  <2>1. Holds(memory', e.start, e, e.size - 1)
    <3>1. e.size - 1 = n - 1 /\ n - 1 \in Nat
      BY <1>4, <1>7 DEF record
    <3> HIDE DEF n
    <3> QED
      BY <1>4, <1>7, <1>9, <3>1 DEF Holds, L
  <2>2. Cut(e) => EndOf(e) \in CopyLimit .. CopyLimit + ChunkOf(e) - 1
    <3>1. Cut(e) => n <= Len(L)
      BY <1>4 DEF Cut, L
    <3> QED
      BY <1>3, <1>5, <1>7, <1>8, <3>1
  <2>3. memory'[e.start] = HeaderOf(e)
    BY <1>4, <1>6, <1>9 DEF header
  <2> QED
    BY <1>3, <1>4, <1>7, <1>8, <1>10, <2>1, <2>2, <2>3 DEF IsRecord
<1>13. History'
  BY <1>1, <1>3, <1>4, <1>8, <1>9, <1>10, <1>12, HistoryGrows
<1>14. Progress'
  BY <1>1 DEF Progress
<1> QED
  BY <1>11, <1>13, <1>14 DEF RecordsInv

\* There are no records at first.
LEMMA RecordsInitially == RoundTripInit => RecordsInv
<1> SUFFICES ASSUME RoundTripInit PROVE RecordsInv
  OBVIOUS
<1>1. WriterIInv
  BY WriterInit DEF RoundTripInit
<1>2. Progress /\ History
  BY DEF RoundTripInit, Init, Progress, History
<1> QED
  BY <1>1, <1>2 DEF RecordsInv

(* Every step keeps the invariant; the steps of the reader change nothing   *)
(* it speaks of.                                                            *)
LEMMA RecordsStep == RecordsInv /\ [Next]_vars => RecordsInv'
<1> SUFFICES ASSUME RecordsInv, [Next]_vars PROVE RecordsInv'
  OBVIOUS
<1>1. CASE Write
  BY <1>1, WriterRecords DEF Write
<1>2. ASSUME NEW r \in OldRequests, OldEvent(r) PROVE RecordsInv'
  BY <1>2, OldEventRecords
<1>3. CASE UNCHANGED writerVars
  <2>1. UNCHANGED <<memory, destination, blocks, beginTimestamp, clock, pc, request,
                    argument, position, time, serial, events>>
    BY <1>3 DEF writerVars, blockVars, eventVars
  <2>2. WriterIInv'
    BY <2>1 DEF RecordsInv, WriterIInv, WriterTypeOK, Positions, Ended, Offsets
  <2>3. Now' = Now
    BY <2>1 DEF Now
  <2>4. Progress'
    BY <2>1, <2>3 DEF RecordsInv, Progress, ArgumentsReached
  <2>5. History'
    BY <2>1 DEF RecordsInv, History
  <2> QED
    BY <2>2, <2>4, <2>5 DEF RecordsInv
<1>4. CASE FlushBlock \/ Read \/ UNCHANGED vars
  BY <1>3, <1>4 DEF FlushBlock, Read, vars
<1> QED
  BY <1>1, <1>2, <1>4 DEF Next

(* Of two records in a row the first ends below the biased limit, so it is  *)
(* not cut.                                                                 *)
LEMMA RecordsAreWhole == RecordsInv => RecordsWhole
<1> SUFFICES ASSUME RecordsInv, NEW i \in DOMAIN events
             PROVE  LET e == events[i]
                    IN  /\ e.start = IF i = 1 THEN 0
                                     ELSE events[i - 1].start + events[i - 1].size
                        /\ \A k \in 1 .. e.size - 1 : memory[e.start + k] = Layout(e)[k]
                        /\ Cut(e) => /\ i = Len(events) /\ pc = "idle"
                                     /\ e.start + e.size \in
                                           CopyLimit .. CopyLimit + ChunkOf(e) - 1
  BY DEF RecordsWhole
<1> DEFINE e == events[i]
<1>1. Len(events) \in Nat /\ i \in 1 .. Len(events)
  BY DEF RecordsInv, History
<1>2. /\ IsRecord(memory, destination, e)
      /\ e.start = IF i = 1 THEN 0 ELSE EndOf(events[i - 1])
  BY <1>1 DEF RecordsInv, History
<1>3. ASSUME Cut(e) PROVE i = Len(events) /\ pc = "idle"
  <2>1. EndOf(e) \in Int /\ CopyLimit <= EndOf(e) /\ EndOf(e) <= destination
    BY <1>2, <1>3, Limits DEF IsRecord, EndOf
  <2>2. destination \in Nat
    <3>1. destination \in Nat \/ destination = NoDestination
      BY DEF RecordsInv, WriterIInv, WriterTypeOK, Offsets
    <3>2. IsRecord(memory, destination, events[Len(events)])
          /\ destination = EndOf(events[Len(events)])
      BY <1>1 DEF RecordsInv, History
    <3> QED
      BY <3>2 DEF IsRecord, EndOf
  <2>3. pc = "idle"
    <3>1. pc # "idle" => destination < BiasedLimit
      BY DEF RecordsInv, Progress
    <3> QED
      BY <2>1, <2>2, <3>1, Limits
  <2>4. i = Len(events)
    <3> SUFFICES ASSUME i # Len(events) PROVE FALSE
      OBVIOUS
    <3>1. i + 1 \in 1 .. Len(events) /\ i + 1 # 1 /\ (i + 1) - 1 = i
      BY <1>1
    <3>2. /\ IsRecord(memory, destination, events[i + 1])
          /\ events[i + 1].start = EndOf(events[i])
      BY <3>1 DEF RecordsInv, History
    <3> QED
      BY <2>1, <3>2, Limits DEF IsRecord
  <2> QED
    BY <2>3, <2>4
<1> QED
  BY <1>2, <1>3 DEF IsRecord, EndOf, Holds

(* The records of a block follow each other, each holds the whole layout of *)
(* its event, and only the last one can be cut, at the limit.               *)
THEOREM EveryRecordWhole == EndedSpec => []RecordsWhole
<1>1. RoundTripInit => RecordsInv
  BY RecordsInitially
<1>2. RecordsInv /\ [EndedNext]_vars => RecordsInv'
  BY RecordsStep DEF EndedNext
<1>3. RecordsInv => RecordsWhole
  BY RecordsAreWhole
<1> QED
  BY <1>1, <1>2, <1>3, PTL DEF EndedSpec
=============================================================================
