---------------------------- MODULE ContextEvents ----------------------------
(***************************************************************************)
(* An event on a command list or queue (the CONTEXT overloads of            *)
(* PIXBeginEvent, PIXSetMarker and PIXEndEvent in PIXEvents.h).  Its CPU    *)
(* half writes a record into the block of the thread, as in EventBlock, and *)
(* returns where the record is, or nullptr without one.  Its GPU half hands *)
(* D3D12 the event as a blob: the record in the block, or one made for the  *)
(* purpose in a buffer on the stack, in the present format or, by builds    *)
(* without PIX_USE_GPU_MARKERS_V2, in that of version 1.  Who looks at the  *)
(* GPU work decodes it, see ContextBlobs.                                   *)
(*                                                                          *)
(* Capture is switched by ETW's commands at any time.  The block is not     *)
(* flushed between the two halves of an event.                              *)
(***************************************************************************)
EXTENDS EventBlock, EventLayout, LegacyFormat

CONSTANTS
    GraphicsRecordSpace,     \* PIXEventsGraphicsRecordSpaceQwords, 64
    MaxEvents,               \* bound: events of a behaviour
    NoRecord                 \* nullptr, and that there is nothing

(* The buffer has space for a header, a color, a context and a name that is  *)
(* nullptr, which is written without a test, and its tail for a chunk.      *)
ASSUME ContextAssumption ==
    /\ GraphicsRecordSpace \in Nat
    /\ GraphicsRecordSpace - ReservedTailSpace \in 4 .. SizeMax
    /\ GraphicsRecordSpace <= ReservedRecordSpace
    /\ ReservedTailSpace >= 2
    /\ MaxEvents \in Nat

VARIABLES
    gpuMarkersV2,            \* how the application was compiled
    capturing,               \* whether the provider is enabled
    pending,                 \* the event whose CPU half has returned
    call                     \* the last call of D3D12

gpuVars == <<gpuMarkersV2, capturing, pending, call>>
vars == <<writerVars, gpuVars>>

ContextInit ==
    /\ Init
    /\ gpuMarkersV2 \in BOOLEAN
    /\ capturing \in BOOLEAN
    /\ pending = NoRecord
    /\ call = NoRecord

RecordEnd == position
\* eventDestination
RecordStart == destination

\* ETW enables or disables the provider.
Switch ==
    /\ capturing' = ~capturing
    /\ UNCHANGED <<writerVars, gpuMarkersV2, pending, call>>

(* A step of writing a record.  Whether capture is on is looked at once, at *)
(* the beginning.  An event without a context has no GPU half.              *)
CpuHalf ==
    /\ pending = NoRecord
    /\ pc = "idle" => capturing /\ serial < MaxEvents
    /\ WriterNext
    /\ pending' = IF pc # "idle" /\ pc' = "idle" /\ request.onContext
                  THEN [request |-> request, number |-> serial, start |-> RecordStart,
                        size |-> PIXGetEventSize(position - destination)]
                  ELSE NoRecord
    /\ UNCHANGED <<gpuMarkersV2, capturing, call>>

(* The CPU half returns nullptr: capture is off, and a block left from when *)
(* it was on is freed, or there is no room and the heap is exhausted.       *)
CpuHalfWithoutRecord(r) ==
    /\ pending = NoRecord /\ pc = "idle" /\ r.onContext /\ serial < MaxEvents
    /\ capturing => ~HasRoom
    /\ destination' = NoDestination
    /\ events' = <<>>
    /\ serial' = serial + 1
    /\ pending' = [request |-> r, number |-> serial', start |-> NoRecord, size |-> 0]
    /\ UNCHANGED <<memory, blocks, beginTimestamp, clock, pc, request, argument, position,
                   time, gpuMarkersV2, capturing, call>>

\* The block is flushed, between two events.
Flush ==
    /\ pending = NoRecord /\ pc = "idle" /\ destination # NoDestination
    /\ destination' = NoDestination
    /\ events' = <<>>
    /\ UNCHANGED <<memory, blocks, beginTimestamp, clock, eventVars, gpuVars>>
-----------------------------------------------------------------------------
WholeBuffer == GraphicsRecordSpace
BufferLimit == GraphicsRecordSpace - ReservedTailSpace

\* What has been written, and behind it as many cells as fit below the limit.
Copied(record, cells) ==
    record \o SubSeq(cells, 1, Min({Len(cells), Max({BufferLimit - Len(record), 0})}))

StringCells(n, part, k, specs) == [i \in 1 .. k |-> Chars(n, part, i, k, specs)]
ArgumentCells(n, j, a) ==
    CASE a.kind = "value" -> <<Value(n, j)>>
      [] a.kind = "null" -> <<Zero>>
      [] a.kind = "string" -> <<StringInfo(n, j, 1)>> \o StringCells(n, j, a.qwords, <<>>)

\* The record in the buffer, of the present format.  Its header comes last.
LocalRecord(r, n) ==
    LET begun == <<Garbage>> \o (IF r.hasColor THEN <<Color(n)>> ELSE <<>>)
        placed == Copied(begun, <<Context(n)>>)
        named == IF r.format = 0
                 THEN Append(placed, Zero)
                 ELSE Copied(placed, StringCells(n, FormatPart, r.format, r.specs))
        record == FoldLeft(LAMBDA sofar, j : Copied(sofar, ArgumentCells(n, j, r.args[j])),
                           named, [j \in DOMAIN r.args |-> j])
    IN  [record EXCEPT ![1] = PIXEncodeEventInfo(0, r.type, Len(record), r.hasColor, TRUE)]

(* EncodeBeginEventForContext, EncodeSetMarkerForContext: always a color,   *)
(* never a context.                                                         *)
LegacyLocalRecord(r, n, chunk) ==
    LegacyArguments(<<LegacyEventInfo(0, r.type, HasVarArgs(r), FALSE), Color(n)>>,
                    BufferLimit, n, r, chunk)

\* The record in the block, up to the size in its header.
RecordInBlock == [i \in 1 .. pending.size |-> memory[pending.start + i - 1]]

InBlock == gpuMarkersV2 /\ pending.start # NoRecord

(* PIXInsertTimingMarkerOnContext..., PIXInsertGPUMarkerOnContext... or     *)
(* PIXBeginGPUEventOnContext and its like: BeginEvent or SetMarker of the   *)
(* command list or queue with the blob, or EndEvent, which has no data.     *)
CallD3D12(chunk, blob) ==
    /\ call' = [request |-> pending.request, number |-> pending.number, chunk |-> chunk,
                inBlock |-> InBlock, blob |-> blob]
    /\ pending' = NoRecord
    /\ UNCHANGED <<writerVars, gpuMarkersV2, capturing>>

(* PIXBeginEvent and PIXSetMarker go on.  A chunk is chosen for how the     *)
(* strings are aligned.                                                     *)
GpuHalf ==
    /\ pending # NoRecord /\ pending.request.type # "end"
    /\ \E chunk \in {1, 2} :
          CallD3D12(chunk,
                    CASE InBlock -> RecordInBlock
                      [] gpuMarkersV2 /\ ~InBlock -> LocalRecord(pending.request, pending.number)
                      [] ~gpuMarkersV2 ->
                           LegacyLocalRecord(pending.request, pending.number, chunk))

\* PIXEndEvent goes on.
GpuEnd == pending # NoRecord /\ pending.request.type = "end" /\ CallD3D12(1, <<>>)

Next ==
    \/ Switch \/ CpuHalf \/ Flush \/ GpuHalf \/ GpuEnd
    \/ \E r \in Requests : CpuHalfWithoutRecord(r)

Spec == ContextInit /\ [][Next]_vars
-----------------------------------------------------------------------------
\* There is data with the last call.
HasBlob == call # NoRecord /\ call.request.type # "end"
-----------------------------------------------------------------------------
(* PIXEvents.h:541,559 and PIXEventsLegacy.h:534,548: the buffer on the     *)
(* stack holds the record and the 0 behind it, although strings may be      *)
(* copied in pairs of qwords.                                               *)
BufferFits == HasBlob /\ ~call.inBlock => Len(call.blob) + 1 <= GraphicsRecordSpace
=============================================================================
