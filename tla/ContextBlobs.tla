---------------------------- MODULE ContextBlobs -----------------------------
(***************************************************************************)
(* What TryDecodePIXBeginEventOrPIXSetMarkerBlob finds in the data that     *)
(* D3D12 was given with an event, see ContextEvents.                        *)
(***************************************************************************)
EXTENDS ContextEvents, EventReading
-----------------------------------------------------------------------------
(* TryDecodePIXBeginEventOrPIXSetMarkerBlob: the event is read as one of a   *)
(* block that ends with it.                                                 *)
TryDecode(blob) == ReadEvent([i \in 0 .. Len(blob) - 1 |-> blob[i + 1]], 0, Len(blob))
-----------------------------------------------------------------------------
\* The event of a call, as the format of its blob has it.
EventOf(c) ==
    [number |-> c.number,
     request |-> IF gpuMarkersV2
                 THEN c.request
                 ELSE [type |-> c.request.type, hasColor |-> TRUE, onContext |-> FALSE,
                       format |-> c.request.format, specs |-> c.request.specs,
                       args |-> c.request.args, chunk |-> c.chunk]]

\* Of version 1 a name that is nullptr has nothing to decode.
NameOf(e, size) == IF IsOld(e) /\ e.request.format = 0 THEN <<>> ELSE NameIn(e, size)
-----------------------------------------------------------------------------
(* PIXEvents.h:541-553: D3D12 is given the event that was emitted, whether  *)
(* or not it was captured, in every build, whatever the capture has done    *)
(* with the block since.  The decoder finds its color, context and name,    *)
(* and its arguments; of an event longer than the space for it a part of    *)
(* each, in its place, if it does not end right behind a string info.  That *)
(* case is left to NothingElseIsRead of RoundTrip, null strings to its      *)
(* NullTakesItsPlace.                                                       *)
BlobIsTheEvent ==
    HasBlob =>
        LET e == EventOf(call)
            d == TryDecode(call.blob)
            size == Len(call.blob)
        IN  /\ Head(call.blob).kind = "header"
            /\ d.color = ColorOf(e) /\ d.context = ContextOf(e)
            /\ d.name = NameOf(e, size)
            /\ \/ HasNull(e) \/ ~SpecifiersFit(e.request)
               \/ size > Len(Layout(e)) /\ d.arguments = Formatted(e)
               \/ size <= Len(Layout(e)) /\ \A j \in DOMAIN d.arguments :
                                                IsReadOf(d.arguments[j], e, j, size - 1)

(* PIXEvents.h:534: whether an event is captured makes no difference to     *)
(* what the GPU's tools see of it, or only that they see more: the record   *)
(* in a block, wherever it began, holds at least what the buffer would.     *)
CaptureLosesNothing ==
    HasBlob /\ call.inBlock =>
        LET d == TryDecode(call.blob)
            local == TryDecode(LocalRecord(call.request, call.number))
        IN  /\ IsPrefix(local.name, d.name)
            /\ \A j \in DOMAIN local.arguments :
                  \/ j \in DOMAIN d.arguments /\ IsPrefix(local.arguments[j], d.arguments[j])
                  \/ \E i \in 1 .. j - 1 :
                        local.arguments[j] = <<StringInfo(call.number, i, 1)>>
=============================================================================
