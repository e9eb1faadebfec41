------------------------------ MODULE RoundTrip ------------------------------
(***************************************************************************)
(* A block from the thread that fills it to the decoder: EventBlock writes, *)
(* the block is flushed, BlockParser reads.                                 *)
(*                                                                          *)
(* A process may hold code that was compiled with an earlier pix3.h: it     *)
(* puts records of version 1 into the same block.                           *)
(***************************************************************************)
EXTENDS EventBlock, EventLayout, LegacyFormat

CONSTANT OldRequests         \* the events emitted by such code

(* A request of such code also has the qwords in which its strings are      *)
(* copied.  A name it always has, and a color unless it is an end.          *)
OldRequest ==
    [type : {"begin", "marker", "end"}, hasColor : BOOLEAN, onContext : BOOLEAN,
     format : Nat, specs : Seq(Specifier), args : Seq(Argument), chunk : {1, 2}]

\* The tail has space for a chunk.
ASSUME RoundTripAssumption ==
    /\ OldRequests \subseteq OldRequest
    /\ \A r \in OldRequests :
          /\ r.chunk <= ReservedTailSpace
          /\ r.hasColor <=> r.type # "end"
          /\ IF r.type = "end" THEN r.args = <<>> ELSE r.format > 0

VARIABLES
    flushed,                 \* the block has been taken from the thread
    endTimestamp, currentPosition, maskedTimeBits, previousTimestamp, decoded

Parser == INSTANCE BlockParser

readerVars ==
    <<flushed, endTimestamp, currentPosition, maskedTimeBits, previousTimestamp, decoded>>
vars == <<writerVars, readerVars>>

RoundTripInit ==
    /\ Init
    /\ flushed = FALSE
    /\ endTimestamp = 0
    /\ currentPosition = 0
    /\ maskedTimeBits = 0
    /\ previousTimestamp = 0
    /\ decoded = <<>>

Write == ~flushed /\ WriterNext /\ UNCHANGED readerVars

\* The record as far as it is copied, from a header on.
LegacyRecord(r, n, t, limit) ==
    LET begun == <<LegacyEventInfo(t, r.type, HasVarArgs(r), r.onContext)>>
                     \o (IF r.type = "end" THEN <<>> ELSE <<Color(n)>>)
                     \o (IF r.onContext THEN <<Context(n)>> ELSE <<>>)
    IN  IF r.type = "end" THEN begun ELSE LegacyArguments(begun, limit, n, r, r.chunk)

(* An event of such code, as the decoder expects it: the color, the context *)
(* and the arguments behind the header, and an end marker.                  *)
OldEvent(r) ==
    /\ ~flushed /\ pc = "idle" /\ HasRoom
    /\ \E a \in Advances : clock' = clock + a
    /\ serial' = serial + 1
    /\ LET record == LegacyRecord(r, serial', clock', CopyLimit - destination)
       IN  /\ memory' = Put(destination, Append(record, Marker))
           /\ destination' = destination + Len(record)
           /\ events' = Append(events, [request |-> r, number |-> serial', time |-> clock',
                                        start |-> destination, size |-> Len(record)])
    /\ UNCHANGED <<blocks, beginTimestamp, pc, request, argument, position, time, readerVars>>

(* The block is flushed, by its thread or, while an event is being written, *)
(* by the one that delivers ETW's commands.  It has an event in it: without *)
(* one there is no end marker either, see EtwWriter.                        *)
FlushBlock ==
    /\ ~flushed /\ destination # NoDestination /\ destination > 0
    /\ flushed' = TRUE
    /\ endTimestamp' = clock
    /\ Parser!ParserStarts
    /\ UNCHANGED writerVars

Read == flushed /\ Parser!ProcessEvents /\ UNCHANGED <<writerVars, flushed>>

Next == Write \/ (\E r \in OldRequests : OldEvent(r)) \/ FlushBlock \/ Read

(* The block is not taken while PIXEndEvent has replaced the end marker by  *)
(* its header and has not put another behind it.                            *)
EndedNext == Next /\ (flushed' /\ ~flushed => pc # "mark")

EndedSpec == RoundTripInit /\ [][EndedNext]_vars
-----------------------------------------------------------------------------
MarkersCopied(d) == TRUE
\* The begin or the end of an event on a context is also one on the CPU.
HasCpuCopy(d) == d.type # "marker"

(* DecodeTimingBlock: the entries that the list it returns has for an event *)
(* of the callback.                                                         *)
Entries(d, ignoreEventContexts, gpuOnlyEvents) ==
    LET onContext == d.context # <<>>
        Entry(hasContext) == [type |-> d.type, time |-> d.time, hasContext |-> hasContext]
    IN  CASE ~onContext -> <<Entry(FALSE)>>
          [] onContext /\ ignoreEventContexts -> <<>>
          [] onContext /\ ~ignoreEventContexts ->
               <<Entry(TRUE)>>
                   \o (IF HasCpuCopy(d) /\ ~gpuOnlyEvents THEN <<Entry(FALSE)>> ELSE <<>>)

DecodeTimingBlock(ignoreEventContexts, gpuOnlyEvents) ==
    FlattenSeq([i \in DOMAIN decoded |->
                   Entries(decoded[i], ignoreEventContexts, gpuOnlyEvents)])
-----------------------------------------------------------------------------
\* The record does not hold all of its event.
Cut(e) == e.size <= Len(Layout(e))

(* The format string ends where the size saturates: the decoder takes it    *)
(* for all there is, see VarArgsFormatted.                                  *)
FillsSize(e) ==
    ~IsOld(e) /\ Len(ColorOf(e)) + Len(ContextOf(e)) + Len(FormatOf(e)) + 1 = SizeMax

(* Where the size of a record is not known the decoder cannot tell that     *)
(* arguments are missing.                                                   *)
Missing(e) ==
    /\ Len(e.request.specs) > Len(e.request.args)
    /\ IF IsOld(e) THEN e.request.args # <<>> ELSE e.size >= SizeMax

\* Those of a list that are in a set.
Among(list, set) ==
    LET upTo[n \in 0 .. Len(list)] ==
            IF n = 0 THEN <<>>
            ELSE IF list[n] \in set THEN Append(upTo[n - 1], list[n])
            ELSE upTo[n - 1]
    IN  upTo[Len(list)]

\* Those of the events that the decoder knows.
KnownIn(list) == {e \in Range(list) : IsKnownOpcode(e.request.type)}
Known == Among(events, KnownIn(events))

(* The events on contexts, and the thread's own timeline: its begins and    *)
(* ends, so also their nesting, are those of all the thread emitted, but    *)
(* only of its own events where the caller asks to ignore contexts or for   *)
(* the GPU's only; its markers are its own.                                 *)
OnTimeline(e, hasContext, ignoreEventContexts, gpuOnlyEvents) ==
    IF hasContext
    THEN e.request.onContext /\ ~ignoreEventContexts
    ELSE \/ ~e.request.onContext
         \/ ~ignoreEventContexts /\ ~gpuOnlyEvents /\ e.request.type # "marker"

EntryStamps(list) == [i \in DOMAIN list |-> <<list[i].type, list[i].time>>]
EventStamps(list) == [i \in DOMAIN list |-> <<list[i].request.type, list[i].time>>]
-----------------------------------------------------------------------------
(* The types of the state.                                                 *)
TypeOK ==
    /\ WriterTypeOK
    /\ \A i \in DOMAIN events : events[i].size \in 1 .. BlockQwords
    /\ flushed \in BOOLEAN
    /\ currentPosition \in Offsets

(* The records of a block follow each other.  Each holds its event as it    *)
(* was passed, from the beginning on; only the last can be cut, and only at *)
(* the limit, and writing the next ones leaves it alone.                    *)
RecordsWhole ==
    \A i \in DOMAIN events :
        LET e == events[i]
        IN  /\ e.start = IF i = 1 THEN 0 ELSE events[i - 1].start + events[i - 1].size
            /\ \A k \in 1 .. e.size - 1 : memory[e.start + k] = Layout(e)[k]
            /\ Cut(e) => /\ i = Len(events) /\ pc = "idle"
                          /\ e.start + e.size \in CopyLimit .. CopyLimit + ChunkOf(e) - 1

(* The decoder finds the events that were written, in their order, each     *)
(* with its time, color, context and name, whatever was in the memory of    *)
(* the block before.                                                        *)
DecodedAsWritten ==
    \A i \in DOMAIN decoded :
        /\ i <= Len(Known)
        /\ LET d == decoded[i]
               e == Known[i]
           IN  /\ d.type = e.request.type
               /\ d.time = e.time
               /\ d.color = ColorOf(e)
               /\ d.context = ContextOf(e)
               /\ d.name = NameIn(e, e.size)

(* The decoder always stands where a record begins or the last one ends,    *)
(* and has found exactly the events before that place: it jumps over none,  *)
(* so it can only go on, and the loop ends at the last one.                 *)
InStep ==
    flushed =>
        /\ \/ currentPosition = destination
           \/ \E i \in DOMAIN events : currentPosition = events[i].start
        /\ Parser!Finished <=> currentPosition = destination
        /\ Len(decoded) <= Len(Known)
        /\ \A i \in DOMAIN Known : i <= Len(decoded) <=> Known[i].start < currentPosition

(* The arguments are those that were passed, and 0 where the format string  *)
(* asks for more, if they are of the kinds it asks for.  Null strings are   *)
(* left to NullTakesItsPlace.                                               *)
ArgumentsAsPassed ==
    \A i \in DOMAIN decoded :
        LET e == Known[i]
        IN  SpecifiersFit(e.request) /\ ~HasNull(e) /\ ~Cut(e) /\ ~FillsSize(e) /\ ~Missing(e)
                => decoded[i].arguments = Formatted(e)

(* From the thread to the list of a decoded block: the entries with a       *)
(* context are the events on contexts, those without one are the thread's   *)
(* own timeline, each with its types and times and in its order.            *)
TimelinesComplete ==
    flushed /\ Parser!Finished =>
        \A ignoreEventContexts, gpuOnlyEvents, hasContext \in BOOLEAN :
            LET list == DecodeTimingBlock(ignoreEventContexts, gpuOnlyEvents)
                entries == {x \in Range(list) : x.hasContext = hasContext}
                emitted == {e \in Range(Known) :
                               OnTimeline(e, hasContext, ignoreEventContexts, gpuOnlyEvents)}
            IN  EntryStamps(Among(list, entries)) = EventStamps(Among(Known, emitted))

(* EventReading.cpp:102: the bytes used by a string argument include its    *)
(* string info; so after a null string the arguments are those that were    *)
(* passed.                                                                  *)
NullTakesItsPlace ==
    \A i \in DOMAIN decoded :
        ~Cut(Known[i]) => decoded[i].arguments = Formatted(Known[i])

(* EventReading.cpp:334-335: what there was no space for is zero; what      *)
(* there was space for in part is a part of what was passed, with nothing   *)
(* else in it (PixEventTests.cpp:519-520).  Behind a null string an         *)
(* argument is taken from the one before it.                                *)
NothingElseIsRead ==
    \A i \in DOMAIN decoded :
        LET e == Known[i]
        IN  SpecifiersFit(e.request) /\ ~HasNull(e) /\ Cut(e)
                => \A j \in DOMAIN decoded[i].arguments :
                       IsPartOf(decoded[i].arguments[j], e, j)

(* So it is wherever the record was cut, but for one place: right behind    *)
(* the string info of a string.                                             *)
CutIsPrefix ==
    \A i \in DOMAIN decoded :
        LET e == Known[i]
        IN  SpecifiersFit(e.request) /\ ~HasNull(e) /\ Cut(e) /\ ~EndsAtInfo(e, e.size - 1)
                => \A j \in DOMAIN decoded[i].arguments :
                       IsPartOf(decoded[i].arguments[j], e, j)

(* EventReading.cpp:537: an event that has more than a format string is     *)
(* formatted.                                                               *)
VarArgsFormatted ==
    \A i \in DOMAIN decoded :
        LET r == Known[i].request
        IN  ~Cut(Known[i]) /\ r.args # <<>> /\ r.specs # <<>> => decoded[i].arguments # <<>>
=============================================================================
