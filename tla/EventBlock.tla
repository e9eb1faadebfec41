----------------------------- MODULE EventBlock ------------------------------
(***************************************************************************)
(* How a thread writes its events into its block (PIXEvents.h,              *)
(* PIXEventsCommon.h): PIXBeginEvent, PIXSetMarker and PIXEndEvent, with    *)
(* and without a context, and their Allocate halves.                        *)
(*                                                                          *)
(* A record may begin anywhere below the biased limit.  What is copied into *)
(* it is cut at a second limit, ReservedTailSpace before the end of the     *)
(* block, and the end marker goes behind whatever was copied.  One step is  *)
(* one call of the copying functions; the pointers are offsets in the data  *)
(* of the block, and threadInfo->destination is destination.                *)
(***************************************************************************)
EXTENDS EventFormat, Integers

CONSTANTS
    BlockQwords,             \* qwords of data in a block
    ReservedRecordSpace,     \* PIXEventsReservedRecordSpaceQwords, 64
    ReservedTailSpace,       \* PIXEventsReservedTailSpaceQwords, 2
    Requests,                \* the events the application may emit
    Advances,                \* by how much the clock may advance between two
    MaxBlocks,               \* bound: blocks a behaviour fills
    NoDestination

Argument == [kind : {"value", "string", "null"}, qwords : Nat \ {0}]
Specifier == {"value", "string"}

(* An event: its type, whether a color of 32 bits or an index is passed,    *)
(* whether it has a context, the qwords of its format string (0: nullptr),  *)
(* the specifiers in the format string, and the arguments.  A type that is  *)
(* "unknown" is that of a later version of the headers.                     *)
Request ==
    [type : {"begin", "marker", "end", "unknown"}, hasColor : BOOLEAN,
     onContext : BOOLEAN, format : Nat, specs : Seq(Specifier), args : Seq(Argument)]

ASSUME BlockAssumption ==
    /\ BlockQwords \in Nat /\ ReservedRecordSpace \in Nat /\ ReservedTailSpace \in Nat
    /\ ReservedTailSpace >= 1
    /\ ReservedRecordSpace >= ReservedTailSpace + 3
    /\ BlockQwords > ReservedRecordSpace
    /\ Requests \subseteq Request
    /\ \A r \in Requests : r.type = "end" => ~r.hasColor /\ r.args = <<>>
    /\ Advances \subseteq Nat
    /\ MaxBlocks \in Nat
    /\ NoDestination \notin Nat

VARIABLES
    memory,          \* the data of the block
    destination,     \* threadInfo->destination, NoDestination without a block
    blocks,          \* how many blocks have been allocated
    beginTimestamp,  \* of the block
    clock,           \* the last value of PIXGetTimestampCounter()
    pc,              \* what is copied next
    request,         \* the event that is emitted
    argument,        \* the argument to be copied next
    position,        \* the local variable destination
    time,            \* the local variable time
    serial,          \* how many events have begun, which numbers them
    events           \* history: the events in the block, oldest first

blockVars == <<memory, destination, blocks, beginTimestamp, clock>>
eventVars == <<pc, request, argument, position, time, serial>>
writerVars == <<blockVars, eventVars, events>>

BiasedLimit == BlockQwords - ReservedRecordSpace

IgnoreTail == BlockQwords
\* limit += PIXEventsSafeFastCopySpaceQwords
CopyLimit == BiasedLimit + (ReservedRecordSpace - ReservedTailSpace)

Offsets == 0 .. BlockQwords - 1

Init ==
    /\ memory = [i \in Offsets |-> Garbage]
    /\ destination = NoDestination
    /\ blocks = 0
    /\ beginTimestamp = 0
    /\ clock = 0
    /\ pc = "idle"
    /\ request = [type |-> "end", hasColor |-> FALSE, onContext |-> FALSE,
                  format |-> 0, specs |-> <<>>, args |-> <<>>]
    /\ argument = 1
    /\ position = 0
    /\ time = 0
    /\ serial = 0
    /\ events = <<>>
-----------------------------------------------------------------------------
\* The memory with cells written from an offset on.
Put(at, cells) ==
    [i \in Offsets |-> IF i - at + 1 \in DOMAIN cells THEN cells[i - at + 1] ELSE memory[i]]

\* How many of k qwords are copied from an offset on, before the limit.
Fitting(at, k) == IF at + k <= CopyLimit THEN k ELSE IF at < CopyLimit THEN CopyLimit - at ELSE 0

\* The cells of a string, as far as they are copied.
FittingChars(at, part, k, specs) ==
    [i \in 1 .. Fitting(at, k) |-> Chars(serial, part, i, k, specs)]

HasRoomToCopy == destination # NoDestination /\ destination <= CopyLimit
HasRoom == destination # NoDestination /\ destination < BiasedLimit

Header(r, t, size) ==
    PIXEncodeEventInfo(t, r.type, PIXGetEventSize(size), r.hasColor, r.onContext)

\* PIXEndEvent() without a context
IsBare(r) == r.type = "end" /\ ~r.onContext

(* The record begins: its header is skipped and the color written, both     *)
(* without a test.  An event that ends has no color; without a context its  *)
(* header is written at once, over the end marker of the record before.     *)
BeginRecord(r, at) ==
    /\ request' = r
    /\ argument' = 1
    /\ serial' = serial + 1
    /\ position' = at + 1 + (IF r.hasColor THEN 1 ELSE 0)
    /\ \/ /\ IsBare(r)
          /\ memory' = [memory EXCEPT ![at] = Header(r, time', 1)]
          /\ pc' = "mark"
       \/ /\ ~IsBare(r)
          /\ memory' = IF r.hasColor THEN [memory EXCEPT ![at + 1] = Color(serial')] ELSE memory
          /\ pc' = IF r.onContext THEN "context" ELSE "format"

\* There is room in the block: the time is taken here.
BeginEvent(r) ==
    /\ pc = "idle" /\ HasRoom
    /\ \E a \in Advances : clock' = clock + a
    /\ time' = clock'
    /\ BeginRecord(r, destination)
    /\ UNCHANGED <<destination, blocks, beginTimestamp, events>>

(* There is none: PIXEventsReplaceBlock, which hands the block over and     *)
(* allocates another.  The event has the time in the header of the new      *)
(* block.  The new block may be memory of an old one that was freed.        *)
AllocateBlock(r) ==
    /\ pc = "idle" /\ ~HasRoom /\ blocks < MaxBlocks
    /\ \E a \in Advances : clock' = clock + a
    /\ time' = clock'
    /\ beginTimestamp' = clock'
    /\ blocks' = blocks + 1
    /\ destination' = 0
    /\ events' = <<>>
    /\ BeginRecord(r, 0)

\* The heap is exhausted: the block is gone and the event is dropped.
AllocationFails ==
    /\ pc = "idle" /\ ~HasRoom /\ destination # NoDestination
    /\ destination' = NoDestination
    /\ events' = <<>>
    /\ UNCHANGED <<memory, blocks, beginTimestamp, clock, eventVars>>

\* PIXCopyEventArgument(destination, limit, context)
CopyContext ==
    /\ pc = "context"
    /\ LET n == Fitting(position, 1)
       IN  /\ memory' = Put(position, [i \in 1 .. n |-> Context(serial)])
           /\ position' = position + n
    /\ pc' = IF request.type = "end" THEN "finish" ELSE "format"
    /\ UNCHANGED <<destination, blocks, beginTimestamp, clock, request, argument,
                   time, serial, events>>

(* PIXCopyStringArgument of the format string: as many qwords as fit, or a  *)
(* zero, without a test, for nullptr.                                       *)
CopyFormat ==
    /\ pc = "format"
    /\ LET cells == IF request.format = 0
                    THEN <<Zero>>
                    ELSE FittingChars(position, FormatPart, request.format, request.specs)
       IN  /\ memory' = Put(position, cells)
           /\ position' = position + Len(cells)
    /\ pc' = "arguments"
    /\ UNCHANGED <<destination, blocks, beginTimestamp, clock, request, argument,
                   time, serial, events>>

(* PIXCopyEventArgument of the next argument: nothing at the limit, else a  *)
(* value, a zero for a null string, or the string info and what fits of the *)
(* string behind it.                                                        *)
CopyArgument ==
    /\ pc = "arguments" /\ argument <= Len(request.args)
    /\ LET a == request.args[argument]
           cells ==
             CASE position >= CopyLimit -> <<>>
               [] position < CopyLimit /\ a.kind = "value" -> <<Value(serial, argument)>>
               [] position < CopyLimit /\ a.kind = "null" -> <<Zero>>
               [] position < CopyLimit /\ a.kind = "string" ->
                    <<StringInfo(serial, argument, 1)>>
                        \o FittingChars(position + 1, argument, a.qwords, <<>>)
       IN  /\ memory' = Put(position, cells)
           /\ position' = position + Len(cells)
    /\ argument' = argument + 1
    /\ UNCHANGED <<destination, blocks, beginTimestamp, clock, pc, request, time,
                   serial, events>>

MarkerMissing == memory
\* *destination = PIXEventsBlockEndMarker
EndMarked == [memory EXCEPT ![position] = Marker]

\* The destination is published.
Publish(size) ==
    /\ destination' = position
    /\ pc' = "idle"
    /\ events' = Append(events, [request |-> request, number |-> serial, time |-> time,
                                 start |-> destination, size |-> size])
    /\ UNCHANGED <<blocks, beginTimestamp, clock, request, argument, position, time, serial>>

(* The end marker is written behind the record, and only then the header,   *)
(* which replaces the end marker of the record before.                      *)
FinishEvent ==
    /\ \/ pc = "finish"
       \/ pc = "arguments" /\ argument > Len(request.args)
    /\ LET size == position - destination
       IN  /\ memory' = [EndMarked EXCEPT ![destination] = Header(request, time, size)]
           /\ Publish(size)

\* PIXEndEvent writes the end marker behind its header.
MarkEnd ==
    /\ pc = "mark"
    /\ memory' = EndMarked
    /\ Publish(1)

WriterNext ==
    \/ \E r \in Requests : BeginEvent(r) \/ AllocateBlock(r)
    \/ AllocationFails
    \/ CopyContext \/ CopyFormat \/ CopyArgument \/ FinishEvent \/ MarkEnd

WriterSpec == Init /\ [][WriterNext]_writerVars
-----------------------------------------------------------------------------
(* The types of the writer's state.                                         *)
WriterTypeOK ==
    /\ DOMAIN memory = Offsets
    /\ destination \in Offsets \cup {NoDestination}
    /\ blocks \in Nat /\ beginTimestamp \in Nat /\ clock \in Nat
    /\ pc \in {"idle", "context", "format", "arguments", "finish", "mark"}
    /\ request \in Request
    /\ argument \in 1 .. Len(request.args) + 1
    /\ position \in Nat /\ time \in Nat /\ serial \in Nat

(* PIXEventsCommon.h:80-86: the space kept free at the end of a block is    *)
(* enough: no event, whatever its strings and arguments, is written beyond  *)
(* the block, and there is room for the end marker.                         *)
InBounds == pc # "idle" => position < BlockQwords

(* The end marker of the last complete event is in place, even while the    *)
(* next one is being written, so a block taken at any time ends; but for    *)
(* PIXEndEvent between its header and its marker.                           *)
Ended ==
    destination # NoDestination /\ destination > 0 /\ pc # "mark"
        => memory[destination] = Marker
=============================================================================
