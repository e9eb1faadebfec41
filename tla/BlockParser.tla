----------------------------- MODULE BlockParser -----------------------------
(***************************************************************************)
(* BlockParser::ProcessEvents (BlockParser.cpp), for the records that       *)
(* EventBlock describes.  One step is one turn of the loop over the block.  *)
(*                                                                          *)
(* Of the guess where a record of saturated size ends, this keeps the test  *)
(* of the time; only headers are taken to pass for one.                     *)
(***************************************************************************)
EXTENDS EventReading

CONSTANT BlockQwords

VARIABLES
    memory,                  \* the block
    beginTimestamp,          \* m_blockStartTime
    endTimestamp,            \* m_blockEndTime
    currentPosition,
    maskedTimeBits,          \* the part of the time that headers do not have
    previousTimestamp,
    decoded                  \* the calls of the callback

block == <<memory, beginTimestamp, endTimestamp>>
parserVars == <<currentPosition, maskedTimeBits, previousTimestamp, decoded>>

NoCarry(t) == t
\* The time of an event, after the previous one, when its lower part wrapped.
Carry(t) == IF t < previousTimestamp THEN t + TimeModulus ELSE t
RestoredTime(header) == Carry(maskedTimeBits + header.time)

LaterHeader(at, previous, masked) ==
    memory[at].kind = "header" /\ masked + memory[at].time > previous
\* IsValidEventInfo: what is at an offset may be the next event.
IsValidEventInfo(at, previous, masked) ==
    /\ memory[at].kind = "header"
    /\ IsKnownOpcode(memory[at].type)
    /\ masked + memory[at].time >= previous
    /\ masked + memory[at].time <= endTimestamp
-----------------------------------------------------------------------------
HeaderNotCounted(at) == at + 1 + memory[at].size
\* currentPosition += eventSize - 1, after the header
BySize(at) == at + memory[at].size

(* The search for the event after one whose size is not known: where its    *)
(* data ends, or, if nothing valid is there, the next place behind its      *)
(* format string where something is.                                        *)
BySearch(at, data, thisTime, masked) ==
    LET peek == at + 1 + data.used
        from == at + 2 + data.formatUsed
        Good(i) == AtEnd(memory, i, BlockQwords) \/ IsValidEventInfo(i, thisTime, masked)
    IN  IF peek < BlockQwords /\ Good(peek)
        THEN peek
        ELSE Min({i \in from .. BlockQwords + from : Good(i)})

\* The header at the current position.
Current == PIXDecodeEventInfo(memory[currentPosition])

\* An event is at the current position, of a known type or not.
AtHeader(known) ==
    /\ ~AtEnd(memory, currentPosition, BlockQwords)
    /\ memory[currentPosition].kind = "header"
    /\ IsKnownOpcode(Current.type) = known

(* The callback is called with an event that has been read, and the loop    *)
(* goes on at an offset.                                                    *)
Deliver(data, next) ==
    /\ decoded' = Append(decoded, [type |-> Current.type, time |-> RestoredTime(Current),
                                   color |-> data.color, context |-> data.context,
                                   name |-> data.name, arguments |-> data.arguments])
    /\ previousTimestamp' = RestoredTime(Current)
    /\ maskedTimeBits' = RestoredTime(Current) - Current.time
    /\ currentPosition' = next
    /\ UNCHANGED block

(* An event of a type that is not known is skipped, its time is not looked  *)
(* at.  One of version 1 would be skipped qword by qword.                   *)
SkipUnknown ==
    /\ AtHeader(FALSE)
    /\ currentPosition' = IF Current.legacy THEN currentPosition + 1
                                            ELSE BySize(currentPosition)
    /\ UNCHANGED <<block, maskedTimeBits, previousTimestamp, decoded>>

\* Without a context there is nothing to skip but the header.
EndEvent ==
    /\ AtHeader(TRUE) /\ Current.type = "end"
    /\ LET data == ReadEndEvent(memory, currentPosition)
       IN  Deliver(data, IF Current.onContext /\ HasSize(Current)
                         THEN BySize(currentPosition)
                         ELSE currentPosition + 1 + data.used)

NamedEvent ==
    /\ AtHeader(TRUE) /\ Current.type # "end" /\ HasSize(Current)
    /\ Deliver(ReadEvent(memory, currentPosition, BlockQwords), BySize(currentPosition))

\* An event of version 1 without arguments ends where its name does.
LegacyNamedEvent ==
    /\ AtHeader(TRUE) /\ Current.noVarArgs
    /\ LET data == ReadEvent(memory, currentPosition, BlockQwords)
       IN  Deliver(data, currentPosition + 1 + data.used)

\* The size is saturated, so the record may be longer, or there is none.
LongEvent ==
    /\ AtHeader(TRUE) /\ Current.type # "end"
    /\ ~HasSize(Current) /\ ~Current.noVarArgs
    /\ LET data == ReadEvent(memory, currentPosition, BlockQwords)
       IN  Deliver(data, BySearch(currentPosition, data, RestoredTime(Current),
                                  RestoredTime(Current) - Current.time))

ProcessEvents == SkipUnknown \/ EndEvent \/ NamedEvent \/ LegacyNamedEvent \/ LongEvent

\* ProcessEvents begins.
ParserStarts ==
    /\ currentPosition' = 0
    /\ maskedTimeBits' = beginTimestamp - (beginTimestamp % TimeModulus)
    /\ previousTimestamp' = beginTimestamp
    /\ decoded' = <<>>

Finished == AtEnd(memory, currentPosition, BlockQwords)
=============================================================================
