----------------------------- MODULE EventFormat -----------------------------
(***************************************************************************)
(* The qwords of an event (PIXEventsCommon.h, PIXEventsFormat.h).           *)
(*                                                                          *)
(* A record is a header, then as far as the event has them a color, a       *)
(* context, the format string and the arguments.  A qword is known by what  *)
(* it was written for: the event's number, the part of the event, and the   *)
(* place in that part.  Characters and bits are left out, except the fields *)
(* of the header that are narrower than what goes into them.                *)
(***************************************************************************)
EXTENDS Naturals, Sequences

CONSTANTS
    SizeMax,         \* PIXEventsSizeMax, 127 in the code
    TimeModulus,     \* 2^44 in the code: the header keeps time % TimeModulus
    MaxArguments     \* PIX_MAX_ARGUMENTS, 16: how many are decoded

ASSUME FormatAssumption ==
    /\ SizeMax \in Nat \ {0}
    /\ TimeModulus \in Nat \ {0}
    /\ MaxArguments \in Nat

\* Memory from the heap that was never written.
Garbage == [kind |-> "garbage"]
\* PIXEventsBlockEndMarker
Marker == [kind |-> "marker"]
\* 0ull, written for a null string
Zero == [kind |-> "zero"]
\* What is behind the terminator of a string in its last chunk.
Padding == [kind |-> "padding"]

\* The color and the context of an event, and an argument of one qword.
Color(n) == [kind |-> "color", event |-> n]
Context(n) == [kind |-> "context", event |-> n]
Value(n, j) == [kind |-> "value", event |-> n, part |-> j]
\* PIXEncodeStringInfo.  A string is copied in chunks of one qword or, formerly, of two.
StringInfo(n, part, chunk) == [kind |-> "info", event |-> n, part |-> part, chunk |-> chunk]
(* The i-th of the k qwords of a string.  The terminator is in the last.    *)
(* The specifiers of a format string are in the first.                      *)
Chars(n, part, i, k, specs) ==
    [kind |-> "chars", event |-> n, part |-> part, index |-> i, last |-> i = k,
     specs |-> IF i = 1 THEN specs ELSE <<>>]

\* The format string is part 0 of an event, argument j is part j.
FormatPart == 0

\* PIXGetEventSize: the size in the header saturates.
PIXGetEventSize(qwords) == IF qwords > SizeMax THEN SizeMax ELSE qwords

(* PIXEncodeEventInfo.  hasColor stands for PIX_EVENT_METADATA_HAS_COLOR,   *)
(* which says that a color follows; an index color is in the header.        *)
PIXEncodeEventInfo(time, type, size, hasColor, onContext) ==
    [kind |-> "header", time |-> time % TimeModulus, type |-> type, size |-> size,
     hasColor |-> hasColor, onContext |-> onContext]

(* PIXEncodeEventInfo of PIXEventsLegacy.h, the header of version 1: its     *)
(* opcode says whether there are arguments and a context, and its size,     *)
(* bits that were not used, is 0.                                           *)
LegacyEventInfo(time, type, varArgs, onContext) ==
    [kind |-> "header", time |-> time % TimeModulus, type |-> type, size |-> 0,
     varArgs |-> varArgs, onContext |-> onContext]

(* PIXDecodeEventInfo: a header of version 1 is converted.  All of its      *)
(* events but the end have a color.                                         *)
PIXDecodeEventInfo(header) ==
    LET legacy == header.size = 0
    IN  [time |-> header.time, type |-> header.type, size |-> header.size,
         onContext |-> header.onContext,
         hasColor |-> IF legacy THEN header.type # "end" ELSE header.hasColor,
         legacy |-> legacy,
         noVarArgs |-> legacy /\ header.type # "end" /\ ~header.varArgs]

\* IsKnownOpcode
IsKnownOpcode(type) == type \in {"end", "begin", "marker"}
=============================================================================
