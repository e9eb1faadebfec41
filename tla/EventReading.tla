---------------------------- MODULE EventReading -----------------------------
(***************************************************************************)
(* How an event is read (EventReading.cpp) from qwords, of a block or of    *)
(* what D3D12 was given, for the records that EventFormat describes.        *)
(*                                                                          *)
(* Formatting is left out: an event is decoded to the qwords its color,     *)
(* context, name and arguments are taken from, an argument to <<>> where    *)
(* the code has 0 or an empty string.                                       *)
(***************************************************************************)
EXTENDS EventFormat, Integers, FiniteSetsExt, SequencesExt

AtLimit(cells, at, limit) == at >= limit
\* Reader::IsAtEnd, and the end of every loop
AtEnd(cells, at, limit) == at >= limit \/ cells[at] = Marker
-----------------------------------------------------------------------------
NothingRead == [used |-> 0, text |-> <<>>]

(* FindStringEnd: the qwords up to one with a terminator, or to the end.    *)
Terminates(cells, at) ==
    \/ cells[at].kind = "zero"
    \/ cells[at].kind = "chars" /\ cells[at].last
StringEnd(cells, at, limit) ==
    Min({i \in at .. limit : AtEnd(cells, i, limit) \/ (i > at /\ Terminates(cells, i - 1))})
\* Whole chunks are used, however the string ends.
Text(cells, at, limit, chunk) ==
    LET length == StringEnd(cells, at, limit) - at
    IN  [used |-> chunk * ((length + chunk - 1) \div chunk),
         text |-> [i \in 1 .. length |-> cells[at + i - 1]]]

\* ReadString of a format string whose string info is in the header.
ReadFormat(cells, source, limit) ==
    IF AtEnd(cells, source, limit) THEN NothingRead ELSE Text(cells, source, limit, 1)

(* ReadString of an argument, or of a format string of version 1.  Nothing  *)
(* is used where it was nullptr, where there is no string info or nothing   *)
(* behind it.                                                               *)
ReadArgumentString(cells, source, limit) ==
    IF \/ source >= limit
       \/ cells[source].kind # "info"
       \/ AtEnd(cells, source + 1, limit)
    THEN NothingRead
    ELSE LET read == Text(cells, source + 1, limit, cells[source].chunk)
         IN  [read EXCEPT !.used = @ + 1]

\* An argument for a specifier other than a string.
ReadValue(cells, source, limit) ==
    IF source < limit THEN [used |-> 1, text |-> <<cells[source]>>] ELSE NothingRead

\* An argument for a specifier.
ReadArgument(cells, s, source, limit) ==
    IF s = "value" THEN ReadValue(cells, source, limit)
                   ELSE ReadArgumentString(cells, source, limit)

(* PopulateFormatArguments: one argument after the other for the specifiers *)
(* of the format string, from source on.                                    *)
PopulateFormatArguments(cells, specs, source, limit) ==
    FoldLeft(LAMBDA sofar, s :
               LET read == ReadArgument(cells, s, source + sofar.used, limit)
               IN  [used |-> sofar.used + read.used,
                    arguments |-> Append(sofar.arguments, read.text)],
             [used |-> 0, arguments |-> <<>>],
             SubSeq(specs, 1, Min({Len(specs), MaxArguments})))

\* The format string is taken as it is.
Unformatted == [used |-> 0, arguments |-> <<>>]

\* The specifiers that can be read in a format string, even one that was cut.
Specs(text) == IF text # <<>> /\ Head(text).kind = "chars" THEN Head(text).specs ELSE <<>>

EndOfData(cells, at, limit) == limit
SizeTrusted(header) == ~header.legacy
\* The size of a record is known unless it is saturated or of version 1,
HasSize(header) == ~header.legacy /\ header.size < SizeMax
\* and gives the end of the arguments.
EndOfArguments(cells, at, limit) ==
    LET header == PIXDecodeEventInfo(cells[at])
    IN  IF HasSize(header) THEN at + header.size ELSE limit

TakesSizeOnly(header, used) == used = header.size
(* The header says that there are no arguments, or that the record has room *)
(* for nothing but the format string.                                       *)
NoVarArgs(header, used) ==
    header.noVarArgs \/ (~header.legacy /\ used = header.size)

NothingOfEvent ==
    [color |-> <<>>, context |-> <<>>, name |-> <<>>, formatUsed |-> 0,
     arguments |-> <<>>, used |-> 0]

(* ReadEventWithFormatParameters and ReadEventWithNoFormatParameters for    *)
(* the event whose header is at an offset.                                  *)
ReadEvent(cells, at, limit) ==
    LET header == PIXDecodeEventInfo(cells[at])
        color == IF header.hasColor THEN 1 ELSE 0
        context == IF header.onContext THEN 1 ELSE 0
        start == at + 1 + color + context
        name == IF header.legacy THEN ReadArgumentString(cells, start, limit)
                                 ELSE ReadFormat(cells, start, limit)
        source == start + name.used
        rest == IF NoVarArgs(header, source - at)
                THEN Unformatted
                ELSE PopulateFormatArguments(cells, Specs(name.text), source,
                                             EndOfArguments(cells, at, limit))
    IN  IF at + 1 >= limit
        THEN NothingOfEvent
        ELSE [color |-> IF header.hasColor THEN <<cells[at + 1]>> ELSE <<>>,
              context |-> IF header.onContext THEN <<cells[at + 1 + color]>> ELSE <<>>,
              name |-> name.text,
              formatUsed |-> name.used,
              arguments |-> rest.arguments,
              used |-> source + rest.used - (at + 1)]

ReadEndEvent(cells, at) ==
    IF cells[at].onContext
    THEN [NothingOfEvent EXCEPT !.context = <<cells[at + 1]>>, !.used = 1]
    ELSE NothingOfEvent
=============================================================================
