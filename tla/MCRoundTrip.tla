----------------------------- MODULE MCRoundTrip -----------------------------
(***************************************************************************)
(* The events the runs of RoundTrip let an application emit.                *)
(***************************************************************************)
EXTENDS RoundTrip

V == [kind |-> "value", qwords |-> 1]
S(k) == [kind |-> "string", qwords |-> k]
N == [kind |-> "null", qwords |-> 1]

Event(type, hasColor, onContext, format, specs, args) ==
    [type |-> type, hasColor |-> hasColor, onContext |-> onContext,
     format |-> format, specs |-> specs, args |-> args]

End == Event("end", FALSE, FALSE, 0, <<>>, <<>>)
EndOnContext == Event("end", FALSE, TRUE, 0, <<>>, <<>>)
\* Nothing but a name; a name without room; nullptr for a name
Plain == Event("begin", FALSE, FALSE, 1, <<>>, <<>>)
Colored == Event("marker", TRUE, TRUE, 2, <<>>, <<>>)
Nameless == Event("begin", TRUE, FALSE, 0, <<>>, <<>>)
\* "... %d ... %s ... %d ... %d"
Four == Event("begin", FALSE, TRUE, 1, <<"value", "string", "value", "value">>,
              <<V, S(2), V, V>>)
\* "... %s ... %d" with a string, and with nullptr
StringFirst == Event("marker", FALSE, FALSE, 1, <<"string", "value">>, <<S(1), V>>)
NullFirst == Event("marker", FALSE, FALSE, 1, <<"string", "value">>, <<N, V>>)
\* More and fewer arguments than the format string asks for, and none asked for
TooMany == Event("marker", TRUE, FALSE, 1, <<"value">>, <<V, S(1)>>)
Extra == Event("marker", FALSE, FALSE, 1, <<>>, <<V, V>>)
TooFew == Event("begin", FALSE, FALSE, 1, <<"value", "value", "string">>, <<V>>)
\* A name and a string longer than a record that begins at the limit
LongName == Event("begin", TRUE, TRUE, 9, <<"value">>, <<V>>)
LongString == Event("marker", FALSE, FALSE, 1, <<"string", "value">>, <<S(9), V>>)
\* A string that is cut right behind its string info
LateString == Event("marker", FALSE, FALSE, 3, <<"string", "value">>, <<S(1), V>>)
TwoLate == Event("marker", FALSE, FALSE, 3, <<"string", "string", "value">>, <<S(1), S(1), V>>)
LateNull == Event("begin", FALSE, FALSE, 2, <<"string", "value", "string">>, <<N, V, S(9)>>)
\* A format string that ends where the size saturates
Saturated == Event("begin", FALSE, FALSE, 2, <<"value">>, <<V>>)
\* An event of a later version of the headers
Future == Event("unknown", FALSE, FALSE, 1, <<>>, <<V>>)

Old(chunk, type, onContext, format, specs, args) ==
    [type |-> type, hasColor |-> type # "end", onContext |-> onContext,
     format |-> format, specs |-> specs, args |-> args, chunk |-> chunk]

\* Events of code compiled with an earlier pix3.h: without arguments, in spite
\* of a specifier in the name; on a context; longer than the space that is left,
\* in pairs of qwords; with arguments that nothing asks for
OldNamed == Old(2, "begin", FALSE, 1, <<"value">>, <<>>)
OldContext == Old(1, "marker", TRUE, 2, <<"string", "value">>, <<S(1), V>>)
OldLong == Old(2, "begin", FALSE, 1, <<"string", "value">>, <<S(9), V>>)
OldExtra == Old(1, "marker", FALSE, 1, <<>>, <<V, V>>)
OldEnd == Old(1, "end", TRUE, 0, <<>>, <<>>)

NoRequests == {}
OldGuessRequests == {OldNamed, OldContext, OldLong, OldExtra, OldEnd}
LayoutRequests == {End, EndOnContext, Colored, Nameless, Four, StringFirst, TooMany,
                   TooFew, LongName, LongString, LateString, TwoLate, LateNull, Future}
GuessRequests == {End, Colored, NullFirst, TooMany, Extra, LongString, Saturated, Future}
NullRequests == {End, StringFirst, NullFirst}
CutRequests == {End, StringFirst, LateString}
SaturatedRequests == {End, Plain, Saturated}
=============================================================================
