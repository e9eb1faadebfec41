--------------------------- MODULE MCContextEvents ---------------------------
(***************************************************************************)
(* The events the run of ContextEvents lets an application emit.            *)
(***************************************************************************)
EXTENDS ContextBlobs

V == [kind |-> "value", qwords |-> 1]
S(k) == [kind |-> "string", qwords |-> k]

Event(type, hasColor, onContext, format, specs, args) ==
    [type |-> type, hasColor |-> hasColor, onContext |-> onContext,
     format |-> format, specs |-> specs, args |-> args]

End == Event("end", FALSE, FALSE, 0, <<>>, <<>>)
EndOnContext == Event("end", FALSE, TRUE, 0, <<>>, <<>>)
\* Fits everywhere; nullptr for a name; fewer arguments than the name asks for
Short == Event("begin", TRUE, TRUE, 1, <<"value">>, <<V>>)
Nameless == Event("marker", FALSE, TRUE, 0, <<>>, <<>>)
TooFew == Event("marker", FALSE, TRUE, 1, <<"string", "value">>, <<S(1)>>)
\* An argument, and a name, longer than a buffer and than the size field can say
LongString == Event("begin", FALSE, TRUE, 1, <<"string", "value">>, <<S(9), V>>)
LongName == Event("marker", TRUE, TRUE, 11, <<"value">>, <<V>>)

ContextRequests == {End, EndOnContext, Short, Nameless, TooFew, LongString, LongName}
=============================================================================
