----------------------------- MODULE EventLayout -----------------------------
(***************************************************************************)
(* What the qwords of an event are when nothing is cut, and what a reader   *)
(* of the event should find.  An event e has a number and the request it    *)
(* was emitted for; a request with a chunk is one of version 1.             *)
(***************************************************************************)
EXTENDS EventFormat, SequencesExt, Integers

IsOld(e) == "chunk" \in DOMAIN e.request
ChunkOf(e) == IF IsOld(e) THEN e.request.chunk ELSE 1

Truncated(s, k) == SubSeq(s, 1, Min({Len(s), Max({k, 0})}))

ColorOf(e) == IF e.request.hasColor THEN <<Color(e.number)>> ELSE <<>>
ContextOf(e) == IF e.request.onContext THEN <<Context(e.number)>> ELSE <<>>

CharsOf(e, part, k, specs) == [i \in 1 .. k |-> Chars(e.number, part, i, k, specs)]
\* A string with its string info, in whole chunks.
StringOf(e, part, chars) ==
    LET chunk == ChunkOf(e)
        k == chunk * ((Len(chars) + chunk - 1) \div chunk)
    IN  <<StringInfo(e.number, part, chunk)>>
            \o [i \in 1 .. k |-> IF i <= Len(chars) THEN chars[i] ELSE Padding]

\* The name of an event.
FormatText(e) ==
    IF e.request.type = "end" THEN <<>>
    ELSE IF e.request.format = 0 THEN <<Zero>>
    ELSE CharsOf(e, FormatPart, e.request.format, e.request.specs)
FormatOf(e) ==
    IF IsOld(e) /\ e.request.type # "end" THEN StringOf(e, FormatPart, FormatText(e))
                                          ELSE FormatText(e)

\* What the j-th argument stands for, and how it is written.
TextOf(e, j) ==
    LET a == e.request.args[j]
    IN  CASE a.kind = "value" -> <<Value(e.number, j)>>
          [] a.kind = "null" -> <<>>
          [] a.kind = "string" -> CharsOf(e, j, a.qwords, <<>>)
ArgumentOf(e, j) ==
    LET a == e.request.args[j]
    IN  CASE a.kind = "value" -> TextOf(e, j)
          [] a.kind = "null" -> <<Zero>>
          [] a.kind = "string" -> StringOf(e, j, TextOf(e, j))
ArgumentsOf(e) == FlattenSeq([j \in 1 .. Len(e.request.args) |-> ArgumentOf(e, j)])

\* All that follows the header.
Layout(e) == ColorOf(e) \o ContextOf(e) \o FormatOf(e) \o ArgumentsOf(e)

\* The name as far as it is in a record of some size.
NameIn(e, size) ==
    LET before == 1 + Len(ColorOf(e)) + Len(ContextOf(e)) + (IF IsOld(e) THEN 1 ELSE 0)
    IN  Truncated(FormatText(e), size - before)

\* What the specifiers of the format string stand for; 0 where nothing was passed.
Formatted(e) ==
    IF e.request.args = <<>>
    THEN <<>>
    ELSE [j \in 1 .. Min({Len(e.request.specs), MaxArguments}) |->
             IF j <= Len(e.request.args) THEN TextOf(e, j) ELSE <<>>]

\* What a specifier of an event that was cut stands for: a part of what was passed.
IsPartOf(a, e, j) == a = <<>> \/ (j <= Len(e.request.args) /\ IsPrefix(a, TextOf(e, j)))

\* An event that is cut so that n qwords behind its header are left ends with the
\* string info of a string of which nothing is left.
EndsAtInfo(e, n) == n \in 1 .. Len(Layout(e)) /\ Layout(e)[n].kind = "info"

(* What is read of such an event.  A string info with nothing behind it     *)
(* uses nothing, so it is what a later specifier stands for.                *)
IsReadOf(a, e, j, n) == IsPartOf(a, e, j) \/ (EndsAtInfo(e, n) /\ a = <<Layout(e)[n]>>)

(* The arguments are of the kinds that the specifiers ask for, as far as    *)
(* there are both; without a format string there are no specifiers.         *)
SpecifiersFit(r) ==
    /\ r.format = 0 => r.specs = <<>>
    /\ \A j \in DOMAIN r.specs \cap DOMAIN r.args :
          r.specs[j] = "value" <=> r.args[j].kind = "value"

HasNull(e) == \E j \in DOMAIN e.request.args : e.request.args[j].kind = "null"
=============================================================================
