---------------------------- MODULE LegacyFormat -----------------------------
(***************************************************************************)
(* Records of version 1 (PIXEventsLegacy.h).  The color is a qword of its   *)
(* own, the format string is copied like an argument, behind a string info, *)
(* and strings in chunks of one or, where they are aligned to 16 bytes, of  *)
(* two qwords: the last chunk may go beyond the limit by one.               *)
(*                                                                          *)
(* What has been written is the sequence of its qwords; the limit is that   *)
(* of its length.                                                           *)
(***************************************************************************)
EXTENDS EventFormat, SequencesExt, Integers

Chunks(qwords, chunk) == (qwords + chunk - 1) \div chunk

\* Whole chunks, as long as one begins below the limit and the string goes on.
CopyChunks(record, limit, chars, chunk) ==
    LET n == Min({Chunks(Len(chars), chunk), Chunks(Max({limit - Len(record), 0}), chunk)})
    IN  record \o [i \in 1 .. n * chunk |-> IF i <= Len(chars) THEN chars[i] ELSE Padding]

\* PIXCopyEventArgument for a string, aligned to 16 bytes or not.
LegacyString(record, limit, n, part, k, specs, chunk) ==
    CopyChunks(Append(record, StringInfo(n, part, chunk)), limit,
               [i \in 1 .. k |-> Chars(n, part, i, k, specs)], chunk)

\* PIXCopyEventArgument for an argument, or the format string, which is part 0.
LegacyArgument(record, limit, n, part, a, specs, chunk) ==
    CASE Len(record) >= limit -> record
      [] Len(record) < limit /\ a.kind = "value" -> Append(record, Value(n, part))
      [] Len(record) < limit /\ a.kind = "null" -> Append(record, Zero)
      [] Len(record) < limit /\ a.kind = "string" ->
           LegacyString(record, limit, n, part, a.qwords, specs, chunk)

\* PIXCopyEventArguments(destination, limit, formatString, args...)
LegacyArguments(record, limit, n, r, chunk) ==
    LET format == [kind |-> IF r.format = 0 THEN "null" ELSE "string", qwords |-> r.format]
        named == LegacyArgument(record, limit, n, FormatPart, format, r.specs, chunk)
    IN  FoldLeft(LAMBDA sofar, j :
                     LegacyArgument(sofar, limit, n, j, r.args[j], <<>>, chunk),
                 named, [j \in 1 .. Len(r.args) |-> j])

\* PIXEventTypeInferer: whether there are arguments decides which opcode it is.
HasVarArgs(r) == r.args # <<>>
=============================================================================
