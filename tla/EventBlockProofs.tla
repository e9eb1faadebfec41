-------------------------- MODULE EventBlockProofs --------------------------
(***************************************************************************)
(* For every block size, every reserved space the assumption allows and     *)
(* every set of events: no event is written beyond its block, and the last  *)
(* complete event is always followed by the end marker.                     *)
(*                                                                          *)
(* Then what the layout of an event consists of, and that what is copied of *)
(* its strings and arguments is as much of it as there is space for, for    *)
(* events of any length and both formats.  Layouts are flattened and        *)
(* arguments are folded over, so this takes induction over an interval.  It *)
(* comes from the order of the naturals being well-founded: a smallest      *)
(* number that was missed has one before it.                                *)
(***************************************************************************)
EXTENDS EventBlock, EventLayout, LegacyFormat, SequenceTheorems, WellFoundedInduction,
        TLAPS

(* How far a record has come at most.  The color and the context are taken  *)
(* for granted, so are three qwords above the biased limit.                 *)
Positions ==
    /\ pc # "idle" => destination \in Nat /\ destination < position
    /\ pc \in {"context", "mark"} => position <= BiasedLimit + 1
    /\ pc = "format" => position <= BiasedLimit + 2
    /\ pc \in {"arguments", "finish"} => position <= CopyLimit

WriterIInv == WriterTypeOK /\ Positions /\ Ended
-----------------------------------------------------------------------------
(* What the assumption on the constants says of the two limits.             *)
LEMMA Limits ==
    /\ BiasedLimit \in Nat /\ CopyLimit \in Nat /\ BlockQwords \in Nat
    /\ 1 <= BiasedLimit
    /\ BiasedLimit + 3 <= CopyLimit
    /\ CopyLimit < BlockQwords
BY BlockAssumption DEF BiasedLimit, CopyLimit

(* What is copied from an offset on stays below the limit.                  *)
LEMMA FittingBounds ==
    ASSUME NEW at \in Nat, NEW k \in Nat
    PROVE  /\ Fitting(at, k) \in Nat
           /\ at <= CopyLimit => at + Fitting(at, k) <= CopyLimit
BY Limits DEF Fitting

(* The number of cells of a string that are copied.                         *)
LEMMA FittingCharsLength ==
    ASSUME NEW at \in Nat, NEW part, NEW k \in Nat, NEW specs
    PROVE  /\ FittingChars(at, part, k, specs)
                  \in Seq({Chars(serial, part, i, k, specs) : i \in Nat})
           /\ Len(FittingChars(at, part, k, specs)) = Fitting(at, k)
<1>1. Fitting(at, k) \in Nat
  BY FittingBounds
<1> DEFINE S == {Chars(serial, part, i, k, specs) : i \in Nat}
           c(i) == Chars(serial, part, i, k, specs)
<1>2. \A i \in 1 .. Fitting(at, k) : c(i) \in S
  BY <1>1
<1> HIDE DEF S, c
<1>3. [i \in 1 .. Fitting(at, k) |-> c(i)] \in Seq(S)
      /\ Len([i \in 1 .. Fitting(at, k) |-> c(i)]) = Fitting(at, k)
  BY <1>1, <1>2
<1> QED
  BY <1>3 DEF FittingChars, S, c

(* Writing behind an offset keeps what is before it.                        *)
LEMMA PutKeeps ==
    ASSUME NEW at \in Nat, NEW S, NEW cells \in Seq(S)
    PROVE  /\ DOMAIN Put(at, cells) = Offsets
           /\ \A i \in Offsets : i < at => Put(at, cells)[i] = memory[i]
BY BlockAssumption DEF Put, Offsets
-----------------------------------------------------------------------------
(* A thread has no block and no event at first.                             *)
LEMMA WriterInit == Init => WriterIInv
<1> SUFFICES ASSUME Init PROVE WriterIInv
  OBVIOUS
<1>1. request \in Request
  BY DEF Init, Request
<1>2. WriterTypeOK
  BY <1>1 DEF Init, WriterTypeOK, Offsets
<1> QED
  BY <1>2 DEF Init, WriterIInv, Positions, Ended

(* A record that begins below the biased limit, where the end marker of the *)
(* one before is, if there is one.                                          *)
LEMMA BeginRecordKeeps ==
    ASSUME NEW r \in Requests, NEW at \in Nat, at < BiasedLimit, WriterTypeOK,
           BeginRecord(r, at)
    PROVE  /\ DOMAIN memory' = Offsets
           /\ pc' # "mark" => memory'[at] = memory[at]
           /\ pc' \in {"context", "format", "mark"}
           /\ request' \in Request
           /\ argument' \in 1 .. Len(request'.args) + 1
           /\ serial' \in Nat
           /\ position' \in at + 1 .. BiasedLimit + 1
<1>1. r \in Request /\ r.hasColor \in BOOLEAN /\ Len(r.args) \in Nat
  BY BlockAssumption DEF Request
<1>2. position' \in at + 1 .. BiasedLimit + 1
  BY <1>1, Limits DEF BeginRecord
<1>3. /\ DOMAIN memory' = Offsets
      /\ pc' # "mark" => memory'[at] = memory[at]
      /\ pc' \in {"context", "format", "mark"}
  <2>1. at + 1 # at /\ at \in Offsets
    BY Limits DEF Offsets
  <2>2. CASE IsBare(r)
    <3>1. \E h : memory' = [memory EXCEPT ![at] = h] /\ pc' = "mark"
      BY <2>2 DEF BeginRecord
    <3> QED
      BY <3>1 DEF WriterTypeOK
  <2>3. CASE ~IsBare(r)
    <3>1. /\ pc' \in {"context", "format"}
          /\ \/ \E c : memory' = [memory EXCEPT ![at + 1] = c]
             \/ memory' = memory
      BY <2>3 DEF BeginRecord
    <3>2. DOMAIN memory' = Offsets /\ memory'[at] = memory[at]
      BY <2>1, <3>1 DEF WriterTypeOK
    <3> QED
      BY <3>1, <3>2
  <2> QED
    BY <2>2, <2>3
<1>4. request' \in Request /\ argument' \in 1 .. Len(request'.args) + 1
  BY <1>1 DEF BeginRecord
<1>5. serial' \in Nat
  BY DEF BeginRecord, WriterTypeOK
<1> QED
  BY <1>2, <1>3, <1>4, <1>5

(* Cells are copied behind the end marker, which stays.                     *)
LEMMA CopyKeeps ==
    ASSUME WriterIInv, pc \notin {"idle", "mark"},
           NEW S, NEW cells \in Seq(S),
           memory' = Put(position, cells),
           destination' = destination
    PROVE  /\ DOMAIN memory' = Offsets
           /\ Ended'
<1>1. destination \in Nat /\ destination < position /\ position \in Nat
  BY DEF WriterIInv, Positions, WriterTypeOK
<1>2. destination \in Offsets
  BY <1>1, BlockAssumption DEF WriterIInv, WriterTypeOK
<1> QED
  BY <1>1, <1>2, PutKeeps DEF Ended, WriterIInv

LEMMA BeginEventKeeps ==
    ASSUME WriterIInv, NEW r \in Requests, BeginEvent(r)
    PROVE  WriterIInv'
<1> USE DEF BeginEvent
<1>1. destination \in Nat /\ destination < BiasedLimit
  BY BlockAssumption DEF HasRoom, WriterIInv, WriterTypeOK, Offsets
<1>2. /\ DOMAIN memory' = Offsets
      /\ pc' # "mark" => memory'[destination] = memory[destination]
      /\ pc' \in {"context", "format", "mark"}
      /\ request' \in Request
      /\ argument' \in 1 .. Len(request'.args) + 1
      /\ serial' \in Nat
      /\ position' \in destination + 1 .. BiasedLimit + 1
  BY <1>1, BeginRecordKeeps DEF WriterIInv
<1>3. clock' \in Nat
  BY BlockAssumption DEF WriterIInv, WriterTypeOK
<1>4. WriterTypeOK'
  BY <1>1, <1>2, <1>3 DEF WriterIInv, WriterTypeOK, Offsets
<1>5. Positions'
  BY <1>1, <1>2, Limits DEF Positions
<1>6. Ended'
  BY <1>2 DEF WriterIInv, Ended
<1> QED
  BY <1>4, <1>5, <1>6 DEF WriterIInv

LEMMA AllocateBlockKeeps ==
    ASSUME WriterIInv, NEW r \in Requests, AllocateBlock(r)
    PROVE  WriterIInv'
<1> USE DEF AllocateBlock
<1>1. /\ DOMAIN memory' = Offsets
      /\ pc' \in {"context", "format", "mark"}
      /\ request' \in Request
      /\ argument' \in 1 .. Len(request'.args) + 1
      /\ serial' \in Nat
      /\ position' \in 1 .. BiasedLimit + 1
  BY Limits, BeginRecordKeeps DEF WriterIInv
<1>2. clock' \in Nat /\ blocks' \in Nat
  BY BlockAssumption DEF WriterIInv, WriterTypeOK
<1>3. WriterTypeOK'
  BY <1>1, <1>2, BlockAssumption DEF WriterIInv, WriterTypeOK, Offsets
<1>4. Positions'
  BY <1>1, Limits DEF Positions
<1>5. Ended'
  BY DEF Ended
<1> QED
  BY <1>3, <1>4, <1>5 DEF WriterIInv

LEMMA CopyContextKeeps ==
    ASSUME WriterIInv, CopyContext
    PROVE  WriterIInv'
<1> USE DEF CopyContext
<1> DEFINE n == Fitting(position, 1)
           cells == [i \in 1 .. n |-> Context(serial)]
<1>1. position \in Nat /\ position <= BiasedLimit + 1 /\ position <= CopyLimit
  BY Limits DEF WriterIInv, WriterTypeOK, Positions
<1>2. n \in 0 .. 1
  BY <1>1, Limits DEF Fitting
<1>3. position' = position + n /\ memory' = Put(position, cells)
  OBVIOUS
<1> HIDE DEF n
<1>4. cells \in Seq({Context(serial)})
  BY <1>2
<1> HIDE DEF cells
<1>5. DOMAIN memory' = Offsets /\ Ended'
  BY <1>3, <1>4, CopyKeeps
<1>6. WriterTypeOK'
  BY <1>1, <1>2, <1>3, <1>5 DEF WriterIInv, WriterTypeOK, Offsets
<1>7. Positions'
  BY <1>1, <1>2, <1>3, Limits DEF WriterIInv, Positions
<1> QED
  BY <1>5, <1>6, <1>7 DEF WriterIInv

LEMMA CopyFormatKeeps ==
    ASSUME WriterIInv, CopyFormat
    PROVE  WriterIInv'
<1> USE DEF CopyFormat
<1> DEFINE cells == IF request.format = 0
                    THEN <<Zero>>
                    ELSE FittingChars(position, FormatPart, request.format, request.specs)
<1>1. position \in Nat /\ position + 1 <= CopyLimit /\ position <= CopyLimit
  BY Limits DEF WriterIInv, WriterTypeOK, Positions
<1>2. request.format \in Nat
  BY DEF WriterIInv, WriterTypeOK, Request
<1>3. position' = position + Len(cells) /\ memory' = Put(position, cells)
  OBVIOUS
<1>4. /\ \E S : cells \in Seq(S)
      /\ Len(cells) \in Nat
      /\ position + Len(cells) <= CopyLimit
  <2>1. CASE request.format = 0
    <3>1. cells = <<Zero>> /\ <<Zero>> \in Seq({Zero}) /\ Len(<<Zero>>) = 1
      BY <2>1
    <3> HIDE DEF cells
    <3> QED
      BY <3>1, <1>1
  <2>2. CASE request.format # 0
    <3>1. cells = FittingChars(position, FormatPart, request.format, request.specs)
      BY <2>2
    <3>2. Fitting(position, request.format) \in Nat
          /\ position + Fitting(position, request.format) <= CopyLimit
      BY <1>1, <1>2, FittingBounds, Limits
    <3> HIDE DEF cells
    <3> QED
      BY <3>1, <3>2, <1>1, <1>2, FittingCharsLength
  <2> QED
    BY <2>1, <2>2
<1> HIDE DEF cells
<1>5. DOMAIN memory' = Offsets /\ Ended'
  BY <1>3, <1>4, CopyKeeps
<1>6. WriterTypeOK'
  BY <1>1, <1>3, <1>4, <1>5 DEF WriterIInv, WriterTypeOK, Offsets
<1>7. Positions'
  BY <1>1, <1>3, <1>4 DEF WriterIInv, Positions
<1> QED
  BY <1>5, <1>6, <1>7 DEF WriterIInv

LEMMA CopyArgumentKeeps ==
    ASSUME WriterIInv, CopyArgument
    PROVE  WriterIInv'
<1> DEFINE a == request.args[argument]
           text == FittingChars(position + 1, argument, a.qwords, <<>>)
           cells ==
             CASE position >= CopyLimit -> <<>>
               [] position < CopyLimit /\ a.kind = "value" -> <<Value(serial, argument)>>
               [] position < CopyLimit /\ a.kind = "null" -> <<Zero>>
               [] position < CopyLimit /\ a.kind = "string" ->
                    <<StringInfo(serial, argument, 1)>> \o text
<1>1. position \in Nat /\ position <= CopyLimit /\ CopyLimit \in Nat
  BY Limits DEF CopyArgument, WriterIInv, WriterTypeOK, Positions
<1>2. /\ argument \in 1 .. Len(request.args)
      /\ a.kind \in {"value", "string", "null"} /\ a.qwords \in Nat
  <2>1. request.args \in Seq(Argument)
    BY DEF WriterIInv, WriterTypeOK, Request
  <2>2. argument \in 1 .. Len(request.args)
    BY <2>1, LenProperties DEF CopyArgument, WriterIInv, WriterTypeOK
  <2>3. a \in Argument
    BY <2>1, <2>2, ElementOfSeq
  <2> QED
    BY <2>2, <2>3 DEF Argument
<1>3. /\ position' = position + Len(cells) /\ memory' = Put(position, cells)
      /\ pc = "arguments" /\ argument' = argument + 1
      /\ UNCHANGED <<destination, blocks, beginTimestamp, clock, pc, request, time, serial>>
  BY DEF CopyArgument
<1> HIDE DEF a
<1>4. /\ \E S : cells \in Seq(S)
      /\ Len(cells) \in Nat
      /\ position + Len(cells) <= CopyLimit
  <2>1. CASE position >= CopyLimit
    <3>1. cells = <<>> /\ <<>> \in Seq({}) /\ Len(<<>>) = 0
      BY <2>1, <1>1
    <3> HIDE DEF cells
    <3> QED
      BY <3>1, <1>1
  <2>2. CASE position < CopyLimit /\ a.kind = "value"
    <3> DEFINE v == Value(serial, argument)
    <3>1. cells = <<v>>
      BY <2>2, <1>1
    <3> HIDE DEF cells, v
    <3>2. cells \in Seq({v}) /\ Len(cells) = 1
      BY <3>1
    <3>3. position + 1 <= CopyLimit
      BY <2>2, <1>1
    <3> QED
      BY <3>2, <3>3
  <2>3. CASE position < CopyLimit /\ a.kind = "null"
    <3>1. cells = <<Zero>>
      BY <2>3, <1>1
    <3> HIDE DEF cells
    <3>2. cells \in Seq({Zero}) /\ Len(cells) = 1
      BY <3>1
    <3>3. position + 1 <= CopyLimit
      BY <2>3, <1>1
    <3> QED
      BY <3>2, <3>3
  <2>4. CASE position < CopyLimit /\ a.kind = "string"
    <3> DEFINE info == StringInfo(serial, argument, 1)
               C == {Chars(serial, argument, i, a.qwords, <<>>) : i \in Nat}
               k == Fitting(position + 1, a.qwords)
    <3>1. cells = <<info>> \o text
      BY <2>4, <1>1
    <3>2. position + 1 \in Nat /\ position + 1 <= CopyLimit
      BY <1>1, <2>4
    <3>3. text \in Seq(C) /\ Len(text) = k
      <4> HIDE DEF a
      <4> QED
        BY <1>2, <3>2, FittingCharsLength
    <3>4. k \in Nat /\ position + 1 + k <= CopyLimit
      <4> DEFINE p == position + 1
      <4> HIDE DEF a, p
      <4>1. p \in Nat /\ p <= CopyLimit /\ a.qwords \in Nat
        BY <3>2, <1>2 DEF p
      <4>2. Fitting(p, a.qwords) \in Nat /\ p + Fitting(p, a.qwords) <= CopyLimit
        BY <4>1, FittingBounds
      <4> QED
        BY <4>2 DEF p
    <3> HIDE DEF cells, info, text, C, k
    <3>5. <<info>> \in Seq(C \cup {info}) /\ text \in Seq(C \cup {info})
      BY <3>3
    <3>6. <<info>> \o text \in Seq(C \cup {info}) /\ Len(<<info>> \o text) = 1 + Len(text)
      BY <3>5, ConcatProperties
    <3> QED
      BY <3>1, <3>3, <3>4, <3>6, <1>1
  <2> QED
    BY <1>1, <1>2, <2>1, <2>2, <2>3, <2>4
<1> HIDE DEF cells
<1>5. DOMAIN memory' = Offsets /\ Ended'
  BY <1>3, <1>4, CopyKeeps
<1>6. WriterTypeOK'
  BY <1>1, <1>2, <1>3, <1>4, <1>5 DEF WriterIInv, WriterTypeOK, Offsets
<1>7. Positions'
  BY <1>1, <1>3, <1>4 DEF WriterIInv, Positions
<1> QED
  BY <1>5, <1>6, <1>7 DEF WriterIInv

(* The end marker is where the destination is published.                    *)
LEMMA PublishKeeps ==
    ASSUME WriterIInv, NEW size, Publish(size),
           pc # "idle", position <= CopyLimit,
           DOMAIN memory' = Offsets,
           position \in Offsets => memory'[position] = Marker
    PROVE  WriterIInv'
<1> USE DEF Publish
<1>1. position \in Offsets
  BY Limits DEF WriterIInv, WriterTypeOK, Offsets
<1>2. WriterTypeOK'
  BY <1>1 DEF WriterIInv, WriterTypeOK, Offsets
<1>3. Positions' /\ Ended'
  BY <1>1 DEF Positions, Ended
<1> QED
  BY <1>2, <1>3 DEF WriterIInv

LEMMA FinishEventKeeps ==
    ASSUME WriterIInv, FinishEvent
    PROVE  WriterIInv'
<1>1. pc # "idle" /\ position <= CopyLimit /\ destination \in Nat /\ destination < position
  BY DEF FinishEvent, WriterIInv, Positions
<1>2. DOMAIN memory' = Offsets /\ (position \in Offsets => memory'[position] = Marker)
  BY <1>1 DEF FinishEvent, EndMarked, WriterIInv, WriterTypeOK
<1> QED
  BY <1>1, <1>2, PublishKeeps DEF FinishEvent

LEMMA MarkEndKeeps ==
    ASSUME WriterIInv, MarkEnd
    PROVE  WriterIInv'
<1>1. pc # "idle" /\ position <= CopyLimit
  BY Limits DEF MarkEnd, WriterIInv, WriterTypeOK, Positions
<1>2. DOMAIN memory' = Offsets /\ (position \in Offsets => memory'[position] = Marker)
  BY DEF MarkEnd, EndMarked, WriterIInv, WriterTypeOK
<1> QED
  BY <1>1, <1>2, PublishKeeps DEF MarkEnd

(* Every step of the writer keeps the invariant.                            *)
LEMMA WriterStep == WriterIInv /\ [WriterNext]_writerVars => WriterIInv'
<1> SUFFICES ASSUME WriterIInv, [WriterNext]_writerVars PROVE WriterIInv'
  OBVIOUS
<1>1. ASSUME NEW r \in Requests, BeginEvent(r) PROVE WriterIInv'
  BY <1>1, BeginEventKeeps
<1>2. ASSUME NEW r \in Requests, AllocateBlock(r) PROVE WriterIInv'
  BY <1>2, AllocateBlockKeeps
<1>3. CASE AllocationFails
  BY <1>3 DEF AllocationFails, eventVars, WriterIInv, WriterTypeOK, Positions, Ended
<1>4. CASE CopyContext
  BY <1>4, CopyContextKeeps
<1>5. CASE CopyFormat
  BY <1>5, CopyFormatKeeps
<1>6. CASE CopyArgument
  BY <1>6, CopyArgumentKeeps
<1>7. CASE FinishEvent
  BY <1>7, FinishEventKeeps
<1>8. CASE MarkEnd
  BY <1>8, MarkEndKeeps
<1>9. CASE UNCHANGED writerVars
  BY <1>9 DEF writerVars, blockVars, eventVars, WriterIInv, WriterTypeOK, Positions, Ended,
     Offsets
<1> QED
  BY <1>1, <1>2, <1>3, <1>4, <1>5, <1>6, <1>7, <1>8, <1>9 DEF WriterNext
-----------------------------------------------------------------------------
(* The types of the writer's state are right in every reachable state.      *)
THEOREM WriterTypeCorrect == WriterSpec => []WriterTypeOK
<1>1. WriterIInv => WriterTypeOK
  BY DEF WriterIInv
<1> QED
  BY <1>1, WriterInit, WriterStep, PTL DEF WriterSpec

(* No event is written beyond its block: the reserved space suffices as     *)
(* soon as it is three qwords more than what copying leaves at the end.     *)
THEOREM BlockNeverOverrun == WriterSpec => []InBounds
<1>1. WriterIInv => InBounds
  <2> SUFFICES ASSUME WriterIInv, pc # "idle" PROVE position < BlockQwords
    BY DEF InBounds
  <2>1. position \in Nat /\ position <= CopyLimit
    BY Limits DEF WriterIInv, WriterTypeOK, Positions
  <2> QED
    BY <2>1, Limits
<1> QED
  BY <1>1, WriterInit, WriterStep, PTL DEF WriterSpec

(* A block with an event in it can be taken at any time but between the two *)
(* stores of PIXEndEvent: the end marker is behind the last complete event. *)
THEOREM BlockAlwaysEnded == WriterSpec => []Ended
<1>1. WriterIInv => Ended
  BY DEF WriterIInv
<1> QED
  BY <1>1, WriterInit, WriterStep, PTL DEF WriterSpec
-----------------------------------------------------------------------------
(* A set of numbers that has the first of an interval, and with each one    *)
(* below its end the next, has all of it.                                   *)
LEMMA Induction ==
    ASSUME NEW n \in Nat, NEW T, 0 \in T, \A i \in 0 .. n - 1 : i \in T => i + 1 \in T
    PROVE  \A i \in 0 .. n : i \in T
<1> DEFINE R == OpToRel(<, Nat)
           Missed == {i \in 0 .. n : i \notin T}
<1> SUFFICES ASSUME Missed # {} PROVE FALSE
  OBVIOUS
<1>1. \A m, k \in Nat : m < k => <<m, k>> \in R
  BY DEF OpToRel
<1>2. IsWellFoundedOn(R, Nat)
  BY NatLessThanWellFounded, Zenon
<1>3. Missed \subseteq Nat
  OBVIOUS
<1> HIDE DEF R
<1>4. PICK x \in Missed : \A y \in Missed : ~(<<y, x>> \in R)
  <2> HIDE DEF Missed
  <2> QED
    BY <1>2, <1>3, WFMin
<1>5. x \in 0 .. n /\ x \notin T /\ x # 0
  BY <1>4
<1>6. x - 1 \notin Missed
  <2>1. x - 1 \in Nat /\ x \in Nat /\ x - 1 < x
    BY <1>5
  <2>2. <<x - 1, x>> \in R
    BY <1>1, <2>1
  <2> HIDE DEF Missed
  <2> QED
    BY <1>4, <2>2
<1>7. x - 1 \in T /\ x - 1 \in 0 .. n - 1
  BY <1>5, <1>6
<1> QED
  BY <1>5, <1>7

(* A function of what there is so far and of a number, and its values from  *)
(* 0 on, each from the one before.                                          *)
IsStep(step, S, n) == step \in [S \X (1 .. n) -> S]
IsTrace(f, base, step, n) ==
    f[0] = base /\ \A i \in 1 .. n : f[i] = step[<<f[i - 1], i>>]

(* A function can be defined by recursion over an interval.                 *)
LEMMA Recursion ==
    ASSUME NEW n \in Nat, NEW S, NEW base \in S, NEW step, IsStep(step, S, n)
    PROVE  \E f \in [0 .. n -> S] : IsTrace(f, base, step, n)
<1> DEFINE Good(m) == \E f \in [0 .. m -> S] : IsTrace(f, base, step, m)
           T == {m \in 0 .. n : Good(m)}
<1>1. Good(0)
  <2> DEFINE f == [i \in 0 .. 0 |-> base]
  <2>1. f \in [0 .. 0 -> S] /\ IsTrace(f, base, step, 0)
    BY DEF IsTrace
  <2> HIDE DEF f
  <2> QED
    BY <2>1
<1>2. ASSUME NEW m \in 0 .. n - 1, Good(m) PROVE Good(m + 1)
  <2>1. PICK f \in [0 .. m -> S] : IsTrace(f, base, step, m)
    BY <1>2
  <2> DEFINE g == [i \in 0 .. m + 1 |-> IF i = m + 1 THEN step[<<f[m], m + 1>>] ELSE f[i]]
  <2>2. step[<<f[m], m + 1>>] \in S
    BY DEF IsStep
  <2>3. g \in [0 .. m + 1 -> S]
    BY <2>2
  <2>4. g[0] = base
    BY <2>1 DEF IsTrace
  <2>5. ASSUME NEW i \in 1 .. m + 1 PROVE g[i] = step[<<g[i - 1], i>>]
    <3>1. i \in 0 .. m + 1 /\ i - 1 \in 0 .. m /\ i - 1 # m + 1
      OBVIOUS
    <3>2. g[i - 1] = f[i - 1]
      BY <3>1
    <3>3. CASE i = m + 1
      <4>1. g[i] = step[<<f[m], i>>] /\ i - 1 = m
        BY <3>1, <3>3
      <4> HIDE DEF g
      <4> QED
        BY <3>2, <4>1
    <3>4. CASE i # m + 1
      <4>1. i \in 1 .. m /\ g[i] = f[i]
        BY <3>1, <3>4
      <4> QED
        BY <2>1, <3>2, <4>1 DEF IsTrace
    <3> QED
      BY <3>3, <3>4
  <2> HIDE DEF g
  <2> QED
    BY <2>3, <2>4, <2>5 DEF IsTrace
<1> HIDE DEF Good
<1>3. 0 \in T /\ \A m \in 0 .. n - 1 : m \in T => m + 1 \in T
  BY <1>1, <1>2
<1> HIDE DEF T
<1>4. n \in T
  BY <1>3, Induction
<1>5. Good(n)
  BY <1>4 DEF T
<1> QED
  BY <1>5 DEF Good
-----------------------------------------------------------------------------
(* The largest of some numbers.                                             *)
LEMMA LargestIsLast ==
    ASSUME NEW i \in Nat \ {0}, NEW s, s \subseteq 1 .. i, i \in s
    PROVE  Max(s) = i
<1>1. \A x \in s : (\A y \in s : x >= y) <=> x = i
  OBVIOUS
<1> QED
  BY <1>1 DEF Max

\* A set of numbers up to some number has a largest.
LEMMA Largest ==
    ASSUME NEW n \in Nat, NEW s, s \subseteq 1 .. n, s # {}
    PROVE  Max(s) \in s
<1> DEFINE Good(m) == \A t \in SUBSET (1 .. m) : t = {} \/ \E x \in t : \A y \in t : x >= y
           T == {m \in 0 .. n : Good(m)}
<1>1. 0 \in T
  OBVIOUS
<1>2. \A m \in 0 .. n - 1 : m \in T => m + 1 \in T
  <2> SUFFICES ASSUME NEW m \in 0 .. n - 1, m \in T,
                      NEW t \in SUBSET (1 .. m + 1), t # {}
               PROVE  \E x \in t : \A y \in t : x >= y
    OBVIOUS
  <2>1. CASE m + 1 \in t
    BY <2>1
  <2>2. CASE m + 1 \notin t
    <3>1. t \in SUBSET (1 .. m)
      BY <2>2
    <3> QED
      BY <3>1
  <2> QED
    BY <2>1, <2>2
<1> HIDE DEF T
<1>3. n \in T
  BY <1>1, <1>2, Induction
<1>4. \E x \in s : \A y \in s : x >= y
  BY <1>3 DEF T
<1> QED
  BY <1>4 DEF Max

(* What FoldLeft is defined by: a value for all sets of numbers.            *)
IsFold(g, base, step, n) ==
    \A s \in SUBSET (1 .. n) :
       g[s] = IF s = {} THEN base ELSE step[<<g[s \ {Max(s)}], Max(s)>>]

(* It exists.                                      *)
LEMMA FoldExists ==
    ASSUME NEW n \in Nat, NEW S, NEW base \in S, NEW step, IsStep(step, S, n)
    PROVE  \E g \in [SUBSET (1 .. n) -> S] : IsFold(g, base, step, n)
<1> DEFINE Next(g, s) == IF s = {} THEN base ELSE step[<<g[s \ {Max(s)}], Max(s)>>]
           Good(m) == \E g \in [SUBSET (1 .. m) -> S] : IsFold(g, base, step, m)
           T == {m \in 0 .. n : Good(m)}
<1>1. Good(0)
  <2> DEFINE g == [s \in SUBSET (1 .. 0) |-> base]
  <2>1. g \in [SUBSET (1 .. 0) -> S] /\ IsFold(g, base, step, 0)
    BY DEF IsFold
  <2> HIDE DEF g
  <2> QED
    BY <2>1
<1>2. ASSUME NEW m \in 0 .. n - 1, Good(m) PROVE Good(m + 1)
  <2>1. PICK g \in [SUBSET (1 .. m) -> S] : \A s \in SUBSET (1 .. m) : g[s] = Next(g, s)
    BY <1>2 DEF IsFold
  <2> DEFINE U == SUBSET (1 .. m + 1)
             h == [s \in U |-> IF m + 1 \in s THEN step[<<g[s \ {m + 1}], m + 1>>] ELSE g[s]]
  <2>2. \A s \in U : IF m + 1 \in s THEN s \ {m + 1} \in SUBSET (1 .. m)
                                    ELSE s \in SUBSET (1 .. m)
    OBVIOUS
  <2>3. h \in [U -> S]
    <3>1. ASSUME NEW s \in U, m + 1 \in s
          PROVE  step[<<g[s \ {m + 1}], m + 1>>] \in S
      <4>1. g[s \ {m + 1}] \in S /\ m + 1 \in 1 .. n
        BY <2>2, <3>1
      <4> QED
        BY <4>1 DEF IsStep
    <3>2. ASSUME NEW s \in U, m + 1 \notin s PROVE g[s] \in S
      BY <2>2, <3>2
    <3> QED
      BY <3>1, <3>2
  <2>4. ASSUME NEW s \in U PROVE h[s] = Next(h, s)
    <3>1. \A t \in SUBSET (1 .. m) : t \in U /\ h[t] = g[t]
      OBVIOUS
    <3>2. CASE m + 1 \in s
      <4>1. Max(s) = m + 1
        <5>1. m + 1 \in Nat \ {0} /\ s \subseteq 1 .. m + 1
          OBVIOUS
        <5> QED
          BY <3>2, <5>1, LargestIsLast
      <4>2. h[s] = step[<<g[s \ {m + 1}], m + 1>>] /\ h[s \ {m + 1}] = g[s \ {m + 1}]
        BY <2>2, <3>1, <3>2
      <4> HIDE DEF h
      <4> QED
        BY <3>2, <4>1, <4>2
    <3>3. CASE m + 1 \notin s
      <4>1. s \in SUBSET (1 .. m) /\ s \ {Max(s)} \in SUBSET (1 .. m)
        BY <2>2, <3>3
      <4>2. h[s] = g[s] /\ h[s \ {Max(s)}] = g[s \ {Max(s)}]
        BY <3>1, <4>1
      <4> HIDE DEF h
      <4> QED
        BY <2>1, <4>1, <4>2
    <3> QED
      BY <3>2, <3>3
  <2> HIDE DEF h
  <2> QED
    BY <2>3, <2>4 DEF IsFold
<1> HIDE DEF Good
<1>3. 0 \in T /\ \A m \in 0 .. n - 1 : m \in T => m + 1 \in T
  BY <1>1, <1>2
<1> HIDE DEF T
<1>4. n \in T
  BY <1>3, Induction
<1>5. Good(n)
  BY <1>4 DEF T
<1> QED
  BY <1>5 DEF Good
-----------------------------------------------------------------------------
\* A sequence is one and then another.
Follows(s, t, u) ==
    /\ Len(s) \in Nat /\ Len(t) \in Nat
    /\ Len(u) = Len(s) + Len(t)
    /\ \A k \in 1 .. Len(s) : u[k] = s[k]
    /\ \A k \in 1 .. Len(t) : u[Len(s) + k] = t[k]

\* That is what \o is.
LEMMA ConcatFollows ==
    ASSUME NEW S, NEW s \in Seq(S), NEW t \in Seq(S)
    PROVE  Follows(s, t, s \o t)
<1>1. Len(s) \in Nat /\ Len(t) \in Nat
  OBVIOUS
<1>2. /\ Len(s \o t) = Len(s) + Len(t)
      /\ \A i \in 1 .. Len(s) + Len(t) :
            (s \o t)[i] = IF i <= Len(s) THEN s[i] ELSE t[i - Len(s)]
  BY ConcatProperties
<1> DEFINE u == s \o t
           a == Len(s)
           b == Len(t)
<1> HIDE DEF u, a, b
<1>3. a \in Nat /\ b \in Nat
      /\ \A i \in 1 .. a + b : u[i] = IF i <= a THEN s[i] ELSE t[i - a]
  BY <1>1, <1>2 DEF u, a, b
<1>4. \A k \in 1 .. a : u[k] = s[k]
  BY <1>3
<1>5. \A k \in 1 .. b : u[a + k] = t[k]
  <2> TAKE k \in 1 .. b
  <2>1. a + k \in 1 .. a + b /\ ~(a + k <= a) /\ (a + k) - a = k
    BY <1>3
  <2> QED
    BY <1>3, <2>1
<1> QED
  BY <1>1, <1>2, <1>4, <1>5 DEF u, a, b, Follows

\* f[i] is the first i of n sequences one behind the other.
Concatenates(f, parts, n, S) ==
    /\ parts \in [1 .. n -> Seq(S)] /\ f \in [0 .. n -> Seq(S)]
    /\ f[0] = <<>> /\ \A i \in 1 .. n : f[i] = f[i - 1] \o parts[i]

\* Sequences that are put one behind the other.
LEMMA Concatenations ==
    ASSUME NEW n \in Nat, NEW S, NEW parts \in [1 .. n -> Seq(S)]
    PROVE  \E f : Concatenates(f, parts, n, S)
<1> DEFINE Q == Seq(S)
           step == [p \in Q \X (1 .. n) |-> p[1] \o parts[p[2]]]
<1>1. <<>> \in Q
  OBVIOUS
<1>2. IsStep(step, Q, n)
  <2>1. parts \in [1 .. n -> Q]
    BY DEF Q
  <2>2. \A s, t \in Q : s \o t \in Q
    BY ConcatProperties
  <2> HIDE DEF Q
  <2> QED
    BY <2>1, <2>2 DEF IsStep
<1> HIDE DEF Q
<1>3. \A s \in Q, i \in 1 .. n : step[<<s, i>>] = s \o parts[i]
  OBVIOUS
<1> HIDE DEF step
<1>4. PICK f \in [0 .. n -> Q] : IsTrace(f, <<>>, step, n)
  BY <1>1, <1>2, Recursion
<1>5. ASSUME NEW i \in 1 .. n PROVE f[i] = f[i - 1] \o parts[i]
  <2>1. f[i - 1] \in Q
    BY <1>4
  <2> QED
    BY <1>3, <1>4, <2>1 DEF IsTrace
<1> QED
  BY <1>4, <1>5 DEF Q, IsTrace, Concatenates

\* The j-th of them is where the first j - 1 end.
Placed(f, parts, n, j) ==
    /\ Len(f[j]) = Len(f[j - 1]) + Len(parts[j])
    /\ Len(f[j]) <= Len(f[n])
    /\ \A k \in 1 .. Len(parts[j]) : f[n][Len(f[j - 1]) + k] = parts[j][k]

\* So it is also in all of them together.
LEMMA ConcatenatedPlaces ==
    ASSUME NEW n \in Nat, NEW S, NEW parts, NEW f, Concatenates(f, parts, n, S),
           NEW j \in 1 .. n
    PROVE  Placed(f, parts, n, j)
<1>2. ASSUME NEW i \in 1 .. n PROVE Follows(f[i - 1], parts[i], f[i])
  <2>1. f[i - 1] \in Seq(S) /\ parts[i] \in Seq(S)
    <3>1. parts \in [1 .. n -> Seq(S)] /\ f \in [0 .. n -> Seq(S)]
      BY DEF Concatenates
    <3> QED
      BY <3>1
  <2>2. f[i] = f[i - 1] \o parts[i]
    BY DEF Concatenates
  <2> QED
    BY ConcatFollows, <2>1, <2>2
<1> DEFINE In(i) == /\ Len(f[i]) \in Nat
                    /\ Len(f[j]) <= Len(f[i])
                    /\ \A k \in 1 .. Len(f[j]) : f[i][k] = f[j][k]
           T == {i \in 0 .. n - j : In(j + i)}
           m == n - j
<1>3. In(j)
  <2>1. Len(f[j]) \in Nat
    BY <1>2 DEF Follows
  <2> QED
    BY <2>1
<1>4. ASSUME NEW i \in 0 .. m - 1, In(j + i) PROVE In(j + i + 1)
  <2> DEFINE x == j + i
             g == f[x]
             h == f[x + 1]
             p == parts[x + 1]
  <2>1. x + 1 \in 1 .. n /\ (x + 1) - 1 = x
    OBVIOUS
  <2> HIDE DEF x
  <2>2. Follows(g, p, h)
    BY <1>2, <2>1
  <2>3. In(x)
    BY <1>4 DEF x
  <2> HIDE DEF g, h, p
  <2>4. Len(f[j]) \in Nat
    BY <1>3
  <2> DEFINE a == Len(f[j])
             b == Len(g)
             c == Len(p)
  <2>5. a \in Nat /\ b \in Nat /\ c \in Nat /\ Len(h) = b + c /\ a <= b
    BY <2>2, <2>3, <2>4 DEF Follows, g
  <2>6. ASSUME NEW k \in 1 .. a PROVE h[k] = f[j][k]
    <3>1. g[k] = f[j][k]
      BY <2>3 DEF g
    <3>2. k \in 1 .. b
      <4> HIDE DEF a, b
      <4> QED
        BY <2>5
    <3>3. h[k] = g[k]
      BY <2>2, <3>2 DEF Follows
    <3> QED
      BY <3>1, <3>3
  <2>7. Len(h) \in Nat /\ a <= Len(h)
    <3> HIDE DEF a, b, c
    <3> QED
      BY <2>5
  <2> QED
    BY <2>6, <2>7 DEF x, h
<1> HIDE DEF In
<1>5. 0 \in T /\ m \in Nat
  BY <1>3
<1>6. \A i \in 0 .. m - 1 : i \in T => i + 1 \in T
  BY <1>4
<1> HIDE DEF T, m
<1>7. m \in 0 .. m
  BY <1>5
<1>8. m \in T
  BY <1>5, <1>6, <1>7, Induction, Zenon
<1>9. In(n)
  <2>1. j + m = n
    BY DEF m
  <2> QED
    BY <1>8, <2>1 DEF T
<1> QED
  <2> DEFINE g == f[j - 1]
             p == parts[j]
             h == f[j]
  <2>1. Follows(g, p, h)
    BY <1>2
  <2> HIDE DEF g, p, h
  <2>2. /\ Len(h) <= Len(f[n])
        /\ \A k \in 1 .. Len(h) : f[n][k] = h[k]
    BY <1>9 DEF In, h
  <2>3. ASSUME NEW k \in 1 .. Len(p) PROVE f[n][Len(g) + k] = p[k]
    <3>1. Len(g) + k \in 1 .. Len(h) /\ h[Len(g) + k] = p[k]
      BY <2>1 DEF Follows
    <3> QED
      BY <2>2, <3>1
  <2>4. Len(h) = Len(g) + Len(p)
    BY <2>1 DEF Follows
  <2> QED
    BY <2>2, <2>3, <2>4 DEF g, p, h, Placed

\* FlattenSeq puts one sequence behind the other.
LEMMA FlattenConcatenates ==
    ASSUME NEW n \in Nat, NEW S, NEW parts \in [1 .. n -> Seq(S)]
    PROVE  \E f : Concatenates(f, parts, n, S) /\ FlattenSeq(parts) = f[n]
<1>1. PICK f : Concatenates(f, parts, n, S)
  BY Concatenations
<1>2. parts \in Seq(Seq(S)) /\ Len(parts) = n
  OBVIOUS
<1>3. ASSUME NEW i \in 1 .. n
      PROVE  /\ f[i] = f[i - 1] \o parts[i]
             /\ i = 1 => f[i] = parts[i]
  <2>1. f[i] = f[i - 1] \o parts[i] /\ parts[i] \in Seq(S) /\ f[0] = <<>>
    BY <1>1 DEF Concatenates
  <2>2. <<>> \o parts[i] = parts[i]
    BY <2>1, ConcatEmptySeq
  <2>3. i = 1 => i - 1 = 0
    OBVIOUS
  <2> QED
    BY <2>1, <2>2, <2>3
<1>4. CASE n = 0
  <2>1. parts = <<>> /\ f[n] = <<>>
    BY <1>1, <1>2, <1>4 DEF Concatenates
  <2>2. FlattenSeq(parts) = <<>>
    BY <2>1 DEF FlattenSeq
  <2> QED
    BY <1>1, <2>1, <2>2
<1>5. CASE n # 0
  <2> DEFINE Next(g, i) == IF i = 1 THEN parts[i] ELSE g[i - 1] \o parts[i]
             Flatten(g) == g = [i \in 1 .. n |-> Next(g, i)]
             h == [i \in 1 .. n |-> f[i]]
             F == CHOOSE g : Flatten(g)
  <2>1. Flatten(h)
    <3>1. ASSUME NEW i \in 1 .. n PROVE f[i] = Next(h, i)
      <4>1. i = 1 \/ i - 1 \in 1 .. n
        OBVIOUS
      <4> QED
        BY <1>3, <4>1
    <3>2. h = [i \in 1 .. n |-> Next(h, i)]
      BY <3>1
    <3> QED
      BY <3>2
  <2>2. Flatten(F)
    <3> HIDE DEF h, Flatten
    <3> QED
      BY <2>1, Zenon
  <2>3. FlattenSeq(parts) = F[n]
    BY <1>2, <1>5 DEF FlattenSeq
  <2> HIDE DEF F
  <2>4. ASSUME NEW i \in 1 .. n PROVE F[i] = Next(F, i)
    BY <2>2
  <2> DEFINE T == {i \in 0 .. n - 1 : F[i + 1] = f[i + 1]}
             m == n - 1
  <2>5. 0 \in T /\ m \in Nat
    BY <1>3, <1>5, <2>4
  <2>6. ASSUME NEW i \in 0 .. m - 1, i \in T PROVE i + 1 \in T
    <3> DEFINE x == i + 2
    <3>1. /\ x \in 1 .. n /\ x # 1 /\ x - 1 = i + 1
          /\ i + 1 \in 0 .. n - 1 /\ (i + 1) + 1 = x
      OBVIOUS
    <3>2. F[x - 1] = f[x - 1]
      <4>1. F[i + 1] = f[i + 1]
        BY <2>6
      <4> HIDE DEF x
      <4> QED
        BY <3>1, <4>1
    <3> HIDE DEF x
    <3>3. F[x] = F[x - 1] \o parts[x]
      BY <2>4, <3>1
    <3>4. f[x] = f[x - 1] \o parts[x]
      BY <1>3, <3>1
    <3> QED
      BY <3>1, <3>2, <3>3, <3>4
  <2> HIDE DEF T, m
  <2>7. m \in 0 .. m
    BY <2>5
  <2>8. m \in T
    BY <2>5, <2>6, <2>7, Induction, Zenon
  <2>9. F[n] = f[n]
    <3>1. m + 1 = n
      BY DEF m
    <3> QED
      BY <2>8, <3>1 DEF T
  <2> QED
    BY <1>1, <2>3, <2>9
<1> QED
  BY <1>4, <1>5
-----------------------------------------------------------------------------
\* What an event has to be for its layout.
Emitted(e) ==
    /\ e.request.format \in Nat
    /\ e.request.args \in Seq(Argument)
    /\ ChunkOf(e) \in {1, 2}

\* All of the qwords it may have.
CellsOf(e) ==
    {Color(e.number), Context(e.number), Zero, Padding}
        \cup {Value(e.number, j) : j \in Nat}
        \cup {StringInfo(e.number, j, ChunkOf(e)) : j \in Nat}
        \cup {Chars(e.number, j, i, k, specs) :
                 j \in Nat, i \in Nat, k \in Nat, specs \in {<<>>, e.request.specs}}

\* A string with its string info, in whole chunks.
LEMMA StringPlaces ==
    ASSUME NEW e, Emitted(e), NEW part, NEW S, NEW chars \in Seq(S)
    PROVE  LET s == StringOf(e, part, chars)
               info == StringInfo(e.number, part, ChunkOf(e))
               k == Chunks(Len(chars), ChunkOf(e)) * ChunkOf(e)
           IN  /\ s \in Seq(S \cup {Padding, info})
               /\ k \in Len(chars) .. Len(chars) + ChunkOf(e) - 1
               /\ Len(s) = 1 + k
               /\ s[1] = info
               /\ \A i \in 1 .. k : s[1 + i] = IF i <= Len(chars) THEN chars[i] ELSE Padding
<1> DEFINE info == StringInfo(e.number, part, ChunkOf(e))
           chunk == ChunkOf(e)
           n == Len(chars)
           k == chunk * ((n + chunk - 1) \div chunk)
           text == [i \in 1 .. k |-> IF i <= n THEN chars[i] ELSE Padding]
           T == S \cup {Padding, info}
<1>1. StringOf(e, part, chars) = <<info>> \o text
  BY DEF StringOf
<1>2. n \in Nat /\ \A i \in 1 .. n : chars[i] \in S
  OBVIOUS
<1>3. chunk = 1 \/ chunk = 2
  BY DEF Emitted
<1> HIDE DEF info, chunk, n
<1>4. k \in n .. n + chunk - 1 /\ k = Chunks(n, chunk) * chunk
  <2>1. CASE chunk = 1
    BY <1>2, <2>1 DEF Chunks
  <2>2. CASE chunk = 2
    BY <1>2, <2>2 DEF Chunks
  <2> QED
    BY <1>3, <2>1, <2>2
<1>5. k \in Nat
  BY <1>2, <1>4
<1> HIDE DEF k
<1>6. \A i \in 1 .. k : (IF i <= n THEN chars[i] ELSE Padding) \in T
  BY <1>2, <1>5
<1>7. <<info>> \in Seq(T) /\ Len(<<info>>) = 1
  OBVIOUS
<1>8. text \in Seq(T) /\ Len(text) = k
  <2> HIDE DEF T
  <2> QED
    BY <1>5, <1>6
<1>9. <<info>> \o text \in Seq(T) /\ Follows(<<info>>, text, <<info>> \o text)
  <2> HIDE DEF T, text
  <2> QED
    BY <1>7, <1>8, ConcatFollows, ConcatProperties
<1>10. \A i \in 1 .. k : text[i] = IF i <= n THEN chars[i] ELSE Padding
  BY <1>5
<1> DEFINE s == StringOf(e, part, chars)
<1>11. s \in Seq(T) /\ Follows(<<info>>, text, s)
  BY <1>1, <1>9
<1> HIDE DEF s, text
<1>12. Len(s) = 1 + k /\ s[1] = info /\ \A i \in 1 .. k : s[1 + i] = text[i]
  BY <1>7, <1>8, <1>11 DEF Follows
<1> QED
  BY <1>4, <1>10, <1>11, <1>12 DEF s, info, chunk, n
-----------------------------------------------------------------------------
\* The qwords of an argument, and of a name.
LEMMA ArgumentHasCells ==
    ASSUME NEW e, Emitted(e), NEW j \in 1 .. Len(e.request.args)
    PROVE  ArgumentOf(e, j) \in Seq(CellsOf(e))
<1> DEFINE a == e.request.args[j]
           C == CellsOf(e)
           c(i) == Chars(e.number, j, i, a.qwords, <<>>)
<1>1. /\ a.kind \in {"value", "string", "null"} /\ a.qwords \in Nat
      /\ j \in Nat /\ ChunkOf(e) \in {1, 2}
  <2>1. a \in Argument
    BY ElementOfSeq DEF Emitted
  <2> HIDE DEF a
  <2> QED
    BY <2>1 DEF Emitted, Argument
<1> HIDE DEF a
<1>2. /\ Zero \in C /\ Padding \in C /\ Value(e.number, j) \in C
      /\ StringInfo(e.number, j, ChunkOf(e)) \in C
      /\ \A i \in Nat : c(i) \in C
  BY <1>1 DEF CellsOf
<1> HIDE DEF C, c
<1>3. CASE a.kind = "value"
  BY <1>2, <1>3 DEF ArgumentOf, TextOf, a, C
<1>4. CASE a.kind = "null"
  BY <1>2, <1>4 DEF ArgumentOf, a, C
<1>5. CASE a.kind = "string"
  <2> DEFINE chars == [i \in 1 .. a.qwords |-> c(i)]
  <2>1. ArgumentOf(e, j) = StringOf(e, j, chars)
    BY <1>5 DEF ArgumentOf, TextOf, CharsOf, a, c
  <2>2. chars \in Seq(C)
    BY <1>1, <1>2
  <2> HIDE DEF chars
  <2>3. StringOf(e, j, chars) \in Seq(C \cup {Padding, StringInfo(e.number, j, ChunkOf(e))})
    BY <1>1, <2>2, StringPlaces
  <2>4. C \cup {Padding, StringInfo(e.number, j, ChunkOf(e))} = C
    BY <1>2
  <2> QED
    BY <2>1, <2>3, <2>4 DEF C
<1> QED
  BY <1>1, <1>3, <1>4, <1>5

\* The qwords of a name.
LEMMA FormatCells ==
    ASSUME NEW e, Emitted(e)
    PROVE  FormatText(e) \in Seq(CellsOf(e)) /\ FormatOf(e) \in Seq(CellsOf(e))
<1> DEFINE C == CellsOf(e)
           k == e.request.format
           c(i) == Chars(e.number, FormatPart, i, k, e.request.specs)
<1>1. k \in Nat /\ ChunkOf(e) \in {1, 2} /\ FormatPart \in Nat
  BY DEF Emitted, FormatPart
<1> HIDE DEF k
<1>2. /\ Zero \in C /\ Padding \in C
      /\ StringInfo(e.number, FormatPart, ChunkOf(e)) \in C
      /\ \A i \in Nat : c(i) \in C
  BY <1>1 DEF CellsOf
<1> HIDE DEF C, c
<1>3. FormatText(e) \in Seq(C)
  <2> DEFINE chars == [i \in 1 .. k |-> c(i)]
  <2>1. chars \in Seq(C) /\ <<>> \in Seq(C) /\ <<Zero>> \in Seq(C)
    BY <1>1, <1>2
  <2>2. FormatText(e) \in {<<>>, <<Zero>>, chars}
    BY DEF FormatText, CharsOf, k, c
  <2> HIDE DEF chars
  <2> QED
    BY <2>1, <2>2
<1>4. StringOf(e, FormatPart, FormatText(e)) \in Seq(C)
  <2>1. StringOf(e, FormatPart, FormatText(e))
           \in Seq(C \cup {Padding, StringInfo(e.number, FormatPart, ChunkOf(e))})
    BY <1>1, <1>3, StringPlaces
  <2>2. C \cup {Padding, StringInfo(e.number, FormatPart, ChunkOf(e))} = C
    BY <1>2
  <2> QED
    BY <2>1, <2>2
<1> QED
  BY <1>3, <1>4 DEF FormatOf, C

\* Where in the layout of an event its color, context, name and arguments are.
NameEnd(e) == Len(ColorOf(e)) + Len(ContextOf(e)) + Len(FormatOf(e))
IsPlacing(at, e) ==
    /\ at \in [0 .. Len(e.request.args) -> Nat]
    /\ at[0] = NameEnd(e) /\ at[Len(e.request.args)] = Len(Layout(e))
    /\ \A j \in 1 .. Len(e.request.args) :
          /\ at[j] = at[j - 1] + Len(ArgumentOf(e, j))
          /\ at[j] <= Len(Layout(e))
          /\ \A k \in 1 .. Len(ArgumentOf(e, j)) : Layout(e)[at[j - 1] + k] = ArgumentOf(e, j)[k]
Ends(e) == CHOOSE at : IsPlacing(at, e)

(* The layout is made of the color, the context, the name and the arguments *)
(* in this order.                                                           *)
LEMMA LayoutPlaces ==
    ASSUME NEW e, Emitted(e)
    PROVE  /\ Layout(e) \in Seq(CellsOf(e)) /\ NameEnd(e) <= Len(Layout(e))
           /\ \A k \in 1 .. Len(ColorOf(e)) : Layout(e)[k] = ColorOf(e)[k]
           /\ \A k \in 1 .. Len(ContextOf(e)) :
                 Layout(e)[Len(ColorOf(e)) + k] = ContextOf(e)[k]
           /\ \A k \in 1 .. Len(FormatOf(e)) :
                 Layout(e)[Len(ColorOf(e)) + Len(ContextOf(e)) + k] = FormatOf(e)[k]
           /\ IsPlacing(Ends(e), e)
<1> DEFINE C == CellsOf(e)
           color == ColorOf(e)
           context == ContextOf(e)
           format == FormatOf(e)
           n == Len(e.request.args)
           parts == [j \in 1 .. n |-> ArgumentOf(e, j)]
           all == FlattenSeq(parts)
           L == Layout(e)
<1>1. color \in Seq(C) /\ context \in Seq(C) /\ format \in Seq(C)
  <2>1. <<>> \in Seq(C) /\ <<Color(e.number)>> \in Seq(C) /\ <<Context(e.number)>> \in Seq(C)
    BY DEF CellsOf
  <2> QED
    BY <2>1, FormatCells DEF ColorOf, ContextOf
<1>2. n \in Nat /\ parts \in [1 .. n -> Seq(C)]
  BY ArgumentHasCells DEF Emitted
<1> HIDE DEF parts, n
<1>3. PICK f : Concatenates(f, parts, n, C) /\ all = f[n]
  BY <1>2, FlattenConcatenates
<1>4. L = ((color \o context) \o format) \o all
  BY DEF Layout, ArgumentsOf, parts, n
<1>5. all \in Seq(C)
  BY <1>2, <1>3 DEF Concatenates
<1> HIDE DEF C, color, context, format, all
<1> DEFINE s == color \o context
           t == s \o format
           u == t \o all
<1>6. s \in Seq(C) /\ Follows(color, context, s)
  BY <1>1, ConcatFollows, ConcatProperties
<1> HIDE DEF s
<1>7. t \in Seq(C) /\ Follows(s, format, t)
  BY <1>1, <1>6, ConcatFollows, ConcatProperties
<1> HIDE DEF t
<1>8. u \in Seq(C) /\ Follows(t, all, u) /\ L = u
  BY <1>4, <1>5, <1>7, ConcatFollows, ConcatProperties DEF s, t
<1> HIDE DEF u, L
<1>9. /\ Len(s) = Len(color) + Len(context)
      /\ \A k \in 1 .. Len(color) : s[k] = color[k]
      /\ \A k \in 1 .. Len(context) : s[Len(color) + k] = context[k]
      /\ Len(color) \in Nat /\ Len(context) \in Nat
  BY <1>6 DEF Follows
<1>10. /\ Len(t) = Len(s) + Len(format)
       /\ \A k \in 1 .. Len(s) : t[k] = s[k]
       /\ \A k \in 1 .. Len(format) : t[Len(s) + k] = format[k]
       /\ Len(format) \in Nat
  BY <1>7 DEF Follows
<1>11. /\ Len(u) = Len(t) + Len(all)
       /\ \A k \in 1 .. Len(t) : u[k] = t[k]
       /\ \A k \in 1 .. Len(all) : u[Len(t) + k] = all[k]
       /\ Len(all) \in Nat
  BY <1>8 DEF Follows
<1>12. /\ \A k \in 1 .. Len(color) : u[k] = color[k]
       /\ \A k \in 1 .. Len(context) : u[Len(color) + k] = context[k]
       /\ \A k \in 1 .. Len(format) : u[Len(color) + Len(context) + k] = format[k]
  <2>1. ASSUME NEW k \in 1 .. Len(color) PROVE u[k] = color[k]
    <3>1. k \in 1 .. Len(s) /\ k \in 1 .. Len(t)
      BY <1>9, <1>10
    <3> QED
      BY <1>9, <1>10, <1>11, <3>1
  <2>2. ASSUME NEW k \in 1 .. Len(context) PROVE u[Len(color) + k] = context[k]
    <3>1. Len(color) + k \in 1 .. Len(s) /\ Len(color) + k \in 1 .. Len(t)
      BY <1>9, <1>10
    <3> QED
      BY <1>9, <1>10, <1>11, <3>1
  <2>3. ASSUME NEW k \in 1 .. Len(format)
        PROVE  u[Len(color) + Len(context) + k] = format[k]
    <3>1. Len(s) + k \in 1 .. Len(t)
      BY <1>9, <1>10
    <3>2. u[Len(s) + k] = format[k]
      BY <1>10, <1>11, <3>1
    <3> QED
      BY <1>9, <3>2
  <2> QED
    BY <2>1, <2>2, <2>3
<1>13. NameEnd(e) = Len(t)
  BY <1>9, <1>10 DEF NameEnd, color, context, format
<1> DEFINE at == [j \in 0 .. n |-> Len(t) + Len(f[j])]
<1>14. ASSUME NEW j \in 0 .. n PROVE Len(f[j]) \in Nat
  BY <1>2, <1>3 DEF Concatenates
<1>15. Len(t) \in Nat
  BY <1>7
<1>16. at \in [0 .. n -> Nat] /\ at[0] = NameEnd(e) /\ at[n] = Len(L)
  <2>1. Len(f[0]) = 0
    BY <1>3 DEF Concatenates
  <2>2. 0 \in 0 .. n /\ n \in 0 .. n
    BY <1>2
  <2> QED
    BY <1>3, <1>8, <1>11, <1>13, <1>14, <1>15, <2>1, <2>2
<1>17. ASSUME NEW j \in 1 .. n
       PROVE  /\ at[j] = at[j - 1] + Len(parts[j])
              /\ at[j] <= Len(L)
              /\ \A k \in 1 .. Len(parts[j]) : L[at[j - 1] + k] = parts[j][k]
  <2>1. /\ Len(f[j]) = Len(f[j - 1]) + Len(parts[j])
        /\ Len(f[j]) <= Len(all)
        /\ \A k \in 1 .. Len(parts[j]) : all[Len(f[j - 1]) + k] = parts[j][k]
    <3>1. Placed(f, parts, n, j)
      BY <1>2, <1>3, ConcatenatedPlaces
    <3> QED
      BY <1>3, <3>1 DEF Placed
  <2>2. j \in 0 .. n /\ j - 1 \in 0 .. n
    BY <1>2
  <2> DEFINE x == Len(f[j - 1])
             y == Len(f[j])
             p == parts[j]
  <2>3. x \in Nat /\ y \in Nat /\ Len(p) \in Nat
    BY <1>2, <1>14, <2>2
  <2>4. at[j] = Len(t) + y /\ at[j - 1] = Len(t) + x
    BY <2>2
  <2>5. y = x + Len(p) /\ y <= Len(all) /\ \A k \in 1 .. Len(p) : all[x + k] = p[k]
    BY <2>1
  <2> HIDE DEF at, x, y, p
  <2>6. ASSUME NEW k \in 1 .. Len(p) PROVE L[at[j - 1] + k] = p[k]
    <3>1. x + k \in 1 .. Len(all) /\ at[j - 1] + k = Len(t) + (x + k)
      BY <1>11, <1>15, <2>3, <2>4, <2>5
    <3> QED
      BY <1>8, <1>11, <2>5, <3>1
  <2>7. at[j] = at[j - 1] + Len(p) /\ at[j] <= Len(L)
    BY <1>8, <1>11, <1>15, <2>3, <2>4, <2>5
  <2> QED
    BY <2>6, <2>7 DEF p
<1> HIDE DEF at
<1>18. \A j \in 1 .. n : parts[j] = ArgumentOf(e, j)
  BY DEF parts
<1>19. IsPlacing(at, e)
  BY <1>16, <1>17, <1>18 DEF IsPlacing, n, L
<1>20. IsPlacing(Ends(e), e)
  BY <1>19, Zenon DEF Ends
<1>21. NameEnd(e) <= Len(L)
  BY <1>8, <1>11, <1>13, <1>15
<1> QED
  BY <1>8, <1>12, <1>20, <1>21 DEF C, L, color, context, format
-----------------------------------------------------------------------------
\* The smaller and the larger of two numbers.
LEMMA MinOfTwo == ASSUME NEW a \in Int, NEW b \in Int
                  PROVE  Min({a, b}) = IF a <= b THEN a ELSE b
<1>1. \A x \in {a, b} : (\A y \in {a, b} : x <= y) <=> x = IF a <= b THEN a ELSE b
  OBVIOUS
<1> QED
  BY <1>1 DEF Min

LEMMA MaxOfTwo == ASSUME NEW a \in Int, NEW b \in Int
                  PROVE  Max({a, b}) = IF a >= b THEN a ELSE b
<1>1. \A x \in {a, b} : (\A y \in {a, b} : x >= y) <=> x = IF a >= b THEN a ELSE b
  OBVIOUS
<1> QED
  BY <1>1 DEF Max

\* Whole chunks.
LEMMA ChunkBounds ==
    ASSUME NEW k \in Nat, NEW chunk \in {1, 2}
    PROVE  Chunks(k, chunk) \in Nat /\ Chunks(k, chunk) * chunk \in k .. k + chunk - 1
<1>1. CASE chunk = 1
  BY <1>1 DEF Chunks
<1>2. CASE chunk = 2
  BY <1>2 DEF Chunks
<1> QED
  BY <1>1, <1>2

\* What an argument is when all of it is copied.
Whole(e, part, a, specs) ==
    CASE a.kind = "value" -> <<Value(e.number, part)>>
      [] a.kind = "null" -> <<Zero>>
      [] a.kind = "string" -> StringOf(e, part, CharsOf(e, part, a.qwords, specs))

(* What is copied of an argument: as much of it as begins below the limit,  *)
(* which the last chunk can exceed.                                         *)
IsCopied(text, whole, e, length, limit) ==
    /\ text \in Seq(CellsOf(e))
    /\ Len(text) <= Len(whole)
    /\ \A k \in 1 .. Len(text) : text[k] = whole[k]
    /\ Len(text) = Len(whole) \/ limit <= length + Len(text)
    /\ length + Len(text) < limit + ChunkOf(e)

\* A string of a record of version 1.
LEMMA CopiedString ==
    ASSUME NEW e, Emitted(e), NEW part \in Nat, NEW k \in Nat,
           NEW specs \in {<<>>, e.request.specs},
           NEW C, CellsOf(e) \subseteq C, NEW record \in Seq(C), NEW limit \in Int,
           Len(record) < limit
    PROVE  \E text :
              /\ LegacyString(record, limit, e.number, part, k, specs, ChunkOf(e))
                    = record \o text
              /\ IsCopied(text, StringOf(e, part, CharsOf(e, part, k, specs)), e,
                          Len(record), limit)
<1> DEFINE chunk == ChunkOf(e)
           info == StringInfo(e.number, part, chunk)
           chars == [i \in 1 .. k |-> Chars(e.number, part, i, k, specs)]
           whole == StringOf(e, part, chars)
           begun == Append(record, info)
           n == Min({Chunks(Len(chars), chunk), Chunks(Max({limit - Len(begun), 0}), chunk)})
           cell(i) == IF i <= Len(chars) THEN chars[i] ELSE Padding
           cells == [i \in 1 .. n * chunk |-> cell(i)]
           text == <<info>> \o cells
           S == CellsOf(e)
<1>1. LegacyString(record, limit, e.number, part, k, specs, chunk) = begun \o cells
  BY DEF LegacyString, CopyChunks
<1>2. chunk \in {1, 2}
  BY DEF Emitted
<1>3. info \in S /\ Padding \in S /\ \A i \in Nat : Chars(e.number, part, i, k, specs) \in S
  BY DEF CellsOf
<1>4. chars \in Seq(S) /\ Len(chars) = k /\ \A i \in 1 .. k : chars[i] \in S
  <2> HIDE DEF S
  <2> QED
    BY <1>3
<1>5. CharsOf(e, part, k, specs) = chars
  BY DEF CharsOf
<1> HIDE DEF chunk, info, chars
<1>6. /\ Len(whole) = 1 + Chunks(k, chunk) * chunk
      /\ whole[1] = info
      /\ \A i \in 1 .. Chunks(k, chunk) * chunk : whole[1 + i] = cell(i)
  <2> HIDE DEF S
  <2> QED
    BY <1>4, StringPlaces DEF chunk, info
<1>7. Len(begun) = Len(record) + 1 /\ Len(record) \in Nat
  OBVIOUS
<1> DEFINE d == limit - Len(record) - 1
           x == Chunks(k, chunk)
           y == Chunks(d, chunk)
<1>8. d \in Nat /\ Max({limit - Len(begun), 0}) = d
  BY <1>7, MaxOfTwo
<1>9. /\ x \in Nat /\ x * chunk \in k .. k + chunk - 1
      /\ y \in Nat /\ y * chunk \in d .. d + chunk - 1
  <2> HIDE DEF d
  <2> QED
    BY <1>2, <1>8, ChunkBounds
<1>10. n = IF x <= y THEN x ELSE y
  <2>1. n = Min({x, y})
    BY <1>4, <1>8
  <2>2. x \in Int /\ y \in Int
    BY <1>9
  <2> HIDE DEF n, x, y
  <2> QED
    BY <2>1, <2>2, MinOfTwo
<1> HIDE DEF n, whole, x, y
<1>11. /\ n \in Nat /\ n * chunk \in Nat /\ n * chunk <= x * chunk
       /\ n = x \/ n * chunk >= d
       /\ n * chunk < d + chunk
  <2>1. CASE chunk = 1
    BY <1>8, <1>9, <1>10, <2>1
  <2>2. CASE chunk = 2
    BY <1>8, <1>9, <1>10, <2>2
  <2> QED
    BY <1>2, <2>1, <2>2
<1>12. \A i \in 1 .. n * chunk : cell(i) \in S
  <2> HIDE DEF S
  <2> QED
    BY <1>3, <1>4, <1>11
<1> HIDE DEF cell, S
<1>13. /\ cells \in Seq(S) /\ Len(cells) = n * chunk
       /\ \A i \in 1 .. n * chunk : cells[i] = cell(i)
  BY <1>11, <1>12
<1> HIDE DEF cells
<1>14. <<info>> \in Seq(S) /\ Len(<<info>>) = 1 /\ <<info>>[1] = info
  BY <1>3
<1>15. text \in Seq(S) /\ Follows(<<info>>, cells, text)
  BY <1>13, <1>14, ConcatFollows, ConcatProperties
<1>16. begun \o cells = record \o text
  <2>1. record \in Seq(C) /\ <<info>> \in Seq(C) /\ cells \in Seq(C)
    BY <1>13, <1>14, SeqMonotonic DEF S
  <2>2. begun = record \o <<info>>
    BY <1>3, AppendIsConcat DEF S
  <2> HIDE DEF begun
  <2> QED
    BY <2>1, <2>2, ConcatAssociative
<1> HIDE DEF text, begun
<1>17. /\ Len(text) = 1 + n * chunk
       /\ text[1] = info
       /\ \A i \in 1 .. n * chunk : text[1 + i] = cell(i)
  BY <1>13, <1>14, <1>15 DEF Follows
<1> DEFINE m == n * chunk
           z == x * chunk
<1>18. IsCopied(text, whole, e, Len(record), limit)
  <2> HIDE DEF m, z
  <2>0. /\ m \in Nat /\ z \in Nat /\ m <= z
        /\ Len(text) = 1 + m /\ Len(whole) = 1 + z
        /\ text[1] = info /\ \A i \in 1 .. m : text[1 + i] = cell(i)
        /\ whole[1] = info /\ \A i \in 1 .. z : whole[1 + i] = cell(i)
    <3>1. m \in Nat /\ z \in k .. k + chunk - 1 /\ m <= z
      BY <1>9, <1>11 DEF m, z
    <3>2. z \in Nat
      BY <1>2, <3>1
    <3>3. Len(text) = 1 + m /\ text[1] = info /\ \A i \in 1 .. m : text[1 + i] = cell(i)
      BY <1>17 DEF m
    <3>4. Len(whole) = 1 + z /\ whole[1] = info /\ \A i \in 1 .. z : whole[1 + i] = cell(i)
      BY <1>6 DEF z, x
    <3> QED
      BY <3>1, <3>2, <3>3, <3>4
  <2>1. Len(text) <= Len(whole)
    BY <2>0
  <2>2. ASSUME NEW j \in 1 .. Len(text) PROVE text[j] = whole[j]
    <3>1. CASE j = 1
      BY <2>0, <3>1
    <3>2. CASE j # 1
      <4> DEFINE i == j - 1
      <4>1. i \in 1 .. m /\ i \in 1 .. z /\ j = 1 + i
        BY <2>0, <3>2
      <4> HIDE DEF i
      <4>2. text[1 + i] = cell(i) /\ whole[1 + i] = cell(i)
        BY <2>0, <4>1
      <4> QED
        BY <4>1, <4>2
    <3> QED
      BY <3>1, <3>2
  <2>3. Len(text) = Len(whole) \/ limit <= Len(record) + Len(text)
    BY <1>7, <1>8, <1>11, <2>0 DEF m, z, x
  <2>4. Len(record) + Len(text) < limit + chunk
    BY <1>2, <1>7, <1>11, <2>0 DEF m
  <2> QED
    BY <1>15, <2>1, <2>2, <2>3, <2>4 DEF IsCopied, S, chunk
<1> QED
  BY <1>1, <1>5, <1>16, <1>18 DEF chunk, whole
-----------------------------------------------------------------------------
\* What LegacyArgument puts behind a record.
IsAdded(text, whole, e, record, limit) ==
    IF Len(record) >= limit THEN text = <<>>
                            ELSE IsCopied(text, whole, e, Len(record), limit)

Adds(record, longer, whole, e, limit) ==
    \E text : longer = record \o text /\ IsAdded(text, whole, e, record, limit)

\* What is asked of an argument, and of the record before it.
Copyable(e, part, a, specs, C, record, limit) ==
    /\ Emitted(e) /\ part \in Nat
    /\ a.kind \in {"value", "string", "null"} /\ a.qwords \in Nat
    /\ specs \in {<<>>, e.request.specs}
    /\ CellsOf(e) \subseteq C /\ record \in Seq(C) /\ limit \in Int

\* An argument, or the name, of a record of version 1.
LEMMA CopiedArgument ==
    ASSUME NEW e, NEW part, NEW a, NEW specs, NEW C, NEW record, NEW limit,
           Copyable(e, part, a, specs, C, record, limit)
    PROVE  Adds(record, LegacyArgument(record, limit, e.number, part, a, specs, ChunkOf(e)),
                Whole(e, part, a, specs), e, limit)
<1> DEFINE written == LegacyArgument(record, limit, e.number, part, a, specs, ChunkOf(e))
           whole == Whole(e, part, a, specs)
           Is(text) == written = record \o text /\ IsAdded(text, whole, e, record, limit)
<1> SUFFICES \E text : Is(text)
  BY DEF Adds
<1>0. /\ Emitted(e) /\ part \in Nat
      /\ a.kind \in {"value", "string", "null"} /\ a.qwords \in Nat
      /\ specs \in {<<>>, e.request.specs}
      /\ CellsOf(e) \subseteq C /\ record \in Seq(C) /\ limit \in Int
  BY DEF Copyable
<1>1. CASE Len(record) >= limit
  <2>1. record \o <<>> = record
    BY <1>0, ConcatEmptySeq
  <2>2. written = record
    BY <1>0, <1>1 DEF LegacyArgument
  <2>3. Is(<<>>)
    BY <1>0, <1>1, <2>1, <2>2 DEF IsAdded
  <2> HIDE DEF Is
  <2> QED
    BY <2>3
<1>2. ASSUME Len(record) < limit, NEW c \in CellsOf(e), written = Append(record, c),
             whole = <<c>>
      PROVE  \E text : Is(text)
  <2> HIDE DEF written, whole
  <2>1. Append(record, c) = record \o <<c>>
    BY <1>0, <1>2, AppendIsConcat
  <2>2. <<c>> \in Seq(CellsOf(e)) /\ Len(<<c>>) = 1
    BY <1>2
  <2>3. Len(record) \in Nat /\ ChunkOf(e) \in {1, 2}
    BY <1>0 DEF Emitted
  <2>4. IsCopied(<<c>>, <<c>>, e, Len(record), limit)
    BY <1>0, <1>2, <2>2, <2>3 DEF IsCopied
  <2>5. ~(Len(record) >= limit)
    BY <1>0, <1>2, <2>3
  <2>6. Is(<<c>>)
    BY <1>0, <1>2, <2>1, <2>4, <2>5 DEF IsAdded
  <2> HIDE DEF Is
  <2> QED
    BY <2>6
<1>3. CASE Len(record) < limit /\ a.kind = "value"
  <2>1. Value(e.number, part) \in CellsOf(e)
    BY <1>0 DEF CellsOf
  <2>2. written = Append(record, Value(e.number, part)) /\ whole = <<Value(e.number, part)>>
    BY <1>0, <1>3 DEF LegacyArgument, Whole
  <2> QED
    BY <1>2, <1>3, <2>1, <2>2
<1>4. CASE Len(record) < limit /\ a.kind = "null"
  <2>1. Zero \in CellsOf(e)
    BY <1>0 DEF CellsOf
  <2>2. written = Append(record, Zero) /\ whole = <<Zero>>
    BY <1>0, <1>4 DEF LegacyArgument, Whole
  <2> QED
    BY <1>2, <1>4, <2>1, <2>2
<1>5. CASE Len(record) < limit /\ a.kind = "string"
  <2>1. /\ written = LegacyString(record, limit, e.number, part, a.qwords, specs, ChunkOf(e))
        /\ whole = StringOf(e, part, CharsOf(e, part, a.qwords, specs))
        /\ ~(Len(record) >= limit)
    BY <1>0, <1>5 DEF LegacyArgument, Whole
  <2> HIDE DEF written, whole
  <2>2. \E text : written = record \o text /\ IsCopied(text, whole, e, Len(record), limit)
    BY <1>0, <1>5, <2>1, CopiedString
  <2> QED
    BY <2>1, <2>2 DEF IsAdded
<1>6. Len(record) \in Nat
  BY <1>0
<1> HIDE DEF Is
<1> QED
  BY <1>0, <1>1, <1>3, <1>4, <1>5, <1>6

(* A record, from its header on, is that of an event up to the m-th qword   *)
(* of the layout, or to the limit.                                          *)
RecordUpTo(record, e, C, limit, m) ==
    /\ record \in Seq(C) /\ 1 <= Len(record)
    /\ m \in Nat /\ m <= Len(Layout(e)) /\ Len(record) - 1 <= m
    /\ \A k \in 1 .. Len(record) - 1 : record[1 + k] = Layout(e)[k]
    /\ Len(record) - 1 = m \/ limit <= Len(record)
    /\ Len(record) < limit + ChunkOf(e)

\* A part of the layout.
IsPartAt(whole, e, m) ==
    /\ Len(whole) \in Nat /\ m + Len(whole) <= Len(Layout(e))
    /\ \A k \in 1 .. Len(whole) : Layout(e)[m + k] = whole[k]

\* The parts of a layout.
LEMMA LayoutParts ==
    ASSUME NEW e, Emitted(e)
    PROVE  /\ IsPartAt(ColorOf(e), e, 0)
           /\ IsPartAt(ContextOf(e), e, Len(ColorOf(e)))
           /\ IsPartAt(FormatOf(e), e, Len(ColorOf(e)) + Len(ContextOf(e)))
           /\ \A j \in 1 .. Len(e.request.args) : IsPartAt(ArgumentOf(e, j), e, Ends(e)[j - 1])
<1> DEFINE x == Len(ColorOf(e))
           y == Len(ContextOf(e))
           z == Len(FormatOf(e))
           L == Layout(e)
<1>1. x \in Nat /\ y \in Nat /\ z \in Nat
  BY FormatCells DEF ColorOf, ContextOf
<1>2. /\ Len(L) \in Nat /\ x + y + z <= Len(L)
      /\ \A k \in 1 .. x : L[k] = ColorOf(e)[k]
      /\ \A k \in 1 .. y : L[x + k] = ContextOf(e)[k]
      /\ \A k \in 1 .. z : L[x + y + k] = FormatOf(e)[k]
      /\ IsPlacing(Ends(e), e)
  BY LayoutPlaces DEF NameEnd
<1>3. ASSUME NEW j \in 1 .. Len(e.request.args)
      PROVE  IsPartAt(ArgumentOf(e, j), e, Ends(e)[j - 1])
  <2>1. Len(ArgumentOf(e, j)) \in Nat
    BY ArgumentHasCells
  <2>2. /\ Ends(e)[j] = Ends(e)[j - 1] + Len(ArgumentOf(e, j))
        /\ Ends(e)[j] <= Len(L)
        /\ \A k \in 1 .. Len(ArgumentOf(e, j)) :
              L[Ends(e)[j - 1] + k] = ArgumentOf(e, j)[k]
    BY <1>2 DEF IsPlacing
  <2> QED
    BY <2>1, <2>2 DEF IsPartAt
<1> HIDE DEF x, y, z, L
<1>4. \A k \in Nat : 0 + k = k
  OBVIOUS
<1>5. /\ x \in Nat /\ 0 + x <= Len(L)
      /\ \A k \in 1 .. x : L[0 + k] = ColorOf(e)[k]
  BY <1>1, <1>2, <1>4
<1>6. y \in Nat /\ x + y <= Len(L)
  BY <1>1, <1>2
<1>7. z \in Nat /\ (x + y) + z <= Len(L)
  BY <1>1, <1>2
<1> QED
  BY <1>2, <1>3, <1>5, <1>6, <1>7 DEF IsPartAt, x, y, z, L

\* With it, what was a sequence of some qwords still is one.
LEMMA AddedCells ==
    ASSUME NEW e, NEW C, CellsOf(e) \subseteq C, NEW record \in Seq(C), NEW limit,
           NEW whole, NEW longer, Adds(record, longer, whole, e, limit)
    PROVE  longer \in Seq(C)
<1>1. PICK text : longer = record \o text /\ IsAdded(text, whole, e, record, limit)
  BY DEF Adds
<1>2. text = <<>> \/ text \in Seq(CellsOf(e))
  BY <1>1 DEF IsAdded, IsCopied
<1>3. <<>> \in Seq(C)
  OBVIOUS
<1>4. text \in Seq(C)
  BY <1>2, <1>3, SeqMonotonic
<1>5. record \o text \in Seq(C)
  BY <1>4, ConcatProperties
<1> QED
  BY <1>1, <1>5

\* Only the last chunk exceeds the limit.
LEMMA AddedBelow ==
    ASSUME NEW e, ChunkOf(e) \in {1, 2}, NEW C, NEW record \in Seq(C), NEW limit \in Int,
           Len(record) < limit + ChunkOf(e),
           NEW whole, NEW longer, Adds(record, longer, whole, e, limit)
    PROVE  Len(longer) < limit + ChunkOf(e)
<1>1. PICK text : longer = record \o text /\ IsAdded(text, whole, e, record, limit)
  BY DEF Adds
<1>2. CASE text = <<>>
  <2>1. longer = record
    BY <1>1, <1>2
  <2> QED
    BY <2>1
<1>3. CASE text # <<>>
  <2>1. IsCopied(text, whole, e, Len(record), limit)
    BY <1>1, <1>3 DEF IsAdded
  <2>2. text \in Seq(CellsOf(e)) /\ Len(record) + Len(text) < limit + ChunkOf(e)
    BY <2>1 DEF IsCopied
  <2>3. Len(longer) = Len(record) + Len(text)
    <3> DEFINE U == C \cup CellsOf(e)
    <3>1. record \in Seq(U) /\ text \in Seq(U)
      BY <2>2
    <3> HIDE DEF U
    <3> QED
      BY <1>1, <3>1
  <2> QED
    BY <2>2, <2>3
<1> QED
  BY <1>2, <1>3

\* And it begins as before.
BeginsWith(longer, record) ==
    /\ Len(longer) \in Nat /\ Len(record) <= Len(longer)
    /\ \A i \in 1 .. Len(record) : longer[i] = record[i]

LEMMA AddedBehind ==
    ASSUME NEW e, NEW C, CellsOf(e) \subseteq C, NEW record \in Seq(C),
           NEW limit, NEW whole, NEW longer, Adds(record, longer, whole, e, limit)
    PROVE  BeginsWith(longer, record)
<1>1. PICK text : longer = record \o text /\ IsAdded(text, whole, e, record, limit)
  BY DEF Adds
<1>2. text = <<>> \/ text \in Seq(CellsOf(e))
  BY <1>1 DEF IsAdded, IsCopied
<1>3. <<>> \in Seq(C)
  OBVIOUS
<1>4. text \in Seq(C)
  BY <1>2, <1>3, SeqMonotonic
<1>5. Follows(record, text, record \o text)
  BY <1>4, ConcatFollows
<1> QED
  BY <1>1, <1>5 DEF Follows, BeginsWith

(* Where a record holds the layout up to the part that is copied next, it   *)
(* then holds that part as well.                                            *)
LEMMA RecordGoesOn ==
    ASSUME NEW e, Emitted(e), NEW C, CellsOf(e) \subseteq C, NEW limit \in Int, NEW m,
           NEW record, RecordUpTo(record, e, C, limit, m),
           NEW whole, IsPartAt(whole, e, m),
           NEW longer, Adds(record, longer, whole, e, limit)
    PROVE  RecordUpTo(longer, e, C, limit, m + Len(whole))
<1> DEFINE L == Layout(e)
           w == Len(whole)
           size == Len(record)
<1>0. PICK text : longer = record \o text /\ IsAdded(text, whole, e, record, limit)
  BY DEF Adds
<1>1. /\ record \in Seq(C) /\ 1 <= size
      /\ m \in Nat /\ m <= Len(L) /\ size - 1 <= m
      /\ \A k \in 1 .. size - 1 : record[1 + k] = L[k]
      /\ size - 1 = m \/ limit <= size
      /\ size < limit + ChunkOf(e)
  BY DEF RecordUpTo
<1>2. /\ w \in Nat /\ m + w <= Len(L)
      /\ \A k \in 1 .. w : L[m + k] = whole[k]
  BY DEF IsPartAt
<1>3. Len(L) \in Nat
  BY LayoutPlaces
<1>4. size \in Nat
  BY <1>1
<1>5. CASE size >= limit
  <2> DEFINE both == record \o text
  <2>1. both = record
    BY <1>0, <1>1, <1>5, ConcatEmptySeq DEF IsAdded
  <2> HIDE DEF L, w, both
  <2> QED
    BY <1>0, <1>1, <1>2, <1>3, <1>4, <1>5, <2>1 DEF RecordUpTo, L, w, both
<1>6. CASE ~(size >= limit)
  <2> DEFINE t == Len(text)
             both == record \o text
  <2>1. /\ text \in Seq(CellsOf(e)) /\ t <= w
        /\ \A k \in 1 .. t : text[k] = whole[k]
        /\ t = w \/ limit <= size + t
        /\ size + t < limit + ChunkOf(e)
    BY <1>0, <1>6 DEF IsAdded, IsCopied
  <2>2. text \in Seq(C) /\ t \in Nat
    BY <2>1, SeqMonotonic
  <2>3. both \in Seq(C) /\ Follows(record, text, both)
    BY <1>1, <2>2, ConcatFollows, ConcatProperties
  <2>4. size - 1 = m
    BY <1>1, <1>6
  <2> HIDE DEF L, w, size, both, t
  <2>5. /\ Len(both) = size + t
        /\ \A k \in 1 .. size : both[k] = record[k]
        /\ \A k \in 1 .. t : both[size + k] = text[k]
    BY <2>3 DEF Follows, size, t
  <2>6. ASSUME NEW k \in 1 .. Len(both) - 1 PROVE both[1 + k] = L[k]
    <3>1. CASE k <= m
      <4>1. k \in 1 .. size - 1 /\ 1 + k \in 1 .. size
        BY <1>4, <2>4, <3>1
      <4> QED
        BY <1>1, <2>5, <4>1
    <3>2. CASE ~(k <= m)
      <4> DEFINE i == k - m
      <4>1. i \in 1 .. t /\ i \in 1 .. w /\ k = m + i /\ 1 + k = size + i
        BY <1>1, <1>2, <1>4, <2>1, <2>2, <2>4, <2>5, <3>2
      <4> HIDE DEF i
      <4>2. both[size + i] = text[i] /\ text[i] = whole[i] /\ L[m + i] = whole[i]
        BY <1>2, <2>1, <2>5, <4>1
      <4> QED
        BY <4>1, <4>2
    <3> QED
      BY <3>1, <3>2
  <2>7. 1 <= Len(both) /\ m + w \in Nat /\ Len(both) - 1 <= m + w
    BY <1>1, <1>2, <1>4, <2>1, <2>2, <2>4, <2>5
  <2>8. Len(both) - 1 = m + w \/ limit <= Len(both)
    BY <1>1, <1>2, <1>4, <2>1, <2>2, <2>4, <2>5
  <2>9. Len(both) < limit + ChunkOf(e)
    BY <2>1, <2>5
  <2> QED
    BY <1>0, <1>2, <2>3, <2>6, <2>7, <2>8, <2>9 DEF RecordUpTo, both, L, w
<1> QED
  BY <1>5, <1>6
-----------------------------------------------------------------------------
(* What LegacyArguments is: the name, and then each argument on what there  *)
(* was before it.                                                           *)
IsWriting(f, record, limit, n, r, chunk) ==
    /\ f[0] = LegacyArgument(record, limit, n, FormatPart,
                             [kind |-> IF r.format = 0 THEN "null" ELSE "string",
                              qwords |-> r.format], r.specs, chunk)
    /\ \A j \in 1 .. Len(r.args) :
          f[j] = LegacyArgument(f[j - 1], limit, n, j, r.args[j], <<>>, chunk)
    /\ LegacyArguments(record, limit, n, r, chunk) = f[Len(r.args)]

(* The records made on the way are in a set which copying does not leave.   *)
Stays(Q, record, limit, n, r, chunk) ==
    /\ LegacyArgument(record, limit, n, FormatPart,
                      [kind |-> IF r.format = 0 THEN "null" ELSE "string",
                       qwords |-> r.format], r.specs, chunk) \in Q
    /\ \A s \in Q, j \in 1 .. Len(r.args) :
          LegacyArgument(s, limit, n, j, r.args[j], <<>>, chunk) \in Q

(* There is such a sequence of records: the fold over the arguments by      *)
(* which LegacyArguments is defined has values for all sets of them.        *)
LEMMA WritingWithin ==
    ASSUME NEW record, NEW limit, NEW n, NEW r, Len(r.args) \in Nat, NEW chunk, NEW Q,
           Stays(Q, record, limit, n, r, chunk)
    PROVE  \E f : /\ IsWriting(f, record, limit, n, r, chunk)
                  /\ \A j \in 0 .. Len(r.args) : f[j] \in Q
<1> DEFINE args == r.args
           N == Len(args)
           D == 1 .. N
           format == [kind |-> IF r.format = 0 THEN "null" ELSE "string", qwords |-> r.format]
           named == LegacyArgument(record, limit, n, FormatPart, format, r.specs, chunk)
           Op(s, j) == LegacyArgument(s, limit, n, j, args[j], <<>>, chunk)
           step == [p \in Q \X D |-> Op(p[1], p[2])]
           order == [j \in D |-> j]
           Folds(g) == g = [s \in SUBSET D |->
                               IF s = {} THEN named
                               ELSE Op(g[s \ {Max(s)}], order[Max(s)])]
           h == CHOOSE g : Folds(g)
<1>1. N \in Nat /\ DOMAIN order = D
  OBVIOUS
<1>2. LegacyArguments(record, limit, n, r, chunk) = h[D]
  BY DEF LegacyArguments, FoldLeft, MapThenFoldSet
<1>3. named \in Q
  BY DEF Stays
<1>4. ASSUME NEW s \in Q, NEW j \in D PROVE Op(s, j) \in Q
  BY DEF Stays
<1> HIDE DEF Op, named, args, N
<1>5. IsStep(step, Q, N) /\ \A s \in Q, j \in D : step[<<s, j>>] = Op(s, j)
  BY <1>4 DEF IsStep
<1> HIDE DEF step
<1>6. PICK g \in [SUBSET D -> Q] : IsFold(g, named, step, N)
  BY <1>1, <1>3, <1>5, FoldExists
<1>7. Folds(g)
  <2>1. ASSUME NEW s \in SUBSET D
        PROVE  g[s] = IF s = {} THEN named ELSE Op(g[s \ {Max(s)}], order[Max(s)])
    <3>1. CASE s = {}
      BY <1>6, <3>1 DEF IsFold
    <3>2. CASE s # {}
      <4> DEFINE m == Max(s)
      <4>1. m \in s
        BY <1>1, <3>2, Largest
      <4>2. m \in D /\ s \ {m} \in SUBSET D
        BY <4>1
      <4>3. g[s] = step[<<g[s \ {m}], m>>]
        BY <1>6, <3>2 DEF IsFold
      <4> HIDE DEF m
      <4>4. g[s \ {m}] \in Q /\ order[m] = m
        BY <1>6, <4>2
      <4>5. g[s] = Op(g[s \ {m}], order[m])
        BY <1>5, <4>2, <4>3, <4>4
      <4> QED
        BY <3>2, <4>5 DEF m
    <3> QED
      BY <3>1, <3>2
  <2> HIDE DEF order
  <2> QED
    BY <1>6, <2>1
<1>8. Folds(h)
  <2> HIDE DEF Folds
  <2> QED
    BY <1>7, Zenon
<1> HIDE DEF h
<1>9. h[{}] = named
  <2>1. {} \in SUBSET D
    OBVIOUS
  <2> QED
    BY <1>8, <2>1
<1>10. ASSUME NEW j \in D PROVE h[1 .. j] = Op(h[1 .. j - 1], j)
  <2> DEFINE s == 1 .. j
  <2>1. s \in SUBSET D /\ s # {} /\ s \ {j} = 1 .. j - 1 /\ order[j] = j
    <3>1. j \in Nat /\ 1 <= j /\ j <= N
      BY <1>1
    <3>2. s \in SUBSET D /\ j \in s
      BY <1>1, <3>1
    <3>3. s \ {j} = 1 .. j - 1
      BY <3>1
    <3>4. order[j] = j
      OBVIOUS
    <3> QED
      BY <3>2, <3>3, <3>4
  <2>2. Max(s) = j
    BY <1>1, LargestIsLast
  <2> HIDE DEF s, order
  <2>3. h[s] = Op(h[s \ {j}], order[j])
    BY <1>8, <2>1, <2>2
  <2> QED
    BY <2>1, <2>3 DEF s
<1> DEFINE f == [i \in 0 .. N |-> h[1 .. i]]
<1>11. f[0] = named
  <2>1. 1 .. 0 = {} /\ 0 \in 0 .. N
    BY <1>1
  <2> QED
    BY <1>9, <2>1
<1>12. ASSUME NEW j \in D PROVE f[j] = Op(f[j - 1], j)
  <2>1. j \in 0 .. N /\ j - 1 \in 0 .. N
    BY <1>1
  <2>2. f[j] = h[1 .. j] /\ f[j - 1] = h[1 .. j - 1]
    BY <2>1
  <2> HIDE DEF f
  <2> QED
    BY <1>10, <2>2
<1>13. f[N] = h[D]
  BY <1>1
<1> HIDE DEF f
<1>14. IsWriting(f, record, limit, n, r, chunk)
  BY <1>2, <1>11, <1>12, <1>13 DEF IsWriting, N, args, Op, named
<1>15. ASSUME NEW j \in 0 .. N PROVE f[j] \in Q
  <2> DEFINE T == {i \in 0 .. N : f[i] \in Q}
  <2>1. 0 \in T
    BY <1>1, <1>3, <1>11
  <2>2. ASSUME NEW i \in 0 .. N - 1, i \in T PROVE i + 1 \in T
    <3> DEFINE k == i + 1
    <3>1. k \in D /\ k - 1 = i /\ k \in 0 .. N
      BY <1>1
    <3> HIDE DEF k
    <3>2. f[k] = Op(f[i], k)
      BY <1>12, <3>1
    <3>3. f[k] \in Q
      BY <1>4, <2>2, <3>1, <3>2
    <3> QED
      BY <3>1, <3>3 DEF k
  <2> HIDE DEF T
  <2>3. j \in T
    BY <1>1, <2>1, <2>2, Induction
  <2> QED
    BY <2>3 DEF T
<1> QED
  BY <1>14, <1>15 DEF N, args

\* For any events, with their cells.
LEMMA WritingExists ==
    ASSUME NEW e, Emitted(e), NEW C, CellsOf(e) \subseteq C, NEW record \in Seq(C),
           NEW limit \in Int
    PROVE  \E f : IsWriting(f, record, limit, e.number, e.request, ChunkOf(e))
<1> DEFINE r == e.request
           format == [kind |-> IF r.format = 0 THEN "null" ELSE "string", qwords |-> r.format]
           named == LegacyArgument(record, limit, e.number, FormatPart, format, r.specs,
                                   ChunkOf(e))
<1>1. Len(r.args) \in Nat
  BY DEF Emitted
<1>2. named \in Seq(C)
  <2>1. /\ format.kind \in {"value", "string", "null"} /\ format.qwords \in Nat
        /\ FormatPart \in Nat
    BY DEF Emitted, FormatPart
  <2> HIDE DEF format
  <2>2. Copyable(e, FormatPart, format, r.specs, C, record, limit)
    BY <2>1 DEF Copyable
  <2>3. Adds(record, named, Whole(e, FormatPart, format, r.specs), e, limit)
    BY <2>2, CopiedArgument
  <2> HIDE DEF named
  <2> QED
    BY <2>3, AddedCells
<1>3. ASSUME NEW s \in Seq(C), NEW j \in 1 .. Len(r.args)
      PROVE  LegacyArgument(s, limit, e.number, j, r.args[j], <<>>, ChunkOf(e)) \in Seq(C)
  <2> DEFINE a == r.args[j]
  <2>1. a.kind \in {"value", "string", "null"} /\ a.qwords \in Nat /\ j \in Nat
    <3>1. a \in Argument
      BY ElementOfSeq DEF Emitted
    <3> HIDE DEF a
    <3> QED
      BY <3>1 DEF Argument
  <2> HIDE DEF a
  <2>2. Copyable(e, j, a, <<>>, C, s, limit)
    BY <2>1 DEF Copyable
  <2>3. Adds(s, LegacyArgument(s, limit, e.number, j, a, <<>>, ChunkOf(e)),
             Whole(e, j, a, <<>>), e, limit)
    BY <2>2, CopiedArgument
  <2>4. LegacyArgument(s, limit, e.number, j, a, <<>>, ChunkOf(e)) \in Seq(C)
    BY <2>3, AddedCells
  <2> QED
    BY <2>4 DEF a
<1>4. Stays(Seq(C), record, limit, e.number, r, ChunkOf(e))
  BY <1>2, <1>3 DEF Stays
<1> QED
  BY <1>1, <1>4, WritingWithin
-----------------------------------------------------------------------------
\* The color and the context.
Before(e) == Len(ColorOf(e)) + Len(ContextOf(e))

(* A record of version 1 that begins with the color and the context of an   *)
(* event is all of the event in the end, as far as there is space for it.   *)
HasOldName(e) ==
    Emitted(e) /\ IsOld(e) /\ e.request.type # "end" /\ e.request.format > 0
HasPartsOf(r, e) ==
    /\ r.format = e.request.format /\ r.specs = e.request.specs
    /\ r.args = e.request.args

WritesRecord(f, begun, r, e, C, limit) ==
    /\ HasOldName(e) /\ HasPartsOf(r, e) /\ CellsOf(e) \subseteq C /\ limit \in Int
    /\ RecordUpTo(begun, e, C, limit, Before(e))
    /\ IsWriting(f, begun, limit, e.number, r, ChunkOf(e))

LEMMA RecordWritten ==
    ASSUME NEW f, NEW begun, NEW r, NEW e, NEW C, NEW limit,
           WritesRecord(f, begun, r, e, C, limit)
    PROVE  /\ RecordUpTo(f[Len(r.args)], e, C, limit, Len(Layout(e)))
           /\ f[Len(r.args)][1] = begun[1]
<1> DEFINE c == Before(e)
           n == Len(r.args)
           header == begun[1]
           format == [kind |-> IF r.format = 0 THEN "null" ELSE "string",
                      qwords |-> r.format]
<1>0. /\ Emitted(e) /\ IsOld(e) /\ e.request.type # "end" /\ e.request.format > 0
      /\ r.format = e.request.format /\ r.specs = e.request.specs
      /\ r.args = e.request.args
      /\ CellsOf(e) \subseteq C /\ limit \in Int
      /\ RecordUpTo(begun, e, C, limit, c)
      /\ IsWriting(f, begun, limit, e.number, r, ChunkOf(e))
  BY DEF WritesRecord, HasOldName, HasPartsOf
<1> HIDE DEF c
<1>1. begun \in Seq(C) /\ 1 <= Len(begun)
  BY <1>0 DEF RecordUpTo
<1>2. IsPlacing(Ends(e), e)
  BY <1>0, LayoutPlaces
<1>3. n \in Nat /\ r.args \in Seq(Argument) /\ r.format \in Nat
  BY <1>0 DEF Emitted
<1> HIDE DEF header
<1> DEFINE Good(j) == RecordUpTo(f[j], e, C, limit, Ends(e)[j]) /\ f[j][1] = header
           T == {j \in 0 .. n : Good(j)}
<1>4. ASSUME NEW record \in Seq(C), 1 <= Len(record), NEW longer, NEW whole,
             Adds(record, longer, whole, e, limit)
      PROVE  longer[1] = record[1]
  <2>1. 1 \in 1 .. Len(record)
    BY <1>4
  <2>2. BeginsWith(longer, record)
    BY <1>0, <1>4, AddedBehind
  <2> QED
    BY <2>1, <2>2 DEF BeginsWith
<1>5. Good(0)
  <2>1. format.kind = "string" /\ format.qwords = r.format
    BY <1>0 DEF Emitted
  <2>2. FormatOf(e) = Whole(e, FormatPart, format, r.specs)
    <3>1. r.format # 0
      BY <1>0, <1>3
    <3>2. FormatText(e) = CharsOf(e, FormatPart, r.format, r.specs)
      BY <1>0, <3>1 DEF FormatText
    <3> HIDE DEF format
    <3> QED
      BY <1>0, <2>1, <3>2 DEF FormatOf, Whole
  <2>3. f[0] = LegacyArgument(begun, limit, e.number, FormatPart, format, r.specs, ChunkOf(e))
    BY <1>0 DEF IsWriting
  <2> HIDE DEF format, c
  <2>4. Adds(begun, f[0], FormatOf(e), e, limit)
    <3>1. Copyable(e, FormatPart, format, r.specs, C, begun, limit)
      BY <1>0, <1>1, <1>3, <2>1 DEF Copyable, FormatPart
    <3> QED
      BY <1>0, <2>2, <2>3, <3>1, CopiedArgument
  <2>5. IsPartAt(FormatOf(e), e, c)
    BY <1>0, LayoutParts DEF c, Before
  <2>6. RecordUpTo(f[0], e, C, limit, c + Len(FormatOf(e)))
    <3>1. RecordUpTo(begun, e, C, limit, c)
      BY <1>0 DEF c
    <3> QED
      BY <1>0, <2>4, <2>5, <3>1, RecordGoesOn
  <2>7. Ends(e)[0] = c + Len(FormatOf(e))
    BY <1>2 DEF IsPlacing, NameEnd, c, Before
  <2>8. f[0][1] = header
    BY <1>0, <1>1, <1>4, <2>4 DEF header
  <2> QED
    BY <2>6, <2>7, <2>8
<1>6. ASSUME NEW j \in 0 .. n - 1, Good(j) PROVE Good(j + 1)
  <2> DEFINE i == j + 1
             a == r.args[i]
             at == Ends(e)
  <2>1. i \in 1 .. n /\ i - 1 = j /\ i \in Nat
    BY <1>3
  <2> HIDE DEF i
  <2>2. a.kind \in {"value", "string", "null"} /\ a.qwords \in Nat
    <3>1. a \in Argument
      BY <1>3, <2>1, ElementOfSeq
    <3> HIDE DEF a
    <3> QED
      BY <3>1 DEF Argument
  <2>3. ArgumentOf(e, i) = Whole(e, i, a, <<>>)
    BY <1>0, <2>2 DEF ArgumentOf, TextOf, Whole
  <2>4. f[i] = LegacyArgument(f[j], limit, e.number, i, a, <<>>, ChunkOf(e))
    BY <1>0, <2>1 DEF IsWriting
  <2> HIDE DEF a
  <2>5. f[j] \in Seq(C) /\ 1 <= Len(f[j]) /\ f[j][1] = header
    BY <1>0, <1>6 DEF RecordUpTo
  <2>6. Adds(f[j], f[i], ArgumentOf(e, i), e, limit)
    <3>1. Copyable(e, i, a, <<>>, C, f[j], limit)
      BY <1>0, <2>1, <2>2, <2>5 DEF Copyable
    <3> QED
      BY <1>0, <2>3, <2>4, <3>1, CopiedArgument
  <2>7. IsPartAt(ArgumentOf(e, i), e, at[j])
    BY <1>0, <2>1, LayoutParts
  <2>8. RecordUpTo(f[i], e, C, limit, at[j] + Len(ArgumentOf(e, i)))
    BY <1>0, <1>6, <2>6, <2>7, RecordGoesOn
  <2>9. at[i] = at[j] + Len(ArgumentOf(e, i))
    BY <1>0, <1>2, <2>1 DEF IsPlacing
  <2>10. f[i][1] = header
    BY <1>0, <1>4, <2>5, <2>6
  <2> QED
    BY <2>8, <2>9, <2>10 DEF i
<1> HIDE DEF Good
<1>7. 0 \in T /\ \A j \in 0 .. n - 1 : j \in T => j + 1 \in T
  BY <1>3, <1>5, <1>6
<1> HIDE DEF T
<1>8. n \in T
  <2>1. n \in 0 .. n
    BY <1>3
  <2> HIDE DEF n
  <2> QED
    BY <1>3, <1>7, <2>1, Induction, Zenon
<1>9. Good(n)
  BY <1>8 DEF T
<1>10. Ends(e)[n] = Len(Layout(e))
  BY <1>0, <1>2 DEF IsPlacing
<1> QED
  BY <1>9, <1>10 DEF Good, header
-----------------------------------------------------------------------------
\* Two qwords.
LEMMA Pair ==
    ASSUME NEW S, NEW a \in S, NEW b \in S
    PROVE  <<a>> \o <<b>> = <<a, b>>
<1> DEFINE s == <<a>>
           t == <<a, b>>
           u == Append(s, b)
<1>1. s \in Seq(S) /\ t \in Seq(S) /\ Len(s) = 1 /\ Len(t) = 2
      /\ s[1] = a /\ t[1] = a /\ t[2] = b
  OBVIOUS
<1> HIDE DEF s, t
<1>2. Len(u) = 2 /\ u \in Seq(S) /\ u[1] = a /\ u[2] = b
  BY <1>1
<1>4. u = s \o <<b>>
  BY <1>1, AppendIsConcat
<1> HIDE DEF u
<1>3. u = t
  BY <1>1, <1>2
<1> QED
  BY <1>3, <1>4 DEF s, t

\* The color and the context of a record of version 1 and its header.
Begun(e, header) ==
    <<header>> \o (IF e.request.type = "end" THEN <<>> ELSE <<Color(e.number)>>)
        \o (IF e.request.onContext THEN <<Context(e.number)>> ELSE <<>>)

\* They are the beginning of the layout.
LEMMA RecordBegins ==
    ASSUME NEW e, Emitted(e), e.request.hasColor = (e.request.type # "end"),
           e.request.onContext \in BOOLEAN,
           NEW header, NEW limit \in Int, limit >= 3
    PROVE  /\ RecordUpTo(Begun(e, header), e, CellsOf(e) \cup {header}, limit,
                         Len(ColorOf(e)) + Len(ContextOf(e)))
           /\ Begun(e, header)[1] = header
<1> DEFINE C == CellsOf(e) \cup {header}
           color == ColorOf(e)
           context == ContextOf(e)
           L == Layout(e)
           s == <<header>> \o color
           t == s \o context
<1>1. color \in Seq(C) /\ context \in Seq(C) /\ <<header>> \in Seq(C)
      /\ Len(color) \in 0 .. 1 /\ Len(context) \in 0 .. 1
  <2>1. Color(e.number) \in C /\ Context(e.number) \in C /\ header \in C
    BY DEF CellsOf
  <2>2. color \in {<<>>, <<Color(e.number)>>} /\ context \in {<<>>, <<Context(e.number)>>}
    BY DEF ColorOf, ContextOf
  <2> HIDE DEF C, color, context
  <2>3. ASSUME NEW x \in C, NEW p, p = <<>> \/ p = <<x>>
        PROVE  p \in Seq(C) /\ Len(p) \in 0 .. 1
    <3>1. CASE p = <<>>
      BY <3>1
    <3>2. CASE p = <<x>>
      BY <3>2
    <3> QED
      BY <2>3, <3>1, <3>2
  <2>4. color \in Seq(C) /\ Len(color) \in 0 .. 1
    BY <2>1, <2>2, <2>3, Zenon
  <2>5. context \in Seq(C) /\ Len(context) \in 0 .. 1
    BY <2>1, <2>2, <2>3, Zenon
  <2>6. <<header>> \in Seq(C)
    BY <2>1
  <2> QED
    BY <2>4, <2>5, <2>6
<1>2. Begun(e, header) = t
  BY DEF Begun, ColorOf, ContextOf
<1>3. /\ Len(L) \in Nat /\ Len(color) + Len(context) <= Len(L)
      /\ \A k \in 1 .. Len(color) : L[k] = color[k]
      /\ \A k \in 1 .. Len(context) : L[Len(color) + k] = context[k]
  <2>1. Len(FormatOf(e)) \in Nat
    BY FormatCells
  <2>2. NameEnd(e) <= Len(L) /\ Len(L) \in Nat
    BY LayoutPlaces
  <2> QED
    BY <1>1, <2>1, <2>2, LayoutPlaces DEF NameEnd
<1>4. ChunkOf(e) \in {1, 2}
  BY DEF Emitted
<1> HIDE DEF C, color, context, L
<1>5. s \in Seq(C) /\ Follows(<<header>>, color, s)
  BY <1>1, ConcatFollows, ConcatProperties
<1> HIDE DEF s
<1>6. t \in Seq(C) /\ Follows(s, context, t)
  BY <1>1, <1>5, ConcatFollows, ConcatProperties
<1> HIDE DEF t
<1>7. Len(s) = 1 + Len(color) /\ \A k \in 1 .. Len(color) : s[1 + k] = color[k]
  <2>1. Len(<<header>>) = 1
    OBVIOUS
  <2> QED
    BY <1>5, <2>1 DEF Follows
<1>8. /\ Len(t) = Len(s) + Len(context)
      /\ \A k \in 1 .. Len(s) : t[k] = s[k]
      /\ \A k \in 1 .. Len(context) : t[Len(s) + k] = context[k]
  BY <1>6 DEF Follows
<1>9. ASSUME NEW k \in 1 .. Len(t) - 1 PROVE t[1 + k] = L[k]
  <2>1. CASE k <= Len(color)
    BY <1>1, <1>3, <1>7, <1>8, <2>1
  <2>2. CASE ~(k <= Len(color))
    <3>1. 1 \in 1 .. Len(context) /\ k = Len(color) + 1 /\ 1 + k = Len(s) + 1
      BY <1>1, <1>7, <1>8, <2>2
    <3> QED
      BY <1>3, <1>8, <3>1
  <2> QED
    BY <2>1, <2>2
<1>10. RecordUpTo(t, e, C, limit, Len(color) + Len(context))
  <2> DEFINE m == Len(color) + Len(context)
  <2> DEFINE x == Len(color)
             y == Len(context)
  <2>1. m \in 0 .. 2
    <3>1. x \in 0 .. 1 /\ y \in 0 .. 1
      BY <1>1
    <3>2. m = x + y
      OBVIOUS
    <3> HIDE DEF x, y, m
    <3> QED
      BY <3>1, <3>2
  <2>3. Len(t) = 1 + m
    BY <1>1, <1>7, <1>8
  <2> HIDE DEF m
  <2>2. \A k \in 1 .. Len(t) - 1 : t[1 + k] = L[k]
    BY <1>9
  <2> QED
    BY <1>3, <1>4, <1>6, <2>1, <2>2, <2>3 DEF RecordUpTo, L, m
<1>11. t[1] = header
  <2>1. Len(<<header>>) = 1 /\ <<header>>[1] = header
    OBVIOUS
  <2>2. s[1] = header
    BY <1>5, <2>1 DEF Follows
  <2>3. 1 \in 1 .. Len(s)
    BY <1>1, <1>7
  <2> QED
    BY <1>8, <2>2, <2>3
<1> QED
  BY <1>2, <1>10, <1>11 DEF C, color, context
-----------------------------------------------------------------------------
\* The event that is being written.
Now == [number |-> serial, request |-> request]

\* n qwords of the layout of an event are behind its header.
Holds(mem, at, e, n) ==
    /\ n \in Nat /\ n <= Len(Layout(e))
    /\ \A k \in 1 .. n : mem[at + k] = Layout(e)[k]

(* A record that is being written holds the layout of its event up to where *)
(* it has come, and nothing is left out below the limit.                    *)
ArgumentsReached(n) == position = CopyLimit \/ n = Ends(Now)[argument - 1]
Progress ==
    pc # "idle" =>
        LET n == position - destination - 1
        IN  /\ destination < BiasedLimit
            /\ request \in Requests
            /\ Holds(memory, destination, Now, n)
            /\ pc = "context" => request.onContext /\ n = Len(ColorOf(Now))
            /\ pc = "format" => request.type # "end"
                                /\ n = Len(ColorOf(Now)) + Len(ContextOf(Now))
            /\ pc \in {"context", "format"} => argument = 1
            /\ pc = "arguments" => ArgumentsReached(n)
            /\ pc \in {"finish", "mark"} => n = Len(Layout(Now))
            /\ pc = "mark" => n = 0 /\ memory[destination] = Header(request, time, 1)

\* The event that is being written has the present format.
LEMMA NowEmitted ==
    ASSUME request \in Requests
    PROVE  /\ Emitted(Now) /\ ~IsOld(Now) /\ ChunkOf(Now) = 1
           /\ Now.number = serial /\ Now.request = request
<1>1. request \in Request
  BY BlockAssumption
<1>2. Now.number = serial /\ Now.request = request
  BY DEF Now
<1>3. ~IsOld(Now)
  BY <1>1, <1>2 DEF IsOld, Request
<1>4. ChunkOf(Now) = 1
  BY <1>3 DEF ChunkOf
<1> QED
  BY <1>1, <1>2, <1>3, <1>4 DEF Emitted, Request

\* The layout is that of the request and the number.
LEMMA SameLayout ==
    ASSUME NEW e, NEW f, e.number = f.number, e.request = f.request
    PROVE  Layout(e) = Layout(f) /\ ChunkOf(e) = ChunkOf(f)
<1>1. ChunkOf(e) = ChunkOf(f) /\ IsOld(e) = IsOld(f)
  BY DEF ChunkOf, IsOld
<1>2. ColorOf(e) = ColorOf(f) /\ ContextOf(e) = ContextOf(f)
  BY DEF ColorOf, ContextOf
<1>3. \A part, k, specs : CharsOf(e, part, k, specs) = CharsOf(f, part, k, specs)
  BY DEF CharsOf
<1>4. \A part, chars : StringOf(e, part, chars) = StringOf(f, part, chars)
  BY <1>1 DEF StringOf
<1>5. FormatOf(e) = FormatOf(f)
  BY <1>1, <1>3, <1>4 DEF FormatOf, FormatText
<1>6. \A j : ArgumentOf(e, j) = ArgumentOf(f, j)
  BY <1>3, <1>4 DEF ArgumentOf, TextOf
<1>7. ArgumentsOf(e) = ArgumentsOf(f)
  <2> DEFINE s == [j \in 1 .. Len(e.request.args) |-> ArgumentOf(e, j)]
             t == [j \in 1 .. Len(f.request.args) |-> ArgumentOf(f, j)]
  <2>1. s = t
    BY <1>6
  <2> QED
    BY <2>1 DEF ArgumentsOf
<1> QED
  BY <1>1, <1>2, <1>5, <1>7 DEF Layout

\* An event that ends has no more than a context.
LEMMA EndLayout ==
    ASSUME NEW e, Emitted(e), e.request.type = "end", e.request.args = <<>>
    PROVE  Len(Layout(e)) = Len(ColorOf(e)) + Len(ContextOf(e))
<1>1. Len(FormatOf(e)) = 0 /\ Len(e.request.args) = 0
  BY DEF FormatOf, FormatText
<1>2. Len(ColorOf(e)) \in Nat /\ Len(ContextOf(e)) \in Nat
  BY DEF ColorOf, ContextOf
<1>3. IsPlacing(Ends(e), e)
  BY LayoutPlaces
<1> QED
  BY <1>1, <1>2, <1>3 DEF IsPlacing, NameEnd

(* The record begins.                                                       *)
LEMMA RecordBegun ==
    ASSUME WriterTypeOK, NEW r \in Requests, NEW at \in Nat, at < BiasedLimit,
           BeginRecord(r, at), destination' = at
    PROVE  /\ Progress'
           /\ \A i \in Offsets : i < at => memory'[i] = memory[i]
<1> DEFINE e == Now'
           n == position' - at - 1
<1>1. /\ r.type = "end" => ~r.hasColor /\ r.args = <<>>
      /\ r.hasColor \in BOOLEAN /\ r.onContext \in BOOLEAN
  BY BlockAssumption DEF Request
<1>2. request' = r /\ e.request = r /\ e.number = serial'
  BY DEF BeginRecord, Now
<1>0. argument' = 1
  BY DEF BeginRecord
<1>3. Emitted(e)
  <2>1. r \in Request
    BY BlockAssumption
  <2>2. ChunkOf(e) = 1
    BY <1>2, <2>1 DEF ChunkOf, IsOld, Request
  <2> QED
    BY <1>2, <2>1, <2>2 DEF Emitted, Request
<1>4. n = Len(ColorOf(e)) /\ n \in 0 .. 1 /\ position' = at + 1 + n
  BY <1>1, <1>2 DEF BeginRecord, ColorOf
<1>5. Len(ContextOf(e)) = IF r.onContext THEN 1 ELSE 0
  BY <1>2 DEF ContextOf
<1>6. at \in Offsets /\ at + 1 \in Offsets
  BY Limits DEF Offsets
<1>7. Len(Layout(e)) \in Nat /\ n <= Len(Layout(e))
  <2>1. Len(FormatOf(e)) \in Nat
    BY <1>3, FormatCells
  <2>2. NameEnd(e) <= Len(Layout(e)) /\ Len(Layout(e)) \in Nat
    BY <1>3, LayoutPlaces
  <2> QED
    BY <1>4, <1>5, <2>1, <2>2 DEF NameEnd
<1>8. Holds(memory', at, e, n)
  <2>1. CASE ~r.hasColor
    <3>1. n = 0
      BY <1>2, <1>4, <2>1 DEF ColorOf
    <3> HIDE DEF n, e
    <3> QED
      BY <1>7, <3>1 DEF Holds
  <2>2. CASE r.hasColor
    <3>1. n = 1 /\ ColorOf(e)[1] = Color(serial')
      BY <1>2, <1>4, <2>2 DEF ColorOf
    <3>2. memory'[at + 1] = Color(serial')
      BY <1>1, <1>6, <2>2 DEF BeginRecord, IsBare, WriterTypeOK
    <3>3. Layout(e)[1] = Color(serial')
      BY <1>3, <1>4, <3>1, LayoutPlaces
    <3> HIDE DEF n, e
    <3> QED
      BY <1>7, <3>1, <3>2, <3>3 DEF Holds
  <2> QED
    BY <1>1, <2>1, <2>2
<1>9. CASE IsBare(r)
  <2>1. pc' = "mark" /\ memory' = [memory EXCEPT ![at] = Header(r, time', 1)]
    BY <1>9 DEF BeginRecord
  <2>2. Len(Layout(e)) = n /\ n = 0
    <3>1. Len(Layout(e)) = Len(ColorOf(e)) + Len(ContextOf(e))
      BY <1>1, <1>2, <1>3, <1>9, EndLayout DEF IsBare
    <3>2. Len(ColorOf(e)) = 0 /\ Len(ContextOf(e)) = 0
      BY <1>1, <1>2, <1>5, <1>9 DEF IsBare, ColorOf
    <3> HIDE DEF n, e
    <3> QED
      BY <1>4, <3>1, <3>2
  <2>3. \A i \in Offsets : i < at => memory'[i] = memory[i]
    BY <2>1 DEF WriterTypeOK
  <2>4. memory'[at] = Header(request', time', 1)
    BY <1>2, <1>6, <2>1 DEF WriterTypeOK
  <2>5. (Header(request, time, 1))' = Header(request', time', 1)
    BY DEF Header
  <2>6. Progress'
    BY <1>0, <1>2, <1>8, <2>1, <2>2, <2>4, <2>5 DEF Progress
  <2> QED
    BY <2>3, <2>6
<1>10. CASE ~IsBare(r)
  <2>1. /\ pc' = IF r.onContext THEN "context" ELSE "format"
        /\ r.onContext \/ r.type # "end"
        /\ \/ \E h : memory' = [memory EXCEPT ![at + 1] = h]
           \/ memory' = memory
    BY <1>10 DEF BeginRecord, IsBare
  <2>2. \A i \in Offsets : i < at => memory'[i] = memory[i]
    BY <2>1 DEF WriterTypeOK
  <2>3. Progress'
    BY <1>0, <1>1, <1>2, <1>4, <1>5, <1>8, <2>1 DEF Progress
  <2> QED
    BY <2>2, <2>3
<1> QED
  BY <1>9, <1>10
-----------------------------------------------------------------------------
\* Cells that are as much of a part of an event as fits below the limit.
AreCopied(cells, whole) ==
    /\ cells \in Seq(Range(cells))
    /\ Len(cells) <= Len(whole)
    /\ \A k \in 1 .. Len(cells) : cells[k] = whole[k]
    /\ Len(cells) = Len(whole) \/ position + Len(cells) = CopyLimit

\* What is copied behind a record goes on with its layout.
LEMMA CopyHolds ==
    ASSUME WriterTypeOK, destination \in Nat, NEW e, NEW n,
           Holds(memory, destination, e, n), position = destination + 1 + n,
           NEW whole, IsPartAt(whole, e, n), NEW cells, AreCopied(cells, whole),
           position + Len(cells) <= CopyLimit,
           memory' = Put(position, cells)
    PROVE  Holds(memory', destination, e, n + Len(cells))
<1> DEFINE c == Len(cells)
           L == Layout(e)
<1>1. n \in Nat /\ n <= Len(L) /\ \A k \in 1 .. n : memory[destination + k] = L[k]
  BY DEF Holds
<1>2. /\ cells \in Seq(Range(cells)) /\ c \in Nat /\ c <= Len(whole)
      /\ \A k \in 1 .. c : cells[k] = whole[k]
  BY DEF AreCopied
<1>3. /\ Len(whole) \in Nat /\ n + Len(whole) <= Len(L)
      /\ \A k \in 1 .. Len(whole) : L[n + k] = whole[k]
  BY DEF IsPartAt
<1>4. DOMAIN cells = 1 .. c
  BY <1>2
<1>5. CopyLimit \in Nat /\ BlockQwords \in Nat /\ CopyLimit < BlockQwords /\ position \in Nat
  BY Limits DEF WriterTypeOK
<1>6. \A i \in Offsets : memory'[i] = IF i - position + 1 \in 1 .. c
                                      THEN cells[i - position + 1] ELSE memory[i]
  BY <1>4 DEF Put
<1>7. \A i \in 0 .. BlockQwords - 1 : i \in Offsets
  BY DEF Offsets
<1> HIDE DEF c, L
<1>8. Len(L) \in Int
  BY DEF L
<1>9. ASSUME NEW k \in 1 .. n + c PROVE memory'[destination + k] = L[k]
  <2> DEFINE i == destination + k
  <2>1. i \in Offsets
    <3>1. position = destination + 1 + n /\ position + c <= CopyLimit
      BY DEF c
    <3>2. i \in 0 .. BlockQwords - 1
      BY <1>1, <1>2, <1>5, <3>1
    <3> QED
      BY <1>7, <3>2
  <2>2. CASE k <= n
    <3>0. memory'[i] = IF i - position + 1 \in 1 .. c
                       THEN cells[i - position + 1] ELSE memory[i]
      BY <1>6, <2>1
    <3>1. i - position + 1 = k - n /\ k \in 1 .. n
      BY <1>1, <1>2, <2>2
    <3>2. ~(k - n \in 1 .. c)
      BY <1>1, <1>2, <2>2
    <3> QED
      BY <1>1, <3>0, <3>1, <3>2
  <2>3. CASE ~(k <= n)
    <3> DEFINE j == k - n
    <3>1. j \in 1 .. c /\ i - position + 1 = j /\ k = n + j /\ j \in 1 .. Len(whole)
      BY <1>1, <1>2, <1>3, <2>3
    <3> HIDE DEF i, j
    <3>2. memory'[i] = cells[j]
      BY <1>6, <2>1, <3>1
    <3>3. L[n + j] = whole[j] /\ cells[j] = whole[j]
      BY <1>2, <1>3, <3>1
    <3> QED
      BY <3>1, <3>2, <3>3 DEF i
  <2> QED
    BY <2>2, <2>3
<1>10. n + c \in Nat /\ n + c <= Len(L)
  BY <1>1, <1>2, <1>3, <1>8
<1> QED
  BY <1>9, <1>10 DEF Holds, c, L

\* A string as far as it fits.
CanBegin(at, k) == at \in Nat /\ at <= CopyLimit /\ k \in Nat
AreChars(cells, whole, S, at, k) ==
    /\ cells \in Seq(S) /\ whole \in Seq(S) /\ Len(cells) \in Nat
    /\ Len(whole) = k /\ Len(cells) <= k
    /\ \A i \in 1 .. Len(cells) : cells[i] = whole[i]
    /\ at + Len(cells) <= CopyLimit
    /\ Len(cells) = k \/ at + Len(cells) = CopyLimit

\* That is what FittingChars copies.
LEMMA CharsCopied ==
    ASSUME NEW at, NEW k, CanBegin(at, k), NEW part, NEW specs
    PROVE  AreChars(FittingChars(at, part, k, specs), CharsOf(Now, part, k, specs),
                    {Chars(serial, part, i, k, specs) : i \in Nat}, at, k)
<1> DEFINE cells == FittingChars(at, part, k, specs)
           whole == CharsOf(Now, part, k, specs)
           S == {Chars(serial, part, i, k, specs) : i \in Nat}
           c(i) == Chars(serial, part, i, k, specs)
           n == Fitting(at, k)
<1>1. at \in Nat /\ at <= CopyLimit /\ k \in Nat
  BY DEF CanBegin
<1>2. n \in Nat /\ n <= k /\ at + n <= CopyLimit /\ (n = k \/ at + n = CopyLimit)
  BY <1>1, Limits DEF Fitting
<1>3. cells \in Seq(S) /\ Len(cells) = n
  BY <1>1, FittingCharsLength
<1>4. \A i \in 1 .. n : cells[i] = c(i)
  BY <1>2 DEF FittingChars
<1>5. whole = [i \in 1 .. k |-> c(i)]
  BY DEF CharsOf, Now
<1>6. \A i \in Nat : c(i) \in S
  OBVIOUS
<1> HIDE DEF cells, whole, c, n, S
<1>7. whole \in Seq(S) /\ Len(whole) = k /\ \A i \in 1 .. k : whole[i] = c(i)
  BY <1>1, <1>5, <1>6
<1>8. \A i \in 1 .. n : i \in 1 .. k
  BY <1>1, <1>2
<1>9. AreChars(cells, whole, S, at, k)
  BY <1>2, <1>3, <1>4, <1>7, <1>8 DEF AreChars
<1> QED
  BY <1>9 DEF cells, whole, S

\* A step that copies the context,
LEMMA ContextProgress ==
    ASSUME WriterIInv, Progress, CopyContext
    PROVE  Progress' /\ \A i \in Offsets : i <= destination => memory'[i] = memory[i]
<1> DEFINE n == position - destination - 1
           cells == [i \in 1 .. Fitting(position, 1) |-> Context(serial)]
<1>1. /\ destination \in Nat /\ destination < BiasedLimit /\ destination < position
      /\ position \in Nat /\ position <= BiasedLimit + 1 /\ position < CopyLimit
  BY Limits DEF WriterIInv, WriterTypeOK, Positions, CopyContext, Progress
<1>2. /\ request \in Requests /\ Holds(memory, destination, Now, n)
      /\ request.onContext /\ n = Len(ColorOf(Now))
  BY DEF CopyContext, Progress
<1>3. Fitting(position, 1) = 1
  BY <1>1, Limits DEF Fitting
<1>4. cells = <<Context(serial)>> /\ ContextOf(Now) = cells
  BY <1>2, <1>3 DEF ContextOf, Now
<1>5. Len(cells) = 1 /\ AreCopied(cells, ContextOf(Now))
  BY <1>3, <1>4 DEF AreCopied, Range
<1>6. IsPartAt(ContextOf(Now), Now, n)
  <2>1. Emitted(Now)
    BY <1>2, NowEmitted
  <2> QED
    BY <1>2, <2>1, LayoutParts
<1>7. memory' = Put(position, cells) /\ position' = position + Len(cells)
  BY <1>5, <1>3 DEF CopyContext
<1> HIDE DEF cells
<1>8. Holds(memory', destination, Now, n + 1)
  <2>1. position + 1 <= CopyLimit /\ position = destination + 1 + n
    BY <1>1, Limits
  <2> HIDE DEF n
  <2>2. Holds(memory', destination, Now, n + Len(cells))
    BY <1>1, <1>2, <1>5, <1>6, <1>7, <2>1, CopyHolds DEF WriterIInv
  <2> QED
    BY <1>5, <2>2
<1>9. Len(ContextOf(Now)) = 1
  BY <1>4, <1>5
<1>10. \A i \in Offsets : i <= destination => memory'[i] = memory[i]
  <2>1. cells \in Seq(Range(cells))
    BY <1>5 DEF AreCopied
  <2> QED
    BY <1>1, <1>7, <2>1, PutKeeps DEF Offsets
<1>11. Progress'
  <2>1. /\ Now' = Now /\ destination' = destination /\ request' = request
        /\ pc' = IF request.type = "end" THEN "finish" ELSE "format"
    BY DEF CopyContext, Now
  <2>6. argument' = 1
    BY DEF CopyContext, Progress
  <2>2. position' - destination - 1 = n + 1
    BY <1>1, <1>5, <1>7
  <2>3. request.type = "end" => n + 1 = Len(Layout(Now))
    <3>1. Now.request = request /\ Emitted(Now)
      BY <1>2, NowEmitted
    <3>2. request.type = "end" => request.args = <<>>
      BY <1>2, BlockAssumption
    <3> QED
      BY <1>2, <1>9, <3>1, <3>2, EndLayout
  <2> HIDE DEF n
  <2>4. CASE request.type = "end"
    BY <1>1, <1>2, <1>8, <2>1, <2>2, <2>3, <2>4, <2>6 DEF Progress
  <2>5. CASE request.type # "end"
    BY <1>1, <1>2, <1>8, <1>9, <2>1, <2>2, <2>5, <2>6 DEF Progress
  <2> QED
    BY <2>4, <2>5
<1> QED
  BY <1>10, <1>11
-----------------------------------------------------------------------------
\* the name,
LEMMA FormatProgress ==
    ASSUME WriterIInv, Progress, CopyFormat
    PROVE  Progress' /\ \A i \in Offsets : i <= destination => memory'[i] = memory[i]
<1> DEFINE n == position - destination - 1
           cells == IF request.format = 0
                    THEN <<Zero>>
                    ELSE FittingChars(position, FormatPart, request.format, request.specs)
<1>1. /\ destination \in Nat /\ destination < BiasedLimit /\ destination < position
      /\ position \in Nat /\ position < CopyLimit
  BY Limits DEF WriterIInv, WriterTypeOK, Positions, CopyFormat, Progress
<1>2. /\ request \in Requests /\ Holds(memory, destination, Now, n)
      /\ request.type # "end" /\ n = Len(ColorOf(Now)) + Len(ContextOf(Now))
  BY DEF CopyFormat, Progress
<1>3. Emitted(Now) /\ ~IsOld(Now) /\ Now.request = request /\ Now.number = serial
  BY <1>2, NowEmitted
<1>4. /\ memory' = Put(position, cells) /\ position' = position + Len(cells)
      /\ pc' = "arguments" /\ argument' = argument
      /\ Now' = Now /\ destination' = destination /\ request' = request
  BY DEF CopyFormat, Now
<1>5. request.format \in Nat /\ argument = 1
  BY DEF WriterIInv, WriterTypeOK, Request, CopyFormat, Progress
<1>6. AreCopied(cells, FormatOf(Now)) /\ position + Len(cells) <= CopyLimit
  <2>1. CASE request.format = 0
    <3>1. cells = <<Zero>> /\ FormatOf(Now) = <<Zero>>
      BY <1>2, <1>3, <2>1 DEF FormatOf, FormatText
    <3> HIDE DEF cells
    <3>2. Len(cells) = 1
      BY <3>1
    <3> QED
      BY <1>1, <3>1, <3>2, Limits DEF AreCopied, Range
  <2>2. CASE request.format # 0
    <3>1. FormatOf(Now) = CharsOf(Now, FormatPart, request.format, request.specs)
      BY <1>2, <1>3, <2>2 DEF FormatOf, FormatText
    <3>2. cells = FittingChars(position, FormatPart, request.format, request.specs)
      BY <2>2
    <3> DEFINE S == {Chars(serial, FormatPart, i, request.format, request.specs) : i \in Nat}
    <3>3. CanBegin(position, request.format)
      BY <1>1, <1>5, Limits DEF CanBegin
    <3> HIDE DEF cells
    <3>4. AreChars(cells, FormatOf(Now), S, position, request.format)
      BY <3>1, <3>2, <3>3, CharsCopied
    <3> HIDE DEF S
    <3>5. cells \in Seq(Range(cells))
      BY <3>4 DEF AreChars, Range
    <3> QED
      BY <3>4, <3>5 DEF AreCopied, AreChars
  <2> QED
    BY <2>1, <2>2
<1> HIDE DEF cells
<1>7. Holds(memory', destination, Now, n + Len(cells))
  <2>1. position = destination + 1 + n
    BY <1>1
  <2> HIDE DEF n
  <2> QED
    BY <1>1, <1>2, <1>3, <1>4, <1>6, <2>1, LayoutParts, CopyHolds DEF WriterIInv
<1>8. \A i \in Offsets : i <= destination => memory'[i] = memory[i]
  <2>1. cells \in Seq(Range(cells))
    BY <1>6 DEF AreCopied
  <2> QED
    BY <1>1, <1>4, <2>1, PutKeeps DEF Offsets
<1>9. Progress'
  <2>1. Len(cells) \in Nat
    BY <1>6 DEF AreCopied
  <2>2. position' - destination - 1 = n + Len(cells)
    BY <1>1, <1>4, <2>1
  <2>3. position' = CopyLimit \/ n + Len(cells) = Ends(Now)[argument - 1]
    <3>1. Ends(Now)[0] = n + Len(FormatOf(Now))
      BY <1>2, <1>3, LayoutPlaces DEF IsPlacing, NameEnd
    <3> HIDE DEF n
    <3> QED
      BY <1>4, <1>5, <1>6, <3>1 DEF AreCopied
  <2> HIDE DEF n
  <2> QED
    BY <1>1, <1>2, <1>4, <1>7, <2>2, <2>3 DEF Progress, ArgumentsReached
<1> QED
  BY <1>8, <1>9

\* or an argument.
LEMMA ArgumentProgress ==
    ASSUME WriterIInv, Progress, CopyArgument
    PROVE  Progress' /\ \A i \in Offsets : i <= destination => memory'[i] = memory[i]
<1> DEFINE n == position - destination - 1
           a == request.args[argument]
           text == FittingChars(position + 1, argument, a.qwords, <<>>)
           cells ==
             CASE position >= CopyLimit -> <<>>
               [] position < CopyLimit /\ a.kind = "value" -> <<Value(serial, argument)>>
               [] position < CopyLimit /\ a.kind = "null" -> <<Zero>>
               [] position < CopyLimit /\ a.kind = "string" ->
                    <<StringInfo(serial, argument, 1)>> \o text
           whole == ArgumentOf(Now, argument)
<1>1. /\ destination \in Nat /\ destination < BiasedLimit /\ destination < position
      /\ position \in Nat /\ position <= CopyLimit /\ CopyLimit \in Nat
  BY Limits DEF WriterIInv, WriterTypeOK, Positions, CopyArgument, Progress
<1>2. /\ request \in Requests /\ Holds(memory, destination, Now, n)
      /\ position = CopyLimit \/ n = Ends(Now)[argument - 1]
  BY DEF CopyArgument, Progress, ArgumentsReached
<1>3. Emitted(Now) /\ ChunkOf(Now) = 1 /\ Now.request = request /\ Now.number = serial
  BY <1>2, NowEmitted
<1>4. /\ memory' = Put(position, cells) /\ position' = position + Len(cells)
      /\ pc' = "arguments" /\ argument' = argument + 1
      /\ Now' = Now /\ destination' = destination /\ request' = request
  BY DEF CopyArgument, Now
<1>5. /\ argument \in 1 .. Len(request.args) /\ argument \in Nat
      /\ a.kind \in {"value", "string", "null"} /\ a.qwords \in Nat
  <2>1. request.args \in Seq(Argument)
    BY DEF WriterIInv, WriterTypeOK, Request
  <2>2. argument \in 1 .. Len(request.args)
    BY <2>1, LenProperties DEF CopyArgument, WriterIInv, WriterTypeOK
  <2>3. a \in Argument
    BY <2>1, <2>2, ElementOfSeq
  <2> QED
    BY <2>2, <2>3 DEF Argument
<1>6. CASE position = CopyLimit
  <2>1. cells = <<>>
    BY <1>1, <1>6
  <2> HIDE DEF cells
  <2>2. Len(cells) = 0 /\ cells \in Seq({})
    BY <2>1
  <2>3. position' = position
    BY <1>1, <1>4, <2>2
  <2>4. \A i \in Offsets : memory'[i] = memory[i]
    <3>1. DOMAIN cells = {}
      BY <2>1
    <3> QED
      BY <1>4, <3>1 DEF Put
  <2>5. Holds(memory', destination, Now, n)
    <3>1. n \in Nat
      BY <1>1
    <3>2. \A k \in 1 .. n : destination + k \in Offsets
      BY <1>1, Limits DEF Offsets
    <3> HIDE DEF n
    <3> QED
      BY <1>2, <2>4, <3>2 DEF Holds
  <2> HIDE DEF a
  <2>6. Progress'
    BY <1>1, <1>2, <1>4, <1>6, <2>3, <2>5 DEF Progress, ArgumentsReached
  <2> QED
    BY <2>4, <2>6
<1>7. CASE position # CopyLimit
  <2>1. position < CopyLimit /\ n = Ends(Now)[argument - 1]
    BY <1>1, <1>2, <1>7
  <2>2. AreCopied(cells, whole) /\ position + Len(cells) <= CopyLimit
    <3>1. CASE a.kind # "string"
      <4>1. \E c : cells = <<c>> /\ whole = <<c>>
        BY <1>3, <1>5, <2>1, <3>1 DEF ArgumentOf, TextOf
      <4> HIDE DEF cells, whole
      <4>2. Len(cells) = 1 /\ cells = whole /\ cells \in Seq(Range(cells))
        BY <4>1 DEF Range
      <4>3. position + Len(cells) <= CopyLimit
        BY <1>1, <2>1, <4>2
      <4>4. Len(cells) = Len(whole) /\ \A k \in 1 .. Len(cells) : cells[k] = whole[k]
        BY <4>2, Zenon
      <4>5. Len(cells) <= Len(whole)
        <5>1. Len(cells) = 1 /\ Len(whole) = 1
          BY <4>2, Zenon
        <5> QED
          BY <5>1
      <4> QED
        BY <4>2, <4>3, <4>4, <4>5, Zenon DEF AreCopied
    <3>2. CASE a.kind = "string"
      <4> DEFINE info == StringInfo(serial, argument, 1)
                 chars == CharsOf(Now, argument, a.qwords, <<>>)
                 k == a.qwords
                 t == Len(text)
                 S == {Chars(serial, argument, i, k, <<>>) : i \in Nat} \cup {info}
      <4>1. cells = <<info>> \o text /\ whole = StringOf(Now, argument, chars)
        BY <1>3, <1>5, <2>1, <3>2 DEF ArgumentOf, TextOf
      <4>2. /\ text \in Seq(S) /\ t \in Nat /\ t <= k /\ position + 1 + t <= CopyLimit
            /\ t = k \/ position + 1 + t = CopyLimit
            /\ Len(chars) = k /\ \A i \in 1 .. t : text[i] = chars[i]
            /\ chars \in Seq(S)
        <5> DEFINE p == position + 1
                   C == {Chars(serial, argument, i, k, <<>>) : i \in Nat}
        <5>1. CanBegin(p, k)
          BY <1>1, <1>5, <2>1 DEF CanBegin
        <5>2. AreChars(text, chars, C, p, k)
          <6> HIDE DEF p, k
          <6>1. AreChars(FittingChars(p, argument, k, <<>>), CharsOf(Now, argument, k, <<>>),
                         {Chars(serial, argument, i, k, <<>>) : i \in Nat}, p, k)
            BY <5>1, CharsCopied
          <6> QED
            BY <6>1 DEF p, k
        <5> HIDE DEF text, chars, C, k, info
        <5>3. C \subseteq S
          BY DEF C
        <5> HIDE DEF S
        <5>4. text \in Seq(S) /\ chars \in Seq(S)
          BY <5>2, <5>3, SeqMonotonic DEF AreChars
        <5> QED
          BY <5>2, <5>4 DEF AreChars
      <4> HIDE DEF text, chars, k, S
      <4>3. /\ Len(whole) = 1 + k /\ whole[1] = info
            /\ \A i \in 1 .. k : whole[1 + i] = chars[i]
        <5>1. /\ Len(whole) = 1 + Chunks(Len(chars), ChunkOf(Now)) * ChunkOf(Now)
              /\ whole[1] = info
              /\ \A i \in 1 .. Chunks(Len(chars), ChunkOf(Now)) * ChunkOf(Now) :
                    whole[1 + i] = IF i <= Len(chars) THEN chars[i] ELSE Padding
          <6> HIDE DEF whole
          <6> QED
            BY <1>3, <4>1, <4>2, StringPlaces
        <5>2. k \in Nat
          BY <1>5 DEF k
        <5>3. Chunks(Len(chars), ChunkOf(Now)) * ChunkOf(Now) = k
          BY <1>3, <4>2, <5>2 DEF Chunks
        <5> HIDE DEF whole, info
        <5> QED
          BY <4>2, <5>1, <5>2, <5>3
      <4> HIDE DEF cells, whole
      <4>4. <<info>> \in Seq(S) /\ Len(<<info>>) = 1 /\ <<info>>[1] = info
        BY DEF S
      <4> HIDE DEF info
      <4>5. cells \in Seq(S) /\ Follows(<<info>>, text, cells)
        BY <4>1, <4>2, <4>4, ConcatFollows, ConcatProperties
      <4>6. /\ Len(cells) = 1 + t /\ cells[1] = info
            /\ \A i \in 1 .. t : cells[1 + i] = text[i]
        BY <4>4, <4>5 DEF Follows
      <4> HIDE DEF t
      <4>7. ASSUME NEW i \in 1 .. Len(cells) PROVE cells[i] = whole[i]
        <5>1. CASE i = 1
          BY <4>3, <4>6, <5>1
        <5>2. CASE i # 1
          <6> DEFINE j == i - 1
          <6>1. j \in 1 .. t /\ j \in 1 .. k /\ i = 1 + j
            BY <1>5, <4>2, <4>6, <5>2 DEF k
          <6> HIDE DEF j
          <6> QED
            BY <4>2, <4>3, <4>6, <6>1
        <5> QED
          BY <5>1, <5>2
      <4>8. cells \in Seq(Range(cells))
        BY <4>5 DEF Range
      <4>9. /\ Len(cells) <= Len(whole)
            /\ Len(cells) = Len(whole) \/ position + Len(cells) = CopyLimit
            /\ position + Len(cells) <= CopyLimit
        BY <1>1, <1>5, <4>2, <4>3, <4>6 DEF k
      <4> QED
        BY <4>7, <4>8, <4>9 DEF AreCopied
    <3> QED
      BY <3>1, <3>2
  <2> HIDE DEF cells, whole
  <2>3. IsPartAt(whole, Now, n)
    BY <1>3, <1>5, <2>1, LayoutParts DEF whole
  <2>4. Holds(memory', destination, Now, n + Len(cells))
    <3>1. position = destination + 1 + n
      BY <1>1
    <3> HIDE DEF n
    <3> QED
      BY <1>1, <1>2, <1>4, <2>2, <2>3, <3>1, CopyHolds DEF WriterIInv
  <2>5. \A i \in Offsets : i <= destination => memory'[i] = memory[i]
    <3>1. cells \in Seq(Range(cells))
      BY <2>2 DEF AreCopied
    <3> QED
      BY <1>1, <1>4, <3>1, PutKeeps DEF Offsets
  <2>6. Progress'
    <3>1. Len(cells) \in Nat
      BY <2>2 DEF AreCopied
    <3>2. position' - destination - 1 = n + Len(cells)
      BY <1>1, <1>4, <3>1
    <3>3. Ends(Now)[argument] = n + Len(whole)
      <4>1. IsPlacing(Ends(Now), Now)
        BY <1>3, LayoutPlaces
      <4> QED
        BY <1>3, <1>5, <2>1, <4>1 DEF IsPlacing, whole
    <3>4. argument' - 1 = argument
      BY <1>4, <1>5
    <3> HIDE DEF n
    <3>5. position' = CopyLimit \/ n + Len(cells) = Ends(Now)[argument' - 1]
      BY <1>4, <2>2, <3>3, <3>4 DEF AreCopied
    <3> QED
      BY <1>1, <1>2, <1>4, <2>4, <3>2, <3>5 DEF Progress, ArgumentsReached
  <2> QED
    BY <2>5, <2>6
<1> QED
  BY <1>6, <1>7

(* What there is of an event when its record is complete, with the header   *)
(* in place: all of it, or as much as there is space for.                   *)
IsFinished(mem, at, n, e, t) ==
    /\ at \in Nat /\ at < BiasedLimit /\ n \in Nat /\ at + n < BlockQwords
    /\ mem[at] = Header(e.request, t, n + 1) /\ Holds(mem, at, e, n)
    /\ n = Len(Layout(e)) \/ at + n + 1 = CopyLimit

LEMMA FinishedRecord ==
    ASSUME WriterIInv, Progress, FinishEvent
    PROVE  IsFinished(memory', destination, position - destination - 1, Now, time)
<1> DEFINE size == position - destination
           n == position - destination - 1
<1>1. pc # "idle" /\ pc # "mark"
  BY DEF FinishEvent
<1>2. /\ destination \in Nat /\ destination < position /\ position \in Nat
      /\ Holds(memory, destination, Now, n) /\ request \in Requests
      /\ destination < BiasedLimit /\ position <= CopyLimit
  <2>1. pc \in {"arguments", "finish"}
    BY DEF FinishEvent
  <2> QED
    BY <2>1 DEF WriterIInv, WriterTypeOK, Positions, Progress
<1>3. /\ size \in Nat \ {0} /\ position = destination + size /\ size - 1 = n
      /\ n \in Nat /\ n + 1 = size /\ destination + n + 1 = position
      /\ destination + n < BlockQwords
  BY <1>2, Limits
<1>4. position = CopyLimit \/ n = Len(Layout(Now))
  <2>1. CASE pc = "finish"
    BY <2>1 DEF Progress
  <2>2. CASE pc = "arguments" /\ argument > Len(request.args)
    <3>1. position = CopyLimit \/ n = Ends(Now)[argument - 1]
      BY <2>2 DEF Progress, ArgumentsReached
    <3>2. argument - 1 = Len(request.args)
      <4>1. argument \in 1 .. Len(request.args) + 1 /\ request.args \in Seq(Argument)
        BY DEF WriterIInv, WriterTypeOK, Request
      <4> QED
        BY <2>2, <4>1
    <3>3. Ends(Now)[Len(request.args)] = Len(Layout(Now))
      BY <1>2, NowEmitted, LayoutPlaces DEF IsPlacing
    <3> QED
      BY <3>1, <3>2, <3>3
  <2> QED
    BY <2>1, <2>2 DEF FinishEvent
<1>5. memory'[destination] = Header(request, time, size)
      /\ \A i \in Offsets : i # destination /\ i # position => memory'[i] = memory[i]
  <2>1. DOMAIN EndMarked = Offsets /\ destination \in Offsets
    BY <1>2, Limits DEF EndMarked, WriterIInv, WriterTypeOK, Offsets
  <2>2. memory' = [EndMarked EXCEPT ![destination] = Header(request, time, size)]
    BY DEF FinishEvent
  <2>3. \A i \in Offsets : i # position => EndMarked[i] = memory[i]
    BY DEF EndMarked, WriterIInv, WriterTypeOK
  <2> HIDE DEF size
  <2> QED
    BY <2>1, <2>2, <2>3
<1>6. Holds(memory', destination, Now, n)
  <2> DEFINE L == Layout(Now)
  <2>1. n <= Len(L) /\ \A k \in 1 .. n : memory[destination + k] = L[k]
    BY <1>2 DEF Holds
  <2>2. ASSUME NEW k \in 1 .. n PROVE memory'[destination + k] = L[k]
    <3>1. destination + k \in Offsets /\ destination + k # destination
          /\ destination + k # position
      BY <1>2, <1>3, Limits DEF Offsets
    <3>2. memory[destination + k] = L[k]
      BY <2>1
    <3> QED
      BY <1>5, <3>1, <3>2
  <2> HIDE DEF L, n
  <2> QED
    BY <1>3, <2>1, <2>2 DEF Holds, L
<1> HIDE DEF n, size
<1> QED
  BY <1>2, <1>3, <1>4, <1>5, <1>6 DEF IsFinished, Now, n

(* The record that is being written stays right.                            *)
LEMMA WriterProgress ==
    ASSUME WriterIInv, Progress, WriterNext
    PROVE  Progress'
<1>1. ASSUME NEW r \in Requests, BeginEvent(r) PROVE Progress'
  <2>1. /\ destination \in Nat /\ destination < BiasedLimit
        /\ BeginRecord(r, destination) /\ destination' = destination
    BY <1>1, BlockAssumption DEF BeginEvent, HasRoom, WriterIInv, WriterTypeOK, Offsets
  <2> QED
    BY <2>1, RecordBegun DEF WriterIInv
<1>2. ASSUME NEW r \in Requests, AllocateBlock(r) PROVE Progress'
  <2>1. BeginRecord(r, 0) /\ destination' = 0 /\ 0 < BiasedLimit
    BY <1>2, Limits DEF AllocateBlock
  <2> QED
    BY <2>1, RecordBegun DEF WriterIInv
<1>3. CASE AllocationFails
  BY <1>3 DEF AllocationFails, eventVars, Progress
<1>4. CASE CopyContext
  BY <1>4, ContextProgress
<1>5. CASE CopyFormat
  BY <1>5, FormatProgress
<1>6. CASE CopyArgument
  BY <1>6, ArgumentProgress
<1>7. CASE FinishEvent
  BY <1>7 DEF FinishEvent, Publish, Progress
<1>8. CASE MarkEnd
  BY <1>8 DEF MarkEnd, Publish, Progress
<1> QED
  BY <1>1, <1>2, <1>3, <1>4, <1>5, <1>6, <1>7, <1>8 DEF WriterNext
=============================================================================
