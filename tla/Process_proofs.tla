--------------------------- MODULE Process_proofs ---------------------------
(***************************************************************************)
(* What holds of Process for any capacity of a pipe, any limit on a line   *)
(* and any amount of output.                                               *)
(***************************************************************************)
EXTENDS Process, SequenceTheorems, WellFoundedInduction, TLAPS

-----------------------------------------------------------------------------
(* Where the first line of a buffer ends.                                  *)

\* A set of naturals has a least element, which is what Min picks.
LEMMA MinIsMember ==
    ASSUME NEW I \in SUBSET Nat, I # {}
    PROVE  Min(I) \in I
<1> DEFINE Less == OpToRel(<, Nat)
<1>1. PICK x \in I : \A y \in I : ~ (<<y, x>> \in Less)
  <2>1. IsWellFoundedOn(Less, Nat)
    BY Zenon, NatLessThanWellFounded
  <2> HIDE DEF Less
  <2> QED BY <2>1, WFMin
<1>2. \A y \in I : y < x => <<y, x>> \in Less
  <2> TAKE y \in I
  <2> HAVE y < x
  <2> DEFINE pair == <<y, x>>
  <2>1. pair \in Nat \X Nat /\ pair[1] < pair[2]
    OBVIOUS
  <2> HIDE DEF pair
  <2>2. pair \in Less
    BY Zenon, <2>1 DEF OpToRel
  <2> QED BY <2>2 DEF pair
<1>3. \A y \in I : x <= y
  <2> HIDE DEF Less
  <2> TAKE y \in I
  <2>1. ~ (y < x)
    BY Zenon, <1>1, <1>2
  <2> QED BY <2>1
<1> QED BY <1>3 DEF Min

\* A line ends within the buffer or just past its end, never before it.
LEMMA LineEndInBuffer ==
    ASSUME NEW s \in Stream, buffer[s] \in Output
    PROVE  LineEnd(s) \in 1 .. Len(buffer[s]) + 1
<1>1. Len(buffer[s]) \in Nat
  BY DEF Output
<1>2. CASE ~ Contains(buffer[s], "newline")
  BY <1>1, <1>2 DEF LineEnd
<1>3. CASE Contains(buffer[s], "newline")
  <2> DEFINE I == {i \in 1 .. Len(buffer[s]) : buffer[s][i] = "newline"}
  <2>1. I # {} /\ I \in SUBSET Nat
    BY <1>1, <1>3 DEF Contains
  <2>2. Min(I) \in I
    <3> HIDE DEF I
    <3> QED BY <2>1, MinIsMember
  <2>3. LineEnd(s) = Min(I)
    BY <1>3, <2>1 DEF LineEnd, SelectInSeq
  <2> QED BY <1>1, <2>2, <2>3
<1> QED BY <1>2, <1>3

-----------------------------------------------------------------------------
(* Types.                                                                  *)

\* The part of TypeOK about what is written and read.
Streams == {pipe, buffer, lines, wrote} \subseteq [Stream -> Output]

\* The part of TypeOK about who writes and who reads.
Actors ==
    /\ writers \subseteq Writer
    /\ writing \in [Writer -> Stream \cup {"none"}]
    /\ drain \in [Stream -> {"reading", "done", "failed"}]
    /\ caller \in {"spawning", "gathering", "waiting", "returned", "raised"}
    /\ caller \in {"waiting", "returned"} => drain = [s \in Stream |-> "done"]

\* A pipe holds no more than its capacity.
Bounded == \A s \in Stream : Len(pipe[s]) <= Capacity

LEMMA TypeParts == TypeOK <=> Streams /\ Actors /\ Bounded
  BY Zenon DEF TypeOK, Streams, Actors, Bounded

LEMMA TypePartsNext == TypeOK' <=> Streams' /\ Actors' /\ Bounded'
  BY Zenon DEF TypeOK, Streams, Actors, Bounded

LEMMA TypeInit == Init => TypeOK
<1> SUFFICES ASSUME Init PROVE TypeOK
  OBVIOUS
<1>1. Streams
  BY EmptySeq DEF Init, Streams, Output
<1>2. Actors
  BY DEF Init, Actors
<1>3. Bounded
  BY SizesAssumption, EmptySeq DEF Init, Bounded
<1> QED BY <1>1, <1>2, <1>3, TypeParts

\* Every step of an actor keeps the types of the actors.
LEMMA ActorsStep == TypeOK /\ [Next]_vars => Actors'
<1> SUFFICES ASSUME TypeOK, [Next]_vars PROVE Actors'
  OBVIOUS
<1>1. Actors
  BY TypeParts
<1> USE <1>1 DEF Actors, Stream, Writer
<1>2. CASE Spawn
  BY <1>2 DEF Spawn
<1>3. CASE Fork
  BY <1>3 DEF Fork
<1>4. ASSUME NEW w \in Writer, NEW s \in Stream, BeginWrite(w, s) PROVE Actors'
  BY <1>4 DEF BeginWrite
<1>5. ASSUME NEW w \in Writer, NEW s \in Stream, NEW c, Write(w, s, c) PROVE Actors'
  BY <1>5 DEF Write
<1>6. ASSUME NEW w \in Writer, Exit(w) PROVE Actors'
  BY <1>6 DEF Exit
<1>7. ASSUME NEW s \in Stream, Feed(s) PROVE Actors'
  BY <1>7 DEF Feed
<1>8. ASSUME NEW s \in Stream, ReadLine(s) PROVE Actors'
  BY <1>8 DEF ReadLine
<1>9. ASSUME NEW s \in Stream, ReadLast(s) PROVE Actors'
  BY <1>9 DEF ReadLast, Reading
<1>10. ASSUME NEW s \in Stream, Overrun(s) PROVE Actors'
  BY <1>10 DEF Overrun, Reading
<1>11. CASE Gather
  BY <1>11 DEF Gather
<1>12. CASE GatherRaises
  BY <1>12 DEF GatherRaises
<1>13. CASE Wait
  BY <1>13 DEF Wait
<1>14. CASE UNCHANGED vars
  BY <1>14 DEF vars
<1> QED BY <1>2, <1>3, <1>4, <1>5, <1>6, <1>7, <1>8, <1>9, <1>10, <1>11, <1>12, <1>13,
           <1>14 DEF Next, Loop, WriteAny

\* The characters a write may add are those output is made of.
LEMMA OutputProperties ==
    /\ <<>> \in Output
    /\ \A o \in Output, c \in {"char", "newline"} : Append(o, c) \in Output
    /\ \A o1, o2 \in Output : o1 \o o2 \in Output
  BY EmptySeq, AppendProperties, ConcatProperties DEF Output

\* The first line and the rest of a buffer that holds a line make it up.
LEMMA FirstLineAndRest ==
    ASSUME NEW s \in Stream, buffer[s] \in Output, LineEnd(s) <= Len(buffer[s])
    PROVE  /\ SubSeq(buffer[s], 1, LineEnd(s)) \in Output
           /\ SubSeq(buffer[s], LineEnd(s) + 1, Len(buffer[s])) \in Output
           /\ SubSeq(buffer[s], 1, LineEnd(s))
                \o SubSeq(buffer[s], LineEnd(s) + 1, Len(buffer[s])) = buffer[s]
<1> DEFINE b == buffer[s]
           k == LineEnd(s)
<1>1. b \in Seq({"char", "newline"}) /\ Len(b) \in Nat
  BY DEF Output
<1>2. k \in 1 .. Len(b)
  BY <1>1, LineEndInBuffer
<1> HIDE DEF b, k
<1>3. \A i \in 1 .. Len(b) : b[i] \in {"char", "newline"}
  BY <1>1, ElementOfSeq
<1>4. SubSeq(b, 1, k) \in Output
  <2>1. \A i \in 1 .. k : b[i] \in {"char", "newline"}
    BY <1>1, <1>2, <1>3
  <2> QED BY <1>2, <2>1, SubSeqProperties DEF Output
<1>5. SubSeq(b, k + 1, Len(b)) \in Output
  <2>1. \A i \in (k + 1) .. Len(b) : b[i] \in {"char", "newline"}
    BY <1>1, <1>2, <1>3
  <2>2. k + 1 \in Int /\ Len(b) \in Int
    BY <1>1, <1>2
  <2> QED BY <2>1, <2>2, SubSeqProperties DEF Output
<1>6. SubSeq(b, 1, k) \o SubSeq(b, k + 1, Len(b)) = SubSeq(b, 1, Len(b))
  <2>1. /\ 1 \in 1 .. Len(b) + 1 /\ k \in 1 - 1 .. Len(b)
        /\ Len(b) \in k .. Len(b)
    BY <1>1, <1>2
  <2> QED BY <1>1, <2>1, ConcatAdjacentSubSeq
<1>7. SubSeq(b, 1, Len(b)) = b
  BY <1>1, SubSeqFull
<1> QED BY <1>4, <1>5, <1>6, <1>7 DEF b, k

\* Every step reads and writes output.
LEMMA StreamsStep == TypeOK /\ [Next]_vars => Streams'
<1> SUFFICES ASSUME TypeOK, [Next]_vars PROVE Streams'
  OBVIOUS
<1>1. Streams
  BY TypeParts
<1> USE <1>1 DEF Streams
<1>2. ASSUME NEW w \in Writer, NEW s \in Stream, NEW c \in {"char", "newline"}, Write(w, s, c)
      PROVE  Streams'
  BY <1>2, OutputProperties DEF Write
<1>3. ASSUME NEW s \in Stream, Feed(s) PROVE Streams'
  BY <1>3, OutputProperties DEF Feed
<1>4. ASSUME NEW s \in Stream, ReadLine(s) PROVE Streams'
  BY <1>4, OutputProperties, FirstLineAndRest DEF ReadLine
<1>5. ASSUME NEW s \in Stream, ReadLast(s) PROVE Streams'
  BY <1>5, OutputProperties DEF ReadLast
<1>6. CASE UNCHANGED <<pipe, buffer, lines, wrote>>
  BY <1>6
<1> QED BY <1>2, <1>3, <1>4, <1>5, <1>6
    DEF Next, Loop, WriteAny, Spawn, Fork, BeginWrite, Exit, Overrun, Gather, GatherRaises,
        Wait, vars

\* A write to a full pipe blocks, and feeding empties a pipe.
LEMMA BoundedStep == TypeOK /\ [Next]_vars => Bounded'
<1> SUFFICES ASSUME TypeOK, [Next]_vars PROVE Bounded'
  OBVIOUS
<1>1. Streams /\ Bounded
  BY TypeParts
<1>2. \A s \in Stream : pipe[s] \in Output /\ Len(pipe[s]) \in Nat
  BY <1>1 DEF Streams, Output
<1>3. ASSUME NEW w \in Writer, NEW s \in Stream, NEW c \in {"char", "newline"}, Write(w, s, c)
      PROVE  Bounded'
  <2>1. Len(Append(pipe[s], c)) = Len(pipe[s]) + 1
    BY <1>2, AppendProperties DEF Output
  <2>2. Len(pipe[s]) + 1 <= Capacity
    BY <1>2, <1>3, SizesAssumption DEF Write
  <2> QED BY <1>1, <1>3, <2>1, <2>2 DEF Write, Streams, Bounded
<1>4. ASSUME NEW s \in Stream, Feed(s) PROVE Bounded'
  <2>1. Len(<<>>) <= Capacity
    BY SizesAssumption, EmptySeq
  <2> QED BY <1>1, <1>4, <2>1 DEF Feed, Streams, Bounded
<1>5. CASE UNCHANGED pipe
  BY <1>1, <1>5 DEF Bounded
<1> QED BY <1>3, <1>4, <1>5
    DEF Next, Loop, WriteAny, Spawn, Fork, BeginWrite, Exit, ReadLine, ReadLast, Overrun,
        Gather, GatherRaises, Wait, vars

\* Every variable keeps its type, no pipe holds more than its capacity, and
\* run waits for the child only once both streams are drained.
THEOREM TypeCorrect == Spec => []TypeOK
<1>1. TypeOK /\ [Next]_vars => TypeOK'
  BY ActorsStep, StreamsStep, BoundedStep, TypePartsNext
<1> QED BY TypeInit, <1>1, PTL DEF Spec

-----------------------------------------------------------------------------
(* Nothing is lost on the way from a write to the result.                  *)

\* What was written is in the result, in the reader's buffer or in the pipe,
\* in this order.
Carried == \A s \in Stream : wrote[s] = lines[s] \o (buffer[s] \o pipe[s])

\* A stream is drained for good: nothing is left of it, and nobody who could
\* write to it, or fork somebody who could.
Drained ==
    \A s \in Stream :
        drain[s] = "done" => writers = {} /\ pipe[s] = <<>> /\ buffer[s] = <<>>

\* Whoever is blocked in a write holds the write ends.
WritersWrite == \A w \in Writer : writing[w] # "none" => w \in writers

\* Before there is a child nobody writes and nothing is drained.
Unspawned == caller = "spawning" => writers = {} /\ \A s \in Stream : drain[s] = "reading"

IInv == Carried /\ Drained /\ WritersWrite /\ Unspawned

LEMMA InvInit == Init => IInv
<1> SUFFICES ASSUME Init PROVE IInv
  OBVIOUS
<1>1. Carried
  <2>1. <<>> \o (<<>> \o <<>>) = <<>>
    BY EmptySeq, ConcatEmptySeq
  <2> QED BY <2>1 DEF Init, Carried
<1>2. Drained /\ Unspawned
  BY DEF Init, Drained, Unspawned
<1>3. WritersWrite
  BY DEF Init, WritersWrite
<1> QED BY <1>1, <1>2, <1>3 DEF IInv

LEMMA ConcatOutput ==
    ASSUME NEW o1 \in Output, NEW o2 \in Output, NEW o3 \in Output
    PROVE  (o1 \o o2) \o o3 = o1 \o (o2 \o o3)
  BY ConcatAssociative DEF Output

LEMMA ConcatNothing ==
    ASSUME NEW o \in Output
    PROVE  o \o <<>> = o /\ <<>> \o o = o
  BY ConcatEmptySeq DEF Output

\* A write adds to the end of the pipe, and so to the end of the output.
LEMMA CarryWrite ==
    ASSUME NEW l \in Output, NEW b \in Output, NEW p \in Output, NEW c \in {"char", "newline"}
    PROVE  Append(l \o (b \o p), c) = l \o (b \o Append(p, c))
<1> DEFINE one == <<c>>
<1>1. one \in Output /\ b \o p \in Output /\ l \o (b \o p) \in Output
  BY OutputProperties DEF Output
<1>2. Append(l \o (b \o p), c) = (l \o (b \o p)) \o one /\ Append(p, c) = p \o one
  BY <1>1, AppendIsConcat DEF Output
<1> HIDE DEF one
<1>3. (l \o (b \o p)) \o one = l \o ((b \o p) \o one)
  BY <1>1, ConcatOutput
<1>4. (b \o p) \o one = b \o (p \o one)
  BY <1>1, ConcatOutput
<1> QED BY <1>2, <1>3, <1>4

\* A line leaves the front of the buffer for the end of the result.
LEMMA CarryLine ==
    ASSUME NEW l \in Output, NEW a \in Output, NEW b \in Output, NEW p \in Output
    PROVE  l \o ((a \o b) \o p) = (l \o a) \o (b \o p)
<1>1. (a \o b) \o p = a \o (b \o p)
  BY ConcatOutput
<1>2. b \o p \in Output
  BY OutputProperties
<1>3. l \o (a \o (b \o p)) = (l \o a) \o (b \o p)
  BY <1>2, ConcatOutput
<1> QED BY <1>1, <1>3

\* Output stays accounted for.
LEMMA CarriedStep == TypeOK /\ IInv /\ [Next]_vars => Carried'
<1> SUFFICES ASSUME TypeOK, IInv, [Next]_vars PROVE Carried'
  OBVIOUS
<1>1. Streams
  BY TypeParts
<1>2. /\ \A s \in Stream : lines[s] \in Output /\ buffer[s] \in Output /\ pipe[s] \in Output
      /\ \A s \in Stream : wrote[s] = lines[s] \o (buffer[s] \o pipe[s])
  BY <1>1 DEF Streams, IInv, Carried
<1>3. /\ lines \in [Stream -> Output] /\ buffer \in [Stream -> Output]
      /\ pipe \in [Stream -> Output] /\ wrote \in [Stream -> Output]
  BY <1>1 DEF Streams
<1> DEFINE Moved(s) == wrote'[s] = lines'[s] \o (buffer'[s] \o pipe'[s])
<1>4. ASSUME NEW s \in Stream, Moved(s),
             \A t \in Stream \ {s} :
                 /\ wrote'[t] = wrote[t] /\ lines'[t] = lines[t]
                 /\ buffer'[t] = buffer[t] /\ pipe'[t] = pipe[t]
      PROVE  Carried'
  BY <1>2, <1>4 DEF Carried
<1>5. ASSUME NEW w \in Writer, NEW s \in Stream, NEW c \in {"char", "newline"}, Write(w, s, c)
      PROVE  Carried'
  <2>1. /\ wrote'[s] = Append(wrote[s], c) /\ pipe'[s] = Append(pipe[s], c)
        /\ lines'[s] = lines[s] /\ buffer'[s] = buffer[s]
    BY <1>3, <1>5 DEF Write
  <2>2. Append(lines[s] \o (buffer[s] \o pipe[s]), c)
          = lines[s] \o (buffer[s] \o Append(pipe[s], c))
    BY <1>2, CarryWrite
  <2>3. Moved(s)
    BY <1>2, <2>1, <2>2
  <2> HIDE DEF Moved
  <2> QED BY <1>3, <1>4, <1>5, <2>3 DEF Write
<1>6. ASSUME NEW s \in Stream, Feed(s) PROVE Carried'
  <2>1. /\ wrote'[s] = wrote[s] /\ pipe'[s] = <<>>
        /\ lines'[s] = lines[s] /\ buffer'[s] = buffer[s] \o pipe[s]
    BY <1>3, <1>6 DEF Feed
  <2>2. buffer[s] \o pipe[s] \in Output
    BY <1>2, OutputProperties
  <2>3. (buffer[s] \o pipe[s]) \o <<>> = buffer[s] \o pipe[s]
    BY <2>2, ConcatNothing
  <2>4. Moved(s)
    BY <1>2, <2>1, <2>3
  <2> HIDE DEF Moved
  <2> QED BY <1>3, <1>4, <1>6, <2>4 DEF Feed
<1>7. ASSUME NEW s \in Stream, ReadLine(s) PROVE Carried'
  <2>1. PICK first \in Output, rest \in Output :
             first \o rest = buffer[s] /\ lines'[s] = lines[s] \o first /\ buffer'[s] = rest
    BY <1>2, <1>3, <1>7, FirstLineAndRest DEF ReadLine
  <2>2. wrote'[s] = wrote[s] /\ pipe'[s] = pipe[s]
    BY <1>7 DEF ReadLine
  <2>3. lines[s] \o ((first \o rest) \o pipe[s]) = (lines[s] \o first) \o (rest \o pipe[s])
    <3>1. lines[s] \in Output /\ pipe[s] \in Output
      BY <1>2
    <3>2. \A l \in Output, p \in Output :
             l \o ((first \o rest) \o p) = (l \o first) \o (rest \o p)
      BY Zenon, CarryLine
    <3> QED BY Zenon, <3>1, <3>2
  <2>4. Moved(s)
    BY <1>2, <2>1, <2>2, <2>3
  <2> HIDE DEF Moved
  <2> QED BY <1>3, <1>4, <1>7, <2>4 DEF ReadLine
<1>8. ASSUME NEW s \in Stream, ReadLast(s) PROVE Carried'
  <2>1. /\ wrote'[s] = wrote[s] /\ pipe'[s] = pipe[s] /\ pipe[s] = <<>>
        /\ lines'[s] = lines[s] \o buffer[s] /\ buffer'[s] = <<>>
    BY <1>3, <1>8 DEF ReadLast, Eof
  <2>2. lines[s] \o buffer[s] \in Output /\ <<>> \in Output
    BY <1>2, OutputProperties
  <2>3. <<>> \o <<>> = <<>> /\ buffer[s] \o <<>> = buffer[s]
    BY <1>2, <2>2, ConcatNothing
  <2>4. (lines[s] \o buffer[s]) \o <<>> = lines[s] \o buffer[s]
    BY <2>2, ConcatNothing
  <2>5. Moved(s)
    BY <1>2, <2>1, <2>3, <2>4
  <2> HIDE DEF Moved
  <2> QED BY <1>3, <1>4, <1>8, <2>5 DEF ReadLast
<1>9. CASE UNCHANGED <<pipe, buffer, lines, wrote>>
  BY <1>2, <1>9 DEF Carried
<1> QED BY <1>5, <1>6, <1>7, <1>8, <1>9
    DEF Next, Loop, WriteAny, Spawn, Fork, BeginWrite, Exit, Overrun, Gather, GatherRaises,
        Wait, vars

\* A stream is drained only when nobody is left to write to it.
LEMMA EndStep == TypeOK /\ IInv /\ [Next]_vars => Drained' /\ WritersWrite' /\ Unspawned'
<1> SUFFICES ASSUME TypeOK, IInv, [Next]_vars PROVE Drained' /\ WritersWrite' /\ Unspawned'
  OBVIOUS
<1>1. /\ Actors /\ Drained /\ WritersWrite /\ Unspawned
      /\ pipe \in [Stream -> Output] /\ buffer \in [Stream -> Output]
  BY TypeParts DEF Streams, IInv
<1> USE <1>1 DEF Actors, Stream, Writer, Drained, WritersWrite, Unspawned
<1>2. CASE Spawn
  BY <1>2 DEF Spawn
<1>3. CASE Fork
  BY <1>3 DEF Fork
<1>4. ASSUME NEW w \in Writer, NEW s \in Stream, BeginWrite(w, s)
      PROVE  Drained' /\ WritersWrite' /\ Unspawned'
  BY <1>4 DEF BeginWrite
<1>5. ASSUME NEW w \in Writer, NEW s \in Stream, NEW c, Write(w, s, c)
      PROVE  Drained' /\ WritersWrite' /\ Unspawned'
  BY <1>5 DEF Write
<1>6. ASSUME NEW w \in Writer, Exit(w) PROVE Drained' /\ WritersWrite' /\ Unspawned'
  BY <1>6 DEF Exit
<1>7. ASSUME NEW s \in Stream, Feed(s) PROVE Drained' /\ WritersWrite' /\ Unspawned'
  BY <1>7 DEF Feed
<1>8. ASSUME NEW s \in Stream, ReadLine(s) PROVE Drained' /\ WritersWrite' /\ Unspawned'
  BY <1>8 DEF ReadLine, Reading
<1>9. ASSUME NEW s \in Stream, ReadLast(s) PROVE Drained' /\ WritersWrite' /\ Unspawned'
  BY <1>9 DEF ReadLast, Reading, Eof
<1>10. ASSUME NEW s \in Stream, Overrun(s) PROVE Drained' /\ WritersWrite' /\ Unspawned'
  BY <1>10 DEF Overrun, Reading
<1>11. CASE Gather
  BY <1>11 DEF Gather
<1>12. CASE GatherRaises
  BY <1>12 DEF GatherRaises
<1>13. CASE Wait
  BY <1>13 DEF Wait
<1>14. CASE UNCHANGED vars
  BY <1>14 DEF vars
<1> QED BY <1>2, <1>3, <1>4, <1>5, <1>6, <1>7, <1>8, <1>9, <1>10, <1>11, <1>12, <1>13,
           <1>14 DEF Next, Loop, WriteAny

LEMMA InvStep == TypeOK /\ IInv /\ [Next]_vars => IInv'
  BY CarriedStep, EndStep DEF IInv

LEMMA InvImplies == TypeOK /\ IInv => NothingLost
<1> SUFFICES ASSUME TypeOK, IInv, caller = "returned" PROVE lines = wrote
  BY DEF NothingLost
<1>1. /\ lines \in [Stream -> Output] /\ wrote \in [Stream -> Output]
      /\ drain = [s \in Stream |-> "done"]
  BY TypeParts DEF Streams, Actors
<1>2. ASSUME NEW s \in Stream PROVE wrote[s] = lines[s]
  <2>1. buffer[s] = <<>> /\ pipe[s] = <<>>
    BY <1>1 DEF IInv, Drained
  <2>2. wrote[s] = lines[s] \o (<<>> \o <<>>)
    BY <2>1 DEF IInv, Carried
  <2>3. <<>> \in Output /\ lines[s] \in Output
    BY <1>1, OutputProperties
  <2> QED BY <2>2, <2>3, ConcatNothing
<1> QED BY <1>1, <1>2

\* At every moment what the child and its descendant wrote to a stream is
\* what is captured, what is buffered and what is in the pipe, in this order,
\* and a stream counts as drained only when nobody can write to it any more.
THEOREM OutputIsCarried == Spec => []IInv
<1>1. Init => TypeOK /\ IInv
  BY TypeInit, InvInit
<1>2. TypeOK /\ IInv /\ [Next]_vars => IInv'
  BY InvStep
<1> QED BY <1>1, <1>2, TypeCorrect, PTL DEF Spec

\* A result holds all that was written to each stream, in order, whatever the
\* capacity of a pipe and however the writers and the readers interleave.
THEOREM NothingIsLost == Spec => []NothingLost
  BY OutputIsCarried, TypeCorrect, InvImplies, PTL
=============================================================================
