---------------------------- MODULE StreamProofs ----------------------------
(***************************************************************************)
(* Proofs about Stream, for every source, every pipeline and any number of *)
(* sinks.                                                                  *)
(***************************************************************************)
EXTENDS Stream, ListLemmas, FunctionTheorems, FiniteSetTheorems

\* Behind channel c: what its sender has still to send, what it holds, and what
\* the operation it feeds has received from it.
Backlog(c)   == IF c = 0 THEN Len(source) ELSE Len(pending[c])
TakenFrom(c) == IF c < N THEN received[c + 1] ELSE 0

\* What the sender of channel c has been given: the source, or what it received.
Given(c) == IF c = 0 THEN Size ELSE received[c]

\* No sender has more to send than it was given, nor is given more than there is.
Balanced(c) == /\ Backlog(c) + Len(queue[c]) + TakenFrom(c) <= Given(c)
               /\ Given(c) <= Size

Balance == \A c \in Channels : Balanced(c)

IInv == Shape /\ ChannelsBounded /\ ClosedIsDrained /\ (OneForOne => Balance)

-----------------------------------------------------------------------------
(* What one operation makes of one element.                                *)

LEMMA OutputsType ==
  ASSUME image \in Pipelines, NEW i \in Ops, NEW v \in Values
  PROVE  Outputs(i, v) \in Seq(Values)
<1>1. image[i][v] \in Seq(Values)
  BY PipelineAssumption
<1> QED BY <1>1 DEF Outputs

LEMMA OutputsLength ==
  ASSUME OneForOne, NEW i \in Ops, NEW v \in Values
  PROVE  Len(Outputs(i, v)) <= 1
<1>1. Len(image[i][v]) <= 1
  BY DEF OneForOne
<1>2. Len(<<>>) <= 1 /\ Len(<<v>>) <= 1
  OBVIOUS
<1> QED BY <1>1, <1>2 DEF Outputs

\* What receiving and sending do to a channel.
LEMMA TakeHead ==
  ASSUME NEW s \in Seq(Values), s # <<>>
  PROVE  /\ Head(s) \in Values /\ Tail(s) \in Seq(Values)
         /\ Len(s) \in Nat \ {0} /\ Len(Tail(s)) = Len(s) - 1
BY HeadTailProperties, EmptySeq

LEMMA PutLast ==
  ASSUME NEW s \in Seq(Values), NEW v \in Values
  PROVE  /\ Append(s, v) \in Seq(Values) /\ Append(s, v) # <<>>
         /\ Len(s) \in Nat /\ Len(Append(s, v)) = Len(s) + 1
BY AppendProperties, LenProperties

LEMMA Sizes == Size \in Nat /\ N \in Nat
BY PipelineAssumption DEF Size

-----------------------------------------------------------------------------
(* The invariant holds initially and is kept by every step.                *)

LEMMA InitInv == Init => IInv
<1> SUFFICES ASSUME Init PROVE IInv
  OBVIOUS
<1>1. Shape
  BY PipelineAssumption, Sizes DEF Init, Shape, Ops, Channels
<1>2. ClosedIsDrained
  <2>1. Size = 0 => Source = <<>>
    BY PipelineAssumption DEF Size
  <2> QED BY <2>1 DEF Init, ClosedIsDrained, Drained
<1>3. ASSUME NEW c \in Channels PROVE Balanced(c)
  <2>1. Backlog(c) = Given(c)
    BY Sizes DEF Init, Backlog, Given, Size, Ops, Channels
  <2>2. Len(queue[c]) = 0 /\ TakenFrom(c) = 0
    BY Sizes DEF Init, TakenFrom, Ops, Channels
  <2>3. Given(c) \in Nat /\ Given(c) <= Size
    BY Sizes DEF Init, Given, Ops, Channels
  <2> QED BY <2>1, <2>2, <2>3 DEF Balanced
<1>4. ChannelsBounded
  BY Sizes DEF Init, ChannelsBounded, Channels
<1> QED BY <1>1, <1>2, <1>3, <1>4 DEF IInv, Balance

LEMMA TypeStep == Shape /\ [Next]_vars => Shape'
<1> SUFFICES ASSUME Shape, [Next]_vars PROVE Shape'
  OBVIOUS
<1> USE Sizes DEF Shape, Ops, Channels, given
<1>1. CASE Sending
  <2>1. Head(source) \in Values /\ Tail(source) \in Seq(Values)
    BY <1>1, TakeHead DEF Sending
  <2>2. Append(queue[0], Head(source)) \in Seq(Values)
    BY <2>1, PutLast
  <2> QED BY <1>1, <2>1, <2>2 DEF Sending
<1>2. CASE SourceEnds
  <2>1. closed' \subseteq Channels
    BY <1>2 DEF SourceEnds
  <2>2. UNCHANGED <<image, callers, queue, source, pending, seen, got, failed, done, received>>
    BY <1>2 DEF SourceEnds
  <2> QED
    BY <2>1, <2>2
<1>3. ASSUME NEW i \in Ops, Receive(i) PROVE Shape'
  <2>1. Head(queue[i - 1]) \in Values /\ Tail(queue[i - 1]) \in Seq(Values)
    BY <1>3, TakeHead DEF Receive
  <2>2. Outputs(i, Head(queue[i - 1])) \in Seq(Values)
    BY <2>1, OutputsType
  <2>3. Key[Head(queue[i - 1])] \in Values
    BY <2>1, PipelineAssumption
  <2>4. queue' \in [Channels -> Seq(Values)]
    BY <1>3, <2>1 DEF Receive
  <2>7. received' \in [Ops -> Nat]
    <3>1. received[i] + 1 \in Nat
      OBVIOUS
    <3> QED BY <1>3, <3>1 DEF Receive
  <2>5. pending' \in [Ops -> Seq(Values)]
    BY <1>3, <2>2 DEF Receive
  <2>6. seen' \in [Ops -> SUBSET Values]
    BY <1>3, <2>3 DEF Receive
  <2> QED BY <1>3, <2>4, <2>5, <2>6, <2>7 DEF Receive
<1>4. ASSUME NEW i \in Ops, Forward(i) PROVE Shape'
  <2>1. Head(pending[i]) \in Values /\ Tail(pending[i]) \in Seq(Values)
    BY <1>4, TakeHead DEF Forward
  <2>2. Append(queue[i], Head(pending[i])) \in Seq(Values)
    BY <2>1, PutLast
  <2> QED BY <1>4, <2>1, <2>2 DEF Forward
<1>5. ASSUME NEW i \in Ops, Finish(i) PROVE Shape'
  <2>1. i \in Channels
    OBVIOUS
  <2> QED BY <1>5, <2>1 DEF Finish
<1>6. ASSUME NEW s \in callers, Take(s) PROVE Shape'
  <2>1. Head(queue[N]) \in Values /\ Tail(queue[N]) \in Seq(Values)
    BY <1>6, TakeHead DEF Take
  <2>4. Append(got[s], Head(queue[N])) \in Seq(Values)
    BY <2>1, PutLast
  <2>2. got' \in [Sinks -> Seq(Values)] /\ queue' \in [Channels -> Seq(Values)]
    BY <1>6, <2>1, <2>4 DEF Take
  <2>3. failed' \subseteq Sinks
    BY <1>6 DEF Take
  <2> QED BY <1>6, <2>1, <2>2, <2>3 DEF Take
<1>7. ASSUME NEW s \in callers, TakeEnd(s) PROVE Shape'
  BY <1>7 DEF TakeEnd
<1>8. CASE UNCHANGED vars
  BY <1>8 DEF vars, given
<1> QED
  BY <1>1, <1>2, <1>3, <1>4, <1>5, <1>6, <1>7, <1>8 DEF Next, OpStep, SinkStep

LEMMA DrainedStep ==
  Shape /\ ClosedIsDrained /\ [Next]_vars => ClosedIsDrained'
<1> SUFFICES ASSUME Shape, ClosedIsDrained, [Next]_vars, NEW c \in closed'
             PROVE  Drained(c)'
  BY DEF ClosedIsDrained
<1> USE Sizes DEF Shape, Ops, Channels, given, ClosedIsDrained, Drained
<1>c. c \in Channels
  BY TypeStep DEF Shape
<1>1. CASE Sending
  BY <1>1, <1>c DEF Sending
<1>2. CASE SourceEnds
  BY <1>2, <1>c DEF SourceEnds
<1>3. ASSUME NEW i \in Ops, Receive(i) PROVE Drained(c)'
  <2>1. Drained(c) /\ c # i
    BY <1>3 DEF Receive
  <2>2. i - 1 \in Channels /\ queue[i - 1] # <<>>
    BY <1>3 DEF Receive
  <2>3. CASE c = 0
    BY <1>3, <2>1, <2>3 DEF Receive
  <2>4. CASE c # 0
    <3>1. c - 1 # i - 1 /\ c - 1 \in Channels /\ c \in Ops
      BY <1>c, <2>1, <2>4
    <3> QED BY <1>3, <2>1, <2>2, <2>4, <3>1 DEF Receive
  <2> QED BY <2>3, <2>4
<1>4. ASSUME NEW i \in Ops, Forward(i) PROVE Drained(c)'
  <2>1. Drained(c) /\ i \notin closed
    BY <1>4 DEF Forward
  <2>2. CASE c = 0
    BY <1>4, <2>1, <2>2 DEF Forward
  <2>3. CASE c # 0
    <3>2. c - 1 \in closed /\ c \in closed
      BY <1>4, <2>1, <2>3 DEF Forward
    <3>3. c - 1 # i /\ c # i
      BY <2>1, <3>2
    <3>4. c - 1 \in Channels /\ c \in Ops
      BY <1>c, <2>3
    <3>1. c - 1 # i /\ c # i /\ c - 1 \in Channels /\ c \in Ops
      BY <3>3, <3>4
    <3> QED BY <1>4, <2>1, <2>3, <3>1 DEF Forward
  <2> QED BY <2>2, <2>3
<1>5. ASSUME NEW i \in Ops, Finish(i) PROVE Drained(c)'
  <2>1. CASE c = i
    BY <1>5, <2>1 DEF Finish
  <2>2. CASE c # i
    BY <1>5, <2>2 DEF Finish
  <2> QED BY <2>1, <2>2
<1>6. ASSUME NEW s \in callers, Take(s) PROVE Drained(c)'
  BY <1>6, <1>c DEF Take
<1>7. ASSUME NEW s \in callers, TakeEnd(s) PROVE Drained(c)'
  BY <1>7, <1>c DEF TakeEnd
<1>8. CASE UNCHANGED vars
  BY <1>8, <1>c DEF vars
<1> QED
  BY <1>1, <1>2, <1>3, <1>4, <1>5, <1>6, <1>7, <1>8 DEF Next, OpStep, SinkStep

LEMMA Measures ==
  ASSUME Shape, NEW c \in Channels
  PROVE  /\ Backlog(c) \in Nat /\ Len(queue[c]) \in Nat
         /\ TakenFrom(c) \in Nat /\ Given(c) \in Nat
<1>1. Backlog(c) \in Nat
  BY LenProperties, Sizes DEF Shape, Backlog, Ops, Channels
<1>2. Len(queue[c]) \in Nat
  BY LenProperties DEF Shape
<1>3. TakenFrom(c) \in Nat /\ Given(c) \in Nat
  BY Sizes DEF Shape, TakenFrom, Given, Ops, Channels
<1> QED BY <1>1, <1>2, <1>3

LEMMA BalanceStep ==
  OneForOne /\ Shape /\ Balance /\ [Next]_vars => Balance'
<1> SUFFICES ASSUME OneForOne, Shape, Balance, [Next]_vars, NEW c \in Channels
             PROVE  Balanced(c)'
  BY DEF Balance, Channels
<1>b. Balanced(c)
  BY DEF Balance
<1>m. /\ Backlog(c) \in Nat /\ Len(queue[c]) \in Nat
      /\ TakenFrom(c) \in Nat /\ Given(c) \in Nat /\ Size \in Nat
  BY Measures, Sizes
<1>s. ASSUME Backlog(c)' = Backlog(c), Len(queue[c])' = Len(queue[c]),
             TakenFrom(c)' = TakenFrom(c), Given(c)' = Given(c)
      PROVE  Balanced(c)'
  BY <1>b, <1>s DEF Balanced
<1>t. ASSUME Backlog(c)' = Backlog(c) - 1, Len(queue[c])' = Len(queue[c]) + 1,
             TakenFrom(c)' = TakenFrom(c), Given(c)' = Given(c)
      PROVE  Balanced(c)'
  BY <1>b, <1>m, <1>t DEF Balanced
<1>1. CASE Sending
  <2>1. Head(source) \in Values /\ Len(Tail(source)) = Len(source) - 1
    BY <1>1, TakeHead DEF Sending, Shape
  <2>2. queue[0] \in Seq(Values)
    BY Sizes DEF Shape, Channels
  <2>3. Len(Append(queue[0], Head(source))) = Len(queue[0]) + 1
    BY <2>1, <2>2, PutLast
  <2>4. TakenFrom(c)' = TakenFrom(c) /\ Given(c)' = Given(c)
    BY <1>1 DEF Sending, TakenFrom, Given
  <2>5. CASE c = 0
    <3>1. Backlog(c)' = Backlog(c) - 1
      BY <1>1, <2>1, <2>5 DEF Sending, Backlog
    <3>2. Len(queue[c])' = Len(queue[c]) + 1
      BY <1>1, <2>3, <2>5 DEF Sending, Shape
    <3> QED BY <1>t, <2>4, <3>1, <3>2
  <2>6. CASE c # 0
    <3>1. Backlog(c)' = Backlog(c) /\ Len(queue[c])' = Len(queue[c])
      BY <1>1, <2>6 DEF Sending, Backlog, Shape
    <3> QED BY <1>s, <2>4, <3>1
  <2> QED BY <2>5, <2>6
<1>2. CASE SourceEnds
  BY <1>2, <1>s DEF SourceEnds, Backlog, TakenFrom, Given
<1>3. ASSUME NEW i \in Ops, Receive(i) PROVE Balanced(c)'
  <2>i. i \in Nat /\ i >= 1 /\ i <= N /\ i - 1 \in Channels /\ i \in Channels
    BY Sizes DEF Ops, Channels
  <2>q. queue[i - 1] \in Seq(Values) /\ queue[i - 1] # <<>>
    BY <1>3, <2>i DEF Receive, Shape
  <2>1. /\ Head(queue[i - 1]) \in Values /\ Len(queue[i - 1]) >= 1
        /\ Len(Tail(queue[i - 1])) = Len(queue[i - 1]) - 1
    BY <2>q, TakeHead
  <2>2. Len(Outputs(i, Head(queue[i - 1]))) <= 1
    BY <2>1, OutputsLength
  <2>3. CASE c = i - 1
    <3>1. Len(queue[c])' = Len(queue[c]) - 1
      BY <1>3, <2>1, <2>3 DEF Receive, Shape
    <3>2. TakenFrom(c)' = TakenFrom(c) + 1
      <4>1. c < N /\ c + 1 = i
        BY <2>i, <2>3, Sizes
      <4>2. received'[i] = received[i] + 1
        BY <1>3 DEF Receive, Shape
      <4> QED BY <4>1, <4>2 DEF TakenFrom
    <3>3. Backlog(c)' = Backlog(c) /\ Given(c)' = Given(c)
      BY <1>3, <2>i, <2>3 DEF Receive, Shape, Backlog, Given
    <3> QED BY <1>b, <1>m, <3>1, <3>2, <3>3 DEF Balanced
  <2>4. CASE c = i
    <3>1. Len(queue[c])' = Len(queue[c]) /\ TakenFrom(c)' = TakenFrom(c)
      BY <1>3, <2>i, <2>4 DEF Receive, Shape, TakenFrom
    <3>2. Backlog(c) = 0 /\ Backlog(c)' <= 1
      BY <1>3, <2>2, <2>i, <2>4 DEF Receive, Shape, Backlog
    <3>3. Given(c)' = Given(c) + 1 /\ Given(c) = TakenFrom(i - 1)
      <4>1. received'[i] = received[i] + 1
        BY <1>3 DEF Receive, Shape
      <4>2. i # 0 /\ i - 1 < N /\ (i - 1) + 1 = i
        BY <2>i, Sizes
      <4> QED BY <2>4, <4>1, <4>2 DEF Given, TakenFrom
    <3>4. Balanced(i - 1)
      BY <2>i DEF Balance
    <3>5. /\ Backlog(i - 1) \in Nat /\ TakenFrom(i - 1) \in Nat
          /\ Given(i - 1) \in Nat /\ Len(queue[i - 1]) \in Nat
      BY <2>i, Measures
    <3>6. Given(c)' <= Size
      BY <1>m, <2>1, <3>3, <3>4, <3>5 DEF Balanced
    <3>7. Backlog(c)' \in Nat
      BY TypeStep, Measures, <2>4, <2>i, LenProperties DEF Shape, Backlog
    <3> QED BY <1>b, <1>m, <3>1, <3>2, <3>3, <3>6, <3>7 DEF Balanced
  <2>5. CASE c # i - 1 /\ c # i
    <3>1. Backlog(c)' = Backlog(c) /\ Given(c)' = Given(c)
      BY <1>3, <2>5, <2>i DEF Receive, Shape, Backlog, Given
    <3>2. Len(queue[c])' = Len(queue[c]) /\ TakenFrom(c)' = TakenFrom(c)
      BY <1>3, <2>5, <2>i, Sizes DEF Receive, Shape, TakenFrom, Ops, Channels
    <3> QED BY <1>s, <3>1, <3>2
  <2> QED BY <2>3, <2>4, <2>5
<1>4. ASSUME NEW i \in Ops, Forward(i) PROVE Balanced(c)'
  <2>i. i \in Nat /\ i >= 1 /\ i \in Channels
    BY Sizes DEF Ops, Channels
  <2>1. Head(pending[i]) \in Values /\ Len(Tail(pending[i])) = Len(pending[i]) - 1
    BY <1>4, TakeHead DEF Forward, Shape
  <2>2. Len(Append(queue[i], Head(pending[i]))) = Len(queue[i]) + 1
    BY <2>1, <2>i, PutLast DEF Shape
  <2>3. TakenFrom(c)' = TakenFrom(c) /\ Given(c)' = Given(c)
    BY <1>4 DEF Forward, TakenFrom, Given
  <2>4. CASE c = i
    <3>1. Backlog(c)' = Backlog(c) - 1
      BY <1>4, <2>1, <2>i, <2>4 DEF Forward, Shape, Backlog
    <3>2. Len(queue[c])' = Len(queue[c]) + 1
      BY <1>4, <2>2, <2>4 DEF Forward, Shape
    <3> QED BY <1>t, <2>3, <3>1, <3>2
  <2>5. CASE c # i
    <3>1. Backlog(c)' = Backlog(c) /\ Len(queue[c])' = Len(queue[c])
      BY <1>4, <2>5 DEF Forward, Backlog, Shape
    <3> QED BY <1>s, <2>3, <3>1
  <2> QED BY <2>4, <2>5
<1>5. ASSUME NEW i \in Ops, Finish(i) PROVE Balanced(c)'
  BY <1>5, <1>s DEF Finish, Backlog, TakenFrom, Given
<1>6. ASSUME NEW s \in callers, Take(s) PROVE Balanced(c)'
  <2>1. Backlog(c)' = Backlog(c) /\ TakenFrom(c)' = TakenFrom(c) /\ Given(c)' = Given(c)
    BY <1>6 DEF Take, Backlog, TakenFrom, Given
  <2>2. CASE c = N
    <3>1. Len(Tail(queue[N])) = Len(queue[N]) - 1
      BY <1>6, <2>2, TakeHead DEF Take, Shape
    <3>2. Len(queue[c])' = Len(queue[c]) - 1
      BY <1>6, <2>2, <3>1 DEF Take, Shape
    <3> QED BY <1>b, <1>m, <2>1, <3>2 DEF Balanced
  <2>3. CASE c # N
    <3>1. Len(queue[c])' = Len(queue[c])
      BY <1>6, <2>3 DEF Take, Shape
    <3> QED BY <1>s, <2>1, <3>1
  <2> QED BY <2>2, <2>3
<1>7. ASSUME NEW s \in callers, TakeEnd(s) PROVE Balanced(c)'
  BY <1>7, <1>s DEF TakeEnd, Backlog, TakenFrom, Given
<1>8. CASE UNCHANGED vars
  BY <1>8, <1>s DEF vars, Backlog, TakenFrom, Given
<1> QED
  BY <1>1, <1>2, <1>3, <1>4, <1>5, <1>6, <1>7, <1>8 DEF Next, OpStep, SinkStep

\* A channel only grows where HasRoom was asked first.
LEMMA BoundStep ==
  Shape /\ ChannelsBounded /\ [Next]_vars => ChannelsBounded'
<1> SUFFICES ASSUME Shape, ChannelsBounded, [Next]_vars, NEW c \in Channels
             PROVE  Len(queue[c])' <= Size
  BY DEF ChannelsBounded, Channels, Size
<1>q. /\ Len(queue[c]) <= Size /\ Len(queue[c]) \in Nat /\ Size \in Nat
      /\ queue[c] \in Seq(Values) /\ queue \in [Channels -> Seq(Values)]
  BY Measures, Sizes DEF ChannelsBounded, Shape
<1>same. ASSUME queue'[c] = queue[c] PROVE Len(queue[c])' <= Size
  BY <1>q, <1>same
<1>less. ASSUME queue[c] # <<>>, queue'[c] = Tail(queue[c])
         PROVE  Len(queue[c])' <= Size
  BY <1>q, <1>less, TakeHead
<1>more. ASSUME HasRoom(c), NEW v \in Values, queue'[c] = Append(queue[c], v)
         PROVE  Len(queue[c])' <= Size
  BY <1>q, <1>more, PutLast DEF HasRoom, Capacity
<1>1. CASE Sending
  <2>1. Head(source) \in Values
    BY <1>1, TakeHead DEF Sending, Shape
  <2>2. CASE c = 0
    BY <1>1, <1>more, <1>q, <2>1, <2>2 DEF Sending
  <2>3. CASE c # 0
    BY <1>1, <1>same, <1>q, <2>3 DEF Sending
  <2> QED BY <2>2, <2>3
<1>2. CASE SourceEnds
  BY <1>2, <1>same DEF SourceEnds
<1>3. ASSUME NEW i \in Ops, Receive(i) PROVE Len(queue[c])' <= Size
  <2>1. CASE c = i - 1
    BY <1>3, <1>less, <1>q, <2>1 DEF Receive
  <2>2. CASE c # i - 1
    BY <1>3, <1>same, <1>q, <2>2 DEF Receive
  <2> QED BY <2>1, <2>2
<1>4. ASSUME NEW i \in Ops, Forward(i) PROVE Len(queue[c])' <= Size
  <2>1. Head(pending[i]) \in Values
    BY <1>4, TakeHead DEF Forward, Shape
  <2>2. CASE c = i
    BY <1>4, <1>more, <1>q, <2>1, <2>2 DEF Forward
  <2>3. CASE c # i
    BY <1>4, <1>same, <1>q, <2>3 DEF Forward
  <2> QED BY <2>2, <2>3
<1>5. ASSUME NEW i \in Ops, Finish(i) PROVE Len(queue[c])' <= Size
  BY <1>5, <1>same DEF Finish
<1>6. ASSUME NEW s \in callers, Take(s) PROVE Len(queue[c])' <= Size
  <2>1. CASE c = N
    BY <1>6, <1>less, <1>q, <2>1 DEF Take
  <2>2. CASE c # N
    BY <1>6, <1>same, <1>q, <2>2 DEF Take
  <2> QED BY <2>1, <2>2
<1>7. ASSUME NEW s \in callers, TakeEnd(s) PROVE Len(queue[c])' <= Size
  BY <1>7, <1>same DEF TakeEnd
<1>8. CASE UNCHANGED vars
  BY <1>8, <1>same DEF vars
<1> QED
  BY <1>1, <1>2, <1>3, <1>4, <1>5, <1>6, <1>7, <1>8 DEF Next, OpStep, SinkStep

LEMMA InvStep == IInv /\ [Next]_vars => IInv'
<1>1. [Next]_vars => image' = image
  BY DEF Next, vars, given, Sending, SourceEnds, OpStep, Receive, Forward, Finish,
         SinkStep, Take, TakeEnd
<1>2. [Next]_vars => (OneForOne' <=> OneForOne)
  BY <1>1 DEF OneForOne
<1> QED BY <1>2, TypeStep, BoundStep, DrainedStep, BalanceStep DEF IInv

LEMMA Invariance == Spec => []IInv
BY InitInv, InvStep, PTL DEF Spec

-----------------------------------------------------------------------------
(* The theorems.                                                           *)

\* Every variable keeps its type, and no channel holds more than its capacity,
\* whatever the operations are.
THEOREM TypeCorrect == Spec => []TypeOK
<1>1. IInv => TypeOK
  BY DEF IInv, TypeOK
<1> QED BY <1>1, Invariance, PTL

\* A closed channel has nothing more to come: no goroutine of a pipeline sends on
\* a closed channel, and a sink that sees the end has seen everything.
THEOREM ClosedChannelsAreDrained == Spec => []ClosedIsDrained
<1>1. IInv => ClosedIsDrained
  BY DEF IInv
<1> QED BY <1>1, Invariance, PTL

\* Without FlatMap the capacity of the source is enough for every send of every
\* operation, drained or not, for pipelines and sources of any length.
THEOREM NoSendBlocks == Spec => []SendsNeverBlock
<1>1. ASSUME Shape, Balance, NEW c \in Channels, Backlog(c) > 0
      PROVE  HasRoom(c)
  <2>1. Balanced(c)
    BY <1>1 DEF Balance
  <2> QED BY <1>1, <2>1, Measures, Sizes DEF Balanced, HasRoom, Capacity
<1>2. ASSUME IInv PROVE SendsNeverBlock
  <2>1. ASSUME OneForOne, source # <<>> PROVE HasRoom(0)
    <3>1. 0 \in Channels /\ Backlog(0) > 0
      BY <1>2, <2>1, TakeHead, Sizes DEF IInv, Shape, Backlog, Channels
    <3> QED BY <1>1, <1>2, <2>1, <3>1 DEF IInv
  <2>2. ASSUME OneForOne, NEW i \in Ops, pending[i] # <<>> PROVE HasRoom(i)
    <3>1. Len(pending[i]) > 0
      BY <1>2, <2>2, TakeHead DEF IInv, Shape
    <3>2. i \in Channels /\ Backlog(i) > 0
      BY <3>1, Sizes DEF Backlog, Ops, Channels
    <3> QED BY <1>1, <1>2, <2>2, <3>2 DEF IInv
  <2> QED BY <2>1, <2>2 DEF SendsNeverBlock
<1> QED BY <1>2, Invariance, PTL

-----------------------------------------------------------------------------
(* What an operation makes of a list.                                      *)

\* What operation i makes of the k-th element of s, and the lists ListOp builds of
\* the pieces.
Piece(p, i, s, m, k) ==
  IF i \notin DistinctAt THEN p[i][s[k]]
  ELSE IF Key[s[k]] \in m \cup {Key[s[j]] : j \in 1 .. (k - 1)} THEN <<>> ELSE <<s[k]>>

Making(f, p, i, s, m) ==
  f = [k \in 0 .. Len(s) |-> IF k = 0 THEN <<>> ELSE f[k - 1] \o Piece(p, i, s, m, k)]

LEMMA PieceType ==
  ASSUME NEW p \in Pipelines, NEW i \in Ops, NEW s \in Seq(Values), NEW m,
         NEW k \in 1 .. Len(s)
  PROVE  Piece(p, i, s, m, k) \in Seq(Values)
<1>1. s[k] \in Values
  BY ElementOfSeq
<1>2. p[i][s[k]] \in Seq(Values)
  BY <1>1, PipelineAssumption
<1>3. <<>> \in Seq(Values) /\ <<s[k]>> \in Seq(Values)
  BY <1>1
<1> QED
  BY <1>2, <1>3 DEF Piece

LEMMA ListOpValue ==
  ASSUME NEW p, NEW i, NEW s, NEW m, NEW g, Making(g, p, i, s, m)
  PROVE  \E f : Making(f, p, i, s, m) /\ ListOp(p, i, s, m) = f[Len(s)]
BY DEF ListOp, Making, Piece

\* f[k] is the list of the first k elements.
Made(f, p, i, s, m) ==
  /\ f \in [0 .. Len(s) -> Seq(Values)] /\ f[0] = <<>>
  /\ \A k \in 1 .. Len(s) : f[k] = f[k - 1] \o Piece(p, i, s, m, k)
  /\ ListOp(p, i, s, m) = f[Len(s)]

LEMMA ListOpMade ==
  ASSUME NEW p \in Pipelines, NEW i \in Ops, NEW s \in Seq(Values), NEW m
  PROVE  \E f : Made(f, p, i, s, m)
<1> DEFINE n == Len(s)
           V == Seq(Values)
           P(k) == Piece(p, i, s, m, k)
           g == [x \in (1 .. n) \X V |-> x[2] \o P(x[1])]
<1>1. n \in Nat /\ <<>> \in V /\ \A k \in 1 .. n : P(k) \in V
  BY LenProperties, PieceType
<1>2. \A k \in 1 .. n, l \in V : l \o P(k) \in V
  <2> HIDE DEF P
  <2> QED
    BY <1>1, ConcatProperties
<1>3. g \in [(1 .. n) \X V -> V]
  <2> HIDE DEF P, V, n
  <2> QED
    BY <1>2
<1>4. PICK f \in [0 .. n -> V] : Follows(f, n, <<>>, g)
  <2> HIDE DEF g, V, n
  <2> QED
    BY <1>1, <1>3, Recursion
<1>5. f[0] = <<>> /\ \A k \in 1 .. n : f[k] = f[k - 1] \o P(k)
  <2>1. f[0] = <<>>
    BY <1>4 DEF Follows
  <2>2. ASSUME NEW k \in 1 .. n PROVE f[k] = f[k - 1] \o P(k)
    <3>1. f[k] = g[<<k, f[k - 1]>>] /\ f[k - 1] \in V
      <4>1. k - 1 \in 0 .. n
        BY <1>1
      <4> QED
        BY <1>4, <4>1 DEF Follows
    <3> HIDE DEF P, V, n
    <3> QED
      BY <3>1
  <2> QED
    BY <2>1, <2>2
<1>6. Making(f, p, i, s, m)
  <2>1. f = [k \in 0 .. n |-> IF k = 0 THEN <<>> ELSE f[k - 1] \o P(k)]
    <3> HIDE DEF V, n, P
    <3>1. \A k \in 0 .. n : k # 0 => k \in 1 .. n
      BY <1>1
    <3>2. \A k \in 0 .. n : f[k] = IF k = 0 THEN <<>> ELSE f[k - 1] \o P(k)
      BY <1>5, <3>1
    <3> QED
      BY <1>4, <3>2
  <2> QED
    BY <2>1 DEF Making
<1>7. PICK h : Making(h, p, i, s, m) /\ ListOp(p, i, s, m) = h[n]
  BY <1>6, ListOpValue
<1>8. h[0] = <<>> /\ \A k \in 1 .. n : h[k] = h[k - 1] \o P(k)
  <2>1. h = [k \in 0 .. n |-> IF k = 0 THEN <<>> ELSE h[k - 1] \o P(k)]
    BY <1>7 DEF Making
  <2> HIDE DEF P, n
  <2>2. 0 \in 0 .. n /\ \A k \in 1 .. n : k \in 0 .. n /\ k # 0
    BY <1>1
  <2> QED
    BY <2>1, <2>2
<1>9. h = [k \in 0 .. n |-> h[k]]
  BY <1>7 DEF Making
<1> HIDE DEF P, V, n
<1> DEFINE T == {k \in 0 .. n : h[k] \in V}
<1>10. \A k \in 0 .. n : h[k] \in V
  <2>1. 0 \in T
    <3>1. 0 \in 0 .. n
      BY <1>1
    <3> QED
      BY <1>1, <1>8, <3>1
  <2>2. ASSUME NEW k \in 0 .. n, k \in T, k < n PROVE k + 1 \in T
    <3>1. k + 1 \in 1 .. n /\ (k + 1) - 1 = k
      BY <1>1, <2>2
    <3>2. h[k + 1] = h[k] \o P(k + 1) /\ h[k] \in V
      BY <1>8, <2>2, <3>1
    <3>3. h[k + 1] \in V
      BY <1>2, <3>1, <3>2
    <3>4. k + 1 \in 0 .. n
      BY <1>1, <3>1
    <3> QED
      BY <3>3, <3>4
  <2>3. 0 .. n \subseteq T
    <3> HIDE DEF T
    <3>1. 0 \in Int /\ n \in Int
      BY <1>1
    <3>2. \A k \in 0 .. n : k \in T /\ k < n => k + 1 \in T
      BY <2>2
    <3> QED
      BY <2>1, <3>1, <3>2, InductionUpTo
  <2> QED
    BY <2>3
<1>11. h \in [0 .. n -> V]
  BY <1>9, <1>10
<1> QED
  BY <1>7, <1>8, <1>11 DEF P, V, n, Made

LEMMA ListOpType ==
  ASSUME NEW p \in Pipelines, NEW i \in Ops, NEW s \in Seq(Values), NEW m
  PROVE  ListOp(p, i, s, m) \in Seq(Values)
<1>1. PICK f : Made(f, p, i, s, m)
  BY ListOpMade
<1> QED
  BY <1>1, LenProperties DEF Made

LEMMA ListOpEmpty ==
  ASSUME NEW p \in Pipelines, NEW i \in Ops, NEW m
  PROVE  ListOp(p, i, <<>>, m) = <<>>
<1> DEFINE e == <<>>
<1>1. e \in Seq(Values) /\ Len(e) = 0
  OBVIOUS
<1> HIDE DEF e
<1>2. PICK f : Made(f, p, i, e, m)
  BY <1>1, ListOpMade
<1>3. ListOp(p, i, e, m) = <<>>
  BY <1>1, <1>2 DEF Made
<1> QED
  BY <1>3 DEF e

\* What operation i makes of v when it has met the keys in m, and what it has met
\* then.
First(p, i, v, m) ==
  IF i \notin DistinctAt THEN p[i][v] ELSE IF Key[v] \in m THEN <<>> ELSE <<v>>

Met(i, v, m) == IF i \in DistinctAt THEN m \cup {Key[v]} ELSE m

\* The first element of a list first, then the others.
LEMMA ListOpCons ==
  ASSUME NEW p \in Pipelines, NEW i \in Ops, NEW v \in Values, NEW s \in Seq(Values), NEW m
  PROVE  /\ First(p, i, v, m) \in Seq(Values)
         /\ ListOp(p, i, <<v>> \o s, m) = First(p, i, v, m) \o ListOp(p, i, s, Met(i, v, m))
<1> DEFINE t == <<v>> \o s
           n == Len(s)
           V == Seq(Values)
           w == Met(i, v, m)
           P == First(p, i, v, m)
           q(k) == Piece(p, i, s, w, k)
<1>1. n \in Nat /\ t \in V /\ Len(t) = n + 1
      /\ \A k \in 1 .. (n + 1) : t[k] = IF k = 1 THEN v ELSE s[k - 1]
  <2>1. /\ <<v>> \in Seq(Values) /\ Len(<<v>>) = 1 /\ <<v>>[1] = v
        /\ Len(s) \in Nat
    BY LenProperties
  <2> DEFINE u == <<v>>
  <2>2. u \in Seq(Values) /\ Len(u) = 1 /\ u[1] = v
    BY <2>1
  <2> HIDE DEF u
  <2>3. /\ u \o s \in Seq(Values) /\ Len(u \o s) = Len(u) + Len(s)
        /\ \A k \in 1 .. Len(u) + Len(s) :
             (u \o s)[k] = IF k <= Len(u) THEN u[k] ELSE s[k - Len(u)]
    BY <2>2, ConcatProperties
  <2>4. /\ u \o s \in Seq(Values) /\ Len(u \o s) = n + 1
        /\ \A k \in 1 .. (n + 1) : (u \o s)[k] = IF k = 1 THEN v ELSE s[k - 1]
    BY <2>1, <2>2, <2>3
  <2> QED
    BY <2>1, <2>4 DEF u
<1> HIDE DEF t, V
<1>2. Piece(p, i, t, m, 1) = P
  <2>1. t[1] = v /\ 1 .. (1 - 1) = {}
    BY <1>1
  <2> QED
    BY <2>1 DEF Piece, First
<1>3. ASSUME NEW k \in 1 .. n PROVE Piece(p, i, t, m, k + 1) = q(k)
  <2>1. k + 1 \in 1 .. (n + 1) /\ k + 1 # 1 /\ (k + 1) - 1 = k
    BY <1>1
  <2>2. t[k + 1] = s[k]
    BY <1>1, <2>1
  <2>3. {Key[t[j]] : j \in 1 .. k} = {Key[v]} \cup {Key[s[j]] : j \in 1 .. (k - 1)}
    <3>1. \A j \in 1 .. k : t[j] = IF j = 1 THEN v ELSE s[j - 1]
      BY <1>1
    <3>2. \A j \in 1 .. (k - 1) : j + 1 \in 1 .. k /\ j + 1 # 1 /\ (j + 1) - 1 = j
      BY <1>1
    <3>3. \A j \in 1 .. (k - 1) : t[j + 1] = s[j]
      BY <3>1, <3>2
    <3>4. \A j \in 1 .. k : j # 1 => j - 1 \in 1 .. (k - 1)
      BY <1>1
    <3>5. 1 \in 1 .. k /\ t[1] = v
      BY <1>1
    <3>6. ASSUME NEW x \in {Key[t[j]] : j \in 1 .. k}
          PROVE  x \in {Key[v]} \cup {Key[s[j]] : j \in 1 .. (k - 1)}
      BY <3>1, <3>4
    <3>7. ASSUME NEW x \in {Key[v]} \cup {Key[s[j]] : j \in 1 .. (k - 1)}
          PROVE  x \in {Key[t[j]] : j \in 1 .. k}
      BY <3>2, <3>3, <3>5
    <3> QED
      BY <3>6, <3>7
  <2>4. i \in DistinctAt => m \cup {Key[t[j]] : j \in 1 .. k} =
                            w \cup {Key[s[j]] : j \in 1 .. (k - 1)}
    BY <2>3 DEF Met
  <2> QED
    BY <2>1, <2>2, <2>4 DEF Piece
<1>4. P \in V
  <2>1. 1 \in 1 .. Len(t)
    BY <1>1
  <2> QED
    BY <1>1, <1>2, <2>1, PieceType DEF V
<1>5. PICK f : Made(f, p, i, t, m)
  <2>1. t \in Seq(Values)
    BY <1>1 DEF V
  <2> QED
    BY <2>1, ListOpMade
<1>5f. /\ f \in [0 .. (n + 1) -> V] /\ f[0] = <<>>
       /\ \A k \in 1 .. (n + 1) : f[k] = f[k - 1] \o Piece(p, i, t, m, k)
       /\ ListOp(p, i, t, m) = f[n + 1]
  BY <1>1, <1>5 DEF Made, V
<1>6. PICK g : Made(g, p, i, s, w)
  BY ListOpMade
<1>6g. /\ g \in [0 .. n -> V] /\ g[0] = <<>>
       /\ \A k \in 1 .. n : g[k] = g[k - 1] \o q(k)
       /\ ListOp(p, i, s, w) = g[n]
  BY <1>6 DEF Made, V
<1>7. \A k \in 1 .. n : q(k) \in V
  BY PieceType DEF V
<1> DEFINE T == {k \in 0 .. n : f[k + 1] = P \o g[k]}
<1> HIDE DEF q, P
<1>8. 0 \in T
  <2>1. f[1] = <<>> \o P
    <3>1. 1 \in 1 .. (n + 1) /\ 1 - 1 = 0
      BY <1>1
    <3> QED
      BY <1>2, <1>5f, <3>1
  <2>2. <<>> \o P = P /\ P \o <<>> = P
    BY <1>4, ConcatEmptySeq DEF V
  <2>3. f[0 + 1] = P \o g[0]
    BY <1>6g, <2>1, <2>2
  <2> QED
    BY <1>1, <2>3
<1>9. ASSUME NEW k \in 0 .. n, k \in T, k < n PROVE k + 1 \in T
  <2>1. k + 1 \in 1 .. n /\ (k + 1) - 1 = k /\ (k + 1) + 1 \in 1 .. (n + 1)
        /\ ((k + 1) + 1) - 1 = k + 1 /\ k + 1 \in 0 .. n
    BY <1>1, <1>9
  <2>2. f[(k + 1) + 1] = f[k + 1] \o q(k + 1)
    BY <1>3, <1>5f, <2>1
  <2>3. f[k + 1] = P \o g[k] /\ g[k] \in V /\ q(k + 1) \in V
    BY <1>6g, <1>7, <1>9, <2>1
  <2>4. g[k + 1] = g[k] \o q(k + 1)
    BY <1>6g, <2>1
  <2>5. (P \o g[k]) \o q(k + 1) = P \o (g[k] \o q(k + 1))
    <3> DEFINE a == g[k]
               b == q(k + 1)
    <3>1. P \in Seq(Values) /\ a \in Seq(Values) /\ b \in Seq(Values)
      BY <1>4, <2>3 DEF V
    <3> HIDE DEF a, b
    <3>2. (P \o a) \o b = P \o (a \o b)
      BY <3>1, ConcatAssociative
    <3> QED
      BY <3>2 DEF a, b
  <2> QED
    BY <2>1, <2>2, <2>3, <2>4, <2>5
<1>10. n \in T
  <2> HIDE DEF T
  <2>1. 0 \in Int /\ n \in Int /\ 0 <= n
    BY <1>1
  <2>2. \A k \in 0 .. n : k \in T /\ k < n => k + 1 \in T
    BY <1>9
  <2>3. 0 .. n \subseteq T
    BY <1>8, <2>1, <2>2, InductionUpTo
  <2> QED
    BY <1>1, <2>3
<1> QED
  BY <1>4, <1>5f, <1>6g, <1>10 DEF t, P, V

-----------------------------------------------------------------------------
(* What is still to come.                                                  *)

\* d[c] is what is to come on channel c, when F[c] is there before operation c has
\* received any more, and m[c] are the keys it has met.
Coming(d, p, F, m) ==
  /\ d[0] = F[0]
  /\ \A c \in Ops : d[c] = F[c] \o ListOp(p, c, d[c - 1], m[c])
  /\ \A c \in Channels : d[c] \in Seq(Values)

ComingFrom(d, p, F, m) ==
  d = [c \in Channels |-> IF c = 0 THEN F[0] ELSE F[c] \o ListOp(p, c, d[c - 1], m[c])]

LEMMA ChannelsAre ==
  /\ N \in Nat /\ 0 \in Channels /\ N \in Channels
  /\ \A c \in Ops : c \in Channels /\ c - 1 \in Channels /\ c # 0 /\ c \in Nat
  /\ \A c \in Channels : c \in Nat /\ c <= N /\ (c = 0 \/ c \in Ops)
BY PipelineAssumption DEF Channels, Ops

LEMMA ComingType ==
  ASSUME NEW p \in Pipelines, NEW F \in [Channels -> Seq(Values)], NEW m,
         NEW d, ComingFrom(d, p, F, m)
  PROVE  Coming(d, p, F, m)
<1>1. d[0] = F[0]
  BY ChannelsAre DEF ComingFrom
<1>2. ASSUME NEW c \in Ops PROVE d[c] = F[c] \o ListOp(p, c, d[c - 1], m[c])
  BY ChannelsAre DEF ComingFrom
<1> DEFINE T == {c \in Channels : d[c] \in Seq(Values)}
<1>3. 0 \in T
  BY <1>1, ChannelsAre
<1>4. ASSUME NEW c \in 0 .. N, c \in T, c < N PROVE c + 1 \in T
  <2>1. c + 1 \in Ops /\ (c + 1) - 1 = c /\ c + 1 \in Channels
    BY <1>4, ChannelsAre DEF Ops, Channels
  <2>2. ListOp(p, c + 1, d[c], m[c + 1]) \in Seq(Values)
    BY <1>4, <2>1, ListOpType
  <2>3. F[c + 1] \o ListOp(p, c + 1, d[c], m[c + 1]) \in Seq(Values)
    BY <2>1, <2>2, ConcatProperties
  <2> QED
    BY <1>2, <2>1, <2>3
<1>5. Channels \subseteq T
  <2> HIDE DEF T
  <2>1. 0 \in Int /\ N \in Int
    BY ChannelsAre
  <2>2. \A c \in 0 .. N : c \in T /\ c < N => c + 1 \in T
    BY <1>4
  <2>3. 0 .. N \subseteq T
    BY <1>3, <2>1, <2>2, InductionUpTo
  <2> QED
    BY <2>3 DEF Channels
<1> QED
  BY <1>1, <1>2, <1>5 DEF Coming

LEMMA ComingExists ==
  ASSUME NEW p \in Pipelines, NEW F \in [Channels -> Seq(Values)], NEW m
  PROVE  \E d : ComingFrom(d, p, F, m)
<1> DEFINE V == Seq(Values)
           g == [x \in (1 .. N) \X V |-> F[x[1]] \o ListOp(p, x[1], x[2], m[x[1]])]
<1>1. \A c \in 1 .. N, l \in V : F[c] \o ListOp(p, c, l, m[c]) \in V
  <2> SUFFICES ASSUME NEW c \in 1 .. N, NEW l \in Seq(Values)
               PROVE  F[c] \o ListOp(p, c, l, m[c]) \in Seq(Values)
    OBVIOUS
  <2>1. c \in Ops /\ c \in Channels
    BY ChannelsAre DEF Ops
  <2>2. ListOp(p, c, l, m[c]) \in Seq(Values) /\ F[c] \in Seq(Values)
    BY <2>1, ListOpType
  <2> QED
    BY <2>2, ConcatProperties
<1>2. F[0] \in V /\ N \in Nat
  BY ChannelsAre
<1> HIDE DEF V
<1>3. g \in [(1 .. N) \X V -> V]
  BY <1>1
<1>4. PICK d \in [0 .. N -> V] : Follows(d, N, F[0], g)
  <2> HIDE DEF g
  <2> QED
    BY <1>2, <1>3, Recursion
<1>5. d[0] = F[0]
  BY <1>4 DEF Follows
<1>6. ASSUME NEW c \in 1 .. N PROVE d[c] = F[c] \o ListOp(p, c, d[c - 1], m[c])
  <2>1. d[c] = g[<<c, d[c - 1]>>]
    BY <1>4 DEF Follows
  <2>2. d[c - 1] \in V
    BY <1>2, <1>4
  <2> QED
    BY <2>1, <2>2
<1>7. \A c \in 0 .. N :
        d[c] = IF c = 0 THEN F[0] ELSE F[c] \o ListOp(p, c, d[c - 1], m[c])
  <2>1. \A c \in 0 .. N : c # 0 => c \in 1 .. N
    BY <1>2
  <2> QED
    BY <1>5, <1>6, <2>1
<1> QED
  BY <1>4, <1>7 DEF ComingFrom, Channels

\* What is to come is decided by what is there.
LEMMA ComingSame ==
  ASSUME NEW p, NEW F, NEW m, NEW d, Coming(d, p, F, m),
         NEW G, NEW n, NEW e, Coming(e, p, G, n),
         \A c \in Channels : F[c] = G[c] /\ (c \in Ops => m[c] = n[c])
  PROVE  \A c \in Channels : d[c] = e[c]
<1> DEFINE T == {c \in Channels : d[c] = e[c]}
<1>1. 0 \in T
  BY ChannelsAre DEF Coming
<1>2. ASSUME NEW c \in 0 .. N, c \in T, c < N PROVE c + 1 \in T
  <2>1. c + 1 \in Ops /\ (c + 1) - 1 = c /\ c + 1 \in Channels
    BY <1>2, ChannelsAre DEF Ops, Channels
  <2>2. d[c + 1] = F[c + 1] \o ListOp(p, c + 1, d[c], m[c + 1])
    BY <2>1 DEF Coming
  <2>3. e[c + 1] = G[c + 1] \o ListOp(p, c + 1, e[c], n[c + 1])
    BY <2>1 DEF Coming
  <2> QED
    BY <1>2, <2>1, <2>2, <2>3
<1>3. 0 .. N \subseteq T
  <2> HIDE DEF T
  <2>1. 0 \in Int /\ N \in Int
    BY ChannelsAre
  <2>2. \A c \in 0 .. N : c \in T /\ c < N => c + 1 \in T
    BY <1>2
  <2> QED
    BY <1>1, <2>1, <2>2, InductionUpTo
<1> QED
  BY <1>3 DEF Channels

\* One takes v from channel i - 1; if it is an operation, it makes of v what comes
\* next on its own channel, and nothing else changes.
Passes(v, i, p, F, m, G, n) ==
  /\ F[i - 1] = <<v>> \o G[i - 1]
  /\ i \in Ops => G[i] = F[i] \o First(p, i, v, m[i]) /\ n[i] = Met(i, v, m[i])
  /\ \A c \in Channels : c # i /\ c # i - 1 => F[c] = G[c]
  /\ \A c \in Ops : c # i => m[c] = n[c]

\* The same, of d before it and e after it.
Passing(v, i, p, F, m, d, G, n, e) ==
  /\ p \in Pipelines /\ i \in 1 .. (N + 1) /\ v \in Values
  /\ F \in [Channels -> Seq(Values)] /\ Coming(d, p, F, m)
  /\ G \in [Channels -> Seq(Values)] /\ Coming(e, p, G, n)
  /\ Passes(v, i, p, F, m, G, n)

\* v has left what comes on channel i - 1, and the other channels are as before.
Gone(v, i, d, e) ==
  /\ d[i - 1] = <<v>> \o e[i - 1]
  /\ \A c \in Channels : c # i - 1 => d[c] = e[c]

LEMMA ComingPasses ==
  ASSUME NEW v, NEW i, NEW p, NEW F, NEW m, NEW d, NEW G, NEW n, NEW e,
         Passing(v, i, p, F, m, d, G, n, e)
  PROVE  Gone(v, i, d, e)
<1> SUFFICES /\ d[i - 1] = <<v>> \o e[i - 1]
             /\ \A c \in Channels : c # i - 1 => d[c] = e[c]
  BY DEF Gone
<1>a. /\ p \in Pipelines /\ i \in 1 .. (N + 1) /\ v \in Values
      /\ F \in [Channels -> Seq(Values)] /\ Coming(d, p, F, m)
      /\ G \in [Channels -> Seq(Values)] /\ Coming(e, p, G, n)
      /\ Passes(v, i, p, F, m, G, n)
  BY DEF Passing
<1> USE <1>a
<1> DEFINE one == <<v>>
           T == {c \in Channels : d[c] = IF c = i - 1 THEN one \o e[c] ELSE e[c]}
<1>0. one \in Seq(Values) /\ i - 1 \in Channels /\ i \in Nat /\ N \in Nat
  BY ChannelsAre DEF Channels
<1> HIDE DEF one
<1>1. 0 \in T
  <2>1. d[0] = F[0] /\ e[0] = G[0] /\ 0 \in Channels
    BY ChannelsAre DEF Coming
  <2>2. CASE i = 1
    <3>1. F[0] = one \o G[0]
      BY <2>2 DEF Passes, one
    <3>2. 0 = i - 1
      BY <2>2
    <3> QED
      BY <2>1, <3>1, <3>2
  <2>3. CASE i # 1
    <3>1. 0 # i - 1 /\ 0 # i
      BY <2>3
    <3> QED
      BY <2>1, <3>1 DEF Passes
  <2> QED
    BY <2>2, <2>3
<1>2. ASSUME NEW b \in 0 .. N, b \in T, b < N PROVE b + 1 \in T
  <2> DEFINE c == b + 1
             L == ListOp(p, c, d[b], m[c])
             M == ListOp(p, c, e[b], n[c])
  <2>1. c \in Ops /\ c - 1 = b /\ c \in Channels /\ b \in Channels
    BY <1>2, ChannelsAre DEF Ops, Channels
  <2>2. d[c] = F[c] \o L /\ e[c] = G[c] \o M
    BY <2>1 DEF Coming
  <2>3. /\ F[c] \in Seq(Values) /\ G[c] \in Seq(Values) /\ d[b] \in Seq(Values)
        /\ e[b] \in Seq(Values)
    BY <2>1 DEF Coming
  <2>4. L \in Seq(Values) /\ M \in Seq(Values)
    BY <2>1, <2>3, ListOpType
  <2>5. CASE c = i - 1
    <3>1. b # i - 1 /\ c # i
      BY <1>0, <2>5
    <3>2. d[b] = e[b] /\ m[c] = n[c] /\ F[c] = one \o G[c]
      BY <1>2, <2>1, <2>5, <3>1 DEF Passes, one
    <3>3. L = M
      BY <3>2
    <3> HIDE DEF L, M, c
    <3>4. (one \o G[c]) \o M = one \o (G[c] \o M)
      <4> DEFINE x == G[c]
      <4>1. x \in Seq(Values)
        BY <2>3
      <4>2. one \in Seq(Values)
        BY <1>0
      <4>3. M \in Seq(Values)
        BY <2>4
      <4> HIDE DEF x
      <4>4. (one \o x) \o M = one \o (x \o M)
        BY <4>1, <4>2, <4>3, ConcatAssociative
      <4> QED
        BY <4>4 DEF x
    <3>5. d[c] = one \o e[c]
      BY <2>2, <3>2, <3>3, <3>4
    <3> QED
      BY <2>1, <2>5, <3>5 DEF c
  <2>6. CASE c = i
    <3>1. b = i - 1 /\ c # i - 1
      BY <1>0, <2>1, <2>6
    <3> DEFINE f == First(p, c, v, m[c])
    <3>2. d[b] = one \o e[b] /\ G[c] = F[c] \o f /\ n[c] = Met(c, v, m[c])
      BY <1>2, <2>1, <2>6, <3>1 DEF Passes, one
    <3>3. L = f \o M /\ f \in Seq(Values)
      <4>1. /\ f \in Seq(Values)
            /\ ListOp(p, c, <<v>> \o e[b], m[c]) = f \o ListOp(p, c, e[b], Met(c, v, m[c]))
        <5> DEFINE x == e[b]
        <5>1. x \in Seq(Values)
          BY <2>3
        <5> HIDE DEF x, c
        <5>2. /\ First(p, c, v, m[c]) \in Seq(Values)
              /\ ListOp(p, c, <<v>> \o x, m[c]) =
                   First(p, c, v, m[c]) \o ListOp(p, c, x, Met(c, v, m[c]))
          BY <2>1, <5>1, ListOpCons
        <5> QED
          BY <5>2 DEF x
      <4> QED
        BY <3>2, <4>1 DEF one
    <3> HIDE DEF L, M, f, c
    <3>4. F[c] \o (f \o M) = (F[c] \o f) \o M
      <4> DEFINE x == F[c]
      <4>1. x \in Seq(Values)
        BY <2>3
      <4> HIDE DEF x
      <4>2. x \o (f \o M) = (x \o f) \o M
        <5>1. f \in Seq(Values) /\ M \in Seq(Values)
          BY <2>4, <3>3
        <5>2. Regroups(x, f, M)
          BY <4>1, <5>1, Regrouping
        <5> QED
          BY ONLY <5>2 DEF Regroups
      <4> QED
        BY <4>2 DEF x
    <3>5. d[c] = e[c]
      BY <2>2, <3>2, <3>3, <3>4
    <3> QED
      BY <2>1, <3>1, <3>5 DEF c
  <2>7. CASE c # i /\ c # i - 1
    <3>1. b # i - 1
      BY <1>0, <2>1, <2>7
    <3>2. d[b] = e[b] /\ F[c] = G[c] /\ m[c] = n[c]
      BY <1>2, <2>1, <2>7, <3>1 DEF Passes
    <3>3. d[c] = e[c]
      BY <2>2, <3>2
    <3> HIDE DEF c
    <3> QED
      BY <2>1, <2>7, <3>3 DEF c
  <2> QED
    BY <2>5, <2>6, <2>7
<1>3. 0 .. N \subseteq T
  <2> HIDE DEF T
  <2>1. 0 \in Int /\ N \in Int
    BY ONLY ChannelsAre
  <2>2. \A c \in 0 .. N : c \in T /\ c < N => c + 1 \in T
    BY ONLY <1>2
  <2>3. 0 <= N => 0 \in T
    BY ONLY <1>1
  <2> QED
    BY ONLY <2>1, <2>2, <2>3, InductionUpTo
<1> QED
  BY <1>0, <1>3 DEF Channels, one

-----------------------------------------------------------------------------
(* Due is what is to come on the last channel.                             *)

\* What is on channel c, and what its sender has already made for it.
Ahead == [c \in Channels |-> queue[c] \o IF c = 0 THEN source ELSE pending[c]]

Dues(d) ==
  d = [c \in Channels |->
         IF c = 0 THEN queue[0] \o source
         ELSE queue[c] \o pending[c] \o ListOp(image, c, d[c - 1], seen[c])]

LEMMA DueAtValue ==
  ASSUME NEW g, Dues(g)
  PROVE  Dues(DueAt)
BY DEF DueAt, Dues

LEMMA AheadType == Shape => Ahead \in [Channels -> Seq(Values)]
<1> SUFFICES ASSUME Shape, NEW c \in Channels
             PROVE  queue[c] \o (IF c = 0 THEN source ELSE pending[c]) \in Seq(Values)
  BY DEF Ahead
<1>1. queue[c] \in Seq(Values)
  BY DEF Shape
<1>2. (IF c = 0 THEN source ELSE pending[c]) \in Seq(Values)
  BY ChannelsAre DEF Shape
<1> QED
  BY <1>1, <1>2, ConcatProperties

LEMMA DueComing == Shape => Coming(DueAt, image, Ahead, seen)
<1> SUFFICES ASSUME Shape PROVE Coming(DueAt, image, Ahead, seen)
  OBVIOUS
<1>1. image \in Pipelines /\ Ahead \in [Channels -> Seq(Values)]
  BY AheadType DEF Shape
<1>2. PICK d : ComingFrom(d, image, Ahead, seen)
  BY <1>1, ComingExists
<1>3. Ahead[0] = queue[0] \o source /\ \A c \in Channels : c # 0 => Ahead[c] = queue[c] \o pending[c]
  BY ChannelsAre DEF Ahead
<1>4. Dues(d)
  BY <1>2, <1>3 DEF ComingFrom, Dues
<1>5. Dues(DueAt)
  BY <1>4, DueAtValue
<1>6. ComingFrom(DueAt, image, Ahead, seen)
  BY <1>5, <1>3 DEF ComingFrom, Dues
<1> QED
  BY <1>1, <1>6, ComingType

LEMMA DueComingNext == Shape' => Coming(DueAt', image', Ahead', seen')
<1>1. Shape' => Coming(DueAt, image, Ahead, seen)'
  BY DueComing, PTL
<1> QED
  BY <1>1 DEF Coming

LEMMA AheadTypeNext == Shape' => Ahead' \in [Channels -> Seq(Values)]
<1>1. Shape' => (Ahead \in [Channels -> Seq(Values)])'
  BY AheadType, PTL
<1> QED
  BY <1>1

\* Moving an element up, and taking one away.
LEMMA MoveHead ==
  ASSUME NEW a \in Seq(Values), NEW b \in Seq(Values), b # <<>>
  PROVE  Append(a, Head(b)) \o Tail(b) = a \o b
<1>1. Len(a) \in Nat /\ Len(b) \in Nat \ {0} /\ Head(b) = b[1] /\ Tail(b) \in Seq(Values)
      /\ Len(Tail(b)) = Len(b) - 1
      /\ \A k \in 1 .. (Len(b) - 1) : Tail(b)[k] = b[k + 1]
  BY HeadTailProperties, EmptySeq
<1>2. Append(a, Head(b)) \in Seq(Values) /\ Len(Append(a, Head(b))) = Len(a) + 1
      /\ \A k \in 1 .. Len(a) : Append(a, Head(b))[k] = a[k]
      /\ Append(a, Head(b))[Len(a) + 1] = b[1]
  BY <1>1, AppendProperties
<1> DEFINE x == Append(a, Head(b))
           y == Tail(b)
<1> HIDE DEF x, y
<1>3. x \o y \in Seq(Values) /\ Len(x \o y) = Len(a) + Len(b)
      /\ \A k \in 1 .. (Len(a) + Len(b)) :
           (x \o y)[k] = IF k <= Len(a) THEN a[k] ELSE b[k - Len(a)]
  <2>1. x \in Seq(Values) /\ Len(x) = Len(a) + 1
        /\ (\A k \in 1 .. Len(a) : x[k] = a[k]) /\ x[Len(a) + 1] = b[1]
    BY <1>2 DEF x
  <2>2. y \in Seq(Values) /\ Len(y) = Len(b) - 1
        /\ \A k \in 1 .. (Len(b) - 1) : y[k] = b[k + 1]
    BY <1>1 DEF y
  <2>3. x \o y \in Seq(Values) /\ Len(x \o y) = Len(x) + Len(y)
        /\ \A k \in 1 .. (Len(x) + Len(y)) :
             (x \o y)[k] = IF k <= Len(x) THEN x[k] ELSE y[k - Len(x)]
    BY <2>1, <2>2, ConcatProperties
  <2>4. ASSUME NEW k \in 1 .. (Len(a) + Len(b))
        PROVE  (x \o y)[k] = IF k <= Len(a) THEN a[k] ELSE b[k - Len(a)]
    <3>1. CASE k <= Len(a)
      BY <1>1, <2>1, <2>2, <2>3, <3>1
    <3>2. CASE k = Len(a) + 1
      BY <1>1, <2>1, <2>2, <2>3, <3>2
    <3>3. CASE k > Len(a) + 1
      <4>1. (x \o y)[k] = y[k - Len(x)]
        BY <1>1, <2>1, <2>2, <2>3, <3>3
      <4>2. k - Len(x) \in 1 .. (Len(b) - 1) /\ (k - Len(x)) + 1 = k - Len(a)
        BY <1>1, <2>1, <3>3
      <4> QED
        <5> DEFINE j == k - Len(x)
        <5>1. j \in 1 .. (Len(b) - 1) /\ j + 1 = k - Len(a) /\ ~ (k <= Len(a))
          BY <1>1, <3>3, <4>2
        <5>2. (x \o y)[k] = y[j]
          BY <4>1
        <5> HIDE DEF j
        <5>3. y[j] = b[j + 1]
          BY <2>2, <5>1
        <5> QED
          BY ONLY <5>1, <5>2, <5>3
    <3>4. Len(a) \in Nat /\ k \in Nat
      BY <1>1
    <3>5. k <= Len(a) \/ k = Len(a) + 1 \/ k > Len(a) + 1
      BY <3>4
    <3> QED
      BY <3>1, <3>2, <3>3, <3>5
  <2> QED
    BY <1>1, <2>1, <2>2, <2>3, <2>4
<1>4. a \o b \in Seq(Values) /\ Len(a \o b) = Len(a) + Len(b)
      /\ \A k \in 1 .. (Len(a) + Len(b)) :
           (a \o b)[k] = IF k <= Len(a) THEN a[k] ELSE b[k - Len(a)]
  BY ConcatProperties
<1>5. x \o y = a \o b
  <2> DEFINE u == x \o y
             w == a \o b
  <2>1. u \in Seq(Values) /\ w \in Seq(Values) /\ Len(u) = Len(w)
        /\ \A k \in 1 .. Len(u) : u[k] = w[k]
    BY <1>3, <1>4
  <2> HIDE DEF u, w
  <2>2. u = w
    BY <2>1, SeqEqual
  <2> QED
    BY <2>2 DEF u, w
<1> QED
  BY <1>5 DEF x, y

LEMMA HeadFirst ==
  ASSUME NEW a \in Seq(Values), NEW b \in Seq(Values), a # <<>>
  PROVE  /\ Head(a) \in Values
         /\ a \o b = <<Head(a)>> \o (Tail(a) \o b)
<1> DEFINE x == <<Head(a)>>
           y == Tail(a)
<1>1. Head(a) \in Values /\ y \in Seq(Values)
  BY TakeHead
<1>2. x \in Seq(Values)
  BY <1>1
<1>3. x \o y = a
  <2>1. Append(<<>>, Head(a)) \o Tail(a) = <<>> \o a
    BY MoveHead
  <2>2. Append(<<>>, Head(a)) = x /\ <<>> \o a = a
    BY <1>1, ConcatEmptySeq
  <2> QED
    BY <2>1, <2>2
<1> HIDE DEF x, y
<1>4. (x \o y) \o b = x \o (y \o b)
  <2>1. b \in Seq(Values)
    OBVIOUS
  <2>2. Regroups(x, y, b)
    BY <1>1, <1>2, <2>1, Regrouping
  <2> QED
    BY ONLY <2>2 DEF Regroups
<1> QED
  BY <1>1, <1>3, <1>4 DEF x, y

-----------------------------------------------------------------------------
(* The steps keep what is due: only a sink takes from it.                  *)

LEMMA SameDue ==
  ASSUME Shape, Shape', image' = image,
         \A c \in Channels : Ahead'[c] = Ahead[c] /\ (c \in Ops => seen'[c] = seen[c])
  PROVE  Due' = Due
<1>1. Coming(DueAt, image, Ahead, seen) /\ Coming(DueAt', image, Ahead', seen')
  BY DueComing, DueComingNext
<1>2. \A c \in Channels : DueAt'[c] = DueAt[c]
  BY <1>1, ComingSame
<1> QED
  BY <1>2, ChannelsAre DEF Due

LEMMA PassedDue ==
  ASSUME Shape, Shape', image' = image, NEW i \in 1 .. (N + 1), NEW v \in Values,
         Passes(v, i, image, Ahead, seen, Ahead', seen')
  PROVE  Due = IF i = N + 1 THEN <<v>> \o Due' ELSE Due'
<1>1. Coming(DueAt, image, Ahead, seen) /\ Coming(DueAt', image, Ahead', seen')
  BY DueComing, DueComingNext
<1>2. image \in Pipelines /\ Ahead \in [Channels -> Seq(Values)]
      /\ Ahead' \in [Channels -> Seq(Values)]
  BY AheadType, AheadTypeNext DEF Shape
<1>3. /\ DueAt[i - 1] = <<v>> \o DueAt'[i - 1]
      /\ \A c \in Channels : c # i - 1 => DueAt[c] = DueAt'[c]
  <2>1. Passing(v, i, image, Ahead, seen, DueAt, Ahead', seen', DueAt')
    <3>1. i \in 1 .. (N + 1) /\ v \in Values /\ Coming(DueAt', image, Ahead', seen')
          /\ Passes(v, i, image, Ahead, seen, Ahead', seen')
      BY <1>1
    <3>2. Ahead' \in [Channels -> Seq(Values)]
      BY <1>2
    <3> QED
      BY ONLY <1>1, <1>2, <3>1, <3>2 DEF Passing
  <2>2. Gone(v, i, DueAt, DueAt')
    BY ONLY <2>1, ComingPasses
  <2> QED
    BY ONLY <2>2 DEF Gone
<1>4. N \in Channels /\ N \in Nat
  BY ChannelsAre
<1>5. CASE i = N + 1
  <2>1. i - 1 = N
    BY <1>4, <1>5
  <2> QED
    BY <1>3, <1>5, <2>1 DEF Due
<1>6. CASE i # N + 1
  <2>1. N # i - 1
    BY <1>4, <1>6
  <2> QED
    BY <1>3, <1>4, <1>6, <2>1 DEF Due
<1> QED
  BY <1>5, <1>6

Quiet == Sending \/ SourceEnds \/ (\E i \in Ops : OpStep(i)) \/ (\E s \in callers : TakeEnd(s))

LEMMA AheadIs ==
  /\ Ahead[0] = queue[0] \o source
  /\ \A c \in Ops : Ahead[c] = queue[c] \o pending[c]
  /\ \A c \in Channels : Ahead[c] = queue[c] \o IF c = 0 THEN source ELSE pending[c]
BY ChannelsAre DEF Ahead

LEMMA AheadIsNext ==
  /\ Ahead'[0] = queue'[0] \o source'
  /\ \A c \in Ops : Ahead'[c] = queue'[c] \o pending'[c]
  /\ \A c \in Channels : Ahead'[c] = queue'[c] \o IF c = 0 THEN source' ELSE pending'[c]
BY ChannelsAre DEF Ahead

LEMMA SendingDue ==
  ASSUME Shape, Shape', Sending
  PROVE  Due' = Due
<1>1. queue[0] \in Seq(Values) /\ source \in Seq(Values) /\ source # <<>>
  BY ChannelsAre DEF Shape, Sending
<1>2. queue'[0] = Append(queue[0], Head(source)) /\ source' = Tail(source)
      /\ \A c \in Channels : c # 0 => queue'[c] = queue[c]
  BY ChannelsAre DEF Shape, Sending
<1>3. queue'[0] \o source' = queue[0] \o source
  BY <1>1, <1>2, MoveHead
<1>4. pending' = pending /\ seen' = seen /\ image' = image
  BY DEF Sending, given
<1>5. ASSUME NEW c \in Channels PROVE Ahead'[c] = Ahead[c]
  BY <1>2, <1>3, <1>4, AheadIs, AheadIsNext
<1> QED
  BY <1>4, <1>5, SameDue

LEMMA ForwardDue ==
  ASSUME Shape, Shape', NEW i \in Ops, Forward(i)
  PROVE  Due' = Due
<1>1. queue[i] \in Seq(Values) /\ pending[i] \in Seq(Values) /\ pending[i] # <<>>
  BY ChannelsAre DEF Shape, Forward
<1>2. queue'[i] = Append(queue[i], Head(pending[i])) /\ pending'[i] = Tail(pending[i])
      /\ \A c \in Channels : c # i => queue'[c] = queue[c] /\ (c # 0 => pending'[c] = pending[c])
  BY ChannelsAre DEF Shape, Forward
<1>3. queue'[i] \o pending'[i] = queue[i] \o pending[i]
  BY <1>1, <1>2, MoveHead
<1>4. source' = source /\ seen' = seen /\ image' = image
  BY DEF Forward, given
<1>5. ASSUME NEW c \in Channels PROVE Ahead'[c] = Ahead[c]
  <2>1. CASE c = i
    BY <1>3, <2>1, AheadIs, AheadIsNext
  <2>2. CASE c # i
    BY <1>2, <1>4, <2>2, AheadIs, AheadIsNext
  <2> QED
    BY <2>1, <2>2
<1> QED
  BY <1>4, <1>5, SameDue

LEMMA ReceiveDue ==
  ASSUME Shape, Shape', NEW i \in Ops, Receive(i)
  PROVE  Due' = Due
<1> DEFINE v == Head(queue[i - 1])
           b == IF i - 1 = 0 THEN source ELSE pending[i - 1]
<1>1. i - 1 \in Channels /\ i \in Channels /\ i # i - 1 /\ i \in 1 .. (N + 1) /\ i # N + 1
      /\ i # 0
  BY ChannelsAre DEF Ops, Channels
<1>2. queue[i - 1] \in Seq(Values) /\ queue[i - 1] # <<>> /\ b \in Seq(Values)
      /\ pending[i] = <<>> /\ queue[i] \in Seq(Values)
  BY <1>1, ChannelsAre DEF Shape, Receive
<1>3. /\ queue' = [queue EXCEPT ![i - 1] = Tail(@)]
      /\ pending' = [pending EXCEPT ![i] = Outputs(i, v)]
      /\ seen' = IF i \in DistinctAt THEN [seen EXCEPT ![i] = @ \cup {Key[v]}] ELSE seen
      /\ source' = source /\ image' = image
  BY DEF Receive, given
<1>4. /\ queue'[i - 1] = Tail(queue[i - 1])
      /\ \A c \in Channels : c # i - 1 => queue'[c] = queue[c]
      /\ pending'[i] = Outputs(i, v)
      /\ \A c \in Ops : c # i => pending'[c] = pending[c]
  BY <1>1, <1>3 DEF Shape
<1>5. /\ seen'[i] = Met(i, v, seen[i])
      /\ \A c \in Ops : c # i => seen[c] = seen'[c]
  BY <1>3 DEF Shape, Met
<1> HIDE DEF v, b
<1>6. v \in Values /\ queue[i - 1] \o b = <<v>> \o (Tail(queue[i - 1]) \o b)
  BY <1>2, HeadFirst DEF v
<1>7. Ahead[i - 1] = <<v>> \o Ahead'[i - 1]
  <2>1. Ahead[i - 1] = queue[i - 1] \o b
    BY <1>1, AheadIs DEF b
  <2>2. Ahead'[i - 1] = Tail(queue[i - 1]) \o b
    BY <1>1, <1>3, <1>4, AheadIsNext, ChannelsAre DEF b
  <2> QED
    BY <1>6, <2>1, <2>2
<1>8. Ahead'[i] = Ahead[i] \o First(image, i, v, seen[i])
  <2>1. Ahead[i] = queue[i]
    BY <1>1, <1>2, AheadIs, ConcatEmptySeq
  <2>2. Ahead'[i] = queue[i] \o Outputs(i, v)
    BY <1>1, <1>4, AheadIsNext
  <2>3. Outputs(i, v) = First(image, i, v, seen[i])
    BY DEF Outputs, First
  <2> QED
    BY <2>1, <2>2, <2>3
<1>9. ASSUME NEW c \in Channels, c # i, c # i - 1 PROVE Ahead[c] = Ahead'[c]
  <2>1. queue'[c] = queue[c] /\ source' = source /\ (c \in Ops => pending'[c] = pending[c])
    BY <1>3, <1>4, <1>9
  <2>2. CASE c = 0
    BY <2>1, <2>2, AheadIs, AheadIsNext
  <2>3. CASE c \in Ops
    BY <2>1, <2>3, AheadIs, AheadIsNext
  <2> QED
    BY <2>2, <2>3, ChannelsAre
<1>10. Passes(v, i, image, Ahead, seen, Ahead', seen')
  BY <1>5, <1>7, <1>8, <1>9 DEF Passes
<1> QED
  BY <1>1, <1>3, <1>6, <1>10, PassedDue

LEMMA TakeDue ==
  ASSUME Shape, Shape', NEW s \in callers, Take(s)
  PROVE  /\ Head(queue[N]) \in Values
         /\ Due = <<Head(queue[N])>> \o Due'
<1> DEFINE v == Head(queue[N])
           b == IF N = 0 THEN source ELSE pending[N]
<1>1. N \in Channels /\ N + 1 \in 1 .. (N + 1) /\ (N + 1) - 1 = N /\ N + 1 \notin Ops
      /\ \A c \in Channels : c # N + 1
  BY ChannelsAre DEF Ops, Channels
<1>2. queue[N] \in Seq(Values) /\ queue[N] # <<>> /\ b \in Seq(Values)
  BY <1>1, ChannelsAre DEF Shape, Take
<1>3. /\ queue' = [queue EXCEPT ![N] = Tail(@)]
      /\ pending' = pending /\ seen' = seen /\ source' = source /\ image' = image
  BY DEF Take, given
<1>4. /\ queue'[N] = Tail(queue[N])
      /\ \A c \in Channels : c # N => queue'[c] = queue[c]
  BY <1>1, <1>3 DEF Shape
<1> HIDE DEF v, b
<1>5. v \in Values /\ queue[N] \o b = <<v>> \o (Tail(queue[N]) \o b)
  BY <1>2, HeadFirst DEF v
<1>6. Ahead[N] = <<v>> \o Ahead'[N]
  <2>1. Ahead[N] = queue[N] \o b
    BY <1>1, AheadIs DEF b
  <2>2. Ahead'[N] = Tail(queue[N]) \o b
    BY <1>1, <1>3, <1>4, AheadIsNext DEF b
  <2> QED
    BY <1>5, <2>1, <2>2
<1>7. ASSUME NEW c \in Channels, c # N PROVE Ahead[c] = Ahead'[c]
  <2>1. queue'[c] = queue[c] /\ source' = source /\ pending'[c] = pending[c]
    BY <1>3, <1>4, <1>7
  <2>2. CASE c = 0
    BY <2>1, <2>2, AheadIs, AheadIsNext
  <2>3. CASE c \in Ops
    BY <2>1, <2>3, AheadIs, AheadIsNext
  <2> QED
    BY <2>2, <2>3, ChannelsAre
<1>8. Passes(v, N + 1, image, Ahead, seen, Ahead', seen')
  BY <1>1, <1>3, <1>6, <1>7 DEF Passes
<1>9. Due = <<v>> \o Due'
  BY <1>1, <1>3, <1>5, <1>8, PassedDue
<1> QED
  BY <1>5, <1>9 DEF v

\* Between two elements that a sink takes, Due is the same list.
LEMMA QuietDue ==
  ASSUME Shape, Shape', Quiet \/ UNCHANGED vars
  PROVE  Due' = Due
<1>1. ASSUME UNCHANGED <<image, queue, source, pending, seen>> PROVE Due' = Due
  <2>1. \A c \in Channels : Ahead'[c] = Ahead[c]
    BY <1>1, AheadIs, AheadIsNext
  <2> QED
    BY <1>1, <2>1, SameDue
<1>2. CASE SourceEnds
  BY <1>1, <1>2 DEF SourceEnds, given
<1>3. ASSUME NEW i \in Ops, Finish(i) PROVE Due' = Due
  BY <1>1, <1>3 DEF Finish, given
<1>4. ASSUME NEW s \in callers, TakeEnd(s) PROVE Due' = Due
  BY <1>1, <1>4 DEF TakeEnd, given
<1>5. CASE UNCHANGED vars
  BY <1>1, <1>5 DEF vars, given
<1> QED
  BY <1>2, <1>3, <1>4, <1>5, SendingDue, ReceiveDue, ForwardDue DEF Quiet, OpStep

LEMMA NilNil == <<>> \o <<>> = <<>>
<1>1. <<>> \in Seq(Values)
  OBVIOUS
<1> QED
  BY <1>1, ConcatEmptySeq

\* A sink that sees the end has missed nothing.
LEMMA EndDue ==
  ASSUME Shape, ClosedIsDrained, N \in closed, queue[N] = <<>>
  PROVE  Due = <<>>
<1>1. Coming(DueAt, image, Ahead, seen)
  BY DueComing
<1> DEFINE T == {c \in Channels : c \in closed /\ queue[c] = <<>> => DueAt[c] = <<>>}
<1>2. 0 \in T
  <2> SUFFICES ASSUME 0 \in closed, queue[0] = <<>> PROVE DueAt[0] = <<>>
    BY ChannelsAre
  <2>1. source = <<>>
    BY DEF ClosedIsDrained, Drained
  <2>2. Ahead[0] = <<>>
    BY <2>1, AheadIs, ConcatEmptySeq
  <2> QED
    BY <1>1, <2>2 DEF Coming
<1>3. ASSUME NEW b \in 0 .. N, b \in T, b < N PROVE b + 1 \in T
  <2>1. b + 1 \in Ops /\ (b + 1) - 1 = b /\ b + 1 \in Channels /\ b + 1 # 0
    BY <1>3, ChannelsAre DEF Ops, Channels
  <2> SUFFICES ASSUME b + 1 \in closed, queue[b + 1] = <<>> PROVE DueAt[b + 1] = <<>>
    BY <2>1
  <2>2. b \in closed /\ queue[b] = <<>> /\ pending[b + 1] = <<>>
    BY <2>1 DEF ClosedIsDrained, Drained
  <2>3. DueAt[b] = <<>>
    BY <1>3, <2>2
  <2>4. Ahead[b + 1] = <<>>
    <3>1. Ahead[b + 1] = queue[b + 1] \o pending[b + 1]
      BY <2>1, AheadIs
    <3> QED
      BY <2>2, <3>1, NilNil
  <2>5. ListOp(image, b + 1, <<>>, seen[b + 1]) = <<>>
    BY <2>1, ListOpEmpty DEF Shape
  <2>6. DueAt[b + 1] = Ahead[b + 1] \o ListOp(image, b + 1, DueAt[b], seen[b + 1])
    BY <1>1, <2>1 DEF Coming
  <2> QED
    BY <2>3, <2>4, <2>5, <2>6, ConcatEmptySeq
<1>4. 0 .. N \subseteq T
  <2> HIDE DEF T
  <2>1. 0 \in Int /\ N \in Int
    BY ChannelsAre
  <2>2. \A c \in 0 .. N : c \in T /\ c < N => c + 1 \in T
    BY <1>3
  <2> QED
    BY <1>2, <2>1, <2>2, InductionUpTo
<1> QED
  BY <1>4, ChannelsAre DEF Channels, Due

-----------------------------------------------------------------------------
(* What is due at the start is the list.                                   *)

Fresh == [c \in Channels |-> IF c = 0 THEN Source ELSE <<>>]
NothingMet == [c \in Ops |-> {}]

Lists(f, p) ==
  f = [c \in Channels |-> IF c = 0 THEN Source ELSE ListOp(p, c, f[c - 1], {})]

LEMMA ListOfValue ==
  ASSUME NEW p, NEW g, Lists(g, p)
  PROVE  \E f : Lists(f, p) /\ ListOf(p) = f[N]
BY DEF ListOf, Lists

LEMMA ListOfIs ==
  ASSUME NEW p \in Pipelines
  PROVE  \E d : Coming(d, p, Fresh, NothingMet) /\ ListOf(p) = d[N]
<1>1. Fresh \in [Channels -> Seq(Values)]
  BY PipelineAssumption DEF Fresh
<1>2. PICK d : ComingFrom(d, p, Fresh, NothingMet)
  BY <1>1, ComingExists
<1>3. Coming(d, p, Fresh, NothingMet)
  BY <1>1, <1>2, ComingType
<1>4. ASSUME NEW c \in Ops
      PROVE  d[c] = ListOp(p, c, d[c - 1], {}) /\ d[c - 1] \in Seq(Values)
  <2>1. d[c] = Fresh[c] \o ListOp(p, c, d[c - 1], NothingMet[c]) /\ d[c - 1] \in Seq(Values)
    BY <1>3, ChannelsAre DEF Coming
  <2>2. Fresh[c] = <<>> /\ NothingMet[c] = {}
    BY ChannelsAre DEF Fresh, NothingMet
  <2>3. ListOp(p, c, d[c - 1], {}) \in Seq(Values)
    BY <2>1, ListOpType
  <2> QED
    BY <2>1, <2>2, <2>3, ConcatEmptySeq
<1>5. d[0] = Source
  BY <1>3, ChannelsAre DEF Coming, Fresh
<1>6. Lists(d, p)
  <2>1. d = [c \in Channels |-> d[c]]
    BY <1>2 DEF ComingFrom
  <2>2. \A c \in Channels : d[c] = IF c = 0 THEN Source ELSE ListOp(p, c, d[c - 1], {})
    BY <1>4, <1>5, ChannelsAre
  <2> QED
    BY <2>1, <2>2 DEF Lists
<1>7. PICK f : Lists(f, p) /\ ListOf(p) = f[N]
  BY <1>6, ListOfValue
<1>8. f[0] = Source /\ \A c \in Ops : f[c] = ListOp(p, c, f[c - 1], {})
  BY <1>7, ChannelsAre DEF Lists
<1> DEFINE T == {c \in Channels : f[c] = d[c]}
<1>9. 0 \in T
  BY <1>5, <1>8, ChannelsAre
<1>10. ASSUME NEW b \in 0 .. N, b \in T, b < N PROVE b + 1 \in T
  <2>1. b + 1 \in Ops /\ (b + 1) - 1 = b /\ b + 1 \in Channels
    BY <1>10, ChannelsAre DEF Ops, Channels
  <2>2. f[b] = d[b]
    BY <1>10
  <2>3. f[b + 1] = ListOp(p, b + 1, f[b], {}) /\ d[b + 1] = ListOp(p, b + 1, d[b], {})
    BY <1>4, <1>8, <2>1
  <2> QED
    BY <2>1, <2>2, <2>3
<1>11. 0 .. N \subseteq T
  <2> HIDE DEF T
  <2>1. 0 \in Int /\ N \in Int
    BY ChannelsAre
  <2>2. \A c \in 0 .. N : c \in T /\ c < N => c + 1 \in T
    BY <1>10
  <2> QED
    BY <1>9, <2>1, <2>2, InductionUpTo
<1>12. f[N] = d[N]
  BY <1>11, ChannelsAre DEF Channels
<1> QED
  BY <1>3, <1>7, <1>12

LEMMA ListOpsType == Shape => ListOps \in Seq(Values)
<1> SUFFICES ASSUME Shape PROVE ListOps \in Seq(Values)
  OBVIOUS
<1>1. image \in Pipelines
  BY DEF Shape
<1>2. PICK d : Coming(d, image, Fresh, NothingMet) /\ ListOf(image) = d[N]
  BY <1>1, ListOfIs
<1> QED
  BY <1>2, ChannelsAre DEF Coming, ListOps

LEMMA InitDue == Init => Due = ListOps
<1> SUFFICES ASSUME Init PROVE Due = ListOps
  OBVIOUS
<1>1. Shape
  BY InitInv DEF IInv
<1>2. image \in Pipelines /\ Coming(DueAt, image, Ahead, seen)
  BY <1>1, DueComing DEF Shape
<1>3. PICK d : Coming(d, image, Fresh, NothingMet) /\ ListOf(image) = d[N]
  BY <1>2, ListOfIs
<1>4. ASSUME NEW c \in Channels PROVE Ahead[c] = Fresh[c] /\ (c \in Ops => seen[c] = NothingMet[c])
  <2>1. queue[c] = <<>> /\ source = Source /\ (c \in Ops => pending[c] = <<>> /\ seen[c] = {})
    BY DEF Init
  <2>2. Source \in Seq(Values)
    BY PipelineAssumption
  <2>3. CASE c = 0
    BY <2>1, <2>2, <2>3, ChannelsAre, AheadIs, ConcatEmptySeq DEF Fresh
  <2>4. CASE c \in Ops
    <3>1. Ahead[c] = queue[c] \o pending[c] /\ c # 0
      BY <2>4, AheadIs, ChannelsAre
    <3>2. Ahead[c] = <<>>
      BY <2>1, <2>4, <3>1, NilNil
    <3> QED
      BY <2>1, <2>4, <3>1, <3>2 DEF Fresh, NothingMet
  <2> QED
    BY <2>3, <2>4, ChannelsAre
<1>5. \A c \in Channels : DueAt[c] = d[c]
  BY <1>2, <1>3, <1>4, ComingSame
<1> QED
  BY <1>3, <1>5, ChannelsAre DEF Due, ListOps

LEMMA DueType == Shape => Due \in Seq(Values)
BY DueComing, ChannelsAre DEF Coming, Due

-----------------------------------------------------------------------------
(* What has been taken is the front of the list, and what is due the rest. *)

Taken == Len(ListOps) - Len(Due)

InOrder ==
  /\ Taken \in 0 .. Len(ListOps)
  /\ \A j \in 1 .. Len(Due) : Due[j] = ListOps[Taken + j]

LEMMA InitOrder == Init => InOrder /\ Taken = 0
<1> SUFFICES ASSUME Init PROVE InOrder /\ Taken = 0
  OBVIOUS
<1>1. Due = ListOps /\ ListOps \in Seq(Values)
  BY InitDue, InitInv, ListOpsType DEF IInv
<1>2. Len(ListOps) \in Nat
  BY <1>1, LenProperties
<1> QED
  BY <1>1, <1>2 DEF InOrder, Taken

LEMMA QuietOrder ==
  ASSUME Shape, Shape', Quiet \/ UNCHANGED vars
  PROVE  ListOps' = ListOps /\ Due' = Due /\ Taken' = Taken /\ (InOrder => InOrder')
<1>1. Due' = Due
  BY QuietDue
<1>2. image' = image
  BY DEF Quiet, vars, given, Sending, SourceEnds, OpStep, Receive, Forward, Finish, TakeEnd
<1>3. ListOps' = ListOps
  BY <1>2 DEF ListOps
<1> QED
  BY <1>1, <1>3 DEF Taken, InOrder

LEMMA TakeOrder ==
  ASSUME Shape, Shape', InOrder, NEW s \in callers, Take(s)
  PROVE  /\ ListOps' = ListOps
         /\ Taken + 1 \in 1 .. Len(ListOps)
         /\ Head(queue[N]) = ListOps[Taken + 1]
         /\ Taken' = Taken + 1
         /\ InOrder'
<1> DEFINE v == Head(queue[N])
           one == <<v>>
           d == Due
           e == Due'
           l == ListOps
<1>1. v \in Values /\ d = one \o e
  BY TakeDue
<1>2. e \in Seq(Values) /\ l \in Seq(Values)
  <2>1. (Due \in Seq(Values))'
    BY DueType, PTL
  <2> QED
    BY <2>1, ListOpsType
<1>3. l' = l
  <2>1. image' = image
    BY DEF Take, given
  <2> QED
    BY <2>1 DEF ListOps
<1>4. one \in Seq(Values) /\ Len(one) = 1 /\ one[1] = v
  BY <1>1
<1>o. Len(l) - Len(d) \in 0 .. Len(l) /\ \A j \in 1 .. Len(d) : d[j] = l[(Len(l) - Len(d)) + j]
  BY DEF InOrder, Taken
<1> HIDE DEF v, one, d, e, l
<1>5. Len(d) = 1 + Len(e) /\ Len(e) \in Nat /\ Len(l) \in Nat
      /\ \A j \in 1 .. (1 + Len(e)) : d[j] = IF j <= 1 THEN one[j] ELSE e[j - 1]
  <2>1. /\ Len(one \o e) = Len(one) + Len(e)
        /\ \A j \in 1 .. (Len(one) + Len(e)) :
             (one \o e)[j] = IF j <= Len(one) THEN one[j] ELSE e[j - Len(one)]
    BY <1>2, <1>4, ConcatProperties
  <2>2. Len(e) \in Nat /\ Len(l) \in Nat
    BY <1>2, LenProperties
  <2> QED
    BY <1>1, <1>4, <2>1, <2>2
<1> DEFINE k == Len(l) - Len(d)
           m == Len(l) - Len(e)
<1>6. k \in Nat /\ m = k + 1 /\ m \in 1 .. Len(l)
  BY <1>o, <1>5
<1>7. v = l[k + 1]
  <2>1. 1 \in 1 .. Len(d) /\ d[1] = one[1]
    BY <1>5
  <2> QED
    BY <1>o, <1>4, <2>1
<1>8. ASSUME NEW j \in 1 .. Len(e) PROVE e[j] = l[m + j]
  <2>1. j + 1 \in 1 .. Len(d) /\ (j + 1) - 1 = j /\ ~ (j + 1 <= 1) /\ k + (j + 1) = m + j
    BY <1>5, <1>6
  <2>2. d[j + 1] = e[j]
    BY <1>5, <2>1
  <2> QED
    BY <1>o, <2>1, <2>2
<1>9. Taken = k /\ Taken' = m
  BY <1>3 DEF Taken, l, d, e
<1>10. InOrder'
  <2>1. m \in 0 .. Len(l) /\ \A j \in 1 .. Len(e) : e[j] = l[m + j]
    BY <1>6, <1>8
  <2> HIDE DEF m
  <2> QED
    BY <1>3, <1>9, <2>1 DEF InOrder, l, e
<1> HIDE DEF k, m
<1> QED
  BY <1>3, <1>6, <1>7, <1>9, <1>10 DEF l, v

-----------------------------------------------------------------------------
(* A sink that is alone.                                                   *)

\* v is the last element that sink s wants; none of the first k elements of l is.
Stops(s, v) ==
  \/ Terminal[s] = "RangeErr" /\ v \in Failing
  \/ Terminal[s] = "One" /\ v \notin Zero

NoneStops(s, l, k) == \A j \in 1 .. k : ~ Stops(s, l[j])

\* The sink has the list so far, or all it wants of it.
AloneHas(s) ==
  IF NoneStops(s, ListOps, Taken)
  THEN /\ s \notin failed
       /\ got[s] = IF Terminal[s] = "One" THEN <<>> ELSE SubSeq(ListOps, 1, Taken)
  ELSE /\ got[s] = TerminalResult(s)
       /\ Terminal[s] = "RangeErr" => s \in failed
       /\ Terminal[s] = "One" => got[s] # <<>>

AloneInv == \A s \in Sinks : callers = {s} => AloneHas(s)

LEMMA ResultOfAll ==
  ASSUME Shape, NEW s \in Sinks, NoneStops(s, ListOps, Len(ListOps))
  PROVE  TerminalResult(s) = IF Terminal[s] = "One" THEN <<>> ELSE ListOps
<1>1. DOMAIN ListOps = 1 .. Len(ListOps)
  BY ListOpsType, LenProperties
<1>2. {k \in DOMAIN ListOps :
         \/ Terminal[s] = "RangeErr" /\ ListOps[k] \in Failing
         \/ Terminal[s] = "One" /\ ListOps[k] \notin Zero} = {}
  BY <1>1 DEF NoneStops, Stops
<1> QED
  BY <1>2 DEF TerminalResult

LEMMA ResultUpTo ==
  ASSUME Shape, NEW s \in Sinks, NEW k \in 1 .. Len(ListOps),
         Stops(s, ListOps[k]), NoneStops(s, ListOps, k - 1)
  PROVE  TerminalResult(s) =
           IF Terminal[s] = "One" THEN <<ListOps[k]>> ELSE SubSeq(ListOps, 1, k)
<1> DEFINE T == {j \in DOMAIN ListOps :
                   \/ Terminal[s] = "RangeErr" /\ ListOps[j] \in Failing
                   \/ Terminal[s] = "One" /\ ListOps[j] \notin Zero}
           first == CHOOSE j \in T : \A m \in T : j <= m
<1>1. DOMAIN ListOps = 1 .. Len(ListOps) /\ Len(ListOps) \in Nat
  BY ListOpsType, LenProperties
<1>2. \A j : j \in T <=> j \in 1 .. Len(ListOps) /\ Stops(s, ListOps[j])
  BY <1>1 DEF Stops
<1> HIDE DEF T
<1>3. k \in T /\ \A m \in T : k <= m
  <2>1. ASSUME NEW m \in T PROVE k <= m
    <3>1. m \in 1 .. Len(ListOps) /\ Stops(s, ListOps[m])
      BY <1>2
    <3>2. m \notin 1 .. (k - 1)
      BY <3>1 DEF NoneStops
    <3> QED
      BY <1>1, <3>1, <3>2
  <2> QED
    BY <1>2, <2>1
<1>4. first \in T /\ \A m \in T : first <= m
  BY <1>3
<1>5. first = k
  <2>1. first <= k /\ k <= first /\ first \in Nat /\ k \in Nat
    BY <1>1, <1>2, <1>3, <1>4
  <2> HIDE DEF first
  <2> QED
    BY <2>1
<1>6. TerminalResult(s) = IF Terminal[s] = "One" THEN (IF T = {} THEN <<>> ELSE <<ListOps[first]>>)
                          ELSE (IF T = {} THEN ListOps ELSE SubSeq(ListOps, 1, first))
  BY DEF TerminalResult, T
<1>7. T # {}
  BY <1>3
<1> HIDE DEF first
<1> QED
  BY <1>5, <1>6, <1>7

\* A longer front.
LEMMA FrontGrows ==
  ASSUME NEW l \in Seq(Values), NEW k \in Nat, k < Len(l)
  PROVE  /\ SubSeq(l, 1, k + 1) = Append(SubSeq(l, 1, k), l[k + 1])
         /\ SubSeq(l, 1, k) \in Seq(Values) /\ Len(SubSeq(l, 1, k)) = k
<1>1. Len(l) \in Nat /\ \A j \in 1 .. Len(l) : l[j] \in Values
  BY LenProperties, ElementOfSeq
<1> DEFINE a == SubSeq(l, 1, k)
           b == SubSeq(l, 1, k + 1)
           v == l[k + 1]
           c == Append(a, v)
<1>2. a \in Seq(Values) /\ Len(a) = k /\ \A j \in 1 .. k : a[j] = l[j]
  <2>1. \A j \in 1 .. k : l[j] \in Values
    BY <1>1
  <2>2. /\ a \in Seq(Values) /\ Len(a) = IF 1 <= k THEN k - 1 + 1 ELSE 0
        /\ \A j \in 1 .. k - 1 + 1 : a[j] = l[1 + j - 1]
    BY <2>1, SubSeqProperties
  <2> HIDE DEF a
  <2> QED
    BY <2>2
<1>3. b \in Seq(Values) /\ Len(b) = k + 1 /\ \A j \in 1 .. (k + 1) : b[j] = l[j]
  <2>1. \A j \in 1 .. (k + 1) : l[j] \in Values
    BY <1>1
  <2>2. /\ b \in Seq(Values) /\ Len(b) = IF 1 <= k + 1 THEN (k + 1) - 1 + 1 ELSE 0
        /\ \A j \in 1 .. (k + 1) - 1 + 1 : b[j] = l[1 + j - 1]
    BY <2>1, SubSeqProperties
  <2> HIDE DEF b
  <2> QED
    BY <2>2
<1>4. v \in Values
  BY <1>1
<1> HIDE DEF a, b, v
<1>5. c \in Seq(Values) /\ Len(c) = k + 1 /\ (\A j \in 1 .. k : c[j] = a[j]) /\ c[k + 1] = v
  BY <1>2, <1>4, AppendProperties
<1> HIDE DEF c
<1>6. \A j \in 1 .. (k + 1) : b[j] = c[j]
  BY <1>2, <1>3, <1>5 DEF v
<1>7. b = c
  BY <1>3, <1>5, <1>6, SeqEqual
<1> QED
  BY <1>2, <1>7 DEF a, b, c, v

\* The result that is promised never changes.
LEMMA ResultFixed ==
  ASSUME ListOps' = ListOps, NEW s
  PROVE  TerminalResult(s)' = TerminalResult(s)
BY DEF TerminalResult

\* A sink that is alone takes the next element of its result or ignores one.
LEMMA AloneTake ==
  ASSUME Shape, Shape', InOrder, NEW s \in Sinks, callers = {s}, AloneHas(s), Take(s)
  PROVE  /\ AloneHas(s)'
         /\ \/ got' = got
            \/ /\ got' = [got EXCEPT ![s] = Append(@, TerminalResult(s)[Len(@) + 1])]
               /\ Len(got[s]) < Len(TerminalResult(s))
<1> DEFINE k == Taken
           l == ListOps
           v == Head(queue[N])
           r == TerminalResult(s)
<1>1. l' = l /\ k + 1 \in 1 .. Len(l) /\ v = l[k + 1] /\ k' = k + 1 /\ k \in Nat
      /\ l \in Seq(Values) /\ Len(l) \in Nat /\ v \in Values
  <2>1. ListOps' = ListOps /\ Taken + 1 \in 1 .. Len(ListOps) /\ v = ListOps[Taken + 1]
        /\ Taken' = Taken + 1
    BY TakeOrder
  <2>2. Taken \in Nat /\ ListOps \in Seq(Values) /\ Len(ListOps) \in Nat
    BY ListOpsType, LenProperties DEF InOrder
  <2>3. v \in Values
    BY TakeDue
  <2> QED
    BY <2>1, <2>2, <2>3
<1>2. r' = r
  BY <1>1, ResultFixed
<1> DEFINE uses == CASE Terminal[s] = "ToSlice"  -> TRUE
                     [] Terminal[s] = "RangeErr" -> s \notin failed
                     [] Terminal[s] = "One"      -> got[s] = <<>> /\ v \notin Zero
<1>3. /\ got' = IF uses THEN [got EXCEPT ![s] = Append(@, v)] ELSE got
      /\ failed' = IF uses /\ Terminal[s] = "RangeErr" /\ v \in Failing
                   THEN failed \cup {s} ELSE failed
      /\ got \in [Sinks -> Seq(Values)]
  BY DEF Take, Shape
<1>4. Terminal[s] \in {"ToSlice", "RangeErr", "One"}
  BY PipelineAssumption
<1>5. AloneHas(s)' <=>
        IF NoneStops(s, l, k + 1)
        THEN /\ s \notin failed'
             /\ got'[s] = IF Terminal[s] = "One" THEN <<>> ELSE SubSeq(l, 1, k + 1)
        ELSE /\ got'[s] = r
             /\ Terminal[s] = "RangeErr" => s \in failed'
             /\ Terminal[s] = "One" => got'[s] # <<>>
  BY <1>1, <1>2 DEF AloneHas, NoneStops, Stops
<1>6. NoneStops(s, l, k + 1) <=> NoneStops(s, l, k) /\ ~ Stops(s, v)
  BY <1>1 DEF NoneStops
<1>7. CASE ~ NoneStops(s, l, k)
  <2>1. /\ got[s] = r
        /\ Terminal[s] = "RangeErr" => s \in failed
        /\ Terminal[s] = "One" => got[s] # <<>>
    BY <1>7 DEF AloneHas
  <2>2. Terminal[s] # "ToSlice"
    BY <1>7 DEF NoneStops, Stops
  <2>3. ~ uses
    BY <1>4, <2>1, <2>2
  <2>4. got' = got /\ failed' = failed
    BY <1>3, <2>3
  <2> QED
    BY <1>5, <1>6, <1>7, <2>1, <2>4
<1>8. CASE NoneStops(s, l, k)
  <2> DEFINE a == SubSeq(l, 1, k)
  <2>1. s \notin failed /\ got[s] = IF Terminal[s] = "One" THEN <<>> ELSE a
    BY <1>8 DEF AloneHas
  <2>2. SubSeq(l, 1, k + 1) = Append(a, v) /\ a \in Seq(Values) /\ Len(a) = k
    <3>1. k < Len(l)
      BY <1>1
    <3> HIDE DEF k, l
    <3> QED
      BY <1>1, <3>1, FrontGrows
  <2>u. uses <=> IF Terminal[s] = "One" THEN v \notin Zero ELSE TRUE
    BY <1>4, <2>1
  <2>3. CASE Stops(s, v)
    <3>1. r = IF Terminal[s] = "One" THEN <<v>> ELSE SubSeq(l, 1, k + 1)
      <4>1. (k + 1) - 1 = k
        BY <1>1
      <4> QED
        BY <1>1, <1>8, <2>3, <4>1, ResultUpTo
    <3>2. uses
      BY <2>u, <2>3 DEF Stops
    <3>3. CASE Terminal[s] = "One"
      <4>1. r = <<v>> /\ got[s] = <<>> /\ Append(<<>>, v) = <<v>> /\ <<v>>[1] = v
            /\ Len(<<v>>) = 1 /\ Len(<<>>) = 0 /\ <<v>> # <<>>
        BY <2>1, <3>1, <3>3
      <4>2. got' = [got EXCEPT ![s] = Append(@, v)] /\ r[Len(got[s]) + 1] = v
            /\ Len(got[s]) < Len(r)
        BY <1>3, <3>2, <4>1
      <4>3. got'[s] = r /\ got'[s] # <<>>
        BY <1>3, <4>1, <4>2
      <4> HIDE DEF r, uses
      <4> QED
        BY <1>5, <1>6, <2>3, <3>3, <4>2, <4>3 DEF r
    <3>4. CASE Terminal[s] = "RangeErr"
      <4>1. r = Append(a, v) /\ got[s] = a /\ v \in Failing
        BY <2>1, <2>2, <2>3, <3>1, <3>4 DEF Stops
      <4>2. r[Len(a) + 1] = v /\ Len(r) = Len(a) + 1 /\ Len(a) < Len(r)
        <5> HIDE DEF a, r, v
        <5> QED
          BY <1>1, <2>2, <4>1, AppendProperties
      <4>3. got' = [got EXCEPT ![s] = Append(@, v)] /\ s \in failed'
        BY <1>3, <3>2, <3>4, <4>1
      <4>4. got'[s] = r
        BY <1>3, <4>1, <4>3
      <4> HIDE DEF r, uses
      <4> QED
        BY <1>5, <1>6, <2>3, <3>4, <4>1, <4>2, <4>3, <4>4 DEF r
    <3> QED
      BY <2>3, <3>3, <3>4 DEF Stops
  <2>4. CASE ~ Stops(s, v)
    <3>1. NoneStops(s, l, k + 1)
      BY <1>6, <1>8, <2>4
    <3>2. CASE Terminal[s] = "One"
      <4>1. ~ uses
        BY <2>4, <2>u, <3>2 DEF Stops
      <4>2. got' = got /\ failed' = failed
        BY <1>3, <4>1
      <4> QED
        BY <1>5, <2>1, <3>1, <3>2, <4>2
    <3>3. CASE Terminal[s] # "One"
      <4>1. uses /\ ~ (Terminal[s] = "RangeErr" /\ v \in Failing)
        BY <2>4, <2>u, <3>3 DEF Stops
      <4>2. got' = [got EXCEPT ![s] = Append(@, v)] /\ failed' = failed
        BY <1>3, <4>1
      <4>3. got[s] = a /\ got'[s] = Append(a, v)
        BY <1>3, <2>1, <3>3, <4>2
      <4>4. AloneHas(s)'
        BY <1>5, <2>1, <2>2, <3>1, <3>3, <4>2, <4>3
      <4>5. r[k + 1] = v /\ k < Len(r)
        <5>1. CASE NoneStops(s, l, Len(l))
          BY <1>1, <3>3, <5>1, ResultOfAll
        <5>2. CASE ~ NoneStops(s, l, Len(l))
          <6> DEFINE T == {j \in 1 .. Len(l) : Stops(s, l[j])}
          <6>1. T \in SUBSET Nat /\ T # {}
            BY <1>1, <5>2 DEF NoneStops
          <6>2. PICK m \in T : \A j \in T : m <= j
            BY <6>1, LeastNumber
          <6>3. m \in 1 .. Len(l) /\ Stops(s, l[m]) /\ m \in Nat
            BY <6>2
          <6>4. NoneStops(s, l, m - 1)
            <7>1. ASSUME NEW j \in 1 .. (m - 1), Stops(s, l[j]) PROVE FALSE
              <8>1. j \in 1 .. Len(l) /\ ~ (m <= j)
                BY <1>1, <6>3, <7>1
              <8> QED
                BY <6>2, <7>1, <8>1
            <7> QED
              BY <7>1 DEF NoneStops
          <6> HIDE DEF T
          <6>5. r = SubSeq(l, 1, m)
            BY <3>3, <6>3, <6>4, ResultUpTo
          <6>6. k + 1 <= m
            BY <1>1, <3>1, <6>3 DEF NoneStops
          <6>7. Len(r) = m /\ \A j \in 1 .. m : r[j] = l[j]
            <7> HIDE DEF r, l
            <7>1. \A j \in 1 .. m : l[j] \in Values
              BY <1>1, <6>3, ElementOfSeq
            <7>2. /\ Len(SubSeq(l, 1, m)) = IF 1 <= m THEN m - 1 + 1 ELSE 0
                  /\ \A j \in 1 .. m - 1 + 1 : SubSeq(l, 1, m)[j] = l[1 + j - 1]
              BY <6>3, <7>1, SubSeqProperties
            <7> QED
              BY <6>3, <6>5, <7>2
          <6> HIDE DEF r, l, k
          <6> QED
            BY <1>1, <6>3, <6>6, <6>7
        <5> QED
          BY <5>1, <5>2
      <4>6. r[Len(got[s]) + 1] = v /\ Len(got[s]) < Len(r)
        BY <2>2, <4>3, <4>5
      <4> HIDE DEF r, uses
      <4> QED
        BY <4>2, <4>4, <4>6 DEF r
    <3> QED
      BY <3>2, <3>3
  <2> QED
    BY <2>3, <2>4
<1> QED
  BY <1>7, <1>8

\* It sees the end when it has all of it.
LEMMA AloneEnd ==
  ASSUME Shape, ClosedIsDrained, InOrder, NEW s \in Sinks, AloneHas(s), TakeEnd(s)
  PROVE  got[s] = TerminalResult(s)
<1>1. Due = <<>>
  BY EndDue DEF TakeEnd
<1>2. ListOps \in Seq(Values) /\ Len(ListOps) \in Nat
  BY ListOpsType, LenProperties
<1>3. Taken = Len(ListOps)
  BY <1>1, <1>2 DEF Taken
<1>4. CASE NoneStops(s, ListOps, Taken)
  <2>1. SubSeq(ListOps, 1, Taken) = ListOps
    BY <1>2, <1>3, SubSeqFull
  <2> QED
    BY <1>3, <1>4, <2>1, ResultOfAll DEF AloneHas
<1>5. CASE ~ NoneStops(s, ListOps, Taken)
  BY <1>5 DEF AloneHas
<1> QED
  BY <1>4, <1>5

LEMMA InitAlone == Init => AloneInv
<1> SUFFICES ASSUME Init, NEW s \in Sinks PROVE AloneHas(s)
  BY DEF AloneInv
<1>1. Taken = 0
  BY InitOrder
<1>2. NoneStops(s, ListOps, Taken) /\ SubSeq(ListOps, 1, Taken) = <<>>
  BY <1>1, SubSeqEmpty DEF NoneStops
<1> QED
  BY <1>2 DEF AloneHas, Init

LEMMA AloneQuiet ==
  ASSUME Shape, Shape', NEW s \in Sinks, AloneHas(s), Quiet \/ UNCHANGED vars
  PROVE  AloneHas(s)'
<1>1. ListOps' = ListOps /\ Taken' = Taken
  BY QuietOrder
<1>2. TerminalResult(s)' = TerminalResult(s)
  BY <1>1, ResultFixed
<1>3. got' = got /\ failed' = failed
  BY DEF Quiet, vars, Sending, SourceEnds, OpStep, Receive, Forward, Finish, TakeEnd
<1> QED
  BY <1>1, <1>2, <1>3 DEF AloneHas, NoneStops

\* A step is a quiet one or one that takes.
LEMMA StepKinds ==
  ASSUME [Next]_vars
  PROVE  /\ callers' = callers
         /\ Quiet \/ UNCHANGED vars \/ \E s \in callers : Take(s)
<1>1. callers' = callers
  BY DEF Next, vars, given, Sending, SourceEnds, OpStep, Receive, Forward, Finish,
         SinkStep, Take, TakeEnd
<1> QED
  BY <1>1 DEF Next, Quiet, SinkStep

LEMMA AloneStep ==
  ASSUME Shape, Shape', InOrder, AloneInv, [Next]_vars
  PROVE  AloneInv' /\ InOrder'
<1>1. callers' = callers /\ (Quiet \/ UNCHANGED vars \/ \E s \in callers : Take(s))
  BY StepKinds
<1>2. InOrder'
  BY <1>1, QuietOrder, TakeOrder
<1>3. ASSUME NEW s \in Sinks, callers = {s} PROVE AloneHas(s)'
  <2>1. AloneHas(s)
    BY <1>3 DEF AloneInv
  <2>2. CASE Quiet \/ UNCHANGED vars
    BY <2>1, <2>2, AloneQuiet
  <2>3. CASE Take(s)
    BY <1>3, <2>1, <2>3, AloneTake
  <2> QED
    BY <1>1, <1>3, <2>2, <2>3
<1>4. AloneInv'
  BY <1>1, <1>3 DEF AloneInv
<1> QED
  BY <1>2, <1>4

\* The mapped state, by its parts.
Result == [s \in Sinks |-> TerminalResult(s)]
Got    == [s \in Sinks |-> IF callers = {s} THEN got[s] ELSE <<>>]
Done   == {s \in done : callers = {s}}

ElementStep(s) ==
  /\ s \notin Done
  /\ Len(Got[s]) < Len(Result[s])
  /\ Got' = [Got EXCEPT ![s] = Append(@, Result[s][Len(@) + 1])]
  /\ UNCHANGED <<Result, Done>>

EndStep(s) ==
  /\ s \notin Done
  /\ Got[s] = Result[s]
  /\ Done' = Done \cup {s}
  /\ UNCHANGED <<Result, Got>>

LEMMA MappedNext ==
  [List!ResultNext]_(List!resultVars) <=>
     \/ \E s \in Sinks : ElementStep(s) \/ EndStep(s)
     \/ UNCHANGED <<Result, Got, Done>>
BY DEF List!ResultNext, List!resultVars, List!NextElement, List!EndOfList,
       ElementStep, EndStep, Result, Got, Done

LEMMA ListStep ==
  ASSUME Shape, Shape', ClosedIsDrained, InOrder, AloneInv, [Next]_vars
  PROVE  [List!ResultNext]_(List!resultVars)
<1>1. callers' = callers /\ (Quiet \/ UNCHANGED vars \/ \E s \in callers : Take(s))
  BY StepKinds
<1>2. ListOps' = ListOps
  BY <1>1, QuietOrder, TakeOrder
<1>3. Result' = Result
  BY <1>2, ResultFixed DEF Result
<1>g. got \in [Sinks -> Seq(Values)] /\ got' \in [Sinks -> Seq(Values)]
  BY DEF Shape
<1>4. CASE \A s \in Sinks : callers # {s}
  <2>1. Got' = Got
    BY <1>1, <1>4 DEF Got
  <2>2. Done' = Done
    BY <1>1, <1>4 DEF Done, Shape
  <2> QED
    BY <1>3, <2>1, <2>2, MappedNext
<1>5. ASSUME NEW t \in Sinks, callers = {t}
      PROVE  [List!ResultNext]_(List!resultVars)
  <2>1. AloneHas(t)
    BY <1>5 DEF AloneInv
  <2>2. Result[t] = TerminalResult(t) /\ Got[t] = got[t] /\ (t \in Done <=> t \in done)
    BY <1>5 DEF Result, Got, Done
  <2>3. ASSUME got' = got PROVE Got' = Got
    BY <1>1, <2>3 DEF Got
  <2>4. ASSUME done' = done PROVE Done' = Done
    BY <1>1, <2>4 DEF Done
  <2>5. CASE Take(t)
    <3>1. \/ got' = got
          \/ /\ got' = [got EXCEPT ![t] = Append(@, TerminalResult(t)[Len(@) + 1])]
             /\ Len(got[t]) < Len(TerminalResult(t))
      BY <1>5, <2>1, <2>5, AloneTake
    <3>2. done' = done /\ t \notin done
      BY <2>5 DEF Take
    <3>3. CASE got' = got
      BY <1>3, <2>3, <2>4, <3>2, <3>3, MappedNext
    <3>4. CASE /\ got' = [got EXCEPT ![t] = Append(@, TerminalResult(t)[Len(@) + 1])]
               /\ Len(got[t]) < Len(TerminalResult(t))
      <4> DEFINE x == Append(got[t], TerminalResult(t)[Len(got[t]) + 1])
      <4>1. got'[t] = x
        BY <1>g, <3>4
      <4>2. Got' = [Got EXCEPT ![t] = x]
        <5> HIDE DEF x
        <5> QED
          BY <1>1, <1>5, <4>1 DEF Got
      <4>3. ElementStep(t)
        BY <1>3, <2>2, <2>4, <3>2, <3>4, <4>2 DEF ElementStep
      <4> QED
        BY <4>3, MappedNext
    <3> QED
      BY <3>1, <3>3, <3>4
  <2>6. CASE TakeEnd(t)
    <3>1. got[t] = TerminalResult(t)
      BY <2>1, <2>6, AloneEnd
    <3>2. done' = done \cup {t} /\ t \notin done /\ got' = got
      BY <2>6 DEF TakeEnd
    <3>3. Done' = Done \cup {t}
      BY <1>1, <1>5, <3>2 DEF Done
    <3>4. EndStep(t)
      BY <1>3, <2>2, <2>3, <3>1, <3>2, <3>3 DEF EndStep
    <3> QED
      BY <3>4, MappedNext
  <2>7. CASE Sending \/ SourceEnds \/ (\E i \in Ops : OpStep(i)) \/ UNCHANGED vars
    <3>1. got' = got /\ done' = done
      BY <2>7 DEF vars, Sending, SourceEnds, OpStep, Receive, Forward, Finish
    <3> QED
      BY <1>3, <2>3, <2>4, <3>1, MappedNext
  <2> QED
    BY <1>1, <1>5, <2>5, <2>6, <2>7 DEF Quiet
<1> QED
  BY <1>4, <1>5

\* A sink that drains a pipeline alone gets the list that the operations make of
\* the source - RangeErr up to the first error, One the first element that is not
\* nil - in order, each element once, and sees the end after the last of them,
\* whatever the operations, the source and the schedule of the goroutines.
THEOREM PipelineIsTheList == Spec => ImplementsList
<1>1. Init => List!ResultInit
  <2> SUFFICES ASSUME Init PROVE List!ResultInit
    OBVIOUS
  <2>1. got = [s \in Sinks |-> <<>>] /\ done = {}
    BY DEF Init
  <2> QED
    BY <2>1 DEF List!ResultInit
<1>2. Init => InOrder /\ AloneInv
  BY InitOrder, InitAlone
<1>3. IInv /\ IInv' /\ InOrder /\ AloneInv /\ [Next]_vars => InOrder' /\ AloneInv'
  BY AloneStep DEF IInv
<1>4. IInv /\ IInv' /\ InOrder /\ AloneInv /\ [Next]_vars => [List!ResultNext]_(List!resultVars)
  BY ListStep DEF IInv
<1> QED
  BY <1>1, <1>2, <1>3, <1>4, Invariance, PTL DEF Spec, ImplementsList, List!ResultSpec

-----------------------------------------------------------------------------
(* Sinks that share a pipeline.                                            *)

LEMMA CopiesType ==
  ASSUME NEW l \in Seq(Values), NEW v
  PROVE  Copies(v, l) \in Nat /\ IsFiniteSet({k \in DOMAIN l : l[k] = v})
<1>1. DOMAIN l = 1 .. Len(l) /\ Len(l) \in Nat
  BY LenProperties
<1>2. IsFiniteSet(1 .. Len(l))
  BY <1>1, FS_Interval
<1>3. IsFiniteSet({k \in DOMAIN l : l[k] = v})
  BY <1>1, <1>2, FS_Subset
<1> QED
  BY <1>3, FS_CardinalityType DEF Copies

LEMMA CopiesCons ==
  ASSUME NEW h \in Values, NEW l \in Seq(Values), NEW v
  PROVE  Copies(v, <<h>> \o l) = Copies(v, l) + IF h = v THEN 1 ELSE 0
<1> DEFINE one == <<h>>
           m == one \o l
           S == {k \in DOMAIN l : l[k] = v}
           U == {k \in DOMAIN m : m[k] = v /\ k # 1}
           f == [k \in S |-> k + 1]
<1>1. one \in Seq(Values) /\ Len(one) = 1 /\ one[1] = h
  OBVIOUS
<1> HIDE DEF one
<1>2. m \in Seq(Values) /\ Len(m) = 1 + Len(l) /\ Len(l) \in Nat
      /\ \A k \in 1 .. (1 + Len(l)) : m[k] = IF k <= 1 THEN one[k] ELSE l[k - 1]
  <2>1. Len(l) \in Nat
    BY LenProperties
  <2>2. /\ m \in Seq(Values) /\ Len(m) = Len(one) + Len(l)
        /\ \A k \in 1 .. (Len(one) + Len(l)) :
             m[k] = IF k <= Len(one) THEN one[k] ELSE l[k - Len(one)]
    BY <1>1, ConcatProperties
  <2> QED
    BY <1>1, <2>1, <2>2
<1> HIDE DEF m
<1>3. DOMAIN m = 1 .. (1 + Len(l)) /\ DOMAIN l = 1 .. Len(l)
  BY <1>2, LenProperties
<1>4. m[1] = h /\ \A k \in 1 .. Len(l) : m[k + 1] = l[k]
  <2>1. 1 \in 1 .. (1 + Len(l))
    BY <1>2
  <2>2. ASSUME NEW k \in 1 .. Len(l) PROVE m[k + 1] = l[k]
    <3>1. k + 1 \in 1 .. (1 + Len(l)) /\ ~ (k + 1 <= 1) /\ (k + 1) - 1 = k
      BY <1>2
    <3> QED
      BY <1>2, <3>1
  <2> QED
    BY <1>1, <1>2, <2>1, <2>2
<1>5. f \in Bijection(S, U)
  <2>1. \A k \in S : k \in 1 .. Len(l) /\ k + 1 \in U
    BY <1>2, <1>3, <1>4
  <2>2. f \in [S -> U]
    BY <2>1
  <2>3. \A a, b \in S : f[a] = f[b] => a = b
    BY <2>1
  <2>4. ASSUME NEW u \in U PROVE \E k \in S : f[k] = u
    <3>1. u \in 2 .. (1 + Len(l)) /\ m[u] = v
      BY <1>2, <1>3
    <3>2. u - 1 \in 1 .. Len(l) /\ (u - 1) + 1 = u
      BY <1>2, <3>1
    <3>3. u - 1 \in S
      BY <1>3, <1>4, <3>1, <3>2
    <3> QED
      BY <3>2, <3>3
  <2> HIDE DEF f, S, U
  <2> QED
    BY <2>2, <2>3, <2>4, Fun_IsBij
<1>6. ExistsBijection(S, U)
  BY <1>5, Fun_ExistsBij
<1>7. IsFiniteSet(S) /\ Copies(v, l) = Cardinality(S) /\ Cardinality(S) \in Nat
  BY CopiesType DEF Copies
<1>8. IsFiniteSet(U) /\ Cardinality(U) = Cardinality(S)
  <2> HIDE DEF S, U
  <2> QED
    BY <1>6, <1>7, FS_Bijection
<1>9. Copies(v, m) = Cardinality({k \in DOMAIN m : m[k] = v})
  BY DEF Copies
<1>10. CASE h = v
  <2>1. {k \in DOMAIN m : m[k] = v} = U \cup {1} /\ 1 \notin U
    BY <1>2, <1>3, <1>4, <1>10
  <2>2. Cardinality(U \cup {1}) = Cardinality(U) + 1
    <3> HIDE DEF U
    <3> QED
      BY <1>8, <2>1, FS_AddElement
  <2> HIDE DEF S, U
  <2> QED
    BY <1>7, <1>8, <1>9, <1>10, <2>1, <2>2 DEF m, one
<1>11. CASE h # v
  <2>1. {k \in DOMAIN m : m[k] = v} = U
    BY <1>3, <1>4, <1>11
  <2>2. Copies(v, m) = Copies(v, l) /\ Copies(v, l) \in Nat
    <3> HIDE DEF S, U
    <3> QED
      BY <1>7, <1>8, <1>9, <2>1
  <2>3. Copies(v, m) = Copies(v, l) + 0
    BY <2>2
  <2> QED
    BY <1>11, <2>3 DEF m, one
<1> QED
  BY <1>10, <1>11

\* The places where sinks hold v.
Held(v) ==
  {p \in callers \X (1 .. Len(ListOps)) : p[2] \in DOMAIN got[p[1]] /\ got[p[1]][p[2]] = v}

Divided(v) ==
  IsFiniteSet(Held(v)) /\ Cardinality(Held(v)) + Copies(v, Due) = Copies(v, ListOps)

\* Together the sinks hold what has been taken, none of them more than all of it.
ShareInv ==
  (\A s \in callers : Terminal[s] = "ToSlice") =>
     /\ \A s \in callers : Len(got[s]) <= Taken
     /\ \A v \in Values : Divided(v)

LEMMA InitShare == Init => ShareInv
<1> SUFFICES ASSUME Init PROVE ShareInv
  OBVIOUS
<1>1. Taken = 0 /\ Due = ListOps
  BY InitOrder, InitDue
<1>2. callers \subseteq Sinks
  BY InitInv DEF IInv, Shape
<1>3. \A s \in callers : got[s] = <<>>
  BY <1>2 DEF Init
<1>4. ASSUME NEW v \in Values PROVE Divided(v)
  <2>1. Held(v) = {}
    BY <1>3 DEF Held
  <2>2. Copies(v, ListOps) \in Nat
    BY InitInv, ListOpsType, CopiesType DEF IInv
  <2> QED
    BY <1>1, <2>1, <2>2, FS_EmptySet DEF Divided
<1>5. \A s \in callers : Len(got[s]) <= Taken
  BY <1>1, <1>3
<1> QED
  BY <1>4, <1>5 DEF ShareInv

LEMMA QuietShare ==
  ASSUME Shape, Shape', ShareInv, Quiet \/ UNCHANGED vars
  PROVE  ShareInv'
<1>1. ListOps' = ListOps /\ Taken' = Taken /\ Due' = Due
  BY QuietOrder
<1>2. got' = got /\ callers' = callers
  BY DEF Quiet, vars, given, Sending, SourceEnds, OpStep, Receive, Forward, Finish, TakeEnd
<1>3. \A v : Divided(v)' <=> Divided(v)
  BY <1>1, <1>2 DEF Divided, Held, Copies
<1> QED
  BY <1>1, <1>2, <1>3 DEF ShareInv

LEMMA TakeShare ==
  ASSUME Shape, Shape', InOrder, ShareInv, NEW s \in callers, Take(s)
  PROVE  ShareInv'
<1>1. callers' = callers
  BY DEF Take, given
<1> SUFFICES ASSUME \A t \in callers : Terminal[t] = "ToSlice"
             PROVE  /\ \A t \in callers : Len(got'[t]) <= Taken'
                    /\ \A v \in Values : Divided(v)'
  BY <1>1 DEF ShareInv
<1> DEFINE h == Head(queue[N])
           k == Taken
<1>2. ListOps' = ListOps /\ k + 1 \in 1 .. Len(ListOps) /\ k' = k + 1 /\ k \in Nat
  BY TakeOrder DEF InOrder
<1>3. h \in Values /\ Due = <<h>> \o Due'
  BY TakeDue
<1>4. got \in [Sinks -> Seq(Values)] /\ callers \subseteq Sinks
  BY DEF Shape
<1>5. got' = [got EXCEPT ![s] = Append(@, h)]
  BY DEF Take
<1>6. /\ \A t \in callers : Len(got[t]) <= k
      /\ \A v \in Values : Divided(v)
  BY DEF ShareInv
<1> DEFINE g == got[s]
           n == Len(g)
<1>7. g \in Seq(Values) /\ n \in Nat /\ n <= k /\ DOMAIN g = 1 .. n
  BY <1>4, <1>6, LenProperties
<1>8. /\ got'[s] = Append(g, h) /\ \A t \in callers : t # s => got'[t] = got[t]
      /\ Len(Append(g, h)) = n + 1 /\ DOMAIN Append(g, h) = 1 .. (n + 1)
      /\ \A j \in 1 .. n : Append(g, h)[j] = g[j]
      /\ Append(g, h)[n + 1] = h
  <2>1. got'[s] = Append(g, h) /\ \A t \in callers : t # s => got'[t] = got[t]
    BY <1>4, <1>5
  <2>2. Append(g, h) \in Seq(Values) /\ Len(Append(g, h)) = n + 1
        /\ (\A j \in 1 .. n : Append(g, h)[j] = g[j]) /\ Append(g, h)[n + 1] = h
    BY <1>3, <1>7, AppendProperties
  <2>3. DOMAIN Append(g, h) = 1 .. (n + 1)
    BY <2>2, LenProperties
  <2> QED
    BY <2>1, <2>2, <2>3
<1> HIDE DEF h
<1>9. ASSUME NEW t \in callers PROVE Len(got'[t]) <= Taken'
  <2>1. CASE t = s
    BY <1>2, <1>7, <1>8, <2>1
  <2>2. CASE t # s
    <3>1. Len(got[t]) <= k /\ Len(got[t]) \in Nat
      BY <1>4, <1>6, LenProperties
    <3> QED
      BY <1>2, <1>8, <2>2, <3>1
  <2> QED
    BY <2>1, <2>2
<1>10. ASSUME NEW v \in Values PROVE Divided(v)'
  <2> DEFINE new == <<s, n + 1>>
             P == callers \X (1 .. Len(ListOps))
             H == Held(v)
             K == {p \in P : p[2] \in DOMAIN got'[p[1]] /\ got'[p[1]][p[2]] = v}
  <2>1. H = {p \in P : p[2] \in DOMAIN got[p[1]] /\ got[p[1]][p[2]] = v} /\ Held(v)' = K
    BY <1>1, <1>2 DEF Held
  <2>2. new \in P /\ new \notin H
    <3>1. n + 1 \in 1 .. Len(ListOps) /\ n + 1 \notin DOMAIN g
      BY <1>2, <1>7
    <3> QED
      BY <2>1, <3>1
  <2>3. ASSUME NEW p \in P
        PROVE  p \in K <=> p \in H \/ (h = v /\ p = new)
    <3>1. p[1] \in callers /\ p[2] \in Nat /\ p = <<p[1], p[2]>>
      OBVIOUS
    <3>2. CASE p[1] # s
      <4>1. got'[p[1]] = got[p[1]] /\ p # new
        BY <1>8, <3>1, <3>2
      <4> QED
        BY <2>1, <4>1
    <3>3. CASE p[1] = s
      <4>1. p \in K <=> p[2] \in 1 .. (n + 1) /\ Append(g, h)[p[2]] = v
        BY <1>8, <3>3
      <4>2. p \in H <=> p[2] \in 1 .. n /\ g[p[2]] = v
        BY <1>7, <2>1, <3>3
      <4>3. p = new <=> p[2] = n + 1
        BY <3>1, <3>3
      <4>4. p[2] \in 1 .. (n + 1) <=> p[2] \in 1 .. n \/ p[2] = n + 1
        BY <1>7, <3>1
      <4>5. n + 1 \notin 1 .. n
        BY <1>7
      <4> HIDE DEF g, n, new, H, K
      <4> QED
        BY <1>8, <4>1, <4>2, <4>3, <4>4, <4>5
    <3> QED
      BY <3>2, <3>3
  <2>4. K = IF h = v THEN H \cup {new} ELSE H
    <3>1. H \subseteq P /\ K \subseteq P
      BY <2>1
    <3> HIDE DEF P, H, K, new
    <3> QED
      BY <2>2, <2>3, <3>1
  <2>5. IsFiniteSet(H) /\ Cardinality(H) + Copies(v, Due) = Copies(v, ListOps)
        /\ Cardinality(H) \in Nat
    BY <1>6, FS_CardinalityType DEF Divided
  <2>6. IsFiniteSet(K) /\ Cardinality(K) = Cardinality(H) + IF h = v THEN 1 ELSE 0
    <3>1. IsFiniteSet(H \cup {new}) /\ Cardinality(H \cup {new}) = Cardinality(H) + 1
      <4> HIDE DEF H, new
      <4> QED
        BY <2>2, <2>5, FS_AddElement
    <3>2. CASE h = v
      BY <2>4, <2>5, <3>1, <3>2
    <3>3. CASE h # v
      <4>1. K = H
        BY <2>4, <3>3
      <4>2. Cardinality(H) = Cardinality(H) + 0
        BY <2>5
      <4> QED
        BY <2>5, <3>3, <4>1, <4>2
    <3> QED
      BY <3>2, <3>3
  <2>7. Copies(v, Due) = Copies(v, Due') + (IF h = v THEN 1 ELSE 0) /\ Copies(v, Due') \in Nat
    <3>1. (Due \in Seq(Values))'
      BY DueType, PTL
    <3> DEFINE e == Due'
    <3>2. e \in Seq(Values)
      BY <3>1
    <3> HIDE DEF e
    <3>3. Copies(v, <<h>> \o e) = Copies(v, e) + (IF h = v THEN 1 ELSE 0)
      <4>1. h \in Values
        BY <1>3
      <4> QED
        BY ONLY <3>2, <4>1, CopiesCons
    <3>4. Copies(v, e) \in Nat
      BY ONLY <3>2, CopiesType
    <3> QED
      BY <1>3, <3>3, <3>4 DEF e
  <2>8. Cardinality(K) + Copies(v, Due') = Copies(v, ListOps)
    <3> DEFINE x == IF h = v THEN 1 ELSE 0
               cH == Cardinality(H)
               cK == Cardinality(K)
               y == Copies(v, Due)
               z == Copies(v, Due')
    <3>1. cK = cH + x /\ y = z + x /\ cH \in Nat /\ z \in Nat /\ x \in Nat
          /\ cH + y = Copies(v, ListOps)
      BY <2>5, <2>6, <2>7
    <3> HIDE DEF x, cH, cK, y, z
    <3>2. cK + z = cH + y
      BY <3>1
    <3> QED
      BY <3>1, <3>2 DEF cK, z
  <2>9. Copies(v, ListOps)' = Copies(v, ListOps) /\ Copies(v, Due)' = Copies(v, Due')
    BY <1>2 DEF Copies
  <2> HIDE DEF K, H
  <2> QED
    BY <2>1, <2>6, <2>8, <2>9 DEF Divided
<1> QED
  BY <1>9, <1>10

\* Sinks that share a pipeline divide its list: every element goes to exactly one
\* of them or is still to come, whatever their number and the schedule.
THEOREM SinksDivideTheList == Spec => []SinksShareResult
<1>1. Init => InOrder /\ ShareInv
  BY InitOrder, InitShare
<1>2. IInv /\ IInv' /\ InOrder /\ ShareInv /\ [Next]_vars => InOrder' /\ ShareInv'
  BY StepKinds, QuietOrder, TakeOrder, QuietShare, TakeShare DEF IInv
<1>3. ShareInv => SinksShareResult
  BY DEF ShareInv, SinksShareResult, Divided, Held
<1> QED
  BY <1>1, <1>2, <1>3, Invariance, PTL DEF Spec
=============================================================================
