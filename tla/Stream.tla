------------------------------- MODULE Stream -------------------------------
(***************************************************************************)
(* stream/: pipelines of goroutines over buffered channels.                *)
(*                                                                         *)
(* OfSlice (or OfMap) starts a goroutine that sends the elements on        *)
(* channel 0 and closes it.  Each operation - Map, MapPair, FlatMap,       *)
(* Filter - starts one that ranges over channel i - 1, sends on channel i  *)
(* and closes it.  The caller ranges over the last channel with ToSlice,   *)
(* Range, RangeErr or One, from as many goroutines as it likes, or not at  *)
(* all.  Every channel has the capacity of the source, however many        *)
(* elements an operation makes of one.                                     *)
(***************************************************************************)
EXTENDS Integers, Sequences, FiniteSets

CONSTANTS
  Values,      \* elements
  Source,      \* the slice the pipeline starts from
  N,           \* the number of operations
  Pipelines,   \* the pipelines: p[i][v] is what operation i sends for element v
  DistinctAt,  \* the operations that are Filter(Distinct()) or DistinctBy
  Key,         \* the key DistinctBy extracts
  Sinks,       \* the goroutines that may drain the last channel
  Terminal,    \* how each does: "ToSlice" (Range is the same), "RangeErr", "One"
  Callers,     \* the sets of sinks that may do so together
  Failing,     \* elements for which the function of RangeErr fails
  Zero         \* the elements that NotNil takes for nil

Ops      == 1 .. N
Channels == 0 .. N
Size     == Len(Source)

ASSUME PipelineAssumption ==
  /\ N \in Nat
  /\ Source \in Seq(Values)
  /\ Pipelines \subseteq [Ops -> [Values -> Seq(Values)]]
  /\ DistinctAt \subseteq Ops
  /\ Key \in [Values -> Values]
  /\ Terminal \in [Sinks -> {"ToSlice", "RangeErr", "One"}]
  /\ Callers \subseteq SUBSET Sinks
  /\ Failing \subseteq Values /\ Zero \subseteq Values

VARIABLES
  image,     \* the pipeline: never changes
  callers,   \* the sinks that drain it: never changes
  queue,     \* what each channel buffers
  closed,    \* the channels that are closed
  source,    \* what OfSlice has still to send
  pending,   \* what each operation has still to send for its last element
  seen,      \* the keys a Distinct operation has met
  got,       \* what each sink has: the slice, the calls of f, the one element
  failed,    \* the sinks whose function has failed
  done,      \* the sinks that have seen the end
  received   \* history: how many elements each operation has received

given == <<image, callers>>
vars ==
  <<given, queue, closed, source, pending, seen, got, failed, done, received>>

Init ==
  /\ image \in Pipelines
  /\ callers \in Callers
  /\ queue = [c \in Channels |-> <<>>]
  /\ closed = IF Size = 0 THEN {0} ELSE {}
  /\ source = Source
  /\ pending = [i \in Ops |-> <<>>]
  /\ seen = [i \in Ops |-> {}]
  /\ got = [s \in Sinks |-> <<>>]
  /\ failed = {}
  /\ done = {}
  /\ received = [i \in Ops |-> 0]

-----------------------------------------------------------------------------
(* The goroutines.                                                         *)

\* MUTANT of Capacity: one less than the elements that may come.
CapacityShort == Size - 1

\* of(in.size): all the channels of a pipeline are as long as its source.
Capacity == Size

HasRoom(c) == Len(queue[c]) < Capacity

Sending ==
  /\ source # <<>>
  /\ HasRoom(0)
  /\ queue' = [queue EXCEPT ![0] = Append(@, Head(source))]
  /\ source' = Tail(source)
  /\ UNCHANGED <<given, closed, pending, seen, got, failed, done, received>>

SourceEnds ==
  /\ source = <<>>
  /\ 0 \notin closed
  /\ closed' = closed \cup {0}
  /\ UNCHANGED <<given, queue, source, pending, seen, got, failed, done,
                 received>>

\* What operation i makes of the element v.
Outputs(i, v) ==
  IF i \notin DistinctAt THEN image[i][v]
  ELSE IF Key[v] \in seen[i] THEN <<>> ELSE <<v>>

\* MUTANT of Receive: Distinct forgets what it has met.
ReceiveForgets(i) ==
  /\ pending[i] = <<>>
  /\ queue[i - 1] # <<>>
  /\ pending' = [pending EXCEPT ![i] = Outputs(i, Head(queue[i - 1]))]
  /\ queue' = [queue EXCEPT ![i - 1] = Tail(@)]
  /\ received' = [received EXCEPT ![i] = @ + 1]
  /\ UNCHANGED <<given, closed, source, seen, got, failed, done>>

Receive(i) ==
  /\ pending[i] = <<>>
  /\ queue[i - 1] # <<>>
  /\ LET v == Head(queue[i - 1])
     IN  /\ pending' = [pending EXCEPT ![i] = Outputs(i, v)]
         /\ seen' = IF i \in DistinctAt
                    THEN [seen EXCEPT ![i] = @ \cup {Key[v]}] ELSE seen
  /\ queue' = [queue EXCEPT ![i - 1] = Tail(@)]
  /\ received' = [received EXCEPT ![i] = @ + 1]
  /\ UNCHANGED <<given, closed, source, got, failed, done>>

Forward(i) ==
  /\ pending[i] # <<>>
  /\ HasRoom(i)
  /\ queue' = [queue EXCEPT ![i] = Append(@, Head(pending[i]))]
  /\ pending' = [pending EXCEPT ![i] = Tail(@)]
  /\ UNCHANGED <<given, closed, source, seen, got, failed, done, received>>

\* MUTANT of Finish: closes as soon as the input is closed, with elements in it.
FinishEarly(i) ==
  /\ pending[i] = <<>>
  /\ i - 1 \in closed
  /\ i \notin closed
  /\ closed' = closed \cup {i}
  /\ UNCHANGED <<given, queue, source, pending, seen, got, failed, done,
                 received>>

\* The range over the input is at its end: defer out.close().
Finish(i) ==
  /\ pending[i] = <<>>
  /\ queue[i - 1] = <<>> /\ i - 1 \in closed
  /\ i \notin closed
  /\ closed' = closed \cup {i}
  /\ UNCHANGED <<given, queue, source, pending, seen, got, failed, done,
                 received>>

-----------------------------------------------------------------------------
(* The caller.                                                             *)

\* MUTANT of Take: RangeErr stops at the first error and leaves the channel.
TakeUntilError(s) ==
  /\ s \notin done /\ s \notin failed
  /\ queue[N] # <<>>
  /\ got' = [got EXCEPT ![s] = Append(@, Head(queue[N]))]
  /\ failed' = IF Terminal[s] = "RangeErr" /\ Head(queue[N]) \in Failing
               THEN failed \cup {s} ELSE failed
  /\ queue' = [queue EXCEPT ![N] = Tail(@)]
  /\ UNCHANGED <<given, closed, source, pending, seen, done, received>>

\* Every terminal takes all the elements, whatever it does with them: One
\* keeps the first that is not nil, RangeErr calls f until it fails.
Take(s) ==
  /\ s \notin done
  /\ queue[N] # <<>>
  /\ LET v == Head(queue[N])
         uses == CASE Terminal[s] = "ToSlice"  -> TRUE
                   [] Terminal[s] = "RangeErr" -> s \notin failed
                   [] Terminal[s] = "One"      -> got[s] = <<>> /\ v \notin Zero
     IN  /\ got' = IF uses THEN [got EXCEPT ![s] = Append(@, v)] ELSE got
         /\ failed' = IF uses /\ Terminal[s] = "RangeErr" /\ v \in Failing
                      THEN failed \cup {s} ELSE failed
  /\ queue' = [queue EXCEPT ![N] = Tail(@)]
  /\ UNCHANGED <<given, closed, source, pending, seen, done, received>>

TakeEnd(s) ==
  /\ s \notin done
  /\ queue[N] = <<>> /\ N \in closed
  /\ done' = done \cup {s}
  /\ UNCHANGED <<given, queue, closed, source, pending, seen, got, failed,
                 received>>

OpStep(i)   == Receive(i) \/ Forward(i) \/ Finish(i)
SinkStep(s) == Take(s) \/ TakeEnd(s)

Next ==
  \/ Sending \/ SourceEnds
  \/ \E i \in Ops : OpStep(i)
  \/ \E s \in callers : SinkStep(s)

Spec == Init /\ [][Next]_vars

\* Each goroutine runs when it can.
Fairness ==
  /\ WF_vars(Sending \/ SourceEnds)
  /\ \A i \in Ops : WF_vars(OpStep(i))
  /\ \A s \in Sinks : WF_vars(s \in callers /\ SinkStep(s))

FairSpec == Spec /\ Fairness

-----------------------------------------------------------------------------
(* Properties.                                                             *)

Shape ==
  /\ image \in Pipelines
  /\ callers \subseteq Sinks
  /\ queue \in [Channels -> Seq(Values)]
  /\ closed \subseteq Channels
  /\ source \in Seq(Values)
  /\ pending \in [Ops -> Seq(Values)]
  /\ seen \in [Ops -> SUBSET Values]
  /\ got \in [Sinks -> Seq(Values)]
  /\ failed \subseteq Sinks /\ done \subseteq Sinks
  /\ received \in [Ops -> Nat]

ChannelsBounded == \A c \in Channels : Len(queue[c]) <= Size

TypeOK == Shape /\ ChannelsBounded

\* What is closed stays empty-handed: when a channel is closed, all that could
\* still arrive on it has been sent, so no goroutine ever sends on a closed
\* channel and the last close tells the sinks the truth (stream.go:29-40,88-97).
Drained(c) ==
  IF c = 0 THEN source = <<>>
  ELSE c - 1 \in closed /\ queue[c - 1] = <<>> /\ pending[c] = <<>>

ClosedIsDrained == \A c \in closed : Drained(c)

\* No operation makes two elements of one: Map and Filter, but not FlatMap.
OneForOne == \A i \in Ops : \A v \in Values : Len(image[i][v]) <= 1

\* Without FlatMap a send always finds room, whether anybody drains the pipeline
\* or not: the capacity of the source is enough for every goroutine to end
\* (stream.go:30, 89, 129-134).
SendsNeverBlock ==
  OneForOne => /\ source # <<>> => HasRoom(0)
               /\ \A i \in Ops : pending[i] # <<>> => HasRoom(i)

\* The list operation i of the pipeline p makes of s, when it has met the keys in
\* m: the reference the goroutines are compared with.
ListOp(p, i, s, m) ==
  LET made[k \in 0 .. Len(s)] ==
        IF k = 0 THEN <<>>
        ELSE LET met == m \cup {Key[s[j]] : j \in 1 .. (k - 1)}
             IN  made[k - 1] \o IF i \notin DistinctAt THEN p[i][s[k]]
                                ELSE IF Key[s[k]] \in met THEN <<>> ELSE <<s[k]>>
  IN  made[Len(s)]

\* The list that operations 1 to c make of the source.
ListOf(p) ==
  LET list[c \in Channels] ==
        IF c = 0 THEN Source ELSE ListOp(p, c, list[c - 1], {})
  IN  list[N]

ListOps == ListOf(image)

\* What is still to come on channel c.
DueAt[c \in Channels] ==
  IF c = 0 THEN queue[0] \o source
  ELSE queue[c] \o pending[c] \o ListOp(image, c, DueAt[c - 1], seen[c])

Due == DueAt[N]

Copies(v, s) == Cardinality({k \in DOMAIN s : s[k] = v})

\* Sinks that share a pipeline divide its result: every element of the list goes
\* to exactly one of them (stream.go:21-27, on a Stream that is a plain value).
SinksShareResult ==
  (\A s \in callers : Terminal[s] = "ToSlice") =>
     \A v \in Values :
        LET taken == {p \in callers \X (1 .. Len(ListOps)) :
                        p[2] \in DOMAIN got[p[1]] /\ got[p[1]][p[2]] = v}
        IN  Cardinality(taken) + Copies(v, Due) = Copies(v, ListOps)

\* The list that sink s ends with if it is alone.
TerminalResult(s) ==
  LET stops == {k \in DOMAIN ListOps :
                  \/ Terminal[s] = "RangeErr" /\ ListOps[k] \in Failing
                  \/ Terminal[s] = "One" /\ ListOps[k] \notin Zero}
      first == CHOOSE k \in stops : \A m \in stops : k <= m
  IN  CASE Terminal[s] = "One" -> IF stops = {} THEN <<>> ELSE <<ListOps[first]>>
        [] OTHER -> IF stops = {} THEN ListOps ELSE SubSeq(ListOps, 1, first)

\* A sink that is alone gets the list that the operations make of the source,
\* element by element and in order: the pipeline is the list function, however
\* its goroutines are scheduled.
List == INSTANCE ListResult WITH
  result <- [s \in Sinks |-> TerminalResult(s)],
  got    <- [s \in Sinks |-> IF callers = {s} THEN got[s] ELSE <<>>],
  done   <- {s \in done : callers = {s}}

ImplementsList == List!ResultSpec

\* Every goroutine of a pipeline ends: if the pipeline is drained, whatever the
\* operations and even after the function of RangeErr has failed, and without
\* FlatMap even if nobody drains it.
PipelineEnds ==
  callers # {} \/ OneForOne => <>(closed = Channels /\ done = callers)
=============================================================================
