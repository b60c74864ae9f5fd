------------------------------ MODULE Delivery ------------------------------
(***************************************************************************)
(* From the relay to the client: what ExecuteInterceptors and the relay    *)
(* send on the channel (interceptor/ctor.go), and what StreamWriter or     *)
(* waitChannel make of it on the other side (model/ctx.go, response.go).   *)
(*                                                                         *)
(* The relay itself is not in the repository.  It is taken as the package  *)
(* uses it: it passes each piece of the answer to the interceptors, sends  *)
(* the text that comes back, and closes the channel when it is through.    *)
(* A piece is known by what it leads to: a tool call, reasoning, text, an  *)
(* error of the relay's own.                                               *)
(***************************************************************************)
EXTENDS Integers, Sequences, FiniteSets, SequencesExt

CONSTANTS
  Pieces,     \* the pieces an answer may be made of
  MaxPieces,  \* bound: how many of them it has
  Capacity    \* of the relay's channel

ASSUME AnswerAssumption ==
  /\ Pieces \subseteq [call : BOOLEAN, think : BOOLEAN, text : BOOLEAN,
                        err : {"none", "error", "eof"}]
  /\ MaxPieces \in Nat /\ Capacity \in Nat

VARIABLES
  streaming, \* StreamWriter reads, or else waitChannel: never changes
  heeds,     \* the relay looks at the context before each piece: never changes
  at,        \* the pieces the relay has taken up
  todo,      \* what it has still to do for the last one
  canceled,  \* the request's context is done
  channel,   \* the bodies that are buffered
  closed,    \* the relay has closed the channel
  reader,    \* the receiving side: "waiting", "busy" or "ended"
  inHand,    \* the body it is busy with
  wire,      \* the frames the client has been sent
  failed,    \* a write has failed
  collected, \* the text and the reasoning waitChannel has put together
  answer,    \* the bodies of the one response of waitChannel
  sent       \* history: the bodies the relay has sent

setting == <<streaming, heeds>>

vars == <<setting, at, todo, canceled, channel, closed, reader, inHand, wire,
          failed, collected, answer, sent>>

Init ==
  /\ streaming \in BOOLEAN /\ heeds \in BOOLEAN
  /\ at = 0 /\ todo = <<>> /\ canceled = FALSE
  /\ channel = <<>> /\ closed = FALSE
  /\ reader = "waiting" /\ inHand = <<>>
  /\ wire = <<>> /\ failed = FALSE
  /\ collected = <<>> /\ answer = <<>> /\ sent = <<>>

Body(kind) == [kind |-> kind, piece |-> at]

-----------------------------------------------------------------------------
(* The relay.                                                              *)

GoesOn == at < MaxPieces /\ ~(heeds /\ canceled)

\* ExecuteInterceptors sends the tool call, cancels the context, sends the
\* reasoning; what it returns and what went wrong are the relay's to send.
Work(piece) ==
  (IF piece.call THEN <<"call", "cancel">> ELSE <<>>) \o
  (IF piece.think THEN <<"think">> ELSE <<>>) \o
  (IF piece.text THEN <<"text">> ELSE <<>>) \o
  (IF piece.err = "none" THEN <<>> ELSE <<piece.err>>)

TakeUp ==
  /\ todo = <<>> /\ GoesOn /\ ~closed
  /\ at' = at + 1
  /\ \E piece \in Pieces : todo' = Work(piece)
  /\ UNCHANGED <<setting, canceled, channel, closed, reader, inHand, wire,
                 failed, collected, answer, sent>>

\* MUTANT of Cancel: the call of ctx.Cancel is missing.
CancelNot ==
  /\ todo # <<>> /\ Head(todo) = "cancel"
  /\ todo' = Tail(todo)
  /\ UNCHANGED <<setting, at, canceled, channel, closed, reader, inHand, wire,
                 failed, collected, answer, sent>>

Cancel ==
  /\ todo # <<>> /\ Head(todo) = "cancel"
  /\ canceled' = TRUE
  /\ todo' = Tail(todo)
  /\ UNCHANGED <<setting, at, channel, closed, reader, inHand, wire, failed,
                 collected, answer, sent>>

HasRoom == Len(channel) < Capacity

\* channel <- body: to a reader that waits for it, or into the buffer.
Send ==
  /\ todo # <<>> /\ Head(todo) # "cancel"
  /\ LET body == Body(Head(todo))
     IN  /\ sent' = Append(sent, body)
         /\ \/ /\ channel = <<>> /\ reader = "waiting"
               /\ inHand' = <<body>>
               /\ reader' = "busy"
               /\ UNCHANGED channel
            \/ /\ HasRoom
               /\ channel' = Append(channel, body)
               /\ UNCHANGED <<inHand, reader>>
  /\ todo' = Tail(todo)
  /\ UNCHANGED <<setting, at, canceled, closed, wire, failed, collected,
                 answer>>

CloseChannel ==
  /\ todo = <<>> /\ ~closed
  /\ closed' = TRUE
  /\ UNCHANGED <<setting, at, todo, canceled, channel, reader, inHand, wire,
                 failed, collected, answer, sent>>

-----------------------------------------------------------------------------
(* The reader.                                                             *)

\* MUTANT of Receive: takes the last body.
ReceiveLast ==
  /\ reader = "waiting" /\ channel # <<>>
  /\ inHand' = <<Last(channel)>>
  /\ channel' = Front(channel)
  /\ reader' = "busy"
  /\ UNCHANGED <<setting, at, todo, canceled, closed, wire, failed, collected,
                 answer, sent>>

Receive ==
  /\ reader = "waiting" /\ channel # <<>>
  /\ inHand' = <<Head(channel)>>
  /\ channel' = Tail(channel)
  /\ reader' = "busy"
  /\ UNCHANGED <<setting, at, todo, canceled, closed, wire, failed, collected,
                 answer, sent>>

AtEnd == reader = "waiting" /\ channel = <<>> /\ closed

\* write: an error has a frame of its own, io.EOF is "[DONE]", and a tool call is
\* followed by a frame that says the model stopped for it.
Frames(body) ==
  CASE body.kind = "eof"   -> <<[kind |-> "done"]>>
    [] body.kind = "error" -> <<[kind |-> "error", piece |-> body.piece]>>
    [] body.kind = "call"  -> <<body, [kind |-> "stop"]>>
    [] OTHER               -> <<body>>

FramesOf(bodies) == FlattenSeq([k \in DOMAIN bodies |-> Frames(bodies[k])])

\* MUTANT of Write: an error body ends the stream.
WriteErrorEnds ==
  /\ streaming /\ reader = "busy"
  /\ inHand' = <<>>
  /\ \/ /\ wire' = wire \o Frames(inHand[1])
        /\ reader' = IF inHand[1].kind = "error" THEN "ended" ELSE "waiting"
        /\ UNCHANGED failed
     \/ /\ \E n \in 0 .. Len(Frames(inHand[1])) :
              wire' = wire \o SubSeq(Frames(inHand[1]), 1, n)
        /\ reader' = "ended"
        /\ failed' = TRUE
  /\ UNCHANGED <<setting, at, todo, canceled, channel, closed, collected,
                 answer, sent>>

\* One turn of the loop of StreamWriter.  A write that fails leaves the channel
\* for good; the client may have seen some of its frames.
Write ==
  /\ streaming /\ reader = "busy"
  /\ inHand' = <<>>
  /\ \/ /\ wire' = wire \o Frames(inHand[1])
        /\ reader' = "waiting"
        /\ UNCHANGED failed
     \/ /\ \E n \in 0 .. Len(Frames(inHand[1])) :
              wire' = wire \o SubSeq(Frames(inHand[1]), 1, n)
        /\ reader' = "ended"
        /\ failed' = TRUE
  /\ UNCHANGED <<setting, at, todo, canceled, channel, closed, collected,
                 answer, sent>>

WriteEnd ==
  /\ streaming /\ AtEnd
  /\ reader' = "ended"
  /\ \/ wire' = Append(wire, [kind |-> "done"]) /\ UNCHANGED failed
     \/ failed' = TRUE /\ UNCHANGED wire
  /\ UNCHANGED <<setting, at, todo, canceled, channel, closed, inHand,
                 collected, answer, sent>>

\* MUTANT of Collect: a tool call is collected like text.
CollectCall ==
  /\ ~streaming /\ reader = "busy"
  /\ inHand' = <<>>
  /\ LET body == inHand[1]
     IN  /\ collected' = IF body.kind \in {"text", "think", "call"}
                         THEN Append(collected, body) ELSE collected
         /\ reader' = "waiting"
         /\ UNCHANGED answer
  /\ UNCHANGED <<setting, at, todo, canceled, channel, closed, wire, failed,
                 sent>>

\* waitChannel: text and reasoning add up, errors pass unseen, a tool call is
\* the answer at once and alone.
Collect ==
  /\ ~streaming /\ reader = "busy"
  /\ inHand' = <<>>
  /\ LET body == inHand[1]
     IN  /\ collected' = IF body.kind \in {"text", "think"}
                         THEN Append(collected, body) ELSE collected
         /\ answer' = IF body.kind = "call" THEN <<body>> ELSE answer
         /\ reader' = IF body.kind = "call" THEN "ended" ELSE "waiting"
  /\ UNCHANGED <<setting, at, todo, canceled, channel, closed, wire, failed,
                 sent>>

CollectEnd ==
  /\ ~streaming /\ AtEnd
  /\ answer' = collected
  /\ reader' = "ended"
  /\ UNCHANGED <<setting, at, todo, canceled, channel, closed, inHand, wire,
                 failed, collected, sent>>

RelayStep  == TakeUp \/ Cancel \/ Send \/ CloseChannel
ReaderStep == Receive \/ Write \/ WriteEnd \/ Collect \/ CollectEnd

Next == RelayStep \/ ReaderStep

Spec == Init /\ [][Next]_vars

\* Two goroutines of one process: each runs when it can.
FairSpec == Spec /\ WF_vars(RelayStep) /\ WF_vars(ReaderStep)

-----------------------------------------------------------------------------
(* Properties.                                                             *)

\* The client is sent the frames of everything the relay has sent, in its order,
\* each tool call with its stop frame and "[DONE]" once at the end, whatever the
\* buffer holds meanwhile; a failed write only cuts the end off
\* (ctx.go:71-87, 102-136).
WireFollowsRelay ==
  streaming =>
    LET all == FramesOf(sent) \o IF reader = "ended" THEN <<[kind |-> "done"]>> ELSE <<>>
    IN  IF failed THEN IsPrefix(wire, all)
        ELSE wire \o FramesOf(inHand) \o FramesOf(channel) = all

\* After a tool call a relay that heeds its context sends what belongs to the
\* same piece of the answer and no more: the call cancels the context before
\* the piece is over (ctor.go:209-221).
NothingAfterCall ==
  heeds =>
    \A j, k \in DOMAIN sent :
       sent[j].kind = "call" /\ j < k => sent[k].piece = sent[j].piece

\* The single response holds the first tool call and nothing else, or, without
\* one, all the text and reasoning the relay has sent (response.go:53-71).
AnswerIsWhole ==
  ~streaming /\ reader = "ended" =>
    LET calls == {k \in DOMAIN sent : sent[k].kind = "call"}
    IN  IF calls # {} THEN answer = <<sent[Min(calls)]>>
        ELSE answer = FlattenSeq([k \in DOMAIN sent |->
                        IF sent[k].kind \in {"text", "think"} THEN <<sent[k]>> ELSE <<>>])

\* Both sides come to their end: the relay closes its channel and the reader
\* sees it, unless the reader has left before (ctx.go:82-85, response.go:64-67).
BothEnd ==
  <>\/ closed /\ reader = "ended"
    \/ failed
    \/ ~streaming /\ reader = "ended" /\ \E k \in DOMAIN answer : answer[k].kind = "call"
=============================================================================
