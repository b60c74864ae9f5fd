--------------------------- MODULE DeliveryProofs ---------------------------
(***************************************************************************)
(* Proofs about Delivery, for every answer, every length of it and every   *)
(* capacity of the channel.                                                *)
(*                                                                         *)
(* Ordered says where each body is that the relay has sent: what is in     *)
(* hand and in the channel are the last ones of sent, in their order.      *)
(* Streamed and Gathered say what the reader has made of those before      *)
(* them, and CallsCancel what a tool call leaves the relay to do.          *)
(***************************************************************************)
EXTENDS Delivery, ListLemmas

Kinds  == {"call", "think", "text", "error", "eof"}
Bodies == [kind : Kinds, piece : Nat]
Frame  == Bodies \cup {[kind |-> "done"], [kind |-> "stop"]}

TypeOK ==
  /\ streaming \in BOOLEAN /\ heeds \in BOOLEAN
  /\ at \in Nat
  /\ todo \in Seq(Kinds \cup {"cancel"})
  /\ canceled \in BOOLEAN /\ closed \in BOOLEAN /\ failed \in BOOLEAN
  /\ channel \in Seq(Bodies) /\ sent \in Seq(Bodies)
  /\ inHand \in Seq(Bodies)
  /\ reader \in {"waiting", "busy", "ended"}
  /\ reader = "busy" => \E b \in Bodies : inHand = <<b>>
  /\ reader # "busy" => inHand = <<>>
  /\ wire \in Seq(Frame)
  /\ collected \in Seq(Bodies) /\ answer \in Seq(Bodies)

\* The relay has nothing left to do when it has closed the channel.
ClosedIsOver == closed => todo = <<>>

-----------------------------------------------------------------------------
(* The relay.                                                              *)

\* A tool call stands before the cancel of its context.
CallThenCancel(work) ==
  \A k \in 1 .. Len(work) :
    work[k] = "call" => k < Len(work) /\ work[k + 1] = "cancel"

\* Who has sent a call and heeds its context is at the piece of the call, and has
\* canceled the context or is about to.
CallsCancel ==
  /\ CallThenCancel(todo)
  /\ heeds => \A k \in 1 .. Len(sent) : sent[k].kind = "call" =>
       /\ canceled \/ (todo # <<>> /\ Head(todo) = "cancel")
       /\ \A m \in k .. Len(sent) : sent[m].piece = at

RInv == TypeOK /\ ClosedIsOver /\ CallsCancel

LEMMA WorkType ==
  ASSUME NEW piece \in Pieces
  PROVE  Work(piece) \in Seq(Kinds \cup {"cancel"}) /\ CallThenCancel(Work(piece))
<1> DEFINE A == Kinds \cup {"cancel"}
           B == A \ {"call"}
           think == IF piece.think THEN <<"think">> ELSE <<>>
           text == IF piece.text THEN <<"text">> ELSE <<>>
           err == IF piece.err = "none" THEN <<>> ELSE <<piece.err>>
           call == IF piece.call THEN <<"call", "cancel">> ELSE <<>>
           rest == think \o text \o err
<1>1. piece.err \in {"none", "error", "eof"}
  BY AnswerAssumption
<1>2. think \in Seq(B) /\ text \in Seq(B) /\ err \in Seq(B) /\ call \in Seq(A)
  <2>1. /\ {"think", "text", "error", "eof"} \subseteq B
        /\ "call" \in A /\ "cancel" \in A
    BY DEF Kinds
  <2> HIDE DEF A, B
  <2>2. <<>> \in Seq(B) /\ <<"think">> \in Seq(B) /\ <<"text">> \in Seq(B)
    BY <2>1
  <2>3. err \in Seq(B)
    BY <1>1, <2>1
  <2>4. call \in Seq(A)
    BY <2>1
  <2> QED
    BY <2>2, <2>3, <2>4
<1>3. Work(piece) = call \o think \o text \o err
  BY DEF Work
<1> HIDE DEF think, text, err, call
<1>4. rest \in Seq(B)
  BY <1>2, ConcatProperties
<1>5. think \in Seq(A) /\ text \in Seq(A) /\ err \in Seq(A) /\ rest \in Seq(A)
  BY <1>2, <1>4, SeqMonotonic
<1>6. Work(piece) = call \o rest
  <2>1. call \o think \o text = call \o (think \o text)
    <3>1. Regroups(call, think, text)
      BY ONLY <1>2, <1>5, Regrouping
    <3> QED
      BY ONLY <3>1 DEF Regroups
  <2>2. think \o text \in Seq(A)
    BY <1>5, ConcatProperties
  <2> DEFINE both == think \o text
  <2>3. (call \o both) \o err = call \o (both \o err)
    <3>1. both \in Seq(A) /\ call \in Seq(A) /\ err \in Seq(A)
      BY <1>2, <1>5, <2>2
    <3> HIDE DEF both, A
    <3>2. Regroups(call, both, err)
      BY <3>1, Regrouping
    <3> QED
      BY ONLY <3>2 DEF Regroups
  <2> QED
    BY <1>3, <2>1, <2>3
<1> HIDE DEF A, B, rest
<1>7. /\ Work(piece) \in Seq(A) /\ Len(Work(piece)) = Len(call) + Len(rest)
      /\ \A i \in 1 .. Len(call) + Len(rest) :
           Work(piece)[i] = IF i <= Len(call) THEN call[i] ELSE rest[i - Len(call)]
  BY <1>2, <1>5, <1>6, ConcatProperties
<1>8. Len(rest) \in Nat /\ \A i \in 1 .. Len(rest) : rest[i] # "call"
  BY <1>4, LenProperties, ElementOfSeq DEF B
<1>9. call = <<>> \/ call = <<"call", "cancel">>
  BY DEF call
<1>10. CallThenCancel(Work(piece))
  <2>1. CASE call = <<>>
    <3>1. Len(call) = 0
      BY <2>1
    <3> QED
      BY <1>7, <1>8, <3>1 DEF CallThenCancel
  <2>2. CASE call = <<"call", "cancel">>
    <3>1. Len(call) = 2 /\ call[1] = "call" /\ call[2] = "cancel"
      BY <2>2
    <3> QED
      BY <1>7, <1>8, <3>1 DEF CallThenCancel
  <2> QED
    BY <1>9, <2>1, <2>2
<1> QED
  BY <1>7, <1>10 DEF A

\* The frames of one body.
LEMMA FramesType ==
  ASSUME NEW b \in Bodies
  PROVE  Frames(b) \in Seq(Frame)
<1>1. b.kind \in Kinds /\ b.piece \in Nat
  BY DEF Bodies
<1>2. CASE b.kind = "eof"
  <2>1. Frames(b) = <<[kind |-> "done"]>>
    BY <1>2 DEF Frames
  <2> QED
    BY <2>1 DEF Frame
<1>3. CASE b.kind = "error"
  <2>1. Frames(b) = <<[kind |-> "error", piece |-> b.piece]>>
    BY <1>3 DEF Frames
  <2>2. [kind |-> "error", piece |-> b.piece] \in Frame
    BY <1>1 DEF Frame, Bodies, Kinds
  <2> QED
    BY <2>1, <2>2
<1>4. CASE b.kind = "call"
  <2>1. Frames(b) = <<b, [kind |-> "stop"]>>
    BY <1>4 DEF Frames
  <2> QED
    BY <2>1 DEF Frame
<1>5. CASE b.kind \notin {"eof", "error", "call"}
  <2>1. Frames(b) = <<b>>
    BY <1>5 DEF Frames
  <2> QED
    BY <2>1 DEF Frame
<1> QED
  BY <1>2, <1>3, <1>4, <1>5

LEMMA SentBody ==
  ASSUME TypeOK, todo # <<>>, Head(todo) # "cancel"
  PROVE  Body(Head(todo)) \in Bodies /\ Body(Head(todo)).piece = at
<1>1. Head(todo) \in Kinds \cup {"cancel"}
  BY HeadTailProperties DEF TypeOK
<1> QED
  BY <1>1 DEF Body, Bodies, TypeOK

LEMMA TypeStep ==
  ASSUME TypeOK, [Next]_vars
  PROVE  TypeOK'
<1> USE DEF setting
<1>1. CASE TakeUp
  <2>1. at' \in Nat
    BY <1>1 DEF TakeUp, TypeOK
  <2>2. todo' \in Seq(Kinds \cup {"cancel"})
    BY <1>1, WorkType DEF TakeUp
  <2> QED
    BY <1>1, <2>1, <2>2 DEF TakeUp, TypeOK
<1>2. CASE Cancel
  <2>1. todo' \in Seq(Kinds \cup {"cancel"})
    BY <1>2, HeadTailProperties DEF Cancel, TypeOK
  <2> QED
    BY <1>2, <2>1 DEF Cancel, TypeOK
<1>3. CASE Send
  <2> DEFINE body == Body(Head(todo))
  <2>1. todo' \in Seq(Kinds \cup {"cancel"})
    BY <1>3, HeadTailProperties DEF Send, TypeOK
  <2>2. body \in Bodies
    BY <1>3, SentBody DEF Send
  <2>3. /\ sent' = Append(sent, body)
        /\ \/ /\ channel = <<>> /\ reader = "waiting"
              /\ inHand' = <<body>> /\ reader' = "busy" /\ UNCHANGED channel
           \/ /\ channel' = Append(channel, body)
              /\ UNCHANGED <<inHand, reader>>
    BY <1>3 DEF Send
  <2> HIDE DEF body
  <2>4. sent' \in Seq(Bodies) /\ Append(channel, body) \in Seq(Bodies)
    BY <2>2, <2>3, AppendProperties DEF TypeOK
  <2>5. channel' \in Seq(Bodies) /\ inHand' \in Seq(Bodies)
    <3>1. channel' = channel \/ channel' = Append(channel, body)
      BY <2>3
    <3>2. inHand' = inHand \/ inHand' = <<body>>
      BY <2>3
    <3>3. <<body>> \in Seq(Bodies)
      BY <2>2
    <3>4. channel \in Seq(Bodies) /\ inHand \in Seq(Bodies)
      BY DEF TypeOK
    <3> QED
      BY <2>4, <3>1, <3>2, <3>3, <3>4
  <2>6. /\ reader' \in {"waiting", "busy", "ended"}
        /\ reader' = "busy" => \E b \in Bodies : inHand' = <<b>>
        /\ reader' # "busy" => inHand' = <<>>
    BY <2>2, <2>3 DEF TypeOK
  <2> QED
    BY <1>3, <2>1, <2>4, <2>5, <2>6 DEF Send, TypeOK
<1>4. CASE CloseChannel
  BY <1>4 DEF CloseChannel, TypeOK
<1>5. CASE Receive
  <2>1. channel' \in Seq(Bodies) /\ Head(channel) \in Bodies
    BY <1>5, HeadTailProperties DEF Receive, TypeOK
  <2> QED
    BY <1>5, <2>1 DEF Receive, TypeOK
<1>6. CASE Write
  <2>1. inHand[1] \in Bodies
    BY <1>6 DEF Write, TypeOK
  <2>2. Frames(inHand[1]) \in Seq(Frame) /\ Len(Frames(inHand[1])) \in Nat
    BY <2>1, FramesType, LenProperties
  <2>3. \A n \in 0 .. Len(Frames(inHand[1])) :
           SubSeq(Frames(inHand[1]), 1, n) \in Seq(Frame)
    BY <2>2, SubSeqProperties
  <2>4. wire' \in Seq(Frame)
    BY <1>6, <2>2, <2>3, ConcatProperties DEF Write, TypeOK
  <2>5. /\ UNCHANGED <<setting, at, todo, canceled, channel, closed, collected, answer, sent>>
        /\ inHand' = <<>> /\ reader' \in {"waiting", "ended"} /\ failed' \in BOOLEAN
    BY <1>6 DEF Write, TypeOK
  <2> QED
    BY <2>4, <2>5 DEF TypeOK
<1>7. CASE WriteEnd
  <2>1. Append(wire, [kind |-> "done"]) \in Seq(Frame)
    BY AppendProperties DEF TypeOK, Frame
  <2> QED
    BY <1>7, <2>1 DEF WriteEnd, AtEnd, TypeOK
<1>8. CASE Collect
  <2>1. inHand[1] \in Bodies
    BY <1>8 DEF Collect, TypeOK
  <2>2. collected' \in Seq(Bodies) /\ answer' \in Seq(Bodies)
    BY <1>8, <2>1, AppendProperties DEF Collect, TypeOK
  <2> QED
    BY <1>8, <2>2 DEF Collect, TypeOK
<1>9. CASE CollectEnd
  BY <1>9 DEF CollectEnd, AtEnd, TypeOK
<1>10. CASE UNCHANGED vars
  BY <1>10 DEF vars, TypeOK
<1> QED
  BY <1>1, <1>2, <1>3, <1>4, <1>5, <1>6, <1>7, <1>8, <1>9, <1>10
     DEF Next, RelayStep, ReaderStep

\* What no step of the reader touches.
LEMMA RelaySteps ==
  ASSUME TypeOK, ClosedIsOver, [Next]_vars
  PROVE  /\ UNCHANGED setting
         /\ \/ TakeUp \/ Cancel \/ Send
            \/ UNCHANGED <<at, todo, canceled, sent>>
         /\ ClosedIsOver'
BY DEF Next, RelayStep, ReaderStep, TakeUp, Cancel, Send, CloseChannel, Receive, Write,
       WriteEnd, Collect, CollectEnd, vars, ClosedIsOver, setting

LEMMA CallsStep ==
  ASSUME TypeOK, ClosedIsOver, CallsCancel, [Next]_vars
  PROVE  CallsCancel'
<1>1. UNCHANGED heeds
  BY RelaySteps DEF setting
<1>2. CASE TakeUp
  <2>1. CallThenCancel(todo)'
    BY <1>2, WorkType DEF TakeUp, CallThenCancel
  <2>2. heeds => \A k \in 1 .. Len(sent) : sent[k].kind # "call"
    BY <1>2 DEF TakeUp, GoesOn, CallsCancel
  <2> QED
    BY <1>1, <1>2, <2>1, <2>2 DEF TakeUp, CallsCancel
<1>3. ASSUME todo # <<>>, todo' = Tail(todo)
      PROVE  /\ CallThenCancel(todo)'
             /\ Head(todo) = "call" => todo' # <<>> /\ Head(todo') = "cancel"
  <2>1. /\ Len(todo) \in Nat \ {0} /\ Len(todo') = Len(todo) - 1
        /\ \A i \in 1 .. Len(todo') : todo'[i] = todo[i + 1]
        /\ Head(todo) = todo[1] /\ todo' \in Seq(Kinds \cup {"cancel"})
    BY <1>3, HeadTailProperties, EmptySeq, LenProperties DEF TypeOK
  <2>2. CallThenCancel(todo)'
    BY <2>1 DEF CallsCancel, CallThenCancel
  <2>3. ASSUME Head(todo) = "call"
        PROVE  todo' # <<>> /\ Head(todo') = "cancel"
    <3>1. 1 < Len(todo) /\ todo[2] = "cancel"
      BY <2>1, <2>3 DEF CallsCancel, CallThenCancel
    <3>2. todo' # <<>> /\ todo'[1] = "cancel"
      BY <2>1, <3>1
    <3> QED
      BY <2>1, <3>2
  <2> QED
    BY <2>2, <2>3
<1>4. CASE Cancel
  BY <1>1, <1>3, <1>4 DEF Cancel, CallsCancel
<1>5. CASE Send
  <2> DEFINE body == Body(Head(todo))
             n == Len(sent)
  <2>1. /\ todo # <<>> /\ Head(todo) # "cancel" /\ todo' = Tail(todo)
        /\ UNCHANGED <<at, canceled>> /\ sent' = Append(sent, body)
    BY <1>5 DEF Send
  <2>2. body \in Bodies /\ body.piece = at
    BY <2>1, SentBody
  <2>3. body.kind = Head(todo)
    BY DEF Body
  <2> HIDE DEF body
  <2>4. /\ n \in Nat /\ Len(sent') = n + 1 /\ sent'[n + 1] = body
        /\ \A k \in 1 .. n : sent'[k] = sent[k]
    BY <2>1, <2>2, AppendProperties, LenProperties DEF TypeOK
  <2>5. ASSUME heeds, NEW k \in 1 .. (n + 1), sent'[k].kind = "call"
        PROVE  /\ canceled \/ (todo' # <<>> /\ Head(todo') = "cancel")
               /\ \A m \in k .. (n + 1) : sent'[m].piece = at
    <3>1. CASE k = n + 1
      <4>1. body.kind = "call"
        BY <2>4, <2>5, <3>1
      <4>2. todo' # <<>> /\ Head(todo') = "cancel"
        BY <1>3, <2>1, <2>3, <4>1
      <4> QED
        BY <2>2, <2>4, <3>1, <4>2
    <3>2. CASE k # n + 1
      <4>1. k \in 1 .. n /\ sent[k].kind = "call"
        BY <2>4, <2>5, <3>2
      <4>2. canceled /\ \A m \in k .. n : sent[m].piece = at
        BY <2>1, <2>5, <4>1 DEF CallsCancel
      <4>3. \A m \in k .. (n + 1) : sent'[m].piece = at
        BY <2>2, <2>4, <4>1, <4>2
      <4> QED
        BY <4>2, <4>3
    <3> QED
      BY <3>1, <3>2
  <2> QED
    BY <1>1, <1>3, <2>1, <2>4, <2>5 DEF CallsCancel
<1>6. CASE UNCHANGED <<at, todo, canceled, sent>>
  BY <1>1, <1>6 DEF CallsCancel, CallThenCancel
<1> QED
  BY <1>2, <1>4, <1>5, <1>6, RelaySteps

-----------------------------------------------------------------------------
(* The frames and the text of several bodies.                              *)

FrameFcn == [b \in Bodies |-> Frames(b)]

LEMMA FrameFcnType == Maps(FrameFcn, Bodies, Frame)
BY FramesType DEF FrameFcn, Maps

LEMMA FramesAreImages ==
  ASSUME NEW s \in Seq(Bodies)
  PROVE  FramesOf(s) = FlattenSeq(Images(FrameFcn, s))
<1>1. \A k \in DOMAIN s : s[k] \in Bodies
  BY ElementOfSeq, LenProperties
<1>2. [k \in DOMAIN s |-> Frames(s[k])] = Images(FrameFcn, s)
  BY <1>1 DEF Images, FrameFcn
<1> QED
  BY <1>2 DEF FramesOf

LEMMA FramesEmpty == FramesOf(<<>>) = <<>>
<1>1. <<>> \in Seq(Bodies)
  OBVIOUS
<1> QED
  BY <1>1, FramesAreImages, FlatImagesEmpty

LEMMA FramesOne ==
  ASSUME NEW b \in Bodies
  PROVE  FramesOf(<<b>>) = Frames(b)
<1>1. <<b>> \in Seq(Bodies) /\ FrameFcn[b] = Frames(b)
  BY DEF FrameFcn
<1>2. FlattenSeq(Images(FrameFcn, <<b>>)) = FrameFcn[b]
  BY FrameFcnType, FlatImagesOne
<1> QED
  BY <1>1, <1>2, FramesAreImages

LEMMA FramesConcat ==
  ASSUME NEW s \in Seq(Bodies), NEW t \in Seq(Bodies)
  PROVE  /\ FramesOf(s \o t) = FramesOf(s) \o FramesOf(t)
         /\ FramesOf(s) \in Seq(Frame) /\ FramesOf(t) \in Seq(Frame)
<1>1. s \o t \in Seq(Bodies)
  BY ConcatProperties
<1>2. FlattenSeq(Images(FrameFcn, s \o t)) =
        FlattenSeq(Images(FrameFcn, s)) \o FlattenSeq(Images(FrameFcn, t))
  BY FrameFcnType, FlatImagesConcat
<1>3. /\ FlattenSeq(Images(FrameFcn, s)) \in Seq(Frame)
      /\ FlattenSeq(Images(FrameFcn, t)) \in Seq(Frame)
  BY FrameFcnType, FlatImagesType
<1> QED
  BY <1>1, <1>2, <1>3, FramesAreImages

\* What waitChannel collects of several bodies.
TextOf(bodies) ==
  FlattenSeq([k \in DOMAIN bodies |->
    IF bodies[k].kind \in {"text", "think"} THEN <<bodies[k]>> ELSE <<>>])

TextFcn == [b \in Bodies |-> IF b.kind \in {"text", "think"} THEN <<b>> ELSE <<>>]

LEMMA TextFcnType == Maps(TextFcn, Bodies, Bodies)
<1>1. \A b \in Bodies : <<b>> \in Seq(Bodies) /\ <<>> \in Seq(Bodies)
  OBVIOUS
<1> QED
  BY <1>1 DEF TextFcn, Maps

LEMMA TextIsImages ==
  ASSUME NEW s \in Seq(Bodies)
  PROVE  TextOf(s) = FlattenSeq(Images(TextFcn, s))
<1>1. \A k \in DOMAIN s : s[k] \in Bodies
  BY ElementOfSeq, LenProperties
<1>2. [k \in DOMAIN s |->
         IF s[k].kind \in {"text", "think"} THEN <<s[k]>> ELSE <<>>] = Images(TextFcn, s)
  BY <1>1 DEF Images, TextFcn
<1> QED
  BY <1>2 DEF TextOf

LEMMA TextEmpty == TextOf(<<>>) = <<>>
<1>1. <<>> \in Seq(Bodies)
  OBVIOUS
<1> QED
  BY <1>1, TextIsImages, FlatImagesEmpty

LEMMA TextAppend ==
  ASSUME NEW s \in Seq(Bodies), NEW b \in Bodies
  PROVE  TextOf(s \o <<b>>) =
           IF b.kind \in {"text", "think"} THEN Append(TextOf(s), b) ELSE TextOf(s)
<1>1. <<b>> \in Seq(Bodies) /\ s \o <<b>> \in Seq(Bodies)
  BY ConcatProperties
<1>2. TextOf(s \o <<b>>) = TextOf(s) \o FlattenSeq(Images(TextFcn, <<b>>))
  <2>1. FlattenSeq(Images(TextFcn, s \o <<b>>)) =
          FlattenSeq(Images(TextFcn, s)) \o FlattenSeq(Images(TextFcn, <<b>>))
    <3> DEFINE t == <<b>>
    <3>1. t \in Seq(Bodies)
      OBVIOUS
    <3> HIDE DEF t
    <3>2. FlattenSeq(Images(TextFcn, s \o t)) =
            FlattenSeq(Images(TextFcn, s)) \o FlattenSeq(Images(TextFcn, t))
      BY <3>1, TextFcnType, FlatImagesConcat
    <3> QED
      BY <3>2 DEF t
  <2> QED
    BY <1>1, <2>1, TextIsImages
<1>5. TextOf(s) \in Seq(Bodies)
  BY TextFcnType, TextIsImages, FlatImagesType
<1>3. FlattenSeq(Images(TextFcn, <<b>>)) = TextFcn[b]
  BY TextFcnType, FlatImagesOne
<1>4. TextFcn[b] = IF b.kind \in {"text", "think"} THEN <<b>> ELSE <<>>
  BY DEF TextFcn
<1> QED
  BY <1>2, <1>3, <1>4, <1>5, AppendIsConcat, ConcatEmptySeq

-----------------------------------------------------------------------------
(* The reader.                                                             *)

\* What the relay has sent and the reader is not through with.
InFlight == inHand \o channel

\* The reader is through with the bodies of taken.
Ordered(taken) == taken \in Seq(Bodies) /\ sent = taken \o InFlight

Done == [kind |-> "done"]

\* What the client has been sent: the frames of what was taken, all of them and the
\* end, or the first ones of them all.
Streamed ==
  streaming =>
    /\ ~failed /\ reader # "ended" =>
         \E taken : Ordered(taken) /\ wire = FramesOf(taken)
    /\ ~failed /\ reader = "ended" =>
         closed /\ InFlight = <<>> /\ wire = FramesOf(sent) \o <<Done>>
    /\ failed => reader = "ended" /\ \E rest \in Seq(Frame) : wire \o rest = FramesOf(sent)

NoCall(bodies) == \A k \in 1 .. Len(bodies) : bodies[k].kind # "call"

FirstCall(k) == sent[k].kind = "call" /\ \A m \in 1 .. (k - 1) : sent[m].kind # "call"

\* What has been collected, and what was answered with.
Gathered ==
  ~streaming =>
    /\ reader # "ended" =>
         \E taken : Ordered(taken) /\ NoCall(taken) /\ collected = TextOf(taken)
    /\ reader = "ended" =>
         \/ \E k \in 1 .. Len(sent) : FirstCall(k) /\ answer = <<sent[k]>>
         \/ closed /\ NoCall(sent) /\ answer = TextOf(sent)

IInv == RInv /\ Streamed /\ Gathered

LEMMA InitInv == Init => IInv
<1> SUFFICES ASSUME Init PROVE IInv
  OBVIOUS
<1>1. TypeOK
  <2>1. <<>> \in Seq(Kinds \cup {"cancel"}) /\ <<>> \in Seq(Bodies) /\ <<>> \in Seq(Frame)
    OBVIOUS
  <2>2. 0 \in Nat /\ FALSE \in BOOLEAN
    OBVIOUS
  <2>3. reader = "waiting" /\ reader # "busy"
    BY DEF Init
  <2> QED
    BY <2>1, <2>2, <2>3 DEF Init, TypeOK
<1>2. ClosedIsOver /\ CallsCancel
  BY DEF Init, ClosedIsOver, CallsCancel, CallThenCancel
<1>3. Ordered(<<>>) /\ reader # "ended" /\ ~failed
  <2>1. InFlight = <<>>
    BY DEF Init, InFlight
  <2> QED
    BY <2>1 DEF Init, Ordered
<1>4. Streamed
  BY <1>3, FramesEmpty DEF Init, Streamed
<1>5. Gathered
  <2>1. NoCall(<<>>)
    BY DEF NoCall
  <2> QED
    BY <1>3, <2>1, TextEmpty DEF Init, Gathered
<1> QED
  BY <1>1, <1>2, <1>4, <1>5 DEF IInv, RInv

\* The steps that leave to the reader what it has made.
Beside ==
  /\ UNCHANGED <<streaming, wire, failed, collected, answer>>
  /\ (reader' = "ended") = (reader = "ended")
  /\ closed => closed'

LEMMA SendFlies ==
  ASSUME TypeOK, ClosedIsOver, Send
  PROVE  /\ Beside /\ ~closed
         /\ \E b \in Bodies : /\ sent' = sent \o <<b>>
                              /\ InFlight' = InFlight \o <<b>>
<1> DEFINE body == Body(Head(todo))
<1>1. Beside /\ ~closed
  BY DEF Send, Beside, ClosedIsOver, setting
<1>2. body \in Bodies /\ sent' = Append(sent, body)
  BY SentBody DEF Send
<1>3. \/ /\ channel = <<>> /\ reader = "waiting"
         /\ inHand' = <<body>> /\ UNCHANGED channel
      \/ channel' = Append(channel, body) /\ UNCHANGED inHand
  BY DEF Send
<1> HIDE DEF body
<1>4. sent' = sent \o <<body>> /\ <<body>> \in Seq(Bodies)
  BY <1>2, AppendIsConcat DEF TypeOK
<1>5. CASE channel = <<>> /\ reader = "waiting" /\ inHand' = <<body>> /\ UNCHANGED channel
  <2>1. InFlight = <<>> /\ InFlight' = <<body>>
    BY <1>4, <1>5, ConcatEmptySeq DEF InFlight, TypeOK
  <2> QED
    BY <1>1, <1>2, <1>4, <2>1, ConcatEmptySeq
<1>6. CASE channel' = Append(channel, body) /\ UNCHANGED inHand
  <2>1. channel' = channel \o <<body>>
    BY <1>2, <1>6, AppendIsConcat DEF TypeOK
  <2>2. inHand \o (channel \o <<body>>) = (inHand \o channel) \o <<body>>
    <3> DEFINE x == <<body>>
    <3>1. inHand \in Seq(Bodies) /\ channel \in Seq(Bodies) /\ x \in Seq(Bodies)
      BY <1>4 DEF TypeOK
    <3> HIDE DEF x
    <3>2. Regroups(inHand, channel, x)
      BY <3>1, Regrouping
    <3> QED
      BY ONLY <3>2 DEF Regroups, x
  <2>3. InFlight' = InFlight \o <<body>>
    BY <1>6, <2>1, <2>2 DEF InFlight
  <2> QED
    BY <1>1, <1>2, <1>4, <2>3
<1> QED
  BY <1>3, <1>5, <1>6

LEMMA ReceiveFlies ==
  ASSUME TypeOK, Receive
  PROVE  Beside /\ UNCHANGED <<sent, InFlight>>
<1>1. /\ Beside /\ UNCHANGED sent
      /\ inHand = <<>> /\ channel # <<>>
      /\ inHand' = <<Head(channel)>> /\ channel' = Tail(channel)
  BY DEF Receive, Beside, TypeOK, setting
<1>2. channel = <<Head(channel)>> \o Tail(channel)
  BY <1>1, HeadTailProperties DEF TypeOK
<1>3. <<>> \o channel = channel
  BY ConcatEmptySeq DEF TypeOK
<1> QED
  BY <1>1, <1>2, <1>3 DEF InFlight

LEMMA Flights ==
  ASSUME TypeOK, ClosedIsOver, [Next]_vars
  PROVE  \/ Beside /\ UNCHANGED <<sent, InFlight>>
         \/ /\ Beside /\ ~closed
            /\ \E b \in Bodies : sent' = sent \o <<b>> /\ InFlight' = InFlight \o <<b>>
         \/ Write \/ WriteEnd \/ Collect \/ CollectEnd
<1>1. CASE TakeUp \/ Cancel \/ CloseChannel \/ UNCHANGED vars
  BY <1>1 DEF TakeUp, Cancel, CloseChannel, vars, setting, Beside, InFlight
<1> QED
  BY <1>1, SendFlies, ReceiveFlies DEF Next, RelayStep, ReaderStep

\* What was taken stays the first part of what was sent.
LEMMA OrderedStays ==
  ASSUME TypeOK, NEW taken, Ordered(taken), NEW b \in Bodies,
         sent' = sent \o <<b>>, InFlight' = InFlight \o <<b>>
  PROVE  Ordered(taken)'
<1>1. InFlight \in Seq(Bodies) /\ <<b>> \in Seq(Bodies) /\ taken \in Seq(Bodies)
  BY ConcatProperties DEF InFlight, TypeOK, Ordered
<1>2. (taken \o InFlight) \o <<b>> = taken \o (InFlight \o <<b>>)
  BY <1>1, ConcatAssociative
<1> QED
  BY <1>1, <1>2 DEF Ordered

\* When the reader is through with what it has in hand, that is taken too.
LEMMA OrderedTakes ==
  ASSUME TypeOK, NEW taken, Ordered(taken), NEW b, inHand = <<b>>,
         inHand' = <<>>, UNCHANGED <<sent, channel>>,
         NEW more, more = taken \o <<b>>
  PROVE  Ordered(more)'
<1>1. taken \in Seq(Bodies) /\ sent = taken \o (<<b>> \o channel)
  BY DEF Ordered, InFlight
<1>2. <<b>> \in Seq(Bodies) /\ channel \in Seq(Bodies)
  BY DEF TypeOK
<1>3. sent = (taken \o <<b>>) \o channel /\ taken \o <<b>> \in Seq(Bodies)
  BY <1>1, <1>2, ConcatAssociative, ConcatProperties
<1>4. InFlight' = channel
  BY <1>2, ConcatEmptySeq DEF InFlight
<1> QED
  BY <1>3, <1>4 DEF Ordered

\* Nothing is left of what was sent but what was taken.
LEMMA OrderedAll ==
  ASSUME TypeOK, AtEnd, NEW taken, Ordered(taken)
  PROVE  sent = taken /\ InFlight = <<>>
<1>1. inHand = <<>> /\ channel = <<>>
  BY DEF TypeOK, AtEnd
<1>2. InFlight = <<>>
  BY <1>1 DEF InFlight
<1> QED
  BY <1>2, ConcatEmptySeq DEF Ordered

LEMMA StreamedStep ==
  ASSUME TypeOK, ClosedIsOver, Streamed, [Next]_vars
  PROVE  Streamed'
<1>1. UNCHANGED streaming
  BY RelaySteps DEF setting
<1> SUFFICES ASSUME streaming PROVE Streamed'
  BY <1>1 DEF Streamed
<1>2. CASE Beside /\ UNCHANGED <<sent, InFlight>>
  BY <1>2 DEF Beside, Streamed, Ordered
<1>3. ASSUME Beside, ~closed, NEW b \in Bodies,
             sent' = sent \o <<b>>, InFlight' = InFlight \o <<b>>
      PROVE  Streamed'
  <2>1. ASSUME failed PROVE \E rest \in Seq(Frame) : wire \o rest = FramesOf(sent')
    <3>1. PICK rest \in Seq(Frame) : wire \o rest = FramesOf(sent)
      BY <2>1 DEF Streamed
    <3>2. <<b>> \in Seq(Bodies) /\ Frames(b) \in Seq(Frame)
      BY FramesType
    <3>3. FramesOf(sent') = FramesOf(sent) \o Frames(b)
      <4>1. sent \in Seq(Bodies) /\ sent' = sent \o <<b>>
        BY <1>3 DEF TypeOK
      <4>2. FramesOf(sent \o <<b>>) = FramesOf(sent) \o FramesOf(<<b>>)
        BY <3>2, <4>1, FramesConcat
      <4>3. FramesOf(<<b>>) = Frames(b)
        BY FramesOne
      <4> QED
        BY ONLY <4>1, <4>2, <4>3
    <3>4. (wire \o rest) \o Frames(b) = wire \o (rest \o Frames(b))
      <4>1. wire \in Seq(Frame)
        BY DEF TypeOK
      <4> QED
        <5> DEFINE x == Frames(b)
        <5>1. x \in Seq(Frame)
          BY <3>2
        <5> HIDE DEF x
        <5>2. Regroups(wire, rest, x)
          BY <4>1, <5>1, Regrouping
        <5> QED
          BY ONLY <5>2 DEF Regroups, x
    <3>5. rest \o Frames(b) \in Seq(Frame)
      BY <3>2, ConcatProperties
    <3> QED
      BY <3>1, <3>3, <3>4, <3>5
  <2>2. ASSUME ~failed, reader # "ended"
        PROVE  \E taken : Ordered(taken)' /\ wire = FramesOf(taken)
    <3>1. PICK taken : Ordered(taken) /\ wire = FramesOf(taken)
      BY <2>2 DEF Streamed
    <3> QED
      BY <1>3, <3>1, OrderedStays
  <2>3. ~failed => reader # "ended"
    BY <1>3 DEF Streamed
  <2> QED
    BY <1>3, <2>1, <2>2, <2>3 DEF Streamed, Beside
<1>4. ASSUME Write PROVE Streamed'
  <2>1. PICK b \in Bodies : inHand = <<b>>
    BY <1>4 DEF Write, TypeOK
  <2> DEFINE f == Frames(b)
  <2>2. PICK taken : Ordered(taken) /\ wire = FramesOf(taken) /\ ~failed
    BY <1>4 DEF Write, Streamed
  <2>3. inHand' = <<>> /\ UNCHANGED <<sent, channel>>
    BY <1>4 DEF Write
  <2>4. f \in Seq(Frame) /\ Len(f) \in Nat
    BY FramesType, LenProperties
  <2>5. \/ wire' = wire \o f /\ reader' = "waiting" /\ failed' = failed
        \/ /\ \E n \in 0 .. Len(f) : wire' = wire \o SubSeq(f, 1, n)
           /\ reader' = "ended" /\ failed' = TRUE
    BY <1>4, <2>1 DEF Write
  <2>6. taken \in Seq(Bodies) /\ <<b>> \in Seq(Bodies) /\ channel \in Seq(Bodies)
    BY <2>2 DEF Ordered, TypeOK
  <2>7. FramesOf(taken \o <<b>>) = FramesOf(taken) \o f
    <3> DEFINE one == <<b>>
    <3>1. taken \in Seq(Bodies) /\ one \in Seq(Bodies)
      BY ONLY <2>6
    <3>2. FramesOf(one) = f
      BY FramesOne
    <3> HIDE DEF one, f
    <3>3. FramesOf(taken \o one) = FramesOf(taken) \o FramesOf(one)
      BY ONLY <3>1, FramesConcat
    <3> QED
      BY ONLY <3>2, <3>3 DEF one
  <2>8. CASE wire' = wire \o f /\ reader' = "waiting" /\ failed' = failed
    <3>1. Ordered(taken \o <<b>>)'
      <4>1. \A more : more = taken \o <<b>> => Ordered(more)'
        BY <2>1, <2>2, <2>3, OrderedTakes
      <4> QED
        BY <4>1 DEF Ordered
    <3>2. wire' = FramesOf(taken \o <<b>>)
      BY <2>2, <2>7, <2>8
    <3> QED
      BY <2>2, <2>8, <3>1, <3>2 DEF Streamed
  <2>9. ASSUME NEW n \in 0 .. Len(f), wire' = wire \o SubSeq(f, 1, n),
               reader' = "ended", failed' = TRUE
        PROVE  Streamed'
    <3> DEFINE first == SubSeq(f, 1, n)
               second == SubSeq(f, n + 1, Len(f))
               later == FramesOf(channel)
               done == FramesOf(taken)
    <3>1. f = first \o second /\ first \in Seq(Frame) /\ second \in Seq(Frame)
      <4>1. f = SubSeq(f, 1, Len(f))
        BY <2>4, SubSeqFull
      <4>2. SubSeq(f, 1, n) \o SubSeq(f, n + 1, Len(f)) = SubSeq(f, 1, Len(f))
        <5>1. 1 \in 1 .. (Len(f) + 1) /\ n \in (1 - 1) .. Len(f) /\ Len(f) \in n .. Len(f)
          BY <2>4
        <5> HIDE DEF f
        <5> QED
          BY <2>4, <5>1, ConcatAdjacentSubSeq
      <4>3. first \in Seq(Frame) /\ second \in Seq(Frame)
        BY <2>4, SubSeqProperties
      <4> QED
        BY <4>1, <4>2, <4>3
    <3>2. later \in Seq(Frame) /\ done \in Seq(Frame)
      BY <2>6, FramesConcat
    <3>3. sent = (taken \o <<b>>) \o channel /\ taken \o <<b>> \in Seq(Bodies)
      <4>1. sent = taken \o (<<b>> \o channel)
        BY <2>1, <2>2 DEF Ordered, InFlight
      <4> QED
        <5> DEFINE x == <<b>>
        <5>1. taken \in Seq(Bodies) /\ x \in Seq(Bodies) /\ channel \in Seq(Bodies)
          BY <2>6
        <5>2. sent = taken \o (x \o channel)
          BY <4>1
        <5> HIDE DEF x
        <5>3. Regroups(taken, x, channel)
          BY <5>1, Regrouping
        <5>4. taken \o x \in Seq(Bodies)
          BY <5>1, ConcatProperties
        <5>5. sent = (taken \o x) \o channel
          BY ONLY <5>2, <5>3 DEF Regroups
        <5> QED
          BY <5>4, <5>5 DEF x
    <3>4. FramesOf(sent) = (done \o f) \o later
      BY <2>6, <2>7, <3>3, FramesConcat
    <3> HIDE DEF f, first, second, later, done
    <3>5. (done \o f) \o later = (done \o first) \o (second \o later)
      <4>1. done \o f = (done \o first) \o second
        <5>1. Regroups(done, first, second)
          BY <3>1, <3>2, Regrouping
        <5> QED
          BY ONLY <3>1, <5>1 DEF Regroups
      <4>2. done \o first \in Seq(Frame)
        BY <3>1, <3>2, ConcatProperties
      <4> QED
        <5>1. ((done \o first) \o second) \o later = (done \o first) \o (second \o later)
          <6> DEFINE x == done \o first
          <6>1. x \in Seq(Frame)
            BY <4>2
          <6> HIDE DEF x
          <6>2. (x \o second) \o later = x \o (second \o later)
            <7>1. Regroups(x, second, later)
              BY <3>1, <3>2, <6>1, Regrouping
            <7> QED
              BY ONLY <7>1 DEF Regroups
          <6> QED
            BY <6>2 DEF x
        <5> QED
          BY <4>1, <5>1
    <3>6. wire' = done \o first
      BY <2>2, <2>9 DEF first, done
    <3>7. second \o later \in Seq(Frame)
      BY <3>1, <3>2, ConcatProperties
    <3>8. wire' \o (second \o later) = FramesOf(sent)
      BY <3>4, <3>5, <3>6
    <3> QED
      BY <2>3, <2>9, <3>7, <3>8 DEF Streamed
  <2> QED
    BY <2>5, <2>8, <2>9
<1>5. ASSUME WriteEnd PROVE Streamed'
  <2>1. AtEnd /\ UNCHANGED <<sent, inHand, channel, closed>> /\ closed
    BY <1>5 DEF WriteEnd, AtEnd
  <2>2. PICK taken : Ordered(taken) /\ wire = FramesOf(taken) /\ ~failed
    BY <2>1 DEF AtEnd, Streamed
  <2>3. wire = FramesOf(sent) /\ InFlight' = <<>> /\ closed'
    BY <2>1, <2>2, OrderedAll DEF InFlight
  <2>4. CASE wire' = Append(wire, Done) /\ UNCHANGED failed
    <3>1. wire' = wire \o <<Done>>
      BY <2>4, AppendIsConcat DEF TypeOK, Done, Frame
    <3> QED
      BY <1>5, <2>1, <2>2, <2>3, <2>4, <3>1 DEF Streamed, WriteEnd
  <2>5. CASE failed' = TRUE /\ UNCHANGED wire
    <3>1. wire \o <<>> = wire /\ <<>> \in Seq(Frame)
      BY ConcatEmptySeq DEF TypeOK
    <3> QED
      BY <1>5, <2>1, <2>3, <2>5, <3>1 DEF Streamed, WriteEnd
  <2> QED
    BY <1>5, <2>4, <2>5 DEF WriteEnd, Done
<1> QED
  BY <1>2, <1>3, <1>4, <1>5, Flights DEF Collect, CollectEnd

LEMMA GatheredStep ==
  ASSUME TypeOK, ClosedIsOver, Gathered, [Next]_vars
  PROVE  Gathered'
<1>1. UNCHANGED streaming
  BY RelaySteps DEF setting
<1> SUFFICES ASSUME ~streaming PROVE Gathered'
  BY <1>1 DEF Gathered
<1>2. CASE Beside /\ UNCHANGED <<sent, InFlight>>
  BY <1>2 DEF Beside, Gathered, Ordered, FirstCall
<1>3. ASSUME Beside, ~closed, NEW b \in Bodies,
             sent' = sent \o <<b>>, InFlight' = InFlight \o <<b>>
      PROVE  Gathered'
  <2>1. CASE reader # "ended"
    <3>1. PICK taken : Ordered(taken) /\ NoCall(taken) /\ collected = TextOf(taken)
      BY <2>1 DEF Gathered
    <3>2. Ordered(taken)'
      BY <1>3, <3>1, OrderedStays
    <3> QED
      BY <1>3, <2>1, <3>1, <3>2 DEF Gathered, Beside
  <2>2. CASE reader = "ended"
    <3>1. PICK k \in 1 .. Len(sent) : FirstCall(k) /\ answer = <<sent[k]>>
      BY <1>3, <2>2 DEF Gathered
    <3>2. Len(sent) \in Nat /\ Len(sent') = Len(sent) + 1
          /\ \A m \in 1 .. Len(sent) : sent'[m] = sent[m]
      <4>1. sent' = Append(sent, b)
        BY <1>3, AppendIsConcat DEF TypeOK
      <4> QED
        BY <4>1, AppendProperties, LenProperties DEF TypeOK
    <3>3. k \in 1 .. Len(sent') /\ FirstCall(k)' /\ answer' = <<sent'[k]>>
      BY <1>3, <3>1, <3>2 DEF FirstCall, Beside
    <3> QED
      BY <1>3, <2>2, <3>3 DEF Gathered, Beside
  <2> QED
    BY <2>1, <2>2
<1>4. ASSUME Collect PROVE Gathered'
  <2>1. PICK b \in Bodies : inHand = <<b>>
    BY <1>4 DEF Collect, TypeOK
  <2>2. PICK taken : Ordered(taken) /\ NoCall(taken) /\ collected = TextOf(taken)
    BY <1>4 DEF Collect, Gathered
  <2>3. /\ inHand' = <<>> /\ UNCHANGED <<sent, channel>>
        /\ collected' = IF b.kind \in {"text", "think"} THEN Append(collected, b) ELSE collected
        /\ answer' = IF b.kind = "call" THEN <<b>> ELSE answer
        /\ reader' = IF b.kind = "call" THEN "ended" ELSE "waiting"
    BY <1>4, <2>1 DEF Collect
  <2> DEFINE t == taken \o <<b>>
             n == Len(taken)
  <2>4. /\ taken \in Seq(Bodies) /\ n \in Nat /\ t \in Seq(Bodies) /\ Len(t) = n + 1
        /\ t[n + 1] = b /\ \A k \in 1 .. n : t[k] = taken[k]
    <3>1. taken \in Seq(Bodies)
      BY <2>2 DEF Ordered
    <3>2. t = Append(taken, b)
      BY <3>1, AppendIsConcat
    <3> QED
      BY <3>1, <3>2, AppendProperties, LenProperties
  <2>5. TextOf(t) = IF b.kind \in {"text", "think"} THEN Append(TextOf(taken), b)
                    ELSE TextOf(taken)
    BY <2>4, TextAppend
  <2>6. Ordered(t)'
    <3>1. \A more : more = taken \o <<b>> => Ordered(more)'
      BY <2>1, <2>2, <2>3, OrderedTakes
    <3> QED
      BY <3>1 DEF Ordered
  <2> HIDE DEF t
  <2>7. CASE b.kind = "call"
    <3>1. InFlight' \in Seq(Bodies) /\ sent = t \o InFlight'
      <4>1. InFlight' = channel
        BY <2>3, ConcatEmptySeq DEF InFlight, TypeOK
      <4> QED
        BY <2>3, <2>6, <4>1 DEF Ordered, TypeOK
    <3> DEFINE u == InFlight'
    <3> HIDE DEF u
    <3>2. Len(u) \in Nat /\ Len(sent) = n + 1 + Len(u)
          /\ \A k \in 1 .. (n + 1) : sent[k] = t[k]
      <4>1. u \in Seq(Bodies) /\ sent = t \o u
        BY <3>1 DEF u
      <4> QED
        BY <2>4, <4>1, ConcatProperties, LenProperties
    <3>3. FirstCall(n + 1) /\ sent[n + 1] = b /\ n + 1 \in 1 .. Len(sent)
      BY <2>2, <2>4, <2>7, <3>2 DEF FirstCall, NoCall
    <3>4. \E k \in 1 .. Len(sent') : FirstCall(k)' /\ answer' = <<sent'[k]>>
      BY <2>3, <2>7, <3>3 DEF FirstCall
    <3> QED
      BY <2>3, <2>7, <3>4 DEF Gathered
  <2>8. CASE b.kind # "call"
    <3>1. NoCall(t)
      BY <2>2, <2>4, <2>8 DEF NoCall
    <3>2. collected' = TextOf(t)
      BY <2>2, <2>3, <2>5
    <3> QED
      BY <2>3, <2>6, <2>8, <3>1, <3>2 DEF Gathered
  <2> QED
    BY <2>7, <2>8
<1>5. ASSUME CollectEnd PROVE Gathered'
  <2>1. AtEnd /\ UNCHANGED <<sent, closed>> /\ closed /\ answer' = collected
        /\ reader' = "ended"
    BY <1>5 DEF CollectEnd, AtEnd
  <2>2. PICK taken : Ordered(taken) /\ NoCall(taken) /\ collected = TextOf(taken)
    BY <2>1 DEF AtEnd, Gathered
  <2>3. sent = taken
    BY <2>1, <2>2, OrderedAll
  <2> QED
    BY <2>1, <2>2, <2>3 DEF Gathered
<1> QED
  BY <1>2, <1>3, <1>4, <1>5, Flights DEF Write, WriteEnd

-----------------------------------------------------------------------------
(* What they come to.                                                      *)

\* The inductive invariant of the delivery.
THEOREM Invariant == Spec => []IInv
<1>1. Init => IInv
  BY InitInv
<1>2. IInv /\ [Next]_vars => IInv'
  BY TypeStep, RelaySteps, CallsStep, StreamedStep, GatheredStep DEF IInv, RInv
<1> QED
  BY <1>1, <1>2, PTL DEF Spec

\* The variables keep to their types.
THEOREM TypeCorrect == Spec => []TypeOK
<1>1. IInv => TypeOK
  BY DEF IInv, RInv
<1> QED
  BY <1>1, Invariant, PTL

\* A relay that heeds its context sends nothing more after the piece of the
\* answer that called a tool (ctor.go:209-221).
THEOREM CallIsLast == Spec => []NothingAfterCall
<1>1. IInv => NothingAfterCall
  <2> SUFFICES ASSUME IInv, heeds, NEW j \in DOMAIN sent, NEW k \in DOMAIN sent,
                      sent[j].kind = "call", j < k
               PROVE  sent[k].piece = sent[j].piece
    BY DEF NothingAfterCall
  <2>1. DOMAIN sent = 1 .. Len(sent) /\ Len(sent) \in Nat
    BY LenProperties DEF IInv, RInv, TypeOK
  <2>2. \A m \in j .. Len(sent) : sent[m].piece = at
    BY <2>1 DEF IInv, RInv, CallsCancel
  <2> QED
    BY <2>1, <2>2
<1> QED
  BY <1>1, Invariant, PTL

LEMMA PrefixOfConcat ==
  ASSUME NEW S, NEW s \in Seq(S), NEW t \in Seq(S)
  PROVE  IsPrefix(s, s \o t)
<1>1. /\ Len(s) \in Nat /\ Len(t) \in Nat /\ Len(s \o t) = Len(s) + Len(t)
      /\ s \o t \in Seq(S)
  BY ConcatProperties, LenProperties
<1>2. SubSeq(s \o t, 1, Len(s)) = s
  <2>1. SubSeq(s \o t, 1, Len(s)) = SubSeq(s, 1, Len(s))
    BY <1>1, SubSeqOfConcat1
  <2> QED
    BY <2>1, SubSeqFull
<1> QED
  BY <1>1, <1>2 DEF IsPrefix

\* The client is sent the frames of all that the relay has sent, in its order, to
\* the end or to where a write has failed (ctx.go:71-87, 102-136).
THEOREM ClientFollows == Spec => []WireFollowsRelay
<1>1. IInv => WireFollowsRelay
  <2> SUFFICES ASSUME IInv, streaming PROVE WireFollowsRelay
    BY DEF WireFollowsRelay
  <2> DEFINE all == FramesOf(sent)
             end == IF reader = "ended" THEN <<Done>> ELSE <<>>
  <2>1. TypeOK /\ Streamed
    BY DEF IInv, RInv
  <2>2. /\ all \in Seq(Frame) /\ end \in Seq(Frame) /\ wire \in Seq(Frame)
        /\ all \o <<>> = all
    <3>1. <<Done>> \in Seq(Frame) /\ <<>> \in Seq(Frame)
      BY DEF Frame, Done
    <3>2. all \in Seq(Frame)
      BY <2>1, FramesConcat DEF TypeOK
    <3> QED
      BY <2>1, <3>1, <3>2, ConcatEmptySeq DEF TypeOK
  <2>3. ASSUME failed PROVE IsPrefix(wire, all \o end)
    <3>1. PICK rest \in Seq(Frame) : wire \o rest = all
      BY <2>1, <2>3 DEF Streamed
    <3> HIDE DEF all, end
    <3>2. all \o end = wire \o (rest \o end) /\ rest \o end \in Seq(Frame)
      <4>1. rest \in Seq(Frame) /\ end \in Seq(Frame) /\ wire \in Seq(Frame)
        BY <2>2
      <4>2. (wire \o rest) \o end = wire \o (rest \o end)
        BY <4>1, ConcatAssociative
      <4> QED
        BY <3>1, <4>1, <4>2, ConcatProperties
    <3> QED
      BY <2>2, <3>2, PrefixOfConcat
  <2>4. ASSUME ~failed PROVE wire \o FramesOf(inHand) \o FramesOf(channel) = all \o end
    <3>1. CASE reader = "ended"
      <4>1. wire = all \o end /\ inHand = <<>> /\ InFlight = <<>>
        BY <2>1, <2>4, <3>1 DEF Streamed, TypeOK
      <4>2. channel = <<>>
        BY <2>1, <4>1, ConcatEmptySeq DEF InFlight, TypeOK
      <4> QED
        BY <2>2, <4>1, <4>2, FramesEmpty, ConcatEmptySeq
    <3>2. CASE reader # "ended"
      <4>1. PICK taken : Ordered(taken) /\ wire = FramesOf(taken)
        BY <2>1, <2>4, <3>2 DEF Streamed
      <4>2. /\ taken \in Seq(Bodies) /\ inHand \in Seq(Bodies) /\ channel \in Seq(Bodies)
            /\ sent = taken \o (inHand \o channel)
        BY <2>1, <4>1 DEF Ordered, InFlight, TypeOK
      <4>3. sent = (taken \o inHand) \o channel /\ taken \o inHand \in Seq(Bodies)
        <5>1. Regroups(taken, inHand, channel)
          BY <4>2, Regrouping
        <5>2. sent = (taken \o inHand) \o channel
          BY ONLY <4>2, <5>1 DEF Regroups
        <5> QED
          BY <4>2, <5>2, ConcatProperties
      <4>4. all = (FramesOf(taken) \o FramesOf(inHand)) \o FramesOf(channel)
        BY <4>2, <4>3, FramesConcat
      <4> QED
        BY <2>2, <3>2, <4>1, <4>4
    <3> QED
      BY <3>1, <3>2
  <2> QED
    BY <2>3, <2>4 DEF WireFollowsRelay, Done
<1> QED
  BY <1>1, Invariant, PTL

\* One response holds the first tool call alone, or else all the text and the
\* reasoning that was sent (response.go:53-71).
THEOREM ResponseIsWhole == Spec => []AnswerIsWhole
<1>1. IInv => AnswerIsWhole
  <2> SUFFICES ASSUME IInv, ~streaming, reader = "ended" PROVE AnswerIsWhole
    BY DEF AnswerIsWhole
  <2> DEFINE calls == {k \in DOMAIN sent : sent[k].kind = "call"}
  <2>1. TypeOK /\ Gathered /\ DOMAIN sent = 1 .. Len(sent) /\ Len(sent) \in Nat
    BY LenProperties DEF IInv, RInv, TypeOK
  <2>2. ASSUME NEW k \in 1 .. Len(sent), FirstCall(k), answer = <<sent[k]>>
        PROVE  calls # {} /\ answer = <<sent[Min(calls)]>>
    <3>1. k \in calls /\ \A m \in calls : k <= m
      BY <2>1, <2>2 DEF FirstCall
    <3>2. \A m \in calls : m \in Int
      BY <2>1
    <3> HIDE DEF calls
    <3>3. Min(calls) \in calls /\ \A m \in calls : Min(calls) <= m
      <4>1. \E x \in calls : \A y \in calls : x <= y
        BY <3>1
      <4> QED
        BY <4>1 DEF Min
    <3>4. Min(calls) = k
      <4>1. Min(calls) <= k /\ k <= Min(calls) /\ k \in Int /\ Min(calls) \in Int
        BY <3>1, <3>2, <3>3
      <4> QED
        BY <4>1
    <3> QED
      BY <2>2, <3>1, <3>4
  <2>3. ASSUME NoCall(sent), answer = TextOf(sent)
        PROVE  calls = {} /\ answer = TextOf(sent)
    BY <2>1, <2>3 DEF NoCall
  <2> QED
    BY <2>1, <2>2, <2>3 DEF Gathered, AnswerIsWhole, TextOf
<1> QED
  BY <1>1, Invariant, PTL
=============================================================================
