------------------------ MODULE InterceptorsProofs ------------------------
(***************************************************************************)
(* Proofs about Interceptors, for every configuration and every way to cut *)
(* a stream in chunks.                                                     *)
(*                                                                         *)
(* StreamInv: what was sent and what the caches hold, from the last one to *)
(* the first, is the input until a matcher hits, and embeds in it until    *)
(* one hits that makes text.                                               *)
(* CleanStream: as long as no configured matcher has hit, no end mark is   *)
(* left in what was sent, also where a cache is put before a chunk.        *)
(* ThinkInv: what the think matcher remembers is the reasoning it has in   *)
(* its cache, and a panic has its cause.  CallInv: the cache for tool      *)
(* calls is empty or begins with the mark, as long as no reasoning opened. *)
(***************************************************************************)
EXTENDS Interceptors, ListLemmas, FiniteSetTheorems

-----------------------------------------------------------------------------
(* The chain.                                                              *)

Matchers == {[kind |-> "configured", find |-> o.match, obj |-> o] : o \in Entries}

\* One turn of the loop of initInterceptor.
Turn(before, o) ==
  IF (before # <<>> /\ Last(before).obj.over # <<>>) \/ o.regex = "none" THEN before
  ELSE Append(before, [kind |-> "configured", find |-> o.match, obj |-> o])

Making(f) ==
  f = [k \in 0 .. Len(Objs) |-> IF k = 0 THEN <<>> ELSE Turn(f[k - 1], Objs[k])]

LEMMA ConstructedValue ==
  ASSUME NEW g, Making(g)
  PROVE  \E f : Making(f) /\ Constructed = f[Len(Objs)]
BY DEF Constructed, Making, Turn

LEMMA TurnType ==
  ASSUME NEW l \in Seq(Matchers), NEW o \in Entries
  PROVE  Turn(l, o) \in Seq(Matchers)
<1> DEFINE e == [kind |-> "configured", find |-> o.match, obj |-> o]
<1>1. e \in Matchers
  BY DEF Matchers
<1> HIDE DEF e
<1>2. Append(l, e) \in Seq(Matchers)
  BY <1>1, AppendProperties
<1> QED
  BY <1>2 DEF Turn, e

LEMMA ConstructedType == Constructed \in Seq(Matchers)
<1> DEFINE n == Len(Objs)
           V == Seq(Matchers)
           g == [x \in (1 .. n) \X V |-> Turn(x[2], Objs[x[1]])]
<1>1. n \in Nat /\ \A k \in 1 .. n : Objs[k] \in Entries
  BY StreamAssumption, LenProperties, ElementOfSeq
<1>2. <<>> \in V
  OBVIOUS
<1>3. \A k \in 1 .. n, l \in V : Turn(l, Objs[k]) \in V
  BY <1>1, TurnType
<1> HIDE DEF V
<1>4. g \in [(1 .. n) \X V -> V]
  BY <1>3
<1>5. PICK f \in [0 .. n -> V] : Follows(f, n, <<>>, g)
  <2> HIDE DEF g, n
  <2> QED
    BY <1>1, <1>2, <1>4, Recursion
<1>6. ASSUME NEW k \in 1 .. n PROVE f[k] = Turn(f[k - 1], Objs[k])
  <2>1. f[k] = g[<<k, f[k - 1]>>]
    BY <1>5 DEF Follows
  <2>2. f[k - 1] \in V
    BY <1>1, <1>5
  <2> QED
    BY <2>1, <2>2
<1>7. f[0] = <<>>
  BY <1>5 DEF Follows
<1>8. Making(f)
  <2>1. \A k \in 0 .. n : f[k] = IF k = 0 THEN <<>> ELSE Turn(f[k - 1], Objs[k])
    <3>1. \A k \in 0 .. n : k # 0 => k \in 1 .. n
      BY <1>1
    <3> QED
      BY <1>6, <1>7, <3>1
  <2> QED
    BY <1>5, <2>1 DEF Making
<1>9. PICK h : Making(h) /\ Constructed = h[n]
  BY <1>8, ConstructedValue
<1>10. h[0] = <<>> /\ \A k \in 1 .. n : h[k] = Turn(h[k - 1], Objs[k])
  BY <1>1, <1>9 DEF Making
<1> DEFINE T == {k \in 0 .. n : h[k] = f[k]}
<1>11. 0 \in T
  BY <1>1, <1>7, <1>10
<1>12. ASSUME NEW k \in 0 .. n, k \in T, k < n PROVE k + 1 \in T
  <2>1. k + 1 \in 1 .. n /\ (k + 1) - 1 = k
    BY <1>1, <1>12
  <2>2. h[k + 1] = Turn(h[k], Objs[k + 1]) /\ f[k + 1] = Turn(f[k], Objs[k + 1])
    BY <1>6, <1>10, <2>1
  <2> QED
    BY <1>12, <2>1, <2>2
<1>13. 0 .. n \subseteq T
  <2> HIDE DEF T, n
  <2>1. 0 \in Int /\ n \in Int
    BY <1>1
  <2>2. \A k \in 0 .. n : k \in T /\ k < n => k + 1 \in T
    BY <1>12
  <2> QED
    BY <1>11, <2>1, <2>2, InductionUpTo
<1>14. h[n] = f[n] /\ f[n] \in V
  BY <1>1, <1>5, <1>13
<1> QED
  BY <1>9, <1>14 DEF V

Size == Len(Chain)

LEMMA ChainIs ==
  /\ Size \in Nat /\ Size >= 3 /\ DOMAIN Chain = 1 .. Size
  /\ Chain[1].kind = "think" /\ Chain[1].find = ThinkOpen
  /\ Chain[2].kind = "call"  /\ Chain[2].find = CallOpen
  /\ Chain[3].kind = "end"   /\ Chain[3].find = ImEnd
  /\ \A i \in 4 .. Size : Chain[i] \in Matchers
<1> DEFINE one   == [kind |-> "think", find |-> ThinkOpen]
           two   == [kind |-> "call",  find |-> CallOpen]
           three == [kind |-> "end",   find |-> ImEnd]
           first == <<one, two, three>>
           c     == Constructed
           S     == Matchers \cup {one, two, three}
<1> HIDE DEF one, two, three, c
<1>1. c \in Seq(Matchers)
  BY ConstructedType DEF c
<1>2. Len(c) \in Nat /\ \A k \in 1 .. Len(c) : c[k] \in Matchers
  BY <1>1, LenProperties, ElementOfSeq
<1>3. first \in Seq(S) /\ Len(first) = 3 /\ first[1] = one /\ first[2] = two /\ first[3] = three
  OBVIOUS
<1>4. c \in Seq(S)
  <2>1. \A k \in 1 .. Len(c) : c[k] \in S
    BY <1>2
  <2> QED
    BY <1>1, <1>2, <2>1, SeqDef
<1> HIDE DEF first, S
<1>5. first \o c \in Seq(S) /\ Len(first \o c) = Len(first) + Len(c)
      /\ \A i \in 1 .. (Len(first) + Len(c)) :
           (first \o c)[i] = IF i <= Len(first) THEN first[i] ELSE c[i - Len(first)]
  BY <1>3, <1>4, ConcatProperties
<1>6. Chain = first \o c
  BY DEF Chain, first, one, two, three, c
<1>7. Size = 3 + Len(c) /\ DOMAIN Chain = 1 .. Size
  BY <1>3, <1>5, <1>6, LenProperties DEF Size
<1>8. \A i \in 1 .. Size : Chain[i] = IF i <= 3 THEN first[i] ELSE c[i - 3]
  BY <1>3, <1>5, <1>6, <1>7
<1>9. Chain[1] = one /\ Chain[2] = two /\ Chain[3] = three
  BY <1>2, <1>3, <1>7, <1>8
<1>10. ASSUME NEW i \in 4 .. Size PROVE Chain[i] \in Matchers
  <2>1. i \in 1 .. Size /\ ~ (i <= 3) /\ i - 3 \in 1 .. Len(c)
    BY <1>2, <1>7
  <2> QED
    BY <1>2, <1>8, <2>1
<1> QED
  BY <1>2, <1>7, <1>9, <1>10 DEF one, two, three

-----------------------------------------------------------------------------
(* What a matcher does to the work of a call.                              *)

IsWork(w) ==
  /\ DOMAIN w = {"text", "cache", "mem", "put", "live", "panic", "hits"}
  /\ w = [x \in DOMAIN w |-> w[x]]
  /\ w.cache = [i \in DOMAIN Chain |-> w.cache[i]]
  /\ w.hits \in [DOMAIN Chain -> Nat]
  /\ w.live \in BOOLEAN /\ w.panic \in BOOLEAN

\* The text that matcher i looks at.
Content(i, w) ==
  IF Chain[i].find = <<>> THEN w.text ELSE w.cache[i] \o w.text

\* v is w after matcher i has handed on its content,
HandsOn(i, w, v) ==
  /\ Chain[i].find # <<>> /\ NextToken(Chain[i].find, Content(i, w)).state = Default
  /\ v.text = Content(i, w) /\ v.cache = [w.cache EXCEPT ![i] = <<>>]
  /\ v.live = w.live /\ v.panic = w.panic /\ v.hits = w.hits /\ v.mem = w.mem /\ v.put = w.put

\* cached it,
Keeps(i, w, v) ==
  /\ v.text = <<>> /\ v.cache = [w.cache EXCEPT ![i] = Content(i, w)]
  /\ v.live = FALSE /\ v.panic = w.panic /\ v.hits = w.hits

\* panicked,
Panics(i, w, v) ==
  /\ v.panic = TRUE /\ v.live = FALSE
  /\ v.text = w.text /\ v.cache = w.cache /\ v.hits = w.hits

\* hit,
Hits(i, w, v, h) ==
  /\ h.state = Matched /\ h.panic = FALSE
  /\ v.text = h.result /\ v.cache = [w.cache EXCEPT ![i] = <<>>]
  /\ v.live = w.live /\ v.panic = w.panic
  /\ v.hits = [w.hits EXCEPT ![i] = @ + 1]

\* or let it go at the end of the stream.
LetsGo(i, w, v, h, last) ==
  /\ last /\ h.state # Matched /\ v.text = Content(i, w) /\ v.cache = w.cache
  /\ v.live = w.live /\ v.panic = w.panic /\ v.hits = w.hits

LEMMA HandOnIs ==
  ASSUME NEW w, IsWork(w), NEW i \in DOMAIN Chain, NEW c
  PROVE  /\ IsWork(HandOn(i, w, c))
         /\ HandOn(i, w, c).text = c /\ HandOn(i, w, c).cache = [w.cache EXCEPT ![i] = <<>>]
         /\ HandOn(i, w, c).live = w.live /\ HandOn(i, w, c).panic = w.panic
         /\ HandOn(i, w, c).hits = w.hits /\ HandOn(i, w, c).mem = w.mem
         /\ HandOn(i, w, c).put = w.put
BY DEF IsWork, HandOn

LEMMA Configured ==
  ASSUME NEW i \in 4 .. Size
  PROVE  /\ Chain[i].kind = "configured" /\ Chain[i].obj \in Entries
         /\ Chain[i].find = Chain[i].obj.match /\ Chain[i].find \in Text
BY ChainIs DEF Matchers, Entries

LEMMA HIs ==
  ASSUME NEW index, NEW content, NEW mm
  PROVE  /\ H(1, index, content, mm) = ThinkHandler(content, mm)
         /\ H(2, index, content, mm) =
              Enclosed(CallClose, content, CallHandler(Block(CallClose, content)))
         /\ H(3, index, content, mm) = Answer(Matched, <<>>, Nothing, FALSE)
         /\ \A i \in 4 .. Size :
              H(i, index, content, mm) =
                IF Chain[i].obj.over # <<>>
                THEN Enclosed(Chain[i].obj.over, content,
                              ConfiguredHandler(Chain[i].obj, Block(Chain[i].obj.over, content)))
                ELSE Span(Chain[i].obj, index, content)
<1>1. Chain[1].kind = "think" /\ Chain[2].kind = "call" /\ Chain[3].kind = "end"
  BY ChainIs
<1> QED
  BY <1>1, Configured DEF H

IsAnswer(h) ==
  /\ h = [state |-> h.state, result |-> h.result, put |-> h.put, panic |-> h.panic]
  /\ h.state \in {Matching, Matched} /\ h.panic \in BOOLEAN

LEMMA HAnswers ==
  ASSUME NEW i \in DOMAIN Chain, NEW index, NEW content, NEW mm
  PROVE  /\ IsAnswer(H(i, index, content, mm))
         /\ H(i, index, content, mm).state = Matching => H(i, index, content, mm).result = content
<1> DEFINE h == H(i, index, content, mm)
<1>1. IsAnswer(Wait(content)) /\ Wait(content).result = content
  BY DEF IsAnswer, Wait, Answer
<1>2. ASSUME NEW o, NEW c
      PROVE  IsAnswer(ConfiguredHandler(o, c)) /\ ConfiguredHandler(o, c).state = Matched
  BY DEF ConfiguredHandler, IsAnswer, Answer, Matched, Matching
<1>3. ASSUME NEW c
      PROVE  IsAnswer(CallHandler(c)) /\ CallHandler(c).state = Matched
  <2> DEFINE p == ~InRange(TrimSpace(c), TagLen, Len(TrimSpace(c)) - TagLen)
  <2>1. p \in BOOLEAN
    OBVIOUS
  <2>2. \E r, t : CallHandler(c) = [state |-> Matched, result |-> r, put |-> t, panic |-> p]
    BY DEF CallHandler, Answer
  <2> HIDE DEF p
  <2> QED
    BY <2>1, <2>2 DEF IsAnswer, Matched, Matching
<1>4. CASE i = 1
  <2> DEFINE from == Offset(content, mm)
             idx  == LastIndex(content, ThinkClose)
             p    == ~InRange(content, from, Len(content))
             q    == ~InRange(content, TagLen, idx) \/ ~InRange(content, from, idx)
  <2>1. \/ \E t : h = [state |-> Matching, result |-> content, put |-> t, panic |-> p]
        \/ \E r, t : h = [state |-> Matched, result |-> r, put |-> t, panic |-> q]
    BY <1>4, HIs DEF ThinkHandler, Answer
  <2>2. p \in BOOLEAN /\ q \in BOOLEAN
    OBVIOUS
  <2> HIDE DEF h, p, q
  <2>3. IsAnswer(h) /\ (h.state = Matching => h.result = content)
    BY <2>1, <2>2 DEF IsAnswer, Matched, Matching
  <2> QED
    BY <2>3 DEF h
<1>5. CASE i = 2
  <2>1. h = Wait(content) \/ h = CallHandler(Block(CallClose, content))
    BY <1>5, HIs DEF Enclosed
  <2> HIDE DEF h
  <2>2. IsAnswer(h) /\ (h.state = Matching => h.result = content)
    BY <1>1, <1>3, <2>1 DEF Matched, Matching
  <2> QED
    BY <2>2 DEF h
<1>6. CASE i = 3
  <2>1. h = [state |-> Matched, result |-> <<>>, put |-> Nothing, panic |-> FALSE]
    BY <1>6, HIs DEF Answer
  <2> HIDE DEF h
  <2>2. IsAnswer(h) /\ (h.state = Matching => h.result = content)
    BY <2>1 DEF IsAnswer, Matched, Matching
  <2> QED
    BY <2>2 DEF h
<1>7. CASE i \in 4 .. Size
  <2> DEFINE o == Chain[i].obj
  <2>1. h = Wait(content) \/ \E c : h = ConfiguredHandler(o, c)
    <3>1. h = IF o.over # <<>>
              THEN Enclosed(o.over, content, ConfiguredHandler(o, Block(o.over, content)))
              ELSE Span(o, index, content)
      BY <1>7, HIs
    <3> HIDE DEF h, o
    <3>2. CASE o.over # <<>>
      BY <3>1, <3>2 DEF Enclosed
    <3>3. CASE o.over = <<>>
      BY <3>1, <3>3 DEF Span
    <3> QED
      BY <3>2, <3>3
  <2> HIDE DEF h
  <2>2. IsAnswer(h) /\ (h.state = Matching => h.result = content)
    BY <1>1, <1>2, <2>1 DEF Matched, Matching
  <2> QED
    BY <2>2 DEF h
<1> QED
  BY <1>4, <1>5, <1>6, <1>7, ChainIs

Found(i, w) ==
  Chain[i].find = <<>> \/ NextToken(Chain[i].find, Content(i, w)).state = Matched

\* What the handler leaves behind, whatever its answer.
MemAfter(i, w) == IF Chain[i].kind = "think" THEN Remember(Content(i, w), w.mem) ELSE w.mem

PutAfter(w, h) ==
  [think |-> IF h.put.think = {} THEN w.put.think ELSE h.put.think,
   call  |-> IF h.put.call = {} THEN w.put.call ELSE h.put.call]

\* v is w after the handler of matcher i has answered h.
Executes(i, w, v, h, last) ==
  /\ v.mem = MemAfter(i, w) /\ v.put = PutAfter(w, h)
  /\ \/ h.panic /\ Panics(i, w, v)
     \/ ~ h.panic /\ h.state = Matched /\ Hits(i, w, v, h)
     \/ ~ h.panic /\ h.state = Matching /\ last /\ LetsGo(i, w, v, h, last)
     \/ ~ h.panic /\ h.state = Matching /\ ~ last /\ Keeps(i, w, v)

\* v is w after matcher i found no opening.
Passes(i, w, v) ==
  /\ v.mem = w.mem /\ v.put = w.put
  /\ \/ HandsOn(i, w, v)
     \/ NextToken(Chain[i].find, Content(i, w)).state = Matching /\ Keeps(i, w, v)

LEMMA ExecuteCases ==
  ASSUME NEW w, IsWork(w), NEW i \in DOMAIN Chain, NEW index, NEW last \in BOOLEAN
  PROVE  LET c == Content(i, w)
             h == H(i, index, c, w.mem)
             v == Execute(i, w, c, h, last)
         IN  IsWork(v) /\ Executes(i, w, v, h, last)
<1> DEFINE c == Content(i, w)
           h == H(i, index, c, w.mem)
           v == Execute(i, w, c, h, last)
           put(old, new) == IF new = {} THEN old ELSE new
           n == [think |-> put(w.put.think, h.put.think), call |-> put(w.put.call, h.put.call)]
           m == IF Chain[i].kind = "think" THEN Remember(c, w.mem) ELSE w.mem
           x == [w EXCEPT !.put = n, !.mem = m]
<1>1. IsAnswer(h) /\ (h.state = Matching => h.result = c)
  BY HAnswers
<1>2. v = IF h.panic THEN [x EXCEPT !.panic = TRUE, !.live = FALSE]
          ELSE IF h.state = Matched
               THEN [x EXCEPT !.text = h.result, !.cache[i] = <<>>, !.hits[i] = @ + 1]
          ELSE IF last THEN [x EXCEPT !.text = c]
          ELSE Keep(i, x, h.result)
  BY DEF Execute
<1>8. n = PutAfter(w, h) /\ m = MemAfter(i, w)
  BY DEF PutAfter, MemAfter
<1> SUFFICES IsWork(v) /\ Executes(i, w, v, h, last)
  OBVIOUS
<1> HIDE DEF c, h, v, n, m
<1>3. /\ IsWork(x) /\ x.text = w.text /\ x.cache = w.cache /\ x.live = w.live
      /\ x.panic = w.panic /\ x.hits = w.hits /\ x.mem = m /\ x.put = n
  BY DEF IsWork
<1> HIDE DEF x
<1>4. CASE h.panic
  <2>1. v = [x EXCEPT !.panic = TRUE, !.live = FALSE]
    BY <1>2, <1>4
  <2>2. IsWork(v) /\ Panics(i, w, v) /\ v.mem = x.mem /\ v.put = x.put
    BY <1>3, <2>1 DEF IsWork, Panics
  <2> QED
    BY <1>3, <1>4, <1>8, <2>2 DEF Executes
<1>5. CASE ~ h.panic /\ h.state = Matched
  <2>1. v = [x EXCEPT !.text = h.result, !.cache[i] = <<>>, !.hits[i] = @ + 1]
    BY <1>2, <1>5
  <2>2. h.panic = FALSE
    BY <1>1, <1>5 DEF IsAnswer
  <2>3. /\ DOMAIN v = DOMAIN x /\ v = [f \in DOMAIN v |-> v[f]]
        /\ v.text = h.result /\ v.cache = [x.cache EXCEPT ![i] = <<>>]
        /\ v.hits = [x.hits EXCEPT ![i] = @ + 1]
        /\ v.live = x.live /\ v.panic = x.panic /\ v.mem = x.mem /\ v.put = x.put
    BY <1>3, <2>1 DEF IsWork
  <2>4. v.hits \in [DOMAIN Chain -> Nat]
    BY <1>3, <2>3 DEF IsWork
  <2>5. v.cache = [j \in DOMAIN Chain |-> v.cache[j]]
    BY <1>3, <2>3 DEF IsWork
  <2>6. IsWork(v)
    BY <1>3, <2>3, <2>4, <2>5 DEF IsWork
  <2>7. Hits(i, w, v, h)
    BY <1>3, <1>5, <2>2, <2>3 DEF Hits
  <2> QED
    BY <1>3, <1>5, <1>8, <2>3, <2>6, <2>7 DEF Executes
<1>6. CASE ~ h.panic /\ h.state # Matched /\ last
  <2>1. v = [x EXCEPT !.text = c]
    BY <1>2, <1>6
  <2>2. IsWork(v) /\ LetsGo(i, w, v, h, last) /\ v.mem = x.mem /\ v.put = x.put
    BY <1>3, <1>6, <2>1 DEF IsWork, LetsGo, c
  <2>3. h.state = Matching
    BY <1>1, <1>6 DEF IsAnswer
  <2> QED
    BY <1>3, <1>6, <1>8, <2>2, <2>3 DEF Executes
<1>7. CASE ~ h.panic /\ h.state # Matched /\ ~ last
  <2>1. h.result = c /\ h.state = Matching
    BY <1>1, <1>7 DEF IsAnswer
  <2>2. v = Keep(i, x, c)
    BY <1>2, <1>7, <2>1
  <2>3. /\ IsWork(v) /\ v.text = <<>> /\ v.cache = [x.cache EXCEPT ![i] = c]
        /\ v.live = FALSE /\ v.panic = x.panic /\ v.hits = x.hits
        /\ v.mem = x.mem /\ v.put = x.put
    BY <1>3, <2>2 DEF Keep, IsWork
  <2>4. Keeps(i, w, v)
    BY <1>3, <2>3 DEF Keeps, c
  <2> QED
    BY <1>3, <1>7, <1>8, <2>1, <2>3, <2>4 DEF Executes
<1> QED
  BY <1>4, <1>5, <1>6, <1>7

\* The index that the handler of matcher i is given.
At(i, w) ==
  IF Chain[i].find = <<>> THEN 0 ELSE NextToken(Chain[i].find, Content(i, w)).index

LEMMA TokenStates ==
  ASSUME NEW find, NEW s
  PROVE  NextToken(find, s).state \in {Default, Matching, Matched}
<1> DEFINE pos == Progress(find, s)
           hit == {n \in 0 .. (Len(s) - 1) : pos[n] = Len(find)}
<1>1. NextToken(find, s) = IF hit # {} THEN [state |-> Matched, index |-> Min(hit)]
                           ELSE [state |-> IF pos[Len(s)] = 0 THEN Default ELSE Matching, index |-> 0]
  BY DEF NextToken
<1> HIDE DEF pos, hit
<1> QED
  BY <1>1

LEMMA ScanCases ==
  ASSUME NEW w, IsWork(w), NEW i \in DOMAIN Chain, NEW last \in BOOLEAN
  PROVE  LET v == Scan(i, w, last)
             h == H(i, At(i, w), Content(i, w), w.mem)
         IN  /\ IsWork(v)
             /\ \/ Found(i, w) /\ Executes(i, w, v, h, last)
                \/ ~ Found(i, w) /\ Passes(i, w, v)
<1> DEFINE v == Scan(i, w, last)
           c == Content(i, w)
           h == H(i, At(i, w), c, w.mem)
           x == Execute(i, w, c, h, last)
           state == NextToken(Chain[i].find, c).state
<1>1. state \in {Default, Matching, Matched}
  BY TokenStates
<1>2. v = IF Chain[i].find = <<>> THEN x
          ELSE IF state = Default THEN HandOn(i, w, c)
          ELSE IF state = Matching THEN Keep(i, w, c)
          ELSE x
  BY DEF Scan, At, Content
<1>3. IsWork(x) /\ Executes(i, w, x, h, last)
  BY ExecuteCases
<1>7. Found(i, w) <=> Chain[i].find = <<>> \/ state = Matched
  BY DEF Found
<1> SUFFICES /\ IsWork(v)
             /\ \/ Found(i, w) /\ Executes(i, w, v, h, last)
                \/ ~ Found(i, w) /\ Passes(i, w, v)
  OBVIOUS
<1> HIDE DEF v, c, h, x, state
<1>4. CASE Chain[i].find # <<>> /\ state = Default
  <2>1. v = HandOn(i, w, c)
    BY <1>2, <1>4
  <2>2. IsWork(v) /\ HandsOn(i, w, v) /\ v.mem = w.mem /\ v.put = w.put
    BY <1>4, <2>1, HandOnIs DEF HandsOn, c, state
  <2>3. ~ Found(i, w)
    BY <1>4, <1>7 DEF Default, Matched
  <2> QED
    BY <2>2, <2>3 DEF Passes
<1>5. CASE Chain[i].find # <<>> /\ state = Matching
  <2>1. v = Keep(i, w, c)
    BY <1>2, <1>5 DEF Default, Matching
  <2>2. /\ IsWork(v) /\ v.text = <<>> /\ v.cache = [w.cache EXCEPT ![i] = c]
        /\ v.live = FALSE /\ v.panic = w.panic /\ v.hits = w.hits
        /\ v.mem = w.mem /\ v.put = w.put
    BY <2>1 DEF Keep, IsWork
  <2>3. Keeps(i, w, v)
    BY <2>2 DEF Keeps, c
  <2>4. ~ Found(i, w)
    BY <1>5, <1>7 DEF Matching, Matched
  <2> QED
    BY <1>5, <2>2, <2>3, <2>4 DEF Passes, state, c
<1>6. CASE Chain[i].find = <<>> \/ state = Matched
  <2>1. v = x
    BY <1>2, <1>6 DEF Default, Matching, Matched
  <2> QED
    BY <1>3, <1>6, <1>7, <2>1
<1> QED
  BY <1>1, <1>4, <1>5, <1>6

\* The five outcomes.
LEMMA ScanOutcomes ==
  ASSUME NEW w, IsWork(w), NEW i \in DOMAIN Chain, NEW last \in BOOLEAN
  PROVE  LET v == Scan(i, w, last)
             h == H(i, At(i, w), Content(i, w), w.mem)
         IN  /\ IsWork(v)
             /\ \/ HandsOn(i, w, v) \/ Keeps(i, w, v) \/ Panics(i, w, v)
                \/ Hits(i, w, v, h) \/ LetsGo(i, w, v, h, last)
BY ScanCases DEF Executes, Passes

-----------------------------------------------------------------------------
(* The loop over the matchers.                                             *)

Start(chunk) ==
  [text |-> chunk, cache |-> cache, mem |-> mem, put |-> Nothing, live |-> TRUE,
   panic |-> FALSE, hits |-> hits]

Step(i, w, last) == IF w.live THEN Scan(i, w, last) ELSE w

Running(f, n, chunk, last) ==
  f = [i \in 0 .. n |-> IF i = 0 THEN Start(chunk) ELSE Step(i, f[i - 1], last)]

LEMMA RunValue ==
  ASSUME NEW chunk, NEW last, NEW g, Running(g, Size, chunk, last)
  PROVE  \E f : Running(f, Size, chunk, last) /\ RunChain(chunk, last) = f[Size]
BY DEF RunChain, Running, Step, Start, Size

LEMMA RunningExists ==
  ASSUME NEW chunk, NEW last, NEW n \in Nat
  PROVE  \E f : Running(f, n, chunk, last)
<1> DEFINE T == {m \in Nat : \E f : Running(f, m, chunk, last)}
<1>1. 0 \in T
  <2> DEFINE g == [i \in 0 .. 0 |-> Start(chunk)]
  <2>1. Running(g, 0, chunk, last)
    BY DEF Running
  <2> QED
    BY <2>1
<1>2. ASSUME NEW m \in Nat, m \in T PROVE m + 1 \in T
  <2>1. PICK f : Running(f, m, chunk, last)
    BY <1>2
  <2> DEFINE x == Step(m + 1, f[m], last)
             g == [i \in 0 .. (m + 1) |-> IF i <= m THEN f[i] ELSE x]
  <2>2. f[0] = Start(chunk) /\ \A i \in 1 .. m : f[i] = Step(i, f[i - 1], last)
    BY <2>1 DEF Running
  <2>3. ASSUME NEW i \in 0 .. (m + 1)
        PROVE  g[i] = IF i = 0 THEN Start(chunk) ELSE Step(i, g[i - 1], last)
    <3>1. CASE i = 0
      BY <2>2, <3>1
    <3>2. CASE i \in 1 .. m
      <4>1. g[i] = f[i] /\ g[i - 1] = f[i - 1] /\ i # 0
        BY <3>2
      <4> HIDE DEF g
      <4> QED
        BY <2>2, <3>2, <4>1
    <3>3. CASE i = m + 1
      <4>1. g[i] = x /\ i - 1 = m /\ g[m] = f[m] /\ i # 0
        BY <3>3
      <4> HIDE DEF g
      <4> QED
        BY <3>3, <4>1 DEF x
    <3> QED
      BY <3>1, <3>2, <3>3
  <2>4. g = [i \in 0 .. (m + 1) |-> g[i]]
    OBVIOUS
  <2> HIDE DEF g
  <2>5. Running(g, m + 1, chunk, last)
    BY <2>3, <2>4 DEF Running
  <2> QED
    BY <2>5
<1>3. Nat \subseteq T
  <2> HIDE DEF T
  <2> QED
    BY <1>1, <1>2, Induction
<1> QED
  BY <1>3 DEF T

\* f[i] is the work after matcher i.
Runs(f, chunk, last) ==
  /\ f[0] = Start(chunk)
  /\ \A i \in 1 .. Size : f[i] = Step(i, f[i - 1], last)
  /\ RunChain(chunk, last) = f[Size]

LEMMA RunsExist ==
  ASSUME NEW chunk, NEW last
  PROVE  \E f : Runs(f, chunk, last)
<1>1. Size \in Nat
  BY ChainIs
<1>2. PICK g : Running(g, Size, chunk, last)
  BY <1>1, RunningExists
<1>3. PICK f : Running(f, Size, chunk, last) /\ RunChain(chunk, last) = f[Size]
  BY <1>2, RunValue
<1>4. f[0] = Start(chunk)
  BY <1>1, <1>3 DEF Running
<1>5. \A i \in 1 .. Size : f[i] = Step(i, f[i - 1], last)
  BY <1>1, <1>3 DEF Running
<1> QED
  BY <1>3, <1>4, <1>5 DEF Runs

\* What the state is like between two calls.
Basic ==
  /\ cache = [i \in DOMAIN Chain |-> cache[i]]
  /\ hits \in [DOMAIN Chain -> Nat]
  /\ over \in BOOLEAN /\ panic \in BOOLEAN

LEMMA RunsWork ==
  ASSUME Basic, NEW chunk, NEW last \in BOOLEAN, NEW f, Runs(f, chunk, last)
  PROVE  \A i \in 0 .. Size : IsWork(f[i])
<1> DEFINE T == {i \in 0 .. Size : IsWork(f[i])}
<1>1. 0 \in T
  <2> DEFINE w == Start(chunk)
  <2>1. /\ DOMAIN w = {"text", "cache", "mem", "put", "live", "panic", "hits"}
        /\ w = [x \in DOMAIN w |-> w[x]]
        /\ w.cache = cache /\ w.hits = hits /\ w.live = TRUE /\ w.panic = FALSE
    BY DEF Start
  <2> HIDE DEF w
  <2>2. IsWork(w)
    BY <2>1 DEF IsWork, Basic
  <2> QED
    BY <2>2, ChainIs DEF Runs, w
<1>2. ASSUME NEW i \in 0 .. Size, i \in T, i < Size PROVE i + 1 \in T
  <2>1. i + 1 \in 1 .. Size /\ (i + 1) - 1 = i /\ i + 1 \in DOMAIN Chain
    BY <1>2, ChainIs
  <2>2. f[i + 1] = Step(i + 1, f[i], last)
    BY <2>1 DEF Runs
  <2>3. IsWork(f[i])
    BY <1>2
  <2>4. IsWork(Scan(i + 1, f[i], last))
    BY <2>1, <2>3, ScanCases
  <2> QED
    BY <2>1, <2>2, <2>3, <2>4 DEF Step
<1>3. 0 .. Size \subseteq T
  <2> HIDE DEF T
  <2>1. 0 \in Int /\ Size \in Int
    BY ChainIs
  <2>2. \A i \in 0 .. Size : i \in T /\ i < Size => i + 1 \in T
    BY <1>2
  <2> QED
    BY <1>1, <2>1, <2>2, InductionUpTo
<1> QED
  BY <1>3

-----------------------------------------------------------------------------
(* Reading one text off another.                                           *)

\* e[k] is where the k-th symbol of s is found in t.
Embedding(e, s, t) ==
  /\ e \in [1 .. Len(s) -> 1 .. Len(t)]
  /\ \A k \in 1 .. Len(s) : t[e[k]] = s[k]
  /\ \A j, k \in 1 .. Len(s) : j < k => e[j] < e[k]

Embeds(s, t) == \E e : Embedding(e, s, t)

LEMMA EmbedsSelf ==
  ASSUME NEW s \in Text
  PROVE  Embeds(s, s)
<1>1. Len(s) \in Nat
  BY LenProperties DEF Text
<1>2. Embedding([k \in 1 .. Len(s) |-> k], s, s)
  BY <1>1 DEF Embedding
<1> QED
  BY <1>2 DEF Embeds

LEMMA EmbedsEmpty ==
  ASSUME NEW t \in Text
  PROVE  Embeds(<<>>, t)
<1>1. Embedding([k \in 1 .. 0 |-> k], <<>>, t)
  BY DEF Embedding
<1> QED
  BY <1>1 DEF Embeds

LEMMA EmbedsTransitive ==
  ASSUME NEW s \in Text, NEW t \in Text, NEW u \in Text, Embeds(s, t), Embeds(t, u)
  PROVE  Embeds(s, u)
<1>1. PICK d : Embedding(d, s, t)
  BY DEF Embeds
<1>2. PICK e : Embedding(e, t, u)
  BY DEF Embeds
<1>3. Len(s) \in Nat /\ Len(t) \in Nat /\ Len(u) \in Nat
  BY LenProperties DEF Text
<1>4. Embedding([k \in 1 .. Len(s) |-> e[d[k]]], s, u)
  BY <1>1, <1>2, <1>3 DEF Embedding
<1> QED
  BY <1>4 DEF Embeds

LEMMA TextConcat ==
  ASSUME NEW s \in Text, NEW t \in Text
  PROVE  /\ s \o t \in Text /\ Len(s) \in Nat /\ Len(t) \in Nat
         /\ Len(s \o t) = Len(s) + Len(t)
         /\ \A k \in 1 .. Len(s) : (s \o t)[k] = s[k]
         /\ \A k \in 1 .. Len(t) : (s \o t)[Len(s) + k] = t[k]
<1>1. Len(s) \in Nat /\ Len(t) \in Nat
  BY LenProperties DEF Text
<1> QED
  BY <1>1, ConcatProperties DEF Text

LEMMA EmbedsConcat ==
  ASSUME NEW s \in Text, NEW t \in Text, NEW u \in Text, NEW v \in Text,
         Embeds(s, t), Embeds(u, v)
  PROVE  Embeds(s \o u, t \o v)
<1>1. PICK d : Embedding(d, s, t)
  BY DEF Embeds
<1>2. PICK e : Embedding(e, u, v)
  BY DEF Embeds
<1> DEFINE m == Len(s)
           n == Len(t)
           su == s \o u
           tv == t \o v
           f == [k \in 1 .. (m + Len(u)) |-> IF k <= m THEN d[k] ELSE n + e[k - m]]
<1>3. m \in Nat /\ n \in Nat /\ Len(u) \in Nat /\ Len(v) \in Nat
  BY LenProperties DEF Text
<1>4. /\ Len(su) = m + Len(u) /\ Len(tv) = n + Len(v)
      /\ \A k \in 1 .. m : su[k] = s[k]
      /\ \A k \in 1 .. Len(u) : su[m + k] = u[k]
      /\ \A k \in 1 .. n : tv[k] = t[k]
      /\ \A k \in 1 .. Len(v) : tv[n + k] = v[k]
  BY TextConcat
<1> HIDE DEF su, tv
<1>5. \A k \in 1 .. m : d[k] \in 1 .. n /\ t[d[k]] = s[k]
  BY <1>1 DEF Embedding
<1>6. \A k \in 1 .. Len(u) : e[k] \in 1 .. Len(v) /\ v[e[k]] = u[k]
  BY <1>2 DEF Embedding
<1>7. \A k \in 1 .. m : f[k] = d[k]
  BY <1>3
<1>8. \A k \in 1 .. Len(u) : f[m + k] = n + e[k]
  BY <1>3
<1>9. \A k \in 1 .. (m + Len(u)) : ~ (k <= m) => k - m \in 1 .. Len(u) /\ m + (k - m) = k
  BY <1>3
<1>10. f = [k \in 1 .. (m + Len(u)) |-> f[k]]
  OBVIOUS
<1> HIDE DEF f, m, n
<1>11. \A k \in 1 .. (m + Len(u)) : f[k] \in 1 .. (n + Len(v)) /\ tv[f[k]] = su[k]
  <2> TAKE k \in 1 .. (m + Len(u))
  <2>1. CASE k <= m
    <3> DEFINE q == d[k]
    <3>1. k \in 1 .. m
      BY <1>3, <2>1
    <3>2. f[k] = q /\ su[k] = s[k] /\ q \in 1 .. n /\ t[q] = s[k]
      BY <1>4, <1>5, <1>7, <3>1
    <3> HIDE DEF q
    <3>3. q \in 1 .. (n + Len(v)) /\ tv[q] = t[q]
      BY <1>3, <1>4, <3>2
    <3> QED
      BY <3>2, <3>3
  <2>2. CASE ~ (k <= m)
    <3>1. k - m \in 1 .. Len(u) /\ m + (k - m) = k
      BY <1>9, <2>2
    <3>2. f[k] = n + e[k - m] /\ su[k] = u[k - m] /\ e[k - m] \in 1 .. Len(v)
      BY <1>4, <1>6, <1>8, <3>1
    <3> DEFINE q == e[k - m]
    <3>3. q \in 1 .. Len(v) /\ v[q] = u[k - m] /\ f[k] = n + q
      BY <1>6, <3>1, <3>2
    <3> HIDE DEF q
    <3>4. n + q \in 1 .. (n + Len(v)) /\ tv[n + q] = v[q]
      BY <1>3, <1>4, <3>3
    <3> QED
      BY <3>2, <3>3, <3>4
  <2> QED
    BY <2>1, <2>2
<1>12. ASSUME NEW j \in 1 .. (m + Len(u)), NEW k \in 1 .. (m + Len(u)), j < k
       PROVE  f[j] < f[k]
  <2>1. CASE k <= m
    <3>1. j \in 1 .. m /\ k \in 1 .. m
      BY <1>3, <1>12, <2>1
    <3> QED
      BY <1>1, <1>7, <1>12, <3>1 DEF Embedding, m
  <2>2. CASE j <= m /\ ~ (k <= m)
    <3>1. j \in 1 .. m /\ k - m \in 1 .. Len(u) /\ m + (k - m) = k
      BY <1>3, <1>9, <2>2
    <3>2. f[j] = d[j] /\ f[k] = n + e[k - m]
      BY <1>7, <1>8, <3>1
    <3>3. d[j] \in 1 .. n /\ e[k - m] \in 1 .. Len(v)
      BY <1>5, <1>6, <3>1
    <3> QED
      BY <1>3, <3>2, <3>3
  <2>3. CASE ~ (j <= m) /\ ~ (k <= m)
    <3>1. /\ j - m \in 1 .. Len(u) /\ m + (j - m) = j
          /\ k - m \in 1 .. Len(u) /\ m + (k - m) = k /\ j - m < k - m
      BY <1>3, <1>9, <1>12, <2>3
    <3>2. e[j - m] < e[k - m]
      BY <1>2, <3>1 DEF Embedding
    <3>3. f[j] = n + e[j - m] /\ f[k] = n + e[k - m]
      BY <1>8, <3>1
    <3>4. e[j - m] \in Int /\ e[k - m] \in Int
      BY <1>3, <1>6, <3>1
    <3> QED
      BY <1>3, <3>2, <3>3, <3>4
  <2> QED
    BY <1>3, <1>12, <2>1, <2>2, <2>3
<1>13. Embedding(f, su, tv)
  BY <1>4, <1>10, <1>11, <1>12 DEF Embedding
<1> QED
  BY <1>13 DEF Embeds, su, tv

LEMMA SliceIs ==
  ASSUME NEW s \in Text, NEW a \in Int, NEW b \in Int, InRange(s, a, b)
  PROVE  /\ Slice(s, a, b) \in Text /\ Len(Slice(s, a, b)) = b - a
         /\ \A k \in 1 .. (b - a) : Slice(s, a, b)[k] = s[a + k]
<1>1. Len(s) \in Nat
  BY LenProperties DEF Text
<1>2. a + 1 \in 1 .. (Len(s) + 1) /\ b \in ((a + 1) - 1) .. Len(s)
  BY <1>1 DEF InRange
<1>3. /\ SubSeq(s, a + 1, b) \in Seq(Symbols)
      /\ Len(SubSeq(s, a + 1, b)) = b - (a + 1) + 1
      /\ \A k \in 1 .. b - (a + 1) + 1 : SubSeq(s, a + 1, b)[k] = s[(a + 1) + k - 1]
  BY <1>2, SubSeqProperties DEF Text
<1>4. b - (a + 1) + 1 = b - a /\ \A k \in 1 .. (b - a) : (a + 1) + k - 1 = a + k
  OBVIOUS
<1> QED
  BY <1>3, <1>4 DEF Slice, Text

LEMMA FromIs ==
  ASSUME NEW s \in Text, NEW a \in Int, InRange(s, a, Len(s))
  PROVE  /\ From(s, a) \in Text /\ Len(From(s, a)) = Len(s) - a
         /\ \A k \in 1 .. (Len(s) - a) : From(s, a)[k] = s[a + k]
<1>1. Len(s) \in Int
  BY LenProperties DEF Text
<1> QED
  BY <1>1, SliceIs DEF From

\* A part of s can be read off s.
LEMMA EmbedsSlice ==
  ASSUME NEW s \in Text, NEW a \in Int, NEW b \in Int, InRange(s, a, b)
  PROVE  Embeds(Slice(s, a, b), s)
<1> DEFINE t == Slice(s, a, b)
           e == [k \in 1 .. (b - a) |-> a + k]
<1>1. Len(s) \in Nat
  BY LenProperties DEF Text
<1>2. Len(t) = b - a /\ \A k \in 1 .. (b - a) : t[k] = s[a + k]
  BY SliceIs
<1>3. \A k \in 1 .. (b - a) : a + k \in 1 .. Len(s)
  BY <1>1 DEF InRange
<1>5. /\ e = [k \in 1 .. (b - a) |-> e[k]] /\ b - a \in Int
      /\ \A k \in 1 .. (b - a) : e[k] = a + k
  OBVIOUS
<1>6. \A j, k \in 1 .. (b - a) : j < k => a + j < a + k
  OBVIOUS
<1> HIDE DEF t, e
<1>4. Embedding(e, t, s)
  BY <1>1, <1>2, <1>3, <1>5, <1>6 DEF Embedding
<1> QED
  BY <1>4 DEF Embeds, t

\* The tail that From is, and a text with a part left out.
LEMMA SplitText ==
  ASSUME NEW s \in Text, NEW a \in Int, InRange(s, 0, a)
  PROVE  s = Slice(s, 0, a) \o From(s, a)
<1> DEFINE x == Slice(s, 0, a)
           y == From(s, a)
<1>1. Len(s) \in Nat /\ 0 <= a /\ a <= Len(s) /\ InRange(s, a, Len(s))
  BY LenProperties DEF Text, InRange
<1>2. x \in Text /\ Len(x) = a /\ \A k \in 1 .. a : x[k] = s[k]
  BY SliceIs
<1>3. y \in Text /\ Len(y) = Len(s) - a /\ \A k \in 1 .. (Len(s) - a) : y[k] = s[a + k]
  BY <1>1, FromIs
<1> HIDE DEF x, y
<1>4. x \o y \in Text /\ Len(x \o y) = Len(s)
  <2>1. x \o y \in Text /\ Len(x \o y) = Len(x) + Len(y)
    BY <1>2, <1>3, TextConcat
  <2> QED
    BY <1>1, <1>2, <1>3, <2>1
<1>5. ASSUME NEW k \in 1 .. Len(s) PROVE (x \o y)[k] = s[k]
  <2>1. CASE k <= a
    <3>1. k \in 1 .. Len(x) /\ x[k] = s[k]
      BY <1>1, <1>2, <2>1
    <3> QED
      BY <1>2, <1>3, <3>1, TextConcat
  <2>2. CASE ~ (k <= a)
    <3>1. k - a \in 1 .. (Len(s) - a) /\ a + (k - a) = k
      BY <1>1, <2>2
    <3>2. k - a \in 1 .. Len(y) /\ Len(x) + (k - a) = k
      BY <1>2, <1>3, <3>1
    <3>3. (x \o y)[Len(x) + (k - a)] = y[k - a]
      BY <1>2, <1>3, <3>2, TextConcat
    <3> QED
      BY <1>3, <3>1, <3>2, <3>3
  <2> QED
    BY <2>1, <2>2
<1>6. x \o y = s
  BY <1>4, <1>5, SeqEqual DEF Text
<1> QED
  BY <1>6 DEF x, y

LEMMA EmbedsCut ==
  ASSUME NEW s \in Text, NEW a \in Int, NEW b \in Int, InRange(s, a, b)
  PROVE  /\ Slice(s, 0, a) \o From(s, b) \in Text
         /\ Embeds(Slice(s, 0, a) \o From(s, b), s)
<1> DEFINE x == Slice(s, 0, a)
           y == From(s, a)
           z == From(s, b)
<1>1. /\ Len(s) \in Nat /\ InRange(s, 0, a) /\ InRange(s, a, Len(s)) /\ InRange(s, b, Len(s))
      /\ 0 <= b - a /\ b - a <= Len(s) - a
  BY LenProperties DEF Text, InRange
<1>2. x \in Text /\ y \in Text /\ z \in Text /\ Len(y) = Len(s) - a
  BY <1>1, SliceIs, FromIs
<1>3. s = x \o y
  BY <1>1, SplitText
<1>4. z = From(y, b - a)
  <2> DEFINE u == From(y, b - a)
  <2>1. InRange(y, b - a, Len(y)) /\ Len(y) - (b - a) = Len(s) - b
    BY <1>1, <1>2 DEF InRange
  <2>2. /\ u \in Text /\ Len(u) = Len(s) - b
        /\ \A k \in 1 .. (Len(s) - b) : u[k] = y[(b - a) + k]
    BY <1>1, <1>2, <2>1, FromIs
  <2>3. /\ Len(z) = Len(s) - b /\ \A k \in 1 .. (Len(s) - b) : z[k] = s[b + k]
        /\ \A k \in 1 .. (Len(s) - a) : y[k] = s[a + k]
    BY <1>1, FromIs
  <2> HIDE DEF u, y, z
  <2>4. \A k \in 1 .. (Len(s) - b) : u[k] = z[k]
    <3> TAKE k \in 1 .. (Len(s) - b)
    <3>1. (b - a) + k \in 1 .. (Len(s) - a) /\ a + ((b - a) + k) = b + k
      BY <1>1
    <3> QED
      BY <2>2, <2>3, <3>1
  <2>5. u = z
    BY <1>2, <2>2, <2>3, <2>4, SeqEqual DEF Text
  <2> QED
    BY <2>5 DEF u
<1>5. Embeds(z, y)
  <2>1. InRange(y, b - a, Len(y))
    BY <1>1, <1>2 DEF InRange
  <2>2. Embeds(From(y, b - a), y)
    BY <1>1, <1>2, <2>1, EmbedsSlice DEF From
  <2> QED
    BY <1>4, <2>2
<1> HIDE DEF x, y, z
<1>6. x \o z \in Text /\ Embeds(x \o z, x \o y)
  BY <1>2, <1>5, EmbedsSelf, EmbedsConcat, TextConcat
<1>7. x \o z \in Text /\ Embeds(x \o z, s)
  BY <1>3, <1>6
<1> QED
  BY <1>7 DEF x, z

\* Min and Max of sets of numbers.
LEMMA MinIs ==
  ASSUME NEW S \in SUBSET Nat, S # {}
  PROVE  Min(S) \in S /\ \A m \in S : Min(S) <= m
<1>1. \E n \in S : \A m \in S : n <= m
  BY LeastNumber
<1> QED
  BY <1>1 DEF Min

LEMMA MaxIs ==
  ASSUME NEW n \in Nat, NEW S \in SUBSET (0 .. n), S # {}
  PROVE  Max(S) \in S /\ \A m \in S : m <= Max(S)
<1> DEFINE T == {k \in Nat : n - k \in S}
<1>1. T # {}
  <2>1. PICK m : m \in S
    OBVIOUS
  <2>2. n - m \in Nat /\ n - (n - m) = m
    BY <2>1
  <2>3. n - m \in T
    BY <2>1, <2>2
  <2> QED
    BY <2>3
<1>2. PICK k \in T : \A m \in T : k <= m
  BY <1>1, LeastNumber
<1>6. n - k \in S /\ k \in Nat /\ \A x : x \in Nat /\ n - x \in S => x \in T
  BY <1>2
<1> HIDE DEF T
<1>3. n - k \in S /\ \A m \in S : m <= n - k
  <2>1. ASSUME NEW m \in S PROVE m <= n - k
    <3>1. n - m \in Nat /\ n - (n - m) = m
      OBVIOUS
    <3>2. n - m \in T
      BY <1>6, <3>1
    <3>3. k <= n - m
      BY <1>2, <3>2
    <3> QED
      BY <1>6, <3>3
  <2> QED
    BY <1>6, <2>1
<1>4. \E x \in S : \A m \in S : x >= m
  BY <1>3
<1>5. Max(S) \in S /\ \A m \in S : Max(S) >= m
  BY <1>4 DEF Max
<1> QED
  BY <1>5

LEMMA IndexIs ==
  ASSUME NEW s \in Text, NEW t, Len(t) \in Nat
  PROVE  /\ Index(s, t) = -1 \/ (Index(s, t) \in Nat /\ Index(s, t) + Len(t) <= Len(s))
         /\ LastIndex(s, t) = -1 \/ (LastIndex(s, t) \in Nat /\ LastIndex(s, t) + Len(t) <= Len(s))
<1> DEFINE P == Positions(s, t)
<1>1. Len(s) \in Nat
  BY LenProperties DEF Text
<1>2. \A p \in P : p \in Nat /\ p + Len(t) <= Len(s) /\ p <= Len(s)
  BY <1>1 DEF Positions
<1> HIDE DEF P
<1>3. CASE P = {}
  BY <1>3 DEF Index, LastIndex, P
<1>4. CASE P # {}
  <2>1. P \in SUBSET Nat /\ P \in SUBSET (0 .. Len(s))
    BY <1>1, <1>2
  <2>2. Min(P) \in P /\ Max(P) \in P
    BY <1>1, <1>4, <2>1, MinIs, MaxIs
  <2>3. Index(s, t) = Min(P) /\ LastIndex(s, t) = Max(P)
    BY <1>4 DEF Index, LastIndex, P
  <2> QED
    BY <1>2, <2>2, <2>3
<1> QED
  BY <1>3, <1>4

-----------------------------------------------------------------------------
\* One step of Reach.
Reached(before, symbol, t) ==
  LET later == {p \in (before + 1) .. Len(t) : t[p] = symbol}
  IN  IF later = {} THEN Len(t) + 1 ELSE Min(later)

Reaching(f, s, t) ==
  f = [k \in 0 .. Len(s) |-> IF k = 0 THEN 0 ELSE Reached(f[k - 1], s[k], t)]

LEMMA ReachValue ==
  ASSUME NEW s, NEW t, NEW g, Reaching(g, s, t)
  PROVE  \E f : Reaching(f, s, t) /\ Reach(s, t) = f[Len(s)]
BY DEF Reach, Reaching, Reached

\* The reading that takes every symbol as early as it can finds an embedding.
LEMMA EmbedsReach ==
  ASSUME NEW s \in Text, NEW t \in Text, Embeds(s, t)
  PROVE  Reach(s, t) <= Len(t)
<1> DEFINE m == Len(s)
           n == Len(t)
           V == 0 .. (n + 1)
           g == [x \in (1 .. m) \X V |-> Reached(x[2], s[x[1]], t)]
<1>1. m \in Nat /\ n \in Nat
  BY LenProperties DEF Text
<1>2. ASSUME NEW b \in V, NEW c
      PROVE  /\ Reached(b, c, t) \in V
             /\ \A p \in 1 .. n : b < p /\ t[p] = c => Reached(b, c, t) <= p
  <2> DEFINE L == {p \in (b + 1) .. n : t[p] = c}
  <2>1. \A p \in L : p \in 1 .. n
    BY <1>1
  <2>2. \A p \in 1 .. n : b < p /\ t[p] = c => p \in L
    BY <1>1
  <2>3. Reached(b, c, t) = IF L = {} THEN n + 1 ELSE Min(L)
    BY DEF Reached
  <2> HIDE DEF L
  <2>4. CASE L = {}
    BY <1>1, <2>2, <2>3, <2>4
  <2>5. CASE L # {}
    <3>1. L \in SUBSET Nat
      BY <1>1, <2>1
    <3>2. Min(L) \in L /\ \A p \in L : Min(L) <= p
      BY <2>5, <3>1, MinIs
    <3> QED
      BY <1>1, <2>1, <2>2, <2>3, <2>5, <3>2
  <2> QED
    BY <2>4, <2>5
<1>3. g \in [(1 .. m) \X V -> V]
  BY <1>2
<1>4. 0 \in V
  BY <1>1
<1>5. PICK h \in [0 .. m -> V] : Follows(h, m, 0, g)
  <2> HIDE DEF g, m, V
  <2> QED
    BY <1>1, <1>3, <1>4, Recursion
<1>6. \A k \in 1 .. m : h[k] = Reached(h[k - 1], s[k], t)
  <2> TAKE k \in 1 .. m
  <2>1. h[k] = g[<<k, h[k - 1]>>]
    BY <1>5 DEF Follows
  <2>2. h[k - 1] \in V
    <3>1. k - 1 \in 0 .. m
      BY <1>1
    <3> HIDE DEF V
    <3> QED
      BY <1>5, <3>1
  <2> QED
    BY <2>1, <2>2
<1>7. Reaching(h, s, t)
  <2>1. h[0] = 0
    BY <1>5 DEF Follows
  <2>2. \A k \in 0 .. m : k # 0 => k \in 1 .. m
    BY <1>1
  <2>3. \A k \in 0 .. m : h[k] = IF k = 0 THEN 0 ELSE Reached(h[k - 1], s[k], t)
    BY <1>6, <2>1, <2>2
  <2> QED
    BY <1>5, <2>3 DEF Reaching
<1>8. PICK f : Reaching(f, s, t) /\ Reach(s, t) = f[m]
  BY <1>7, ReachValue
<1>9. f[0] = 0 /\ \A k \in 1 .. m : f[k] = Reached(f[k - 1], s[k], t)
  BY <1>1, <1>8 DEF Reaching
<1>10. PICK e : Embedding(e, s, t)
  BY DEF Embeds
<1> DEFINE T == {k \in 0 .. m : f[k] \in V /\ (k > 0 => f[k] <= e[k])}
<1>11. 0 \in T
  BY <1>1, <1>4, <1>9
<1>12. ASSUME NEW k \in 0 .. m, k \in T, k < m PROVE k + 1 \in T
  <2>1. k + 1 \in 1 .. m /\ (k + 1) - 1 = k
    BY <1>1, <1>12
  <2>2. f[k + 1] = Reached(f[k], s[k + 1], t)
    BY <1>9, <2>1
  <2>3. e[k + 1] \in 1 .. n /\ t[e[k + 1]] = s[k + 1]
    BY <1>10, <2>1 DEF Embedding
  <2>4. f[k] < e[k + 1]
    <3>1. CASE k = 0
      BY <1>9, <2>3, <3>1
    <3>2. CASE k # 0
      <4>1. k \in 1 .. m /\ k < k + 1
        BY <3>2
      <4>2. e[k] < e[k + 1] /\ e[k] \in 1 .. n
        BY <1>10, <2>1, <4>1 DEF Embedding
      <4>3. f[k] <= e[k] /\ f[k] \in V
        BY <1>12, <4>1
      <4> QED
        BY <1>1, <2>3, <4>2, <4>3
    <3> QED
      BY <3>1, <3>2
  <2>5. f[k] \in V
    BY <1>12
  <2>6. f[k + 1] \in V /\ f[k + 1] <= e[k + 1]
    <3> HIDE DEF V, n
    <3> QED
      BY <1>2, <2>2, <2>3, <2>4, <2>5
  <2> QED
    BY <2>1, <2>6
<1>13. 0 .. m \subseteq T
  <2> HIDE DEF T, m
  <2>1. 0 \in Int /\ m \in Int
    BY <1>1
  <2>2. \A k \in 0 .. m : k \in T /\ k < m => k + 1 \in T
    BY <1>12
  <2> QED
    BY <1>11, <2>1, <2>2, InductionUpTo
<1>14. CASE m = 0
  BY <1>1, <1>8, <1>9, <1>14
<1>15. CASE m # 0
  <2>1. m \in 1 .. m /\ m \in T
    BY <1>1, <1>13, <1>15
  <2>2. f[m] <= e[m] /\ f[m] \in V /\ e[m] \in 1 .. n
    BY <1>1, <1>10, <1>15, <2>1 DEF Embedding
  <2> QED
    BY <1>1, <1>8, <2>2
<1> QED
  BY <1>14, <1>15

LEMMA TextEmpty ==
  /\ <<>> \in Text
  /\ \A s \in Text : s \o <<>> = s /\ <<>> \o s = s
BY ConcatEmptySeq DEF Text

\* A hit of matcher i makes no text.
Erasing(i) == Chain[i].kind = "configured" => Erases(Chain[i].obj)

\* Nothing that makes text has hit.
Unmade(h) == \A j \in 1 .. Size : h[j] = 0 \/ Erasing(j)

\* What Replace answers is a text, and unless it puts one in it can be read off the
\* content.
LEMMA ReplaceIs ==
  ASSUME NEW o \in Entries, NEW c \in Text
  PROVE  /\ Replace(o, c) \in Text
         /\ o.malformed \/ o.replacement = <<>> \/ c = <<>> => Embeds(Replace(o, c), c)
<1> DEFINE at  == Index(c, o.pattern)
           n   == Len(o.pattern)
           x   == Slice(c, 0, at)
           y   == From(c, at + n)
           all == x \o o.replacement \o y
<1>1. /\ o.pattern \in Text /\ o.pattern # <<>> /\ o.replacement \in Text
      /\ o.malformed \in BOOLEAN
  BY DEF Entries
<1>2. n \in Nat /\ n # 0 /\ Len(c) \in Nat /\ (c = <<>> => Len(c) = 0)
  BY <1>1, LenProperties DEF Text
<1>3. at = -1 \/ (at \in Nat /\ at + n <= Len(c))
  BY <1>1, <1>2, IndexIs
<1>4. /\ <<>> \in Text /\ Embeds(<<>>, c) /\ Embeds(c, c)
  BY EmbedsEmpty, EmbedsSelf, TextEmpty
<1>5. ASSUME ~ (at < 0)
      PROVE  /\ all \in Text /\ c # <<>>
             /\ o.replacement = <<>> => Embeds(all, c)
  <2>1. at \in Int /\ at + n \in Int /\ InRange(c, at, at + n)
    BY <1>2, <1>3, <1>5 DEF InRange
  <2>2. InRange(c, 0, at) /\ InRange(c, at + n, Len(c))
    BY <1>2, <1>3, <1>5 DEF InRange
  <2>3. x \in Text /\ y \in Text
    <3> HIDE DEF at, n
    <3> QED
      BY <1>2, <2>1, <2>2, SliceIs, FromIs
  <2>4. Embeds(x \o y, c)
    <3> HIDE DEF at, n
    <3> QED
      BY <2>1, EmbedsCut
  <2>5. c # <<>>
    BY <1>2, <1>3, <1>5
  <2> HIDE DEF x, y
  <2>6. all \in Text /\ (o.replacement = <<>> => all = x \o y)
    BY <1>1, <2>3, TextConcat, TextEmpty
  <2> QED
    BY <2>4, <2>5, <2>6
<1>6. Replace(o, c) = CASE o.malformed -> <<>>
                        [] ~ o.malformed /\ at < 0 -> c
                        [] OTHER -> all
  BY DEF Replace
<1> HIDE DEF at, all
<1>7. CASE o.malformed
  BY <1>4, <1>6, <1>7
<1>8. CASE ~ o.malformed /\ at < 0
  BY <1>4, <1>6, <1>8
<1>9. CASE ~ o.malformed /\ ~ (at < 0)
  BY <1>5, <1>6, <1>9
<1> QED
  BY <1>1, <1>7, <1>8, <1>9

\* The same of a configured matcher.
LEMMA ConfiguredIs ==
  ASSUME NEW o \in Entries, NEW c \in Text
  PROVE  /\ ConfiguredHandler(o, c).result \in Text
         /\ Erases(o) => Embeds(ConfiguredHandler(o, c).result, c)
<1> DEFINE r == ConfiguredHandler(o, c).result
           a == Replace(o, c)
<1>1. o.thinkReason \in BOOLEAN /\ o.malformed \in BOOLEAN
  BY DEF Entries
<1>2. /\ <<>> \in Text /\ Embeds(<<>>, c) /\ Embeds(c, c)
  BY EmbedsEmpty, EmbedsSelf, TextEmpty
<1>3. /\ a \in Text
      /\ o.malformed \/ o.replacement = <<>> \/ c = <<>> => Embeds(a, c)
  BY ReplaceIs
<1> HIDE DEF a
<1>4. CASE o.regex = "blank" \/ (o.thinkReason /\ c # <<>>)
  <2>1. r = <<>>
    BY <1>4 DEF ConfiguredHandler, Answer
  <2> HIDE DEF r
  <2>2. r \in Text /\ Embeds(r, c)
    BY <1>2, <2>1
  <2> QED
    BY <2>2 DEF r
<1>5. CASE ~ (o.regex = "blank" \/ (o.thinkReason /\ c # <<>>))
  <2>1. r = IF o.malformed THEN c ELSE a
    BY <1>5 DEF ConfiguredHandler, Answer, a
  <2> HIDE DEF r
  <2>2. Erases(o) => o.malformed \/ o.replacement = <<>> \/ c = <<>>
    BY <1>5 DEF Erases
  <2>3. r \in Text /\ (Erases(o) => Embeds(r, c))
    BY <1>1, <1>2, <1>3, <2>1, <2>2
  <2> QED
    BY <2>3 DEF r
<1> QED
  BY <1>4, <1>5

\* What a hit lets through can be read off the content, unless it makes text.
LEMMA HitResult ==
  ASSUME NEW i \in DOMAIN Chain, NEW index, NEW content \in Text, NEW mm,
         H(i, index, content, mm).state = Matched, H(i, index, content, mm).panic = FALSE
  PROVE  /\ H(i, index, content, mm).result \in Text
         /\ Erasing(i) => Embeds(H(i, index, content, mm).result, content)
<1> DEFINE h == H(i, index, content, mm)
<1>1. <<>> \in Text /\ Embeds(<<>>, content)
  BY EmbedsEmpty DEF Text
<1>3. ASSUME NEW t \in Text, ~ (LastIndex(content, t) < 0)
      PROVE  Block(t, content) \in Text /\ Embeds(Block(t, content), content)
  <2> DEFINE b == LastIndex(content, t) + Len(t)
  <2>1. b \in Int /\ InRange(content, 0, b)
    <3>1. Len(t) \in Nat
      BY LenProperties DEF Text
    <3> QED
      BY <1>3, <3>1, IndexIs DEF InRange
  <2>2. Block(t, content) = Slice(content, 0, b)
    BY DEF Block
  <2> HIDE DEF b
  <2> QED
    BY <2>1, <2>2, SliceIs, EmbedsSlice
<1>4. CASE i = 1
  <2> DEFINE from == Offset(content, mm)
             idx  == LastIndex(content, ThinkClose)
  <2>1. h = ThinkHandler(content, mm)
    BY <1>4, HIs
  <2>2. ~ (idx < 0)
    BY <2>1 DEF ThinkHandler, Answer, Matching, Matched
  <2>3. h.result = From(content, idx + TagLen)
    BY <2>1, <2>2 DEF ThinkHandler, Answer
  <2>4. Len(ThinkClose) = 2
    BY DEF ThinkClose
  <2>5. idx \in Nat /\ idx + 2 <= Len(content)
    <3>1. idx = -1 \/ (idx \in Nat /\ idx + Len(ThinkClose) <= Len(content))
      <4>1. Len(ThinkClose) \in Nat
        BY <2>4
      <4> QED
        BY <4>1, IndexIs
    <3> HIDE DEF idx
    <3> QED
      BY <2>2, <2>4, <3>1
  <2>6. idx + TagLen \in Int /\ InRange(content, idx + TagLen, Len(content)) /\ Len(content) \in Int
    BY <2>5, LenProperties DEF InRange, TagLen, Text
  <2> HIDE DEF h, idx
  <2>7. h.result \in Text /\ Embeds(h.result, content)
    BY <2>3, <2>6, FromIs, EmbedsSlice DEF From
  <2> QED
    BY <2>7 DEF h
<1>5. CASE i = 2
  <2>1. h = Wait(content) \/ h = CallHandler(Block(CallClose, content))
    BY <1>5, HIs DEF Enclosed
  <2>2. h.result = <<>>
    BY <2>1 DEF Wait, CallHandler, Answer, Matching, Matched
  <2> QED
    BY <1>1, <2>2
<1>6. CASE i = 3
  <2>1. h.result = <<>>
    BY <1>6, HIs DEF Answer
  <2> QED
    BY <1>1, <2>1
<1>7. CASE i \in 4 .. Size
  <2> DEFINE o == Chain[i].obj
  <2>1. o \in Entries /\ o.over \in Text
    BY <1>7, Configured DEF Entries
  <2>2. h = IF o.over # <<>>
            THEN Enclosed(o.over, content, ConfiguredHandler(o, Block(o.over, content)))
            ELSE Span(o, index, content)
    BY <1>7, HIs
  <2>3. h.state = Matched
    OBVIOUS
  <2>4. Wait(content).state # Matched
    BY DEF Wait, Answer, Matching, Matched
  <2> HIDE DEF h, o
  <2>5. \/ h = ConfiguredHandler(o, content)
        \/ h = ConfiguredHandler(o, Block(o.over, content)) /\ ~ (LastIndex(content, o.over) < 0)
    <3>1. CASE o.over # <<>>
      BY <2>2, <2>3, <2>4, <3>1 DEF Enclosed
    <3>2. CASE o.over = <<>>
      BY <2>2, <2>3, <2>4, <3>2 DEF Span
    <3> QED
      BY <3>1, <3>2
  <2>6. h.result \in Text /\ (Erases(o) => Embeds(h.result, content))
    <3>1. CASE h = ConfiguredHandler(o, content)
      BY <2>1, <3>1, ConfiguredIs
    <3>2. CASE h = ConfiguredHandler(o, Block(o.over, content)) /\ ~ (LastIndex(content, o.over) < 0)
      <4>1. Block(o.over, content) \in Text /\ Embeds(Block(o.over, content), content)
        BY <1>3, <2>1, <3>2
      <4>2. h.result \in Text /\ (Erases(o) => Embeds(h.result, Block(o.over, content)))
        BY <2>1, <3>2, <4>1, ConfiguredIs
      <4> QED
        BY <4>1, <4>2, EmbedsTransitive
    <3> QED
      BY <2>5, <3>1, <3>2
  <2>7. Erasing(i) => Erases(o)
    BY <1>7, Configured DEF Erasing, o
  <2> QED
    BY <2>6, <2>7 DEF h
<1> QED
  BY <1>4, <1>5, <1>6, <1>7, ChainIs

-----------------------------------------------------------------------------
(* The texts that are held back.                                           *)

LEMMA TextAssociative ==
  ASSUME NEW s \in Text, NEW t \in Text, NEW u \in Text
  PROVE  (s \o t) \o u = s \o (t \o u)
BY ConcatAssociative DEF Text

\* The same, as a fact about three texts that may be sums themselves.
LEMMA TextRegroups ==
  ASSUME NEW s \in Text, NEW t \in Text, NEW u \in Text
  PROVE  Regroups(s, t, u)
BY TextAssociative DEF Regroups

\* c[b] \o ... \o c[a].
Held(c, a, b) == FlattenSeq([k \in 1 .. (b - a + 1) |-> c[b + 1 - k]])

TextsUpTo(c, n) == \A i \in 1 .. n : c[i] \in Text

LEMMA HeldType ==
  ASSUME NEW c, NEW n \in Nat, TextsUpTo(c, n), NEW a \in 1 .. (n + 1), NEW b \in 0 .. n
  PROVE  Held(c, a, b) \in Text
<1> DEFINE s == [k \in 1 .. (b - a + 1) |-> c[b + 1 - k]]
<1>1. \A k \in 1 .. (b - a + 1) : s[k] \in Text
  BY DEF TextsUpTo
<1>2. s \in Seq(Text)
  <2>1. CASE b - a + 1 < 0
    <3>1. 1 .. (b - a + 1) = {}
      BY <2>1
    <3>2. s = <<>>
      BY <3>1
    <3> QED
      BY <3>2
  <2>2. CASE b - a + 1 >= 0
    BY <1>1, <2>2, IsASeq
  <2> QED
    BY <2>1, <2>2
<1>3. FlattenSeq(s) \in Text
  BY <1>2, FlattenType DEF Text
<1> QED
  BY <1>3 DEF Held

LEMMA HeldNone ==
  ASSUME NEW c, NEW a \in Nat
  PROVE  Held(c, a + 1, a) = <<>>
<1>1. [k \in 1 .. (a - (a + 1) + 1) |-> c[a + 1 - k]] = <<>>
  OBVIOUS
<1> QED
  BY <1>1, FlattenEmpty DEF Held

LEMMA HeldSame ==
  ASSUME NEW c, NEW d, NEW a \in Nat, NEW b \in Nat, \A i \in a .. b : c[i] = d[i]
  PROVE  Held(c, a, b) = Held(d, a, b)
<1>1. \A k \in 1 .. (b - a + 1) : c[b + 1 - k] = d[b + 1 - k]
  OBVIOUS
<1>2. [k \in 1 .. (b - a + 1) |-> c[b + 1 - k]] = [k \in 1 .. (b - a + 1) |-> d[b + 1 - k]]
  BY <1>1
<1> QED
  BY <1>2 DEF Held

LEMMA HeldFirst ==
  ASSUME NEW c, NEW n \in Nat, TextsUpTo(c, n), NEW a \in 1 .. n, NEW b \in a .. n
  PROVE  Held(c, a, b) = c[b] \o Held(c, a, b - 1)
<1> DEFINE s == [k \in 1 .. (b - a + 1) |-> c[b + 1 - k]]
           t == [k \in 1 .. (b - a) |-> c[b - k]]
           u == <<c[b]>>
<1>1. b - a + 1 \in Nat /\ b - a \in Nat /\ c[b] \in Text
  BY DEF TextsUpTo
<1>2. t \in Seq(Text)
  <2>1. \A k \in 1 .. (b - a) : t[k] \in Text
    BY DEF TextsUpTo
  <2> QED
    BY <1>1, <2>1, IsASeq
<1>3. u \in Seq(Text) /\ Len(u) = 1 /\ u[1] = c[b]
  BY <1>1
<1>4. Len(t) = b - a /\ \A k \in 1 .. (b - a) : t[k] = c[b - k]
  BY <1>1
<1>5. /\ u \o t \in Seq(Text) /\ Len(u \o t) = b - a + 1
      /\ \A k \in 1 .. (b - a + 1) : (u \o t)[k] = IF k <= 1 THEN u[k] ELSE t[k - 1]
  <2>1. /\ u \o t \in Seq(Text) /\ Len(u \o t) = Len(u) + Len(t)
        /\ \A k \in 1 .. (Len(u) + Len(t)) : (u \o t)[k] = IF k <= Len(u) THEN u[k] ELSE t[k - Len(u)]
    <3> HIDE DEF u, t
    <3> QED
      BY <1>2, <1>3, ConcatProperties
  <2>2. Len(u) + Len(t) = b - a + 1
    BY <1>1, <1>3, <1>4
  <2> HIDE DEF u, t
  <2> QED
    BY <1>3, <2>1, <2>2
<1>6. s \in Seq(Text) /\ Len(s) = b - a + 1 /\ \A k \in 1 .. (b - a + 1) : s[k] = c[b + 1 - k]
  <2>1. \A k \in 1 .. (b - a + 1) : s[k] \in Text
    BY DEF TextsUpTo
  <2> QED
    BY <1>1, <2>1, IsASeq
<1>7. \A k \in 1 .. (b - a + 1) : s[k] = (u \o t)[k]
  <2> TAKE k \in 1 .. (b - a + 1)
  <2>1. CASE k = 1
    <3>1. b + 1 - k = b /\ k <= 1
      BY <2>1
    <3> HIDE DEF s, t, u
    <3> QED
      BY <1>3, <1>5, <1>6, <2>1, <3>1
  <2>2. CASE k # 1
    <3>1. k - 1 \in 1 .. (b - a) /\ b - (k - 1) = b + 1 - k /\ ~ (k <= 1)
      BY <2>2
    <3> HIDE DEF s, t, u
    <3> QED
      BY <1>4, <1>5, <1>6, <3>1
  <2> QED
    BY <2>1, <2>2
<1> HIDE DEF s, t, u
<1>8. s = u \o t
  BY <1>5, <1>6, <1>7, SeqEqual
<1>9. FlattenSeq(u \o t) = FlattenSeq(u) \o FlattenSeq(t)
  BY <1>2, <1>3, FlattenConcat DEF Text
<1>10. FlattenSeq(u) = c[b]
  BY <1>1, FlattenOne DEF u, Text
<1>11. Held(c, a, b) = FlattenSeq(s)
  BY DEF Held, s
<1>12. Held(c, a, b - 1) = FlattenSeq(t)
  <2>1. (b - 1) - a + 1 = b - a /\ (b - 1) + 1 = b
    OBVIOUS
  <2>2. [k \in 1 .. ((b - 1) - a + 1) |-> c[(b - 1) + 1 - k]] = t
    BY <2>1 DEF t
  <2> QED
    BY <2>2 DEF Held
<1> QED
  BY <1>8, <1>9, <1>10, <1>11, <1>12

LEMMA HeldLast ==
  ASSUME NEW c, NEW n \in Nat, TextsUpTo(c, n), NEW a \in 1 .. n
  PROVE  Held(c, a, n) = Held(c, a + 1, n) \o c[a]
<1> DEFINE Ends(b) == Held(c, a, b) = Held(c, a + 1, b) \o c[a]
           T == {b \in a .. n : Ends(b)}
<1>1. c[a] \in Text /\ a \in a .. n
  BY DEF TextsUpTo
<1>2. Ends(a)
  <2>1. Held(c, a, a) = c[a] \o Held(c, a, a - 1)
    BY <1>1, HeldFirst
  <2>2. Held(c, a, a - 1) = <<>>
    <3>1. a - 1 \in Nat /\ (a - 1) + 1 = a
      OBVIOUS
    <3> DEFINE d == a - 1
    <3>2. Held(c, d + 1, d) = <<>>
      BY <3>1, HeldNone
    <3> QED
      BY <3>1, <3>2
  <2>3. Held(c, a + 1, a) = <<>>
    BY HeldNone
  <2>4. c[a] \o <<>> = c[a] /\ <<>> \o c[a] = c[a]
    BY <1>1, ConcatEmptySeq DEF Text
  <2> QED
    BY <2>1, <2>2, <2>3, <2>4
<1>3. ASSUME NEW b \in a .. n, Ends(b), b < n
      PROVE  Ends(b + 1)
  <2> DEFINE x == Held(c, a, b)
             y == Held(c, a + 1, b)
             z == c[b + 1]
  <2>1. b + 1 \in a .. n /\ b + 1 \in (a + 1) .. n /\ a + 1 \in 1 .. n /\ (b + 1) - 1 = b
    BY <1>3
  <2>2. Held(c, a, b + 1) = z \o x
    BY <2>1, HeldFirst
  <2>3. Held(c, a + 1, b + 1) = z \o y
    BY <2>1, HeldFirst
  <2>4. x = y \o c[a]
    BY <1>3
  <2>5. z \in Text /\ y \in Text
    <3>1. b \in 0 .. n /\ a + 1 \in 1 .. (n + 1) /\ b + 1 \in 1 .. n
      BY <2>1
    <3> QED
      BY <3>1, HeldType DEF TextsUpTo
  <2> HIDE DEF x, y, z
  <2>6. z \o (y \o c[a]) = (z \o y) \o c[a]
    BY <1>1, <2>5, TextAssociative
  <2> QED
    BY <2>2, <2>3, <2>4, <2>6
<1> HIDE DEF Ends
<1>4. a .. n \subseteq T
  <2>1. \A b \in a .. n : b \in T /\ b < n => b + 1 \in T
    BY <1>3
  <2>2. a \in T
    BY <1>1, <1>2
  <2> HIDE DEF T
  <2> QED
    BY <2>1, <2>2, InductionUpTo
<1>5. n \in T
  BY <1>4
<1> QED
  BY <1>5 DEF Ends

-----------------------------------------------------------------------------
(* What a matcher makes of the text: it may drop some, and only a          *)
(* replacement adds any.                                                   *)

TextWork(w) == IsWork(w) /\ w.text \in Text /\ TextsUpTo(w.cache, Size)

LEMMA ContentIs ==
  ASSUME NEW w, TextWork(w), NEW i \in 1 .. Size
  PROVE  /\ Content(i, w) \in Text /\ w.cache[i] \in Text /\ w.text \in Text
         /\ w.cache[i] \o w.text \in Text
         /\ Embeds(Content(i, w), w.cache[i] \o w.text)
         /\ Chain[i].find # <<>> => Content(i, w) = w.cache[i] \o w.text
<1> DEFINE c == w.cache[i]
           t == w.text
<1>1. c \in Text /\ t \in Text
  BY DEF TextWork, TextsUpTo
<1>2. Content(i, w) = IF Chain[i].find = <<>> THEN t ELSE c \o t
  BY DEF Content
<1> HIDE DEF c, t
<1>3. c \o t \in Text /\ Embeds(c \o t, c \o t)
  BY <1>1, TextConcat, EmbedsSelf
<1>4. Embeds(t, c \o t)
  <2>1. Embeds(<<>>, c) /\ Embeds(t, t) /\ <<>> \in Text /\ <<>> \o t = t
    BY <1>1, EmbedsEmpty, EmbedsSelf, TextEmpty
  <2>2. Embeds(<<>> \o t, c \o t)
    BY <1>1, <2>1, EmbedsConcat
  <2> QED
    BY <2>1, <2>2
<1>5. /\ Content(i, w) \in Text /\ Embeds(Content(i, w), c \o t)
      /\ Chain[i].find # <<>> => Content(i, w) = c \o t
  BY <1>1, <1>2, <1>3, <1>4
<1> QED
  BY <1>1, <1>3, <1>5 DEF c, t

\* v is made of w by matcher i.
Moves(i, w, v, last) ==
  /\ v.text \o (IF last THEN <<>> ELSE v.cache[i]) \in Text
  /\ v.hits[i] = 0 \/ Erasing(i) =>
       Embeds(v.text \o (IF last THEN <<>> ELSE v.cache[i]), w.cache[i] \o w.text)
  /\ ~ last /\ Chain[i].find # <<>> /\ v.hits[i] = 0 =>
       v.text \o v.cache[i] = w.cache[i] \o w.text

LEMMA ScanTexts ==
  ASSUME NEW w, TextWork(w), NEW i \in 1 .. Size, NEW last \in BOOLEAN
  PROVE  LET v == Scan(i, w, last)
         IN  /\ TextWork(v)
             /\ \A j \in 1 .. Size : j # i => v.cache[j] = w.cache[j] /\ v.hits[j] = w.hits[j]
             /\ \A j \in 1 .. Size : w.hits[j] <= v.hits[j]
             /\ v.panic = FALSE =>
                  w.panic = FALSE /\ Moves(i, w, v, last) /\ (v.live = FALSE /\ w.live => v.text = <<>>)
<1> DEFINE v == Scan(i, w, last)
           c == Content(i, w)
           h == H(i, At(i, w), c, w.mem)
           r == h.result
           a == w.cache[i]
           t == w.text
           N == 1 .. Size
           Goal == /\ TextWork(v)
                   /\ \A j \in N : j # i => v.cache[j] = w.cache[j] /\ v.hits[j] = w.hits[j]
                   /\ \A j \in N : w.hits[j] <= v.hits[j]
                   /\ v.panic = FALSE =>
                        w.panic = FALSE /\ Moves(i, w, v, last) /\ (v.live = FALSE /\ w.live => v.text = <<>>)
<1>1. DOMAIN Chain = N /\ i \in DOMAIN Chain /\ Size \in Nat
  BY ChainIs
<1>2. IsWork(w) /\ t \in Text /\ TextsUpTo(w.cache, Size)
  BY DEF TextWork
<1>3. /\ IsWork(v)
      /\ \/ HandsOn(i, w, v) \/ Keeps(i, w, v) \/ Panics(i, w, v)
         \/ Hits(i, w, v, h) \/ LetsGo(i, w, v, h, last)
  BY <1>1, <1>2, ScanOutcomes
<1>4. c \in Text /\ a \in Text /\ a \o t \in Text /\ Embeds(c, a \o t)
      /\ (Chain[i].find # <<>> => c = a \o t)
  BY ContentIs
<1>5. h.state = Matched /\ h.panic = FALSE => r \in Text /\ (Erasing(i) => Embeds(r, c))
  BY <1>1, <1>4, HitResult
<1>6. w.hits \in [N -> Nat] /\ DOMAIN w.cache = N
  BY <1>1, <1>2 DEF IsWork
<1>7. /\ <<>> \in Text /\ c \o <<>> = c /\ <<>> \o c = c /\ <<>> \o <<>> = <<>>
      /\ (r \in Text => r \o <<>> = r)
      /\ (t \in Text => t \o <<>> = t)
  BY <1>4, TextEmpty
<1>9. ASSUME NEW x \in Text, v.cache = [w.cache EXCEPT ![i] = x]
      PROVE  /\ TextsUpTo(v.cache, Size) /\ v.cache[i] = x
             /\ \A j \in N : j # i => v.cache[j] = w.cache[j]
  BY <1>2, <1>6, <1>9 DEF TextsUpTo
<1>8. w.live \in BOOLEAN /\ v.live \in BOOLEAN
  BY <1>2, <1>3 DEF IsWork
<1> SUFFICES Goal
  OBVIOUS
<1> HIDE DEF v, c, h, r, a, t, N
<1>14. \A j \in N : w.hits[j] \in Nat /\ w.hits[j] <= w.hits[j]
  <2> TAKE j \in N
  <2>1. w.hits[j] \in Nat
    BY <1>6
  <2> QED
    BY <2>1
<1>10. CASE HandsOn(i, w, v)
  <2>1. /\ v.text = c /\ v.cache = [w.cache EXCEPT ![i] = <<>>] /\ v.hits = w.hits
        /\ v.live = w.live /\ v.panic = w.panic /\ Chain[i].find # <<>>
    BY <1>10 DEF HandsOn, c
  <2>2. /\ TextsUpTo(v.cache, Size) /\ v.cache[i] = <<>>
        /\ \A j \in N : j # i => v.cache[j] = w.cache[j]
    BY <1>7, <1>9, <2>1
  <2>3. Moves(i, w, v, last)
    BY <1>4, <1>7, <2>1, <2>2 DEF Moves, a, t
  <2>4. TextWork(v)
    BY <1>3, <1>4, <2>1, <2>2 DEF TextWork
  <2> QED
    BY <1>8, <1>14, <2>1, <2>2, <2>3, <2>4
<1>11. CASE Keeps(i, w, v)
  <2>1. /\ v.text = <<>> /\ v.cache = [w.cache EXCEPT ![i] = c] /\ v.hits = w.hits
        /\ v.panic = w.panic
    BY <1>11 DEF Keeps, c
  <2>2. /\ TextsUpTo(v.cache, Size) /\ v.cache[i] = c
        /\ \A j \in N : j # i => v.cache[j] = w.cache[j]
    BY <1>4, <1>9, <2>1
  <2>3. Moves(i, w, v, last)
    <3>1. Embeds(<<>>, a \o t)
      BY <1>4, EmbedsEmpty
    <3> QED
      BY <1>4, <1>7, <2>1, <2>2, <3>1 DEF Moves, a, t
  <2>4. TextWork(v)
    BY <1>3, <1>7, <2>1, <2>2 DEF TextWork
  <2> QED
    BY <1>8, <1>14, <2>1, <2>2, <2>3, <2>4
<1>12. CASE Panics(i, w, v)
  <2>1. v.text = t /\ v.cache = w.cache /\ v.hits = w.hits /\ v.panic = TRUE
    BY <1>12 DEF Panics, t
  <2>2. TextWork(v)
    BY <1>2, <1>3, <2>1 DEF TextWork
  <2> QED
    BY <1>14, <2>1, <2>2
<1>13. CASE Hits(i, w, v, h)
  <2>1. /\ v.text = r /\ v.cache = [w.cache EXCEPT ![i] = <<>>]
        /\ v.hits = [w.hits EXCEPT ![i] = @ + 1]
        /\ v.live = w.live /\ v.panic = w.panic /\ h.state = Matched /\ h.panic = FALSE
    BY <1>13 DEF Hits, r
  <2>2. /\ TextsUpTo(v.cache, Size) /\ v.cache[i] = <<>>
        /\ \A j \in N : j # i => v.cache[j] = w.cache[j]
    BY <1>7, <1>9, <2>1
  <2>3. r \in Text /\ (Erasing(i) => Embeds(r, a \o t))
    BY <1>4, <1>5, <2>1, EmbedsTransitive
  <2>4. v.hits[i] = w.hits[i] + 1 /\ \A j \in N : j # i => v.hits[j] = w.hits[j]
    BY <1>1, <1>6, <2>1 DEF N
  <2>5. v.hits[i] # 0 /\ \A j \in N : w.hits[j] <= v.hits[j]
    BY <1>1, <1>6, <2>4 DEF N
  <2>6. Moves(i, w, v, last)
    BY <1>7, <2>1, <2>2, <2>3, <2>5 DEF Moves, a, t
  <2>7. TextWork(v)
    BY <1>3, <2>1, <2>2, <2>3 DEF TextWork
  <2> QED
    BY <1>8, <2>1, <2>2, <2>4, <2>5, <2>6, <2>7
<1>15. CASE LetsGo(i, w, v, h, last)
  <2>1. v.text = c /\ v.cache = w.cache /\ v.hits = w.hits /\ last
        /\ v.live = w.live /\ v.panic = w.panic
    BY <1>15 DEF LetsGo, c
  <2>2. Moves(i, w, v, last)
    BY <1>4, <1>7, <2>1 DEF Moves, a, t
  <2>3. TextWork(v)
    BY <1>2, <1>3, <1>4, <2>1 DEF TextWork
  <2> QED
    BY <1>8, <1>14, <2>1, <2>2, <2>3
<1> QED
  BY <1>3, <1>10, <1>11, <1>12, <1>13, <1>15

LEMMA StepTexts ==
  ASSUME NEW w, TextWork(w), NEW i \in 1 .. Size, NEW last \in BOOLEAN
  PROVE  LET v == Step(i, w, last)
         IN  /\ TextWork(v)
             /\ \A j \in 1 .. Size : j # i => v.cache[j] = w.cache[j] /\ v.hits[j] = w.hits[j]
             /\ \A j \in 1 .. Size : w.hits[j] <= v.hits[j]
             /\ v.panic = FALSE => w.panic = FALSE
             /\ v.panic = FALSE /\ (w.live = FALSE => w.text = <<>>) =>
                  Moves(i, w, v, last) /\ (v.live = FALSE => v.text = <<>>)
<1> DEFINE v == Step(i, w, last)
           Goal == /\ TextWork(v)
                   /\ \A j \in 1 .. Size : j # i => v.cache[j] = w.cache[j] /\ v.hits[j] = w.hits[j]
                   /\ \A j \in 1 .. Size : w.hits[j] <= v.hits[j]
                   /\ v.panic = FALSE => w.panic = FALSE
                   /\ v.panic = FALSE /\ (w.live = FALSE => w.text = <<>>) =>
                        Moves(i, w, v, last) /\ (v.live = FALSE => v.text = <<>>)
<1> SUFFICES Goal
  OBVIOUS
<1>1. w.live \in BOOLEAN
  BY DEF TextWork, IsWork
<1>2. CASE w.live
  <2> DEFINE x == Scan(i, w, last)
  <2>1. v = x
    BY <1>2 DEF Step
  <2>2. /\ TextWork(x)
        /\ \A j \in 1 .. Size : j # i => x.cache[j] = w.cache[j] /\ x.hits[j] = w.hits[j]
        /\ \A j \in 1 .. Size : w.hits[j] <= x.hits[j]
        /\ x.panic = FALSE =>
             w.panic = FALSE /\ Moves(i, w, x, last) /\ (x.live = FALSE /\ w.live => x.text = <<>>)
    BY ScanTexts
  <2> HIDE DEF v, x
  <2> QED
    BY <1>2, <2>1, <2>2
<1>3. CASE w.live = FALSE
  <2>1. v = w
    BY <1>3 DEF Step
  <2>2. w.hits \in [1 .. Size -> Nat]
    BY ChainIs DEF TextWork, IsWork
  <2>3. \A j \in 1 .. Size : w.hits[j] <= w.hits[j]
    <3> TAKE j \in 1 .. Size
    <3>1. w.hits[j] \in Nat
      BY <2>2
    <3> QED
      BY <3>1
  <2>4. ASSUME w.text = <<>> PROVE Moves(i, w, w, last)
    <3> DEFINE c == w.cache[i]
    <3>1. c \in Text
      BY DEF TextWork, TextsUpTo
    <3> HIDE DEF c
    <3>2. /\ <<>> \in Text /\ <<>> \o <<>> = <<>> /\ <<>> \o c = c /\ c \o <<>> = c
          /\ Embeds(<<>>, c) /\ Embeds(c, c)
      BY <3>1, TextEmpty, EmbedsEmpty, EmbedsSelf
    <3> QED
      BY <2>4, <3>1, <3>2 DEF Moves, c
  <2> HIDE DEF v
  <2> QED
    BY <1>3, <2>1, <2>3, <2>4
<1> QED
  BY <1>1, <1>2, <1>3

\* A matcher leaves what the others hold back and count.
LEMMA StepKeeps ==
  ASSUME NEW w, TextWork(w), NEW i \in 1 .. Size, NEW last \in BOOLEAN,
         NEW v, v = Step(i, w, last)
  PROVE  /\ TextWork(v)
         /\ \A j \in 1 .. Size : j # i => v.cache[j] = w.cache[j] /\ v.hits[j] = w.hits[j]
         /\ \A j \in 1 .. Size : w.hits[j] <= v.hits[j]
<1> DEFINE x == Step(i, w, last)
<1>1. /\ TextWork(x)
      /\ \A j \in 1 .. Size : j # i => x.cache[j] = w.cache[j] /\ x.hits[j] = w.hits[j]
      /\ \A j \in 1 .. Size : w.hits[j] <= x.hits[j]
  BY StepTexts
<1>2. v = x
  OBVIOUS
<1> HIDE DEF x
<1> QED
  BY ONLY <1>1, <1>2

\* The ways to read four texts in a row.
Regroup(a, c, t, b) ==
  /\ (a \o c) \o (t \o b) = a \o ((c \o t) \o b)
  /\ a \o (c \o (t \o b)) = a \o ((c \o t) \o b)
  /\ a \o ((c \o t) \o b) \in Text

LEMMA FourTexts ==
  ASSUME NEW a \in Text, NEW c \in Text, NEW t \in Text, NEW b \in Text
  PROVE  Regroup(a, c, t, b)
<1>1. t \o b \in Text /\ c \o t \in Text
  BY TextConcat
<1>2. (a \o c) \o (t \o b) = a \o (c \o (t \o b))
  <2> DEFINE x == t \o b
  <2>1. x \in Text
    BY <1>1
  <2> HIDE DEF x
  <2>2. Regroups(a, c, x)
    BY <2>1, TextRegroups
  <2> QED
    BY ONLY <2>2 DEF Regroups, x
<1>3. c \o (t \o b) = (c \o t) \o b
  <2>1. Regroups(c, t, b)
    BY TextRegroups
  <2> QED
    BY ONLY <2>1 DEF Regroups
<1>4. (c \o t) \o b \in Text
  BY <1>1, TextConcat
<1>5. a \o ((c \o t) \o b) \in Text
  BY <1>4, TextConcat
<1> QED
  BY <1>2, <1>3, <1>5 DEF Regroup

LEMMA EmbedsMiddle ==
  ASSUME NEW a \in Text, NEW b \in Text, NEW x \in Text, NEW y \in Text, Embeds(x, y)
  PROVE  Embeds(a \o (x \o b), a \o (y \o b))
<1>1. x \o b \in Text /\ y \o b \in Text /\ Embeds(a, a) /\ Embeds(b, b)
  BY TextConcat, EmbedsSelf
<1>2. Embeds(x \o b, y \o b)
  BY <1>1, EmbedsConcat
<1> QED
  BY <1>1, <1>2, EmbedsConcat

\* What a matcher and all before it hold back; at the end of the stream nothing counts
\* any more.
Behind(w, i, last) == IF last THEN <<>> ELSE Held(w.cache, 1, i)

AllFind == \A i \in 1 .. Size : Chain[i].find # <<>>

\* What is left of the stream after i matchers, in its order: what the matchers after
\* them hold, the text in hand, what they hold themselves.
Line(w, i, last) == Held(cache, i + 1, Size) \o (w.text \o Behind(w, i, last))

InLine(w, i, chunk, last) ==
  /\ TextWork(w)
  /\ \A j \in (i + 1) .. Size : w.cache[j] = cache[j]
  /\ \A j \in 1 .. Size : hits[j] <= w.hits[j]
  /\ w.panic = FALSE =>
       /\ w.live = FALSE => w.text = <<>>
       /\ Unmade(w.hits) => Embeds(Line(w, i, last), Held(cache, 1, Size) \o chunk)
       /\ ~ last /\ AllFind /\ (\A j \in 1 .. Size : w.hits[j] = 0) =>
            Line(w, i, last) = Held(cache, 1, Size) \o chunk

Texts == Basic /\ TextsUpTo(cache, Size)

LEMMA InLineStart ==
  ASSUME Texts, NEW chunk \in Text, NEW last \in BOOLEAN
  PROVE  InLine(Start(chunk), 0, chunk, last)
<1> DEFINE w == Start(chunk)
           k == Held(cache, 1, Size)
<1>1. /\ DOMAIN w = {"text", "cache", "mem", "put", "live", "panic", "hits"}
      /\ w = [x \in DOMAIN w |-> w[x]]
      /\ w.cache = cache /\ w.hits = hits /\ w.live = TRUE /\ w.panic = FALSE /\ w.text = chunk
  BY DEF Start
<1>2. Size \in Nat /\ DOMAIN Chain = 1 .. Size
  BY ChainIs
<1>3. k \in Text
  BY <1>2, HeldType DEF Texts
<1>4. Behind(w, 0, last) = <<>>
  <2>1. Held(w.cache, 0 + 1, 0) = <<>>
    BY HeldNone
  <2>2. 0 + 1 = 1
    OBVIOUS
  <2> QED
    BY <2>1, <2>2 DEF Behind
<1> HIDE DEF w, k
<1>5. TextWork(w)
  BY <1>1 DEF TextWork, IsWork, Texts, Basic
<1>6. Line(w, 0, last) = k \o chunk
  <2>1. 0 + 1 = 1 /\ chunk \o <<>> = chunk
    BY TextEmpty
  <2> QED
    BY <1>1, <1>4, <2>1 DEF Line, k
<1>7. Embeds(k \o chunk, k \o chunk)
  BY <1>3, TextConcat, EmbedsSelf
<1>8. \A j \in 1 .. Size : hits[j] <= hits[j]
  <2> TAKE j \in 1 .. Size
  <2>1. hits[j] \in Nat
    BY <1>2 DEF Texts, Basic
  <2> QED
    BY <2>1
<1>9. InLine(w, 0, chunk, last)
  BY <1>1, <1>5, <1>6, <1>7, <1>8 DEF InLine, k
<1> QED
  BY <1>9 DEF w

LEMMA InLineStep ==
  ASSUME Texts, NEW chunk \in Text, NEW last \in BOOLEAN, NEW i \in 1 .. Size, NEW w,
         InLine(w, i - 1, chunk, last)
  PROVE  InLine(Step(i, w, last), i, chunk, last)
<1> DEFINE v == Step(i, w, last)
           a == Held(cache, i + 1, Size)
           c == w.cache[i]
           t == w.text
           b == Behind(w, i - 1, last)
           x == IF last THEN <<>> ELSE v.cache[i]
           r == Held(cache, 1, Size) \o chunk
           N == 1 .. Size
<1>1. /\ Size \in Nat /\ i - 1 \in 0 .. Size /\ (i - 1) + 1 = i
      /\ i + 1 \in 1 .. (Size + 1) /\ i \in 1 .. i /\ 1 \in 1 .. (Size + 1) /\ Size \in 0 .. Size
  BY ChainIs
<1>2. /\ TextWork(w)
      /\ \A j \in i .. Size : w.cache[j] = cache[j]
      /\ \A j \in N : hits[j] <= w.hits[j]
      /\ w.panic = FALSE =>
           /\ w.live = FALSE => w.text = <<>>
           /\ Unmade(w.hits) => Embeds(Line(w, i - 1, last), r)
           /\ ~ last /\ AllFind /\ (\A j \in N : w.hits[j] = 0) => Line(w, i - 1, last) = r
  BY <1>1 DEF InLine
<1>3. /\ TextWork(v)
      /\ \A j \in N : j # i => v.cache[j] = w.cache[j] /\ v.hits[j] = w.hits[j]
      /\ \A j \in N : w.hits[j] <= v.hits[j]
      /\ v.panic = FALSE => w.panic = FALSE
      /\ v.panic = FALSE /\ (w.live = FALSE => w.text = <<>>) =>
           Moves(i, w, v, last) /\ (v.live = FALSE => v.text = <<>>)
  BY <1>2, StepTexts
<1>4. TextsUpTo(cache, Size) /\ TextsUpTo(w.cache, Size) /\ TextsUpTo(v.cache, Size)
  BY <1>2, <1>3 DEF Texts, TextWork
<1>5. /\ a \in Text /\ c \in Text /\ t \in Text /\ b \in Text /\ x \in Text
      /\ v.text \in Text /\ r \in Text
  <2>1. a \in Text /\ Held(cache, 1, Size) \in Text
    BY <1>1, <1>4, HeldType
  <2>2. Held(w.cache, 1, i - 1) \in Text
    BY <1>1, <1>4, HeldType
  <2>3. c \in Text /\ t \in Text /\ v.text \in Text /\ v.cache[i] \in Text
    BY <1>2, <1>3 DEF TextWork, TextsUpTo
  <2>4. r \in Text
    BY <2>1, TextConcat
  <2> QED
    BY <2>1, <2>2, <2>3, <2>4, TextEmpty DEF Behind
<1>6. Line(w, i - 1, last) = (a \o c) \o (t \o b)
  <2>1. Held(cache, i, Size) = a \o cache[i]
    BY <1>1, <1>4, HeldLast
  <2>2. cache[i] = c
    <3>1. i \in i .. Size
      BY <1>1
    <3> QED
      BY <1>2, <3>1
  <2> QED
    BY <1>1, <2>1, <2>2 DEF Line
<1>7. Behind(v, i, last) = x \o b
  <2>1. CASE last
    <3>1. <<>> \o <<>> = <<>>
      BY TextEmpty
    <3> QED
      BY <2>1, <3>1 DEF Behind
  <2>2. CASE ~ last
    <3>1. Held(v.cache, 1, i) = v.cache[i] \o Held(v.cache, 1, i - 1)
      <4>1. 1 \in 1 .. Size /\ i \in 1 .. Size
        BY <1>1
      <4> QED
        BY <1>1, <1>4, <4>1, HeldFirst
    <3>2. Held(v.cache, 1, i - 1) = Held(w.cache, 1, i - 1)
      <4>1. \A j \in 1 .. (i - 1) : j \in N /\ j # i
        BY <1>1
      <4>2. \A j \in 1 .. (i - 1) : v.cache[j] = w.cache[j]
        BY <1>3, <4>1
      <4>3. i - 1 \in Nat /\ 1 \in Nat
        BY <1>1
      <4> QED
        BY <4>2, <4>3, HeldSame
    <3> QED
      BY <2>2, <3>1, <3>2 DEF Behind
  <2> QED
    BY <2>1, <2>2
<1>8. Line(v, i, last) = a \o (v.text \o (x \o b))
  BY <1>7 DEF Line
<1>9. \A j \in (i + 1) .. Size : v.cache[j] = cache[j]
  <2> TAKE j \in (i + 1) .. Size
  <2>1. j \in N /\ j # i /\ j \in i .. Size
    BY <1>1
  <2> QED
    BY <1>2, <1>3, <2>1
<1>10. \A j \in N : hits[j] <= v.hits[j] /\ (v.hits[j] = 0 => w.hits[j] = 0)
  <2> TAKE j \in N
  <2>1. hits[j] \in Nat /\ w.hits[j] \in Nat /\ v.hits[j] \in Nat
    BY <1>2, <1>3, ChainIs DEF Texts, Basic, TextWork, IsWork
  <2>2. hits[j] <= w.hits[j] /\ w.hits[j] <= v.hits[j]
    BY <1>2, <1>3
  <2> HIDE DEF v
  <2> QED
    BY <2>1, <2>2
<1> HIDE DEF v, a, c, t, b, r, N
<1>11. ASSUME v.panic = FALSE
       PROVE  /\ v.live = FALSE => v.text = <<>>
              /\ Unmade(v.hits) => Embeds(Line(v, i, last), r)
              /\ ~ last /\ AllFind /\ (\A j \in N : v.hits[j] = 0) => Line(v, i, last) = r
  <2> HIDE DEF x
  <2>1. Moves(i, w, v, last) /\ (v.live = FALSE => v.text = <<>>)
    BY <1>2, <1>3, <1>11
  <2>2. /\ v.text \o x \in Text /\ c \o t \in Text
        /\ v.hits[i] = 0 \/ Erasing(i) => Embeds(v.text \o x, c \o t)
    BY <1>5, <2>1, TextConcat DEF Moves, c, t, x
  <2> DEFINE y == v.text
  <2>10. y \in Text
    BY <1>5
  <2> HIDE DEF y
  <2>11. Regroup(a, y, x, b) /\ Regroup(a, c, t, b)
    BY <1>5, <2>10, FourTexts
  <2>3. Line(v, i, last) = a \o ((v.text \o x) \o b)
    BY <1>8, <2>11 DEF y, Regroup
  <2>4. Line(w, i - 1, last) = a \o ((c \o t) \o b)
    BY <1>6, <2>11 DEF Regroup
  <2> DEFINE vx == v.text \o x
             ct == c \o t
  <2>12. a \in Text /\ b \in Text
    BY <1>5
  <2>13. vx \in Text /\ ct \in Text
    BY ONLY <2>2
  <2>6. Line(v, i, last) \in Text /\ Line(w, i - 1, last) \in Text
    BY <2>3, <2>4, <2>11 DEF y, Regroup
  <2>7. w.panic = FALSE
    BY <1>3, <1>11
  <2>8. ASSUME Unmade(v.hits) PROVE Embeds(Line(v, i, last), r)
    <3>1. Unmade(w.hits) /\ (v.hits[i] = 0 \/ Erasing(i))
      BY <1>10, <2>8 DEF Unmade, N
    <3>2. Embeds(vx, ct)
      BY <2>2, <3>1
    <3>3. Embeds(a \o (vx \o b), a \o (ct \o b))
      <4> HIDE DEF vx, ct
      <4> QED
        BY ONLY <2>12, <2>13, <3>2, EmbedsMiddle
    <3>4. Embeds(Line(v, i, last), Line(w, i - 1, last))
      BY ONLY <2>3, <2>4, <3>3
    <3>5. Embeds(Line(w, i - 1, last), r)
      BY <1>2, <2>7, <3>1
    <3> QED
      BY <1>5, <2>6, <3>4, <3>5, EmbedsTransitive
  <2>9. ASSUME ~ last, AllFind, \A j \in N : v.hits[j] = 0
        PROVE  Line(v, i, last) = r
    <3>1. v.hits[i] = 0 /\ Chain[i].find # <<>>
      BY <2>9 DEF AllFind, N
    <3>2. v.text \o x = c \o t
      BY <2>1, <2>9, <3>1 DEF Moves, x, c, t
    <3>3. \A j \in N : w.hits[j] = 0
      BY <1>10, <2>9
    <3>4. Line(w, i - 1, last) = r
      BY <1>2, <2>7, <2>9, <3>3
    <3> QED
      BY <2>3, <2>4, <3>2, <3>4
  <2> QED
    BY <2>1, <2>8, <2>9
<1>12. InLine(v, i, chunk, last)
  BY <1>3, <1>9, <1>10, <1>11 DEF InLine, r, N
<1> QED
  BY <1>12 DEF v

LEMMA RunInLine ==
  ASSUME Texts, NEW chunk \in Text, NEW last \in BOOLEAN, NEW f, Runs(f, chunk, last)
  PROVE  \A i \in 0 .. Size : InLine(f[i], i, chunk, last)
<1>2. f[0] = Start(chunk) /\ \A i \in 1 .. Size : f[i] = Step(i, f[i - 1], last)
  BY DEF Runs
<1> DEFINE T == {i \in 0 .. Size : InLine(f[i], i, chunk, last)}
<1>3. Size \in Nat
  BY ChainIs
<1>4. 0 \in T
  BY <1>2, <1>3, InLineStart
<1>5. ASSUME NEW i \in 0 .. Size, i \in T, i < Size PROVE i + 1 \in T
  <2>1. i + 1 \in 1 .. Size /\ i + 1 \in 0 .. Size /\ (i + 1) - 1 = i
    BY <1>3, <1>5
  <2>2. f[i + 1] = Step(i + 1, f[i], last)
    BY <1>2, <2>1
  <2>3. InLine(f[i], (i + 1) - 1, chunk, last)
    BY <1>5, <2>1
  <2>4. InLine(Step(i + 1, f[i], last), i + 1, chunk, last)
    BY <2>1, <2>3, InLineStep
  <2> QED
    BY <2>1, <2>2, <2>4
<1>6. 0 .. Size \subseteq T
  <2> HIDE DEF T
  <2>1. 0 \in Int /\ Size \in Int
    BY <1>3
  <2>2. \A i \in 0 .. Size : i \in T /\ i < Size => i + 1 \in T
    BY <1>5
  <2> QED
    BY <1>4, <2>1, <2>2, InductionUpTo
<1> QED
  BY <1>6

\* A call leaves what the whole chain makes of the chunk.
LEMMA InLineEnd ==
  ASSUME Texts, NEW chunk \in Text, NEW last \in BOOLEAN
  PROVE  InLine(RunChain(chunk, last), Size, chunk, last)
<1>1. PICK f : Runs(f, chunk, last)
  BY RunsExist
<1>2. RunChain(chunk, last) = f[Size] /\ Size \in 0 .. Size
  BY <1>1, ChainIs DEF Runs
<1> QED
  BY <1>1, <1>2, RunInLine

-----------------------------------------------------------------------------
(* The stream.                                                             *)

Shape == Texts /\ emitted \in Text /\ input \in Text /\ alphabet \in Alphabets

\* What has come out, and what may still, can be read off what has gone in, as long as
\* nothing that makes text has hit.
Ordered ==
  Unmade(hits) =>
    /\ Embeds(emitted, input)
    /\ ~ panic /\ ~ over => Embeds(emitted \o Held(cache, 1, Size), input)

\* Nothing is missing as long as nothing has hit.
Lossless ==
  AllFind /\ (\A j \in 1 .. Size : hits[j] = 0) /\ ~ over /\ ~ panic =>
    emitted \o Held(cache, 1, Size) = input

StreamInv == Shape /\ Ordered /\ Lossless

LEMMA ChunkIsText ==
  ASSUME alphabet \in Alphabets, NEW chunk \in Chunks
  PROVE  chunk \in Text
<1>1. PICK n \in 0 .. MaxChunk : chunk \in [1 .. n -> alphabet]
  BY DEF Chunks
<1>2. n \in Nat /\ alphabet \subseteq Symbols
  BY StreamAssumption
<1>3. chunk = [k \in 1 .. n |-> chunk[k]] /\ \A k \in 1 .. n : chunk[k] \in Symbols
  BY <1>1, <1>2
<1>4. [k \in 1 .. n |-> chunk[k]] \in Seq(Symbols)
  BY <1>2, <1>3, IsASeq
<1> QED
  BY <1>3, <1>4 DEF Text

LEMMA StreamInit == Init => StreamInv
<1> SUFFICES ASSUME Init PROVE StreamInv
  OBVIOUS
<1>1. /\ cache = [i \in DOMAIN Chain |-> <<>>] /\ hits = [i \in DOMAIN Chain |-> 0]
      /\ emitted = <<>> /\ input = <<>> /\ over = FALSE /\ panic = FALSE
      /\ alphabet \in Alphabets
  BY DEF Init
<1>2. DOMAIN Chain = 1 .. Size /\ Size \in Nat
  BY ChainIs
<1>3. <<>> \in Text /\ Embeds(<<>>, <<>>) /\ <<>> \o <<>> = <<>>
  BY TextEmpty, EmbedsEmpty
<1>4. Texts
  BY <1>1, <1>2, <1>3 DEF Texts, Basic, TextsUpTo
<1>5. Held(cache, 1, Size) = <<>>
  <2> DEFINE T == {b \in 0 .. Size : Held(cache, 1, b) = <<>>}
  <2>1. 0 \in T
    <3>1. Held(cache, 0 + 1, 0) = <<>>
      BY HeldNone
    <3>2. 0 + 1 = 1
      OBVIOUS
    <3> QED
      BY <1>2, <3>1, <3>2
  <2>2. ASSUME NEW b \in 0 .. Size, b \in T, b < Size PROVE b + 1 \in T
    <3>1. b + 1 \in 1 .. Size /\ (b + 1) - 1 = b /\ 1 \in 1 .. Size
      BY <1>2, <2>2
    <3>2. Held(cache, 1, b + 1) = cache[b + 1] \o Held(cache, 1, b)
      BY <1>2, <1>4, <3>1, HeldFirst DEF Texts
    <3>3. cache[b + 1] = <<>>
      BY <1>1, <1>2, <3>1
    <3> QED
      BY <1>2, <1>3, <2>2, <3>1, <3>2, <3>3
  <2>3. 0 .. Size \subseteq T
    <3> HIDE DEF T
    <3>1. 0 \in Int /\ Size \in Int
      BY <1>2
    <3>2. \A b \in 0 .. Size : b \in T /\ b < Size => b + 1 \in T
      BY <2>2
    <3> QED
      BY <2>1, <3>1, <3>2, InductionUpTo
  <2> QED
    BY <1>2, <2>3
<1> QED
  BY <1>1, <1>3, <1>4, <1>5 DEF StreamInv, Shape, Ordered, Lossless

LEMMA StreamStep ==
  ASSUME StreamInv, NEW chunk \in Chunks, NEW last \in BOOLEAN,
         ExecuteInterceptors(chunk, last)
  PROVE  StreamInv'
<1> DEFINE w == RunChain(chunk, last)
           k == Held(cache, 1, Size)
           l == Held(w.cache, 1, Size)
<1>1. /\ ~ over /\ ~ panic
      /\ cache' = w.cache /\ hits' = w.hits /\ panic' = w.panic
      /\ emitted' = IF w.panic THEN emitted ELSE emitted \o w.text
      /\ over' = last /\ input' = input \o chunk /\ alphabet' = alphabet
  BY DEF ExecuteInterceptors
<1>2. /\ Texts /\ emitted \in Text /\ input \in Text /\ alphabet \in Alphabets
      /\ TextsUpTo(cache, Size) /\ hits \in [1 .. Size -> Nat]
  BY ChainIs DEF StreamInv, Shape, Texts, Basic
<1>3. chunk \in Text
  BY <1>2, ChunkIsText
<1>4. InLine(w, Size, chunk, last)
  BY <1>2, <1>3, InLineEnd
<1>5. Size \in Nat /\ DOMAIN Chain = 1 .. Size /\ 1 \in 1 .. (Size + 1) /\ Size \in 0 .. Size
  BY ChainIs
<1>6. TextWork(w)
  BY <1>4 DEF InLine
<1>7. w.text \in Text /\ TextsUpTo(w.cache, Size) /\ IsWork(w)
  BY <1>6 DEF TextWork
<1>8. k \in Text /\ l \in Text
  BY <1>2, <1>5, <1>7, HeldType
<1> HIDE DEF w
<1>9. w.panic \in BOOLEAN /\ w.hits \in [1 .. Size -> Nat] /\ w.cache = [j \in DOMAIN Chain |-> w.cache[j]]
  BY <1>5, <1>7 DEF IsWork
<1> HIDE DEF k, l
<1>10. emitted \o w.text \in Text /\ input \o chunk \in Text /\ k \o chunk \in Text
  BY <1>2, <1>3, <1>7, <1>8, TextConcat
<1>11. Shape'
  <2>1. Texts'
    BY <1>1, <1>5, <1>7, <1>9 DEF Texts, Basic, TextsUpTo
  <2> QED
    BY <1>1, <1>2, <1>10, <2>1 DEF Shape
<1>12. Line(w, Size, last) = w.text \o (IF last THEN <<>> ELSE l)
  <2>1. Held(cache, Size + 1, Size) = <<>>
    BY <1>5, HeldNone
  <2>2. w.text \o l \in Text /\ w.text \o <<>> \in Text
    BY <1>7, <1>8, TextConcat, TextEmpty
  <2> QED
    BY <2>1, <2>2, TextEmpty DEF Line, Behind, l
<1>13. w.panic = FALSE =>
         /\ Unmade(w.hits) => Embeds(Line(w, Size, last), k \o chunk)
         /\ ~ last /\ AllFind /\ (\A j \in 1 .. Size : w.hits[j] = 0) =>
              Line(w, Size, last) = k \o chunk
  BY <1>4 DEF InLine, k
<1>20. Unmade(w.hits) => Unmade(hits)
  <2>1. ASSUME NEW j \in 1 .. Size, w.hits[j] = 0 PROVE hits[j] = 0
    <3>1. hits[j] \in Nat /\ hits[j] <= w.hits[j]
      BY <1>2, <1>4 DEF InLine
    <3> QED
      BY <2>1, <3>1
  <2> QED
    BY <2>1 DEF Unmade
<1>21. Unmade(hits)' = Unmade(w.hits)
  BY <1>1
<1>14. ASSUME Unmade(w.hits) PROVE Embeds(emitted, input) /\ Embeds(emitted \o k, input)
  BY <1>1, <1>14, <1>20 DEF StreamInv, Ordered, k
<1>15. ASSUME Unmade(w.hits) PROVE Embeds(emitted, input \o chunk)
  <2>1. Embeds(<<>>, chunk) /\ <<>> \in Text /\ emitted \o <<>> = emitted
    BY <1>2, <1>3, EmbedsEmpty, TextEmpty
  <2>2. Embeds(emitted \o <<>>, input \o chunk)
    BY <1>2, <1>3, <1>14, <1>15, <2>1, EmbedsConcat
  <2> QED
    BY <2>1, <2>2
<1>16. ASSUME Unmade(w.hits) PROVE Embeds(emitted \o (k \o chunk), input \o chunk)
  <2>1. emitted \o k \in Text /\ Embeds(chunk, chunk)
    BY <1>2, <1>3, <1>8, TextConcat, EmbedsSelf
  <2>2. Embeds((emitted \o k) \o chunk, input \o chunk)
    BY <1>2, <1>3, <1>14, <1>16, <2>1, EmbedsConcat
  <2>3. (emitted \o k) \o chunk = emitted \o (k \o chunk)
    <3>1. Regroups(emitted, k, chunk)
      BY <1>2, <1>3, <1>8, TextRegroups
    <3> QED
      BY ONLY <3>1 DEF Regroups
  <2> QED
    BY <2>2, <2>3
<1>17. CASE w.panic = TRUE
  BY <1>1, <1>11, <1>15, <1>17, <1>21 DEF StreamInv, Ordered, Lossless
<1>18. CASE w.panic = FALSE /\ last
  <2>1. ASSUME Unmade(w.hits) PROVE Embeds(emitted \o w.text, input \o chunk)
    <3>1. Embeds(w.text, k \o chunk)
      BY <1>7, <1>12, <1>13, <1>18, <2>1, TextEmpty
    <3>2. Embeds(emitted \o w.text, emitted \o (k \o chunk))
      BY <1>2, <1>7, <1>10, <3>1, EmbedsConcat, EmbedsSelf
    <3>3. emitted \o (k \o chunk) \in Text
      BY <1>2, <1>10, TextConcat
    <3> QED
      BY <1>10, <1>16, <2>1, <3>2, <3>3, EmbedsTransitive
  <2> QED
    BY <1>1, <1>11, <1>18, <1>21, <2>1 DEF StreamInv, Ordered, Lossless
<1>19. CASE w.panic = FALSE /\ ~ last
  <2>2. w.text \o l \in Text /\ emitted \o (k \o chunk) \in Text
    BY <1>2, <1>7, <1>8, <1>10, TextConcat
  <2>4. emitted \o (w.text \o l) = (emitted \o w.text) \o l
    <3> DEFINE x == w.text
    <3>1. x \in Text
      BY <1>7
    <3> HIDE DEF x
    <3>2. Regroups(emitted, x, l)
      BY <1>2, <1>8, <3>1, TextRegroups
    <3> QED
      BY ONLY <3>2 DEF Regroups, x
  <2>5. (emitted \o w.text) \o l \in Text
    BY <1>8, <1>10, TextConcat
  <2>6. ASSUME Unmade(w.hits)
        PROVE  /\ Embeds((emitted \o w.text) \o l, input \o chunk)
               /\ Embeds(emitted \o w.text, input \o chunk)
    <3>1. Embeds(w.text \o l, k \o chunk)
      BY <1>12, <1>13, <1>19, <2>6
    <3>2. Embeds(emitted \o (w.text \o l), emitted \o (k \o chunk))
      BY <1>2, <1>10, <2>2, <3>1, EmbedsConcat, EmbedsSelf
    <3>3. Embeds((emitted \o w.text) \o l, input \o chunk)
      BY <1>10, <1>16, <2>2, <2>4, <2>5, <2>6, <3>2, EmbedsTransitive
    <3>4. Embeds(<<>>, l) /\ <<>> \in Text /\ Embeds(emitted \o w.text, emitted \o w.text)
          /\ (emitted \o w.text) \o <<>> = emitted \o w.text
      BY <1>8, <1>10, EmbedsEmpty, EmbedsSelf, TextEmpty
    <3>5. Embeds((emitted \o w.text) \o <<>>, (emitted \o w.text) \o l)
      BY <1>8, <1>10, <3>4, EmbedsConcat
    <3> QED
      BY <1>10, <2>5, <3>3, <3>4, <3>5, EmbedsTransitive
  <2>8. ASSUME AllFind, \A j \in 1 .. Size : w.hits[j] = 0
        PROVE  (emitted \o w.text) \o l = input \o chunk
    <3>1. \A j \in 1 .. Size : hits[j] = 0
      <4> TAKE j \in 1 .. Size
      <4>1. hits[j] \in Nat /\ hits[j] <= w.hits[j] /\ w.hits[j] = 0
        BY <1>2, <1>4, <2>8 DEF InLine
      <4> QED
        BY <4>1
    <3>2. emitted \o k = input
      BY <1>1, <2>8, <3>1 DEF StreamInv, Lossless, k
    <3>3. w.text \o l = k \o chunk
      BY <1>12, <1>13, <1>19, <2>8
    <3>4. emitted \o (k \o chunk) = (emitted \o k) \o chunk
      <4>1. Regroups(emitted, k, chunk)
        BY <1>2, <1>3, <1>8, TextRegroups
      <4> QED
        BY ONLY <4>1 DEF Regroups
    <3> QED
      BY <2>4, <3>2, <3>3, <3>4
  <2>9. emitted' = emitted \o w.text /\ Held(cache, 1, Size)' = l
    BY <1>1, <1>19 DEF l
  <2>10. Ordered'
    BY <1>1, <1>21, <2>6, <2>9 DEF Ordered
  <2>11. Lossless'
    BY <1>1, <2>8, <2>9 DEF Lossless
  <2> QED
    BY <1>11, <2>10, <2>11 DEF StreamInv
<1> QED
  BY <1>9, <1>17, <1>18, <1>19

LEMMA StreamNext == StreamInv /\ [Next]_vars => StreamInv'
<1> SUFFICES ASSUME StreamInv, [Next]_vars PROVE StreamInv'
  OBVIOUS
<1>1. CASE Next
  <2>1. PICK chunk \in Chunks, last \in BOOLEAN : ExecuteInterceptors(chunk, last)
    BY <1>1 DEF Next
  <2> QED
    BY <2>1, StreamStep
<1>2. CASE UNCHANGED vars
  BY <1>2 DEF vars, StreamInv, Shape, Ordered, Lossless, Texts, Basic
<1> QED
  BY <1>1, <1>2

\* Whatever the chain of matchers, until one hits whose replacement makes text, what
\* it sends is a subsequence of what it was fed: no text is sent twice or out of its
\* order (symbol.go:11-44, ctor.go:85-101).
THEOREM TextComesOutInOrder == Spec => []EmittedInOrder
<1>1. StreamInv => EmittedInOrder
  <2> SUFFICES ASSUME StreamInv,
                      \A i \in DOMAIN Chain :
                        Chain[i].kind = "configured" /\ hits[i] > 0 => Erases(Chain[i].obj)
               PROVE  Reach(emitted, input) <= Len(input)
    BY DEF EmittedInOrder
  <2>1. \A j \in 1 .. Size : hits[j] \in Nat /\ j \in DOMAIN Chain
    BY ChainIs DEF StreamInv, Shape, Texts, Basic
  <2>2. Unmade(hits)
    <3> SUFFICES ASSUME NEW j \in 1 .. Size PROVE hits[j] = 0 \/ Erasing(j)
      BY DEF Unmade
    <3>1. hits[j] = 0 \/ hits[j] > 0
      BY <2>1
    <3> QED
      BY <2>1, <3>1 DEF Erasing
  <2> QED
    BY <2>2, EmbedsReach DEF StreamInv, Shape, Ordered
<1> QED
  BY <1>1, StreamInit, StreamNext, PTL DEF Spec

\* If no matcher has an empty opening and none has hit, all the input is either sent or
\* waits in the caches, in the order it came, until the last call (symbol.go:20-44).
THEOREM NothingIsLost == Spec => []NothingLostBeforeHit
<1>1. StreamInv => NothingLostBeforeHit
  <2> SUFFICES ASSUME StreamInv, \A i \in DOMAIN Chain : Chain[i].find # <<>>, NoHits, ~ over, ~ panic
               PROVE  input = emitted \o FlattenSeq(Reverse([i \in DOMAIN Chain |-> cache[i]]))
    BY DEF NothingLostBeforeHit
  <2>1. DOMAIN Chain = 1 .. Size /\ Size \in Nat
    BY ChainIs
  <2>2. emitted \o Held(cache, 1, Size) = input
    BY <2>1 DEF StreamInv, Lossless, AllFind, NoHits
  <2>3. Reverse([i \in DOMAIN Chain |-> cache[i]]) = [k \in 1 .. (Size - 1 + 1) |-> cache[Size + 1 - k]]
    <3> DEFINE c == [i \in 1 .. Size |-> cache[i]]
    <3>1. c \in Seq(Text) /\ Len(c) = Size
      <4>1. \A i \in 1 .. Size : cache[i] \in Text
        BY DEF StreamInv, Shape, Texts, TextsUpTo
      <4> QED
        BY <2>1, <4>1, IsASeq
    <3>2. Reverse(c) = [k \in 1 .. Size |-> c[(Size - k) + 1]]
      <4> HIDE DEF c
      <4> QED
        BY <3>1 DEF Reverse
    <3>3. \A k \in 1 .. Size : c[(Size - k) + 1] = cache[Size + 1 - k]
      BY <2>1
    <3>4. Size - 1 + 1 = Size
      BY <2>1
    <3> HIDE DEF c
    <3>5. Reverse(c) = [k \in 1 .. Size |-> cache[Size + 1 - k]]
      BY <3>2, <3>3
    <3> QED
      BY <2>1, <3>4, <3>5 DEF c
  <2> QED
    BY <2>2, <2>3 DEF Held
<1> QED
  BY <1>1, StreamInit, StreamNext, PTL DEF Spec

-----------------------------------------------------------------------------
(* The end mark.                                                           *)

\* No mark in s, and no beginning of one at its end, but behind a symbol that looks
\* like a beginning.
Whole(s) ==
  \A p \in 1 .. Len(s) :
    s[p] = ImEnd[1] /\ (p = Len(s) \/ s[p + 1] = ImEnd[2]) => p > 1 /\ s[p - 1] = ImEnd[1]

LEMMA WholeEmpty == Whole(<<>>)
BY DEF Whole

LEMMA WholeConcat ==
  ASSUME NEW s \in Text, NEW t \in Text, Whole(s), Whole(t)
  PROVE  Whole(s \o t)
<1> DEFINE u == s \o t
           m == Len(s)
           n == Len(t)
<1>1. /\ m \in Nat /\ n \in Nat /\ Len(u) = m + n
      /\ \A k \in 1 .. m : u[k] = s[k]
      /\ \A k \in 1 .. n : u[m + k] = t[k]
  BY TextConcat
<1> HIDE DEF u
<1>2. ASSUME NEW p \in 1 .. Len(u), u[p] = ImEnd[1], p = Len(u) \/ u[p + 1] = ImEnd[2]
      PROVE  p > 1 /\ u[p - 1] = ImEnd[1]
  <2>1. CASE p < m
    <3>1. p \in 1 .. m /\ p + 1 \in 1 .. m /\ p # Len(u)
      BY <1>1, <2>1
    <3>2. s[p] = ImEnd[1] /\ s[p + 1] = ImEnd[2]
      BY <1>1, <1>2, <3>1
    <3>3. p > 1 /\ s[p - 1] = ImEnd[1]
      BY <3>1, <3>2 DEF Whole
    <3>4. p - 1 \in 1 .. m
      BY <3>1, <3>3
    <3> QED
      BY <1>1, <3>3, <3>4
  <2>2. CASE p = m
    <3>1. p \in 1 .. m /\ s[p] = ImEnd[1]
      BY <1>1, <1>2, <2>2
    <3>2. p > 1 /\ s[p - 1] = ImEnd[1]
      BY <2>2, <3>1 DEF Whole
    <3>3. p - 1 \in 1 .. m
      BY <3>1, <3>2
    <3> QED
      BY <1>1, <3>2, <3>3
  <2>3. CASE p > m
    <3> DEFINE q == p - m
    <3>1. q \in 1 .. n /\ m + q = p
      BY <1>1, <2>3
    <3>2. t[q] = ImEnd[1]
      BY <1>1, <1>2, <3>1
    <3>3. q = n \/ t[q + 1] = ImEnd[2]
      <4>1. CASE p = Len(u)
        BY <1>1, <4>1
      <4>2. CASE p # Len(u)
        <5>1. q + 1 \in 1 .. n /\ m + (q + 1) = p + 1
          <6>1. p \in Int /\ p <= m + n /\ p # m + n /\ m \in Int /\ n \in Int
            BY <1>1, <4>2
          <6> HIDE DEF m, n
          <6> QED
            BY <2>3, <6>1
        <5>2. u[p + 1] = t[q + 1]
          <6> DEFINE k == q + 1
          <6>1. k \in 1 .. n /\ m + k = p + 1
            BY ONLY <5>1
          <6> HIDE DEF k, q
          <6>2. u[m + k] = t[k]
            BY <1>1, <6>1
          <6> QED
            BY ONLY <6>1, <6>2 DEF k
        <5> QED
          BY <1>2, <4>2, <5>2
      <4> QED
        BY <4>1, <4>2
    <3>4. q > 1 /\ t[q - 1] = ImEnd[1]
      BY <3>1, <3>2, <3>3 DEF Whole
    <3>5. q - 1 \in 1 .. n /\ m + (q - 1) = p - 1 /\ p > 1
      BY <1>1, <3>1, <3>4
    <3>6. u[p - 1] = t[q - 1]
      BY <1>1, <3>5
    <3> QED
      BY <3>4, <3>5, <3>6
  <2> QED
    BY <1>1, <2>1, <2>2, <2>3
<1>3. Whole(u)
  BY <1>2 DEF Whole
<1> QED
  BY <1>3 DEF u

\* One step of Progress.
Scanned(find, before, symbol) ==
  IF before = Len(find) THEN before ELSE Advance(find, before, symbol)

Progressing(f, find, s) ==
  f = [n \in 0 .. Len(s) |-> IF n = 0 THEN 0 ELSE Scanned(find, f[n - 1], s[n])]

LEMMA TokenValue ==
  ASSUME NEW find, NEW s, NEW g, Progressing(g, find, s)
  PROVE  \E f : Progressing(f, find, s) /\ Progress(find, s) = f
BY DEF Progress, Progressing, Scanned

LEMMA EndMarkIs == Len(ImEnd) = 2 /\ ImEnd[1] = "<" /\ ImEnd[2] = "i" /\ ImEnd[1] # ImEnd[2]
BY DEF ImEnd

\* Marks have two symbols.
IsMark(find) == Len(find) = 2 /\ find = <<find[1], find[2]>>

IsProgress(f, find, s) ==
  /\ f[0] = 0 /\ \A k \in 1 .. Len(s) : f[k] = Scanned(find, f[k - 1], s[k])
  /\ \A k \in 0 .. Len(s) : f[k] \in 0 .. 2

LEMMA ScannedMark ==
  ASSUME NEW find, IsMark(find), NEW b \in 0 .. 2, NEW c
  PROVE  /\ Scanned(find, b, c) \in 0 .. 2
         /\ b = 0 => Scanned(find, b, c) = IF c = find[1] THEN 1 ELSE 0
         /\ b = 1 => Scanned(find, b, c) = IF c = find[2] THEN 2 ELSE 0
         /\ b = 2 => Scanned(find, b, c) = 2
<1>1. b = 0 \/ b = 1 \/ b = 2
  OBVIOUS
<1>2. Len(find) = 2
  BY DEF IsMark
<1> QED
  BY <1>1, <1>2 DEF Scanned, Advance

LEMMA ProgressIs ==
  ASSUME NEW find, IsMark(find), NEW s \in Text
  PROVE  IsProgress(Progress(find, s), find, s)
<1> DEFINE n == Len(s)
           V == 0 .. 2
           g == [x \in (1 .. n) \X V |-> Scanned(find, x[2], s[x[1]])]
<1>1. n \in Nat
  BY LenProperties DEF Text
<1>3. PICK h \in [0 .. n -> V] : Follows(h, n, 0, g)
  <2>1. g \in [(1 .. n) \X V -> V] /\ 0 \in V
    BY ScannedMark
  <2> HIDE DEF g, n, V
  <2> QED
    BY <1>1, <2>1, Recursion
<1>4. \A k \in 1 .. n : h[k] = Scanned(find, h[k - 1], s[k])
  <2> TAKE k \in 1 .. n
  <2>1. h[k] = g[<<k, h[k - 1]>>]
    BY <1>3 DEF Follows
  <2>2. h[k - 1] \in V
    BY <1>1, <1>3
  <2> QED
    BY <2>1, <2>2
<1>5. Progressing(h, find, s)
  <2>1. h[0] = 0
    BY <1>3 DEF Follows
  <2>2. \A k \in 0 .. n : k # 0 => k \in 1 .. n
    BY <1>1
  <2>3. \A k \in 0 .. n : h[k] = IF k = 0 THEN 0 ELSE Scanned(find, h[k - 1], s[k])
    BY <1>4, <2>1, <2>2
  <2> QED
    BY <1>3, <2>3 DEF Progressing
<1>6. PICK f : Progressing(f, find, s) /\ Progress(find, s) = f
  BY <1>5, TokenValue
<1>7. f[0] = 0 /\ \A k \in 1 .. n : f[k] = Scanned(find, f[k - 1], s[k])
  BY <1>1, <1>6 DEF Progressing
<1> DEFINE T == {k \in 0 .. n : f[k] \in V}
<1>9. 0 .. n \subseteq T
  <2>1. 0 \in T
    BY <1>1, <1>7
  <2>2. ASSUME NEW k \in 0 .. n, k \in T, k < n PROVE k + 1 \in T
    <3>1. k + 1 \in 1 .. n /\ (k + 1) - 1 = k
      BY <1>1, <2>2
    <3>2. f[k + 1] = Scanned(find, f[k], s[k + 1]) /\ f[k] \in V
      BY <1>7, <2>2, <3>1
    <3> QED
      BY ScannedMark, <3>1, <3>2
  <2> HIDE DEF T, n
  <2>3. 0 \in Int /\ n \in Int
    BY <1>1
  <2>4. \A k \in 0 .. n : k \in T /\ k < n => k + 1 \in T
    BY <2>2
  <2> QED
    BY <2>1, <2>3, <2>4, InductionUpTo
<1> QED
  BY <1>6, <1>7, <1>9 DEF IsProgress

LEMMA TokenIs ==
  ASSUME NEW find, IsMark(find), NEW s \in Text
  PROVE  LET f == Progress(find, s)
             hit == \E k \in 0 .. (Len(s) - 1) : f[k] = 2
         IN  /\ NextToken(find, s).state = Matched <=> hit
             /\ NextToken(find, s).state = Default <=> ~ hit /\ f[Len(s)] = 0
<1> DEFINE f == Progress(find, s)
           H2 == {k \in 0 .. (Len(s) - 1) : f[k] = 2}
<1>1. NextToken(find, s) = IF H2 # {} THEN [state |-> Matched, index |-> Min(H2)]
                           ELSE [state |-> IF f[Len(s)] = 0 THEN Default ELSE Matching, index |-> 0]
  BY DEF NextToken, IsMark
<1>2. H2 # {} <=> \E k \in 0 .. (Len(s) - 1) : f[k] = 2
  OBVIOUS
<1> HIDE DEF f, H2
<1>3. /\ NextToken(find, s).state = Matched <=> H2 # {}
      /\ NextToken(find, s).state = Default <=> H2 = {} /\ f[Len(s)] = 0
  BY <1>1 DEF Default, Matching, Matched
<1> QED
  BY <1>2, <1>3 DEF f

\* What the matcher of the end mark lets by is whole.
LEMMA DefaultIsWhole ==
  ASSUME NEW s \in Text, NextToken(ImEnd, s).state = Default
  PROVE  Whole(s)
<1> DEFINE n == Len(s)
           f == Progress(ImEnd, s)
           V == 0 .. 2
<1>1. n \in Nat /\ IsMark(ImEnd)
  BY LenProperties, EndMarkIs DEF Text, IsMark, ImEnd
<1>2. ASSUME NEW b \in V, NEW c
      PROVE  /\ b = 0 => Scanned(ImEnd, b, c) = IF c = ImEnd[1] THEN 1 ELSE 0
             /\ b = 1 => Scanned(ImEnd, b, c) = IF c = ImEnd[2] THEN 2 ELSE 0
  BY <1>1, ScannedMark
<1>5. IsProgress(f, ImEnd, s)
  BY <1>1, ProgressIs
<1>8. (\A k \in 0 .. (n - 1) : f[k] # 2) /\ f[n] = 0
  BY <1>1, TokenIs
<1> HIDE DEF f
<1>7. f[0] = 0 /\ \A k \in 1 .. n : f[k] = Scanned(ImEnd, f[k - 1], s[k])
  BY <1>5 DEF IsProgress
<1>10. \A k \in 0 .. n : f[k] \in V
  BY <1>5 DEF IsProgress
<1> SUFFICES ASSUME NEW p \in 1 .. n, s[p] = ImEnd[1], p = n \/ s[p + 1] = ImEnd[2]
             PROVE  p > 1 /\ s[p - 1] = ImEnd[1]
  BY DEF Whole
<1>11. p - 1 \in 0 .. (n - 1) /\ p - 1 \in 0 .. n /\ (p - 1) + 1 = p
  BY <1>1
<1>12. f[p - 1] = 0 \/ f[p - 1] = 1
  BY <1>8, <1>10, <1>11
<1>13. f[p] = Scanned(ImEnd, f[p - 1], s[p])
  BY <1>7
<1>14. CASE f[p - 1] = 0
  <2>1. f[p] = 1
    BY <1>2, <1>13, <1>14
  <2>2. p # n
    BY <1>8, <2>1
  <2>3. p + 1 \in 1 .. n /\ (p + 1) - 1 = p /\ s[p + 1] = ImEnd[2]
    BY <1>1, <2>2
  <2>4. f[p + 1] = Scanned(ImEnd, f[p], s[p + 1])
    BY <1>7, <2>3
  <2>5. f[p + 1] = 2
    BY <1>2, <2>1, <2>3, <2>4
  <2>6. CASE p + 1 = n
    BY <1>8, <2>5, <2>6
  <2>7. CASE p + 1 # n
    <3>1. p + 1 \in 0 .. (n - 1)
      BY <1>1, <2>3, <2>7
    <3> QED
      BY <1>8, <2>5, <3>1
  <2> QED
    BY <2>6, <2>7
<1>15. CASE f[p - 1] = 1
  <2>1. p - 1 # 0
    BY <1>7, <1>15
  <2>2. p - 1 \in 1 .. n /\ (p - 1) - 1 \in 0 .. (n - 1) /\ (p - 1) - 1 \in 0 .. n /\ p > 1
    BY <1>1, <1>11, <2>1
  <2>3. f[p - 1] = Scanned(ImEnd, f[(p - 1) - 1], s[p - 1])
    BY <1>7, <2>2
  <2> DEFINE b == f[(p - 1) - 1]
  <2>4. b = 0 \/ b = 1
    BY <1>8, <1>10, <2>2
  <2>5. b \in V
    BY <2>4
  <2> HIDE DEF b
  <2>6. CASE b = 0
    <3>1. Scanned(ImEnd, b, s[p - 1]) = IF s[p - 1] = ImEnd[1] THEN 1 ELSE 0
      BY <1>2, <2>5, <2>6
    <3> QED
      BY <1>15, <2>2, <2>3, <3>1 DEF b
  <2>7. CASE b = 1
    <3>1. Scanned(ImEnd, b, s[p - 1]) = IF s[p - 1] = ImEnd[2] THEN 2 ELSE 0
      BY <1>2, <2>5, <2>7
    <3> QED
      BY <1>15, <2>3, <3>1 DEF b
  <2> QED
    BY <2>4, <2>6, <2>7
<1> QED
  BY <1>12, <1>14, <1>15

NoConfiguredHits(h) == \A j \in 4 .. Size : h[j] = 0

WholeFrom4(c) == \A j \in 4 .. Size : Whole(c[j])

\* Behind the third matcher the text is whole.
Clean(w, i) ==
  NoConfiguredHits(w.hits) /\ w.panic = FALSE =>
    (i >= 3 => Whole(w.text)) /\ WholeFrom4(w.cache)

LEMMA CleanStep ==
  ASSUME NEW last \in BOOLEAN, NEW i \in 1 .. Size, NEW w, TextWork(w),
         w.panic = FALSE /\ w.live = FALSE => w.text = <<>>, Clean(w, i - 1)
  PROVE  Clean(Step(i, w, last), i)
<1> DEFINE v == Step(i, w, last)
           c == Content(i, w)
           h == H(i, At(i, w), c, w.mem)
           N == 1 .. Size
<1>1. Size \in Nat /\ DOMAIN Chain = N /\ i \in DOMAIN Chain /\ 4 .. Size \subseteq N
  BY ChainIs
<1>2. /\ TextWork(v)
      /\ \A j \in N : j # i => v.cache[j] = w.cache[j] /\ v.hits[j] = w.hits[j]
      /\ \A j \in N : w.hits[j] <= v.hits[j]
      /\ v.panic = FALSE => w.panic = FALSE
  BY StepTexts
<1>3. w.hits \in [N -> Nat] /\ v.hits \in [N -> Nat] /\ w.live \in BOOLEAN
  BY <1>1, <1>2 DEF TextWork, IsWork
<1>4. c \in Text /\ w.text \in Text /\ (Chain[i].find # <<>> => c = w.cache[i] \o w.text)
      /\ w.cache[i] \in Text
  BY ContentIs
<1>5. c = IF Chain[i].find = <<>> THEN w.text ELSE w.cache[i] \o w.text
  BY DEF Content
<1> SUFFICES ASSUME NoConfiguredHits(v.hits), v.panic = FALSE
             PROVE  (i >= 3 => Whole(v.text)) /\ WholeFrom4(v.cache)
  BY DEF Clean
<1>6. NoConfiguredHits(w.hits)
  <2> SUFFICES ASSUME NEW j \in 4 .. Size PROVE w.hits[j] = 0
    BY DEF NoConfiguredHits
  <2>1. j \in N /\ v.hits[j] = 0
    BY <1>1 DEF NoConfiguredHits
  <2>2. w.hits[j] \in Nat /\ w.hits[j] <= v.hits[j]
    BY <1>2, <1>3, <2>1
  <2> HIDE DEF v
  <2> QED
    BY <2>1, <2>2
<1>7. w.panic = FALSE
  BY <1>2
<1>8. (i - 1 >= 3 => Whole(w.text)) /\ WholeFrom4(w.cache)
  BY <1>6, <1>7 DEF Clean
<1>9. w.live = FALSE => v = w /\ w.text = <<>>
  BY <1>7 DEF Step
<1>10. w.live => /\ IsWork(v)
                 /\ \/ HandsOn(i, w, v) \/ Keeps(i, w, v) \/ Panics(i, w, v)
                    \/ Hits(i, w, v, h) \/ LetsGo(i, w, v, h, last)
  <2>1. w.live => v = Scan(i, w, last)
    BY DEF Step
  <2> HIDE DEF v
  <2> QED
    BY <1>1, <2>1, ScanOutcomes DEF TextWork, c, h
<1> HIDE DEF v, c, h, N
<1>11. CASE w.live = FALSE
  BY <1>8, <1>9, <1>11, WholeEmpty
<1>12. CASE w.live /\ i \in 1 .. 2
  <2>1. \A j \in 4 .. Size : j \in N /\ j # i
    BY <1>1, <1>12
  <2>2. \A j \in 4 .. Size : v.cache[j] = w.cache[j]
    BY <1>2, <2>1
  <2>3. ~ (i >= 3)
    BY <1>12
  <2> QED
    BY <1>8, <2>2, <2>3 DEF WholeFrom4
<1>13. CASE w.live /\ i = 3
  <2>1. \A j \in 4 .. Size : j \in N /\ j # i
    BY <1>1, <1>13
  <2>2. WholeFrom4(v.cache)
    <3>1. \A j \in 4 .. Size : v.cache[j] = w.cache[j]
      BY <1>2, <2>1
    <3> QED
      BY <1>8, <3>1 DEF WholeFrom4
  <2>3. h = Answer(Matched, <<>>, Nothing, FALSE)
    <3> DEFINE x == At(i, w)
               m == w.mem
    <3> HIDE DEF x, m
    <3>1. H(3, x, c, m) = Answer(Matched, <<>>, Nothing, FALSE)
      BY HIs
    <3> QED
      BY <1>13, <3>1 DEF h, x, m
  <2>4. h.state = Matched /\ h.result = <<>>
    BY <2>3 DEF Answer
  <2>5. CASE HandsOn(i, w, v)
    <3>1. NextToken(ImEnd, c).state = Default /\ v.text = c
      BY <1>13, <2>5, ChainIs DEF HandsOn, c
    <3> QED
      BY <1>4, <2>2, <3>1, DefaultIsWhole
  <2>6. CASE ~ HandsOn(i, w, v)
    <3>1. v.text = <<>>
      <4>1. ~ Panics(i, w, v)
        BY DEF Panics
      <4>2. ~ LetsGo(i, w, v, h, last)
        BY <2>4 DEF LetsGo
      <4>3. Keeps(i, w, v) => v.text = <<>>
        BY DEF Keeps
      <4>4. Hits(i, w, v, h) => v.text = <<>>
        BY <2>4 DEF Hits
      <4> QED
        BY <1>10, <1>13, <2>6, <4>1, <4>2, <4>3, <4>4
    <3> QED
      BY <2>2, <3>1, WholeEmpty
  <2> QED
    BY <2>5, <2>6
<1>14. CASE w.live /\ i \in 4 .. Size
  <2>1. Whole(w.text) /\ Whole(w.cache[i])
    <3>1. i - 1 >= 3
      BY <1>14
    <3> QED
      BY <1>8, <1>14, <3>1 DEF WholeFrom4
  <2>2. Whole(c)
    BY <1>4, <1>5, <2>1, WholeConcat
  <2>3. v.hits[i] = 0
    BY <1>14 DEF NoConfiguredHits
  <2>4. ~ Panics(i, w, v)
    BY DEF Panics
  <2>5. ~ Hits(i, w, v, h)
    <3>1. ASSUME Hits(i, w, v, h) PROVE FALSE
      <4>1. v.hits = [w.hits EXCEPT ![i] = @ + 1]
        BY <3>1 DEF Hits
      <4>2. v.hits[i] = w.hits[i] + 1 /\ w.hits[i] \in Nat
        BY <1>1, <1>3, <4>1 DEF N
      <4> QED
        BY <2>3, <4>2
    <3> QED
      BY <3>1
  <2>6. Whole(v.text) /\ Whole(v.cache[i])
    <3>1. w.cache = [j \in N |-> w.cache[j]]
      BY <1>1 DEF TextWork, IsWork
    <3>2. CASE HandsOn(i, w, v)
      <4>1. v.text = c /\ v.cache = [w.cache EXCEPT ![i] = <<>>]
        BY <3>2 DEF HandsOn, c
      <4>2. v.cache[i] = <<>>
        BY <1>1, <3>1, <4>1
      <4> QED
        BY <2>2, <4>1, <4>2, WholeEmpty
    <3>3. CASE Keeps(i, w, v)
      <4>1. v.text = <<>> /\ v.cache = [w.cache EXCEPT ![i] = c]
        BY <3>3 DEF Keeps, c
      <4>2. v.cache[i] = c
        BY <1>1, <3>1, <4>1
      <4> QED
        BY <2>2, <4>1, <4>2, WholeEmpty
    <3>4. CASE LetsGo(i, w, v, h, last)
      <4>1. v.text = c /\ v.cache = w.cache
        BY <3>4 DEF LetsGo, c
      <4> QED
        BY <2>1, <2>2, <4>1
    <3> QED
      BY <1>10, <1>14, <2>4, <2>5, <3>2, <3>3, <3>4
  <2>7. WholeFrom4(v.cache)
    <3> SUFFICES ASSUME NEW j \in 4 .. Size PROVE Whole(v.cache[j])
      BY DEF WholeFrom4
    <3>1. j # i => v.cache[j] = w.cache[j]
      BY <1>1, <1>2
    <3> QED
      BY <1>8, <2>6, <3>1 DEF WholeFrom4
  <2> QED
    BY <2>6, <2>7
<1>15. i \in 1 .. 2 \/ i = 3 \/ i \in 4 .. Size
  BY <1>1
<1> QED
  BY <1>3, <1>11, <1>12, <1>13, <1>14, <1>15

LEMMA CleanEnd ==
  ASSUME Texts, WholeFrom4(cache), NEW chunk \in Text, NEW last \in BOOLEAN
  PROVE  Clean(RunChain(chunk, last), Size)
<1>1. PICK f : Runs(f, chunk, last)
  BY RunsExist
<1>2. /\ f[0] = Start(chunk) /\ \A i \in 1 .. Size : f[i] = Step(i, f[i - 1], last)
      /\ RunChain(chunk, last) = f[Size]
  BY <1>1 DEF Runs
<1>3. \A i \in 0 .. Size : InLine(f[i], i, chunk, last)
  BY <1>1, RunInLine
<1> DEFINE T == {i \in 0 .. Size : Clean(f[i], i)}
<1>4. Size \in Nat
  BY ChainIs
<1>5. 0 \in T
  <2>1. f[0].cache = cache
    BY <1>2 DEF Start
  <2>2. Clean(f[0], 0)
    BY <2>1 DEF Clean
  <2> QED
    BY <1>4, <2>2
<1>6. ASSUME NEW i \in 0 .. Size, i \in T, i < Size PROVE i + 1 \in T
  <2>1. i + 1 \in 1 .. Size /\ i + 1 \in 0 .. Size /\ (i + 1) - 1 = i
    BY <1>4, <1>6
  <2>2. f[i + 1] = Step(i + 1, f[i], last)
    BY <1>2, <2>1
  <2> DEFINE w == f[i]
  <2>3. TextWork(w) /\ (w.panic = FALSE /\ w.live = FALSE => w.text = <<>>)
    BY <1>3 DEF InLine
  <2>4. Clean(w, (i + 1) - 1)
    BY <1>6, <2>1
  <2> HIDE DEF w
  <2>5. Clean(Step(i + 1, w, last), i + 1)
    BY <2>1, <2>3, <2>4, CleanStep
  <2> QED
    BY <2>1, <2>2, <2>5 DEF w
<1>7. 0 .. Size \subseteq T
  <2> HIDE DEF T
  <2>1. 0 \in Int /\ Size \in Int
    BY <1>4
  <2>2. \A i \in 0 .. Size : i \in T /\ i < Size => i + 1 \in T
    BY <1>6
  <2> QED
    BY <1>5, <2>1, <2>2, InductionUpTo
<1>8. Size \in T
  BY <1>4, <1>7
<1> QED
  BY <1>2, <1>8

\* Without configured hits, what came out is whole, and what the later matchers hold.
CleanStream ==
  NoConfiguredHits(hits) => Whole(emitted) /\ (~ panic => WholeFrom4(cache))

LEMMA CleanInit == Init => CleanStream
<1>1. ASSUME Init PROVE CleanStream
  <2>1. emitted = <<>> /\ cache = [i \in DOMAIN Chain |-> <<>>]
    BY <1>1 DEF Init
  <2>2. DOMAIN Chain = 1 .. Size /\ Size \in Nat
    BY ChainIs
  <2>3. \A j \in 4 .. Size : cache[j] = <<>>
    BY <2>1, <2>2
  <2> QED
    BY <2>1, <2>3, WholeEmpty DEF CleanStream, WholeFrom4
<1> QED
  BY <1>1

LEMMA CleanNext == StreamInv /\ CleanStream /\ [Next]_vars => CleanStream'
<1> SUFFICES ASSUME StreamInv, CleanStream, [Next]_vars PROVE CleanStream'
  OBVIOUS
<1>1. CASE Next
  <2>1. PICK chunk \in Chunks, last \in BOOLEAN : ExecuteInterceptors(chunk, last)
    BY <1>1 DEF Next
  <2> DEFINE w == RunChain(chunk, last)
  <2>2. /\ ~ panic /\ cache' = w.cache /\ hits' = w.hits /\ panic' = w.panic
        /\ emitted' = IF w.panic THEN emitted ELSE emitted \o w.text
    BY <2>1 DEF ExecuteInterceptors
  <2>3. Texts /\ emitted \in Text /\ chunk \in Text
    BY ChunkIsText DEF StreamInv, Shape
  <2>4. InLine(w, Size, chunk, last)
    BY <2>3, InLineEnd
  <2>5. TextWork(w) /\ \A j \in 1 .. Size : hits[j] <= w.hits[j]
    BY <2>4 DEF InLine
  <2>6. w.panic \in BOOLEAN /\ w.hits \in [1 .. Size -> Nat] /\ w.text \in Text
    BY <2>5, ChainIs DEF TextWork, IsWork
  <2> HIDE DEF w
  <2> SUFFICES ASSUME NoConfiguredHits(w.hits)
               PROVE  Whole(emitted') /\ (~ w.panic => WholeFrom4(w.cache))
    BY <2>2 DEF CleanStream, NoConfiguredHits, WholeFrom4
  <2>7. NoConfiguredHits(hits)
    <3> SUFFICES ASSUME NEW j \in 4 .. Size PROVE hits[j] = 0
      BY DEF NoConfiguredHits
    <3>1. j \in 1 .. Size /\ w.hits[j] = 0
      BY ChainIs DEF NoConfiguredHits
    <3>2. hits[j] \in Nat /\ hits[j] <= w.hits[j]
      BY <2>3, <2>5, <3>1, ChainIs DEF Texts, Basic
    <3> QED
      BY <3>1, <3>2
  <2>8. Whole(emitted) /\ WholeFrom4(cache)
    BY <2>2, <2>7 DEF CleanStream
  <2>9. Clean(w, Size)
    BY <2>3, <2>8, CleanEnd DEF w
  <2>10. CASE w.panic = TRUE
    BY <2>2, <2>8, <2>10
  <2>11. CASE w.panic = FALSE
    <3>1. Whole(w.text) /\ WholeFrom4(w.cache)
      BY <2>9, <2>11, ChainIs DEF Clean
    <3>2. Whole(emitted \o w.text)
      BY <2>3, <2>6, <2>8, <3>1, WholeConcat
    <3> QED
      BY <2>2, <2>11, <3>1, <3>2
  <2> QED
    BY <2>6, <2>10, <2>11
<1>2. CASE UNCHANGED vars
  BY <1>2 DEF vars, CleanStream, NoConfiguredHits, WholeFrom4
<1> QED
  BY <1>1, <1>2

\* As long as no configured matcher has hit, an end mark is sent only behind
\* a spare "<", in however many chunks it came (symbol.go:55-84, ctor.go:202-207).
THEOREM EndMarkStaysOut == Spec => []EndMarkIsRemoved
<1>1. StreamInv /\ CleanStream => EndMarkIsRemoved
  <2> SUFFICES ASSUME StreamInv, CleanStream,
                      \A i \in DOMAIN Chain : Chain[i].kind = "configured" => hits[i] = 0,
                      NEW p \in Positions(emitted, ImEnd)
               PROVE  p > 0 /\ emitted[p] = "<"
    BY DEF EndMarkIsRemoved
  <2>1. NoConfiguredHits(hits)
    <3> SUFFICES ASSUME NEW j \in 4 .. Size PROVE hits[j] = 0
      BY DEF NoConfiguredHits
    <3>1. j \in DOMAIN Chain /\ Chain[j].kind = "configured"
      BY ChainIs, Configured
    <3> QED
      BY <3>1
  <2>2. Whole(emitted)
    BY <2>1 DEF CleanStream
  <2> DEFINE s == emitted
  <2>3. s \in Text /\ Len(s) \in Nat
    BY LenProperties DEF StreamInv, Shape, Text
  <2>4. p \in 0 .. (Len(s) - 2) /\ SubSeq(s, p + 1, p + 2) = ImEnd
    BY EndMarkIs DEF Positions
  <2>5. p + 1 \in 1 .. Len(s) /\ p + 2 \in 1 .. Len(s) /\ (p + 1) + 1 = p + 2 /\ (p + 1) - 1 = p
    BY <2>3, <2>4
  <2>6. s[p + 1] = ImEnd[1] /\ s[p + 2] = ImEnd[2]
    <3>1. \A k \in 1 .. 2 : SubSeq(s, p + 1, p + 2)[k] = s[p + k]
      <4>1. InRange(s, p, p + 2) /\ p \in Int /\ p + 2 \in Int /\ (p + 2) - p = 2
        BY <2>3, <2>4 DEF InRange
      <4> HIDE DEF s
      <4> QED
        BY <2>3, <4>1, SliceIs DEF Slice
    <3>2. 1 \in 1 .. 2 /\ 2 \in 1 .. 2
      OBVIOUS
    <3>3. ImEnd[1] = s[p + 1] /\ ImEnd[2] = s[p + 2]
      BY <2>4, <3>1, <3>2
    <3> QED
      BY <3>3
  <2>7. p + 1 > 1 /\ s[p] = ImEnd[1]
    BY <2>2, <2>5, <2>6 DEF Whole
  <2> QED
    BY <2>4, <2>7, EndMarkIs
<1>2. Spec => [](StreamInv /\ CleanStream)
  BY StreamInit, StreamNext, CleanInit, CleanNext, PTL DEF Spec
<1> QED
  BY <1>1, <1>2, PTL

-----------------------------------------------------------------------------
(* Marks in a text.                                                        *)

LEMMA MarksAre ==
  /\ IsMark(ThinkOpen) /\ ThinkOpen[1] = "<" /\ ThinkOpen[2] = "k"
  /\ IsMark(ThinkClose) /\ ThinkClose[1] = "<" /\ ThinkClose[2] = "K"
  /\ IsMark(CallOpen) /\ CallOpen[1] = "<" /\ CallOpen[2] = "t"
  /\ IsMark(CallClose) /\ CallClose[1] = "<" /\ CallClose[2] = "T"
BY DEF IsMark, ThinkOpen, ThinkClose, CallOpen, CallClose

LEMMA PositionIs ==
  ASSUME NEW find, IsMark(find), NEW s \in Text, NEW p
  PROVE  p \in Positions(s, find) <=>
           p \in Nat /\ p + 2 <= Len(s) /\ s[p + 1] = find[1] /\ s[p + 2] = find[2]
<1>1. Len(s) \in Nat /\ Len(find) = 2 /\ find = <<find[1], find[2]>>
  BY LenProperties DEF Text, IsMark
<1>2. p \in Positions(s, find) <=> p \in 0 .. (Len(s) - 2) /\ SubSeq(s, p + 1, p + 2) = find
  BY <1>1 DEF Positions
<1>3. ASSUME p \in 0 .. (Len(s) - 2)
      PROVE  SubSeq(s, p + 1, p + 2) = <<s[p + 1], s[p + 2]>>
  <2> DEFINE t == Slice(s, p, p + 2)
  <2>1. InRange(s, p, p + 2) /\ p \in Int /\ p + 2 \in Int /\ (p + 2) - p = 2
    BY <1>1, <1>3 DEF InRange
  <2>2. t \in Text /\ Len(t) = 2 /\ \A k \in 1 .. 2 : t[k] = s[p + k]
    <3> DEFINE b == p + 2
    <3>1. InRange(s, p, b) /\ p \in Int /\ b \in Int /\ b - p = 2
      BY <2>1
    <3> HIDE DEF b
    <3>2. LET x == Slice(s, p, b)
          IN  x \in Text /\ Len(x) = b - p /\ \A k \in 1 .. (b - p) : x[k] = s[p + k]
      BY <3>1, SliceIs
    <3> QED
      BY <3>1, <3>2 DEF b
  <2>3. t = SubSeq(s, p + 1, p + 2)
    BY DEF Slice
  <2> HIDE DEF t
  <2>4. t[1] = s[p + 1] /\ t[2] = s[p + 2] /\ t[1] \in Symbols /\ t[2] \in Symbols
    <3>1. 1 \in 1 .. 2 /\ 2 \in 1 .. 2
      OBVIOUS
    <3> QED
      BY <2>2, <3>1, ElementOfSeq DEF Text
  <2>5. t = <<t[1], t[2]>>
    <3> DEFINE u == <<t[1], t[2]>>
    <3>1. u \in Seq(Symbols) /\ Len(u) = 2 /\ u[1] = t[1] /\ u[2] = t[2]
      BY <2>4
    <3> HIDE DEF u
    <3>2. \A k \in 1 .. Len(t) : t[k] = u[k]
      BY <2>2, <3>1
    <3>3. t = u
      BY <2>2, <3>1, <3>2, SeqEqual DEF Text
    <3> QED
      BY <3>3 DEF u
  <2> QED
    BY <2>3, <2>4, <2>5
<1>4. p \in 0 .. (Len(s) - 2) <=> p \in Nat /\ p + 2 <= Len(s)
  BY <1>1
<1>5. ASSUME NEW a, NEW b PROVE <<a, b>> = find <=> a = find[1] /\ b = find[2]
  <2>1. <<a, b>> = <<find[1], find[2]>> <=> a = find[1] /\ b = find[2]
    OBVIOUS
  <2> QED
    BY <1>1, <2>1
<1> QED
  BY <1>2, <1>3, <1>4, <1>5

\* A mark in a part of a text is one in the text.
LEMMA PositionShift ==
  ASSUME NEW find, IsMark(find), NEW a \in Text, NEW s \in Text, NEW p \in Positions(s, find)
  PROVE  Len(a) + p \in Positions(a \o s, find) /\ p \in Positions(s \o a, find)
<1> DEFINE u == a \o s
           v == s \o a
<1>1. /\ u \in Text /\ Len(a) \in Nat /\ Len(s) \in Nat /\ Len(u) = Len(a) + Len(s)
      /\ \A k \in 1 .. Len(s) : u[Len(a) + k] = s[k]
  BY TextConcat
<1>2. /\ v \in Text /\ Len(v) = Len(s) + Len(a)
      /\ \A k \in 1 .. Len(s) : v[k] = s[k]
  BY TextConcat
<1> HIDE DEF u, v
<1>3. p \in Nat /\ p + 2 <= Len(s) /\ s[p + 1] = find[1] /\ s[p + 2] = find[2]
  BY PositionIs
<1>4. p + 1 \in 1 .. Len(s) /\ p + 2 \in 1 .. Len(s)
  BY <1>1, <1>3
<1>5. u[(Len(a) + p) + 1] = find[1] /\ u[(Len(a) + p) + 2] = find[2]
  <2>1. (Len(a) + p) + 1 = Len(a) + (p + 1) /\ (Len(a) + p) + 2 = Len(a) + (p + 2)
    BY <1>1, <1>3
  <2> QED
    BY <1>1, <1>3, <1>4, <2>1
<1>6. Len(a) + p \in Nat /\ (Len(a) + p) + 2 <= Len(u) /\ p + 2 <= Len(v)
  BY <1>1, <1>2, <1>3
<1>7. Len(a) + p \in Positions(u, find)
  BY <1>1, <1>5, <1>6, PositionIs
<1>8. p \in Positions(v, find)
  BY <1>2, <1>3, <1>4, <1>6, PositionIs
<1> QED
  BY <1>7, <1>8 DEF u, v

\* A mark that ends in the first part of a text is one of that part.
LEMMA PositionBefore ==
  ASSUME NEW find, IsMark(find), NEW a \in Text, NEW s \in Text,
         NEW p \in Positions(a \o s, find), p + 2 <= Len(a)
  PROVE  p \in Positions(a, find)
<1> DEFINE u == a \o s
<1>1. /\ u \in Text /\ Len(a) \in Nat /\ Len(s) \in Nat /\ Len(u) = Len(a) + Len(s)
      /\ \A k \in 1 .. Len(a) : u[k] = a[k]
  BY TextConcat
<1> HIDE DEF u
<1>2. p \in Nat /\ u[p + 1] = find[1] /\ u[p + 2] = find[2]
  <2>1. p \in Positions(u, find)
    BY DEF u
  <2> QED
    BY <1>1, <2>1, PositionIs
<1>3. p + 1 \in 1 .. Len(a) /\ p + 2 \in 1 .. Len(a)
  BY <1>1, <1>2
<1>4. a[p + 1] = find[1] /\ a[p + 2] = find[2]
  BY <1>1, <1>2, <1>3
<1> QED
  BY <1>2, <1>4, PositionIs

\* What Index and LastIndex find.
LEMMA IndexFinds ==
  ASSUME NEW find, IsMark(find), NEW s \in Text
  PROVE  /\ Positions(s, find) = {} => Index(s, find) = -1 /\ LastIndex(s, find) = -1
         /\ Positions(s, find) # {} =>
              /\ Index(s, find) \in Positions(s, find)
              /\ \A p \in Positions(s, find) : Index(s, find) <= p
              /\ LastIndex(s, find) \in Positions(s, find)
              /\ \A p \in Positions(s, find) : p <= LastIndex(s, find)
<1> DEFINE P == Positions(s, find)
<1>1. Len(s) \in Nat
  BY LenProperties DEF Text
<1>2. \A p \in P : p \in Nat /\ p + 2 <= Len(s)
  BY PositionIs
<1>3. Index(s, find) = (IF P = {} THEN -1 ELSE Min(P))
      /\ LastIndex(s, find) = (IF P = {} THEN -1 ELSE Max(P))
  BY DEF Index, LastIndex
<1> HIDE DEF P
<1>4. P \in SUBSET Nat /\ P \in SUBSET (0 .. Len(s))
  BY <1>1, <1>2
<1>5. P # {} => /\ Min(P) \in P /\ \A p \in P : Min(P) <= p
                /\ Max(P) \in P /\ \A p \in P : p <= Max(P)
  BY <1>1, <1>4, MinIs, MaxIs
<1>6. /\ P = {} => Index(s, find) = -1 /\ LastIndex(s, find) = -1
      /\ P # {} =>
           /\ Index(s, find) \in P /\ \A p \in P : Index(s, find) <= p
           /\ LastIndex(s, find) \in P /\ \A p \in P : p <= LastIndex(s, find)
  BY <1>3, <1>5
<1> QED
  BY <1>6 DEF P

\* A match stands in the text,
LEMMA MatchedIsThere ==
  ASSUME NEW find, IsMark(find), NEW s \in Text, NextToken(find, s).state = Matched
  PROVE  \E p \in Positions(s, find) : p + 2 < Len(s)
<1> DEFINE f == Progress(find, s)
           n == Len(s)
           K == {k \in 0 .. (n - 1) : f[k] = 2}
<1>1. n \in Nat
  BY LenProperties DEF Text
<1>2. IsProgress(f, find, s)
  BY ProgressIs
<1>3. K # {}
  BY TokenIs
<1>4. /\ f[0] = 0 /\ \A k \in 1 .. n : f[k] = Scanned(find, f[k - 1], s[k])
      /\ \A k \in 0 .. n : f[k] \in 0 .. 2
  BY <1>2 DEF IsProgress
<1> HIDE DEF f
<1>5. PICK k \in K : \A m \in K : k <= m
  <2>1. K \in SUBSET Nat
    OBVIOUS
  <2> HIDE DEF K
  <2> QED
    BY <1>3, <2>1, LeastNumber
<1>6. k \in 1 .. (n - 1) /\ k \in 1 .. n /\ k - 1 \in 0 .. (n - 1) /\ k - 1 \in 0 .. n /\ f[k] = 2
  BY <1>1, <1>4, <1>5
<1>7. f[k - 1] # 2
  <2>1. ~ (k <= k - 1)
    BY <1>6
  <2>2. k - 1 \notin K
    <3> HIDE DEF K
    <3> QED
      BY <1>5, <2>1
  <2> QED
    BY <1>6, <2>2
<1>8. f[k] = Scanned(find, f[k - 1], s[k]) /\ f[k - 1] \in 0 .. 2
  BY <1>4, <1>6
<1>9. f[k - 1] = 1 /\ s[k] = find[2]
  <2> DEFINE b == f[k - 1]
  <2>1. b = 0 \/ b = 1
    BY <1>7, <1>8
  <2>2. b \in 0 .. 2
    BY <1>8
  <2>3. f[k] = Scanned(find, b, s[k])
    BY <1>8
  <2> HIDE DEF b
  <2>4. CASE b = 0
    BY <1>6, <2>2, <2>3, <2>4, ScannedMark
  <2>5. CASE b = 1
    <3>1. f[k] = IF s[k] = find[2] THEN 2 ELSE 0
      BY <2>2, <2>3, <2>5, ScannedMark
    <3> QED
      BY <1>6, <2>5, <3>1 DEF b
  <2> QED
    BY <2>1, <2>4, <2>5
<1>10. k - 1 \in 1 .. n /\ (k - 1) - 1 \in 0 .. n
  <2>1. k - 1 # 0
    BY <1>4, <1>9
  <2> QED
    BY <1>1, <1>6, <2>1
<1>11. s[k - 1] = find[1]
  <2> DEFINE b == f[(k - 1) - 1]
             c == s[k - 1]
  <2>1. f[k - 1] = Scanned(find, b, c) /\ b \in 0 .. 2
    BY <1>4, <1>10
  <2>2. b = 0 \/ b = 1 \/ b = 2
    BY <2>1
  <2> HIDE DEF b, c
  <2>3. CASE b = 0
    <3>1. f[k - 1] = IF c = find[1] THEN 1 ELSE 0
      BY <2>1, <2>3, ScannedMark
    <3> QED
      BY <1>9, <3>1 DEF c
  <2>4. CASE b = 1
    <3>1. f[k - 1] = IF c = find[2] THEN 2 ELSE 0
      BY <2>1, <2>4, ScannedMark
    <3> QED
      BY <1>9, <3>1
  <2>5. CASE b = 2
    <3>1. f[k - 1] = 2
      BY <2>1, <2>5, ScannedMark
    <3> QED
      BY <1>9, <3>1
  <2> QED
    BY <2>2, <2>3, <2>4, <2>5
<1> DEFINE p == k - 2
<1>12. p \in Nat /\ p + 2 = k /\ p + 1 = k - 1 /\ p + 2 < n
  BY <1>1, <1>6, <1>10
<1> HIDE DEF p
<1>13. p \in Positions(s, find)
  <2>1. s[p + 1] = find[1] /\ s[p + 2] = find[2]
    BY <1>9, <1>11, <1>12
  <2>2. p + 2 <= Len(s)
    BY <1>1, <1>12
  <2> QED
    BY <1>12, <2>1, <2>2, PositionIs
<1> QED
  BY <1>12, <1>13

\* and stays there when the text grows.
LEMMA MatchedStays ==
  ASSUME NEW find, IsMark(find), NEW s \in Text, NEW t \in Text,
         NextToken(find, s).state = Matched
  PROVE  NextToken(find, s \o t).state = Matched
<1> DEFINE u == s \o t
           f == Progress(find, s)
           g == Progress(find, u)
           n == Len(s)
<1>1. /\ u \in Text /\ n \in Nat /\ Len(t) \in Nat /\ Len(u) = n + Len(t)
      /\ \A k \in 1 .. n : u[k] = s[k]
  BY TextConcat
<1> HIDE DEF u
<1>2. IsProgress(f, find, s) /\ IsProgress(g, find, u)
  BY <1>1, ProgressIs
<1>3. PICK k \in 0 .. (n - 1) : f[k] = 2
  BY TokenIs
<1> HIDE DEF f, g
<1>4. /\ f[0] = 0 /\ \A m \in 1 .. n : f[m] = Scanned(find, f[m - 1], s[m])
      /\ g[0] = 0 /\ \A m \in 1 .. Len(u) : g[m] = Scanned(find, g[m - 1], u[m])
  BY <1>2 DEF IsProgress
<1> DEFINE T == {m \in 0 .. n : f[m] = g[m]}
<1>5. 0 .. n \subseteq T
  <2>1. 0 \in T
    BY <1>1, <1>4
  <2>2. ASSUME NEW m \in 0 .. n, m \in T, m < n PROVE m + 1 \in T
    <3>1. m + 1 \in 1 .. n /\ m + 1 \in 1 .. Len(u) /\ (m + 1) - 1 = m /\ m + 1 \in 0 .. n
      BY <1>1, <2>2
    <3>2. f[m + 1] = Scanned(find, f[m], s[m + 1]) /\ g[m + 1] = Scanned(find, g[m], u[m + 1])
      BY <1>4, <3>1
    <3> QED
      BY <1>1, <2>2, <3>1, <3>2
  <2> HIDE DEF T, n
  <2>3. 0 \in Int /\ n \in Int
    BY <1>1
  <2>4. \A m \in 0 .. n : m \in T /\ m < n => m + 1 \in T
    BY <2>2
  <2> QED
    BY <2>1, <2>3, <2>4, InductionUpTo
<1>6. k \in 0 .. n /\ k \in 0 .. (Len(u) - 1)
  BY <1>1
<1>7. g[k] = 2
  BY <1>3, <1>5, <1>6
<1>8. NextToken(find, u).state = Matched
  BY <1>1, <1>6, <1>7, TokenIs DEF g
<1> QED
  BY <1>8 DEF u

-----------------------------------------------------------------------------
(* The slices of the handlers.                                             *)

\* What the think matcher remembers of the content it has seen before.
Remembers(content, mm) ==
  \/ mm.once = FALSE /\ mm.think = 2
  \/ /\ mm.once = TRUE /\ mm.think \in Nat /\ mm.think >= 2 /\ mm.think <= Len(content)
     /\ \A q \in Positions(content, ThinkClose) : mm.think < q + 2

\* Two marks with different letters do not overlap.
LEMMA Apart ==
  ASSUME NEW s \in Text, NEW a, NEW b, IsMark(a), IsMark(b), a[1] = b[1], a[2] # b[2],
         a[2] # b[1], b[2] # a[1], NEW p \in Positions(s, a), NEW q \in Positions(s, b)
  PROVE  p + 2 <= q \/ q + 2 <= p
<1>1. /\ p \in Nat /\ s[p + 1] = a[1] /\ s[p + 2] = a[2]
      /\ q \in Nat /\ s[q + 1] = b[1] /\ s[q + 2] = b[2]
  BY PositionIs
<1>2. p # q
  BY <1>1
<1>3. p + 1 # q
  <2>1. ASSUME p + 1 = q PROVE FALSE
    <3>1. q + 1 = p + 2
      BY <1>1, <2>1
    <3> QED
      BY <1>1, <3>1
  <2> QED
    BY <2>1
<1>4. q + 1 # p
  <2>1. ASSUME q + 1 = p PROVE FALSE
    <3>1. p + 1 = q + 2
      BY <1>1, <2>1
    <3> QED
      BY <1>1, <3>1
  <2> QED
    BY <2>1
<1> QED
  BY <1>1, <1>2, <1>3, <1>4

LEMMA ThinkApart ==
  ASSUME NEW s \in Text, NEW p \in Positions(s, ThinkOpen), NEW q \in Positions(s, ThinkClose)
  PROVE  p + 2 <= q \/ q + 2 <= p
<1>1. "<" # "k" /\ "<" # "K" /\ "k" # "K"
  OBVIOUS
<1> QED
  BY <1>1, MarksAre, Apart

LEMMA CallApart ==
  ASSUME NEW s \in Text, NEW p \in Positions(s, CallOpen), NEW q \in Positions(s, CallClose)
  PROVE  p + 2 <= q \/ q + 2 <= p
<1>1. "<" # "t" /\ "<" # "T" /\ "t" # "T"
  OBVIOUS
<1> QED
  BY <1>1, MarksAre, Apart

\* Where the think matcher begins to report.
LEMMA OffsetIs ==
  ASSUME NEW s \in Text, NEW mm, Remembers(s, mm), Positions(s, ThinkOpen) # {}
  PROVE  Offset(s, mm) = IF mm.once THEN mm.think ELSE Index(s, ThinkOpen) + 2
<1>1. Index(s, ThinkOpen) \in Nat
  <2>1. Index(s, ThinkOpen) \in Positions(s, ThinkOpen)
    BY IndexFinds, MarksAre
  <2> QED
    BY <2>1, PositionIs, MarksAre
<1> QED
  BY <1>1 DEF Remembers, Offset

LEMMA ThinkPanics ==
  ASSUME NEW s \in Text, NEW mm, Remembers(s, mm), Positions(s, ThinkOpen) # {},
         ThinkHandler(s, mm).panic
  PROVE  \E q \in Positions(s, ThinkClose) :
           \/ mm.once /\ q + 1 = mm.think
           \/ \E p \in Positions(s, ThinkOpen) : q < p
<1> DEFINE from == Offset(s, mm)
           idx  == LastIndex(s, ThinkClose)
           first == Index(s, ThinkOpen)
           Q == Positions(s, ThinkClose)
           P == Positions(s, ThinkOpen)
<1>1. ThinkHandler(s, mm).panic <=>
        IF idx < 0 THEN ~ InRange(s, from, Len(s))
        ELSE ~ InRange(s, TagLen, idx) \/ ~ InRange(s, from, idx)
  BY DEF ThinkHandler, Answer
<1>2. from = IF mm.once THEN mm.think ELSE first + 2
  BY OffsetIs
<1>3. first \in P /\ first \in Nat /\ first + 2 <= Len(s) /\ Len(s) \in Nat
  <2>1. first \in P
    BY IndexFinds, MarksAre
  <2> QED
    BY <2>1, PositionIs, MarksAre, LenProperties DEF Text
<1>4. (Q = {} => idx = -1) /\ (Q # {} => idx \in Q /\ idx \in Nat /\ idx + 2 <= Len(s))
  <2>1. (Q = {} => idx = -1) /\ (Q # {} => idx \in Q)
    BY IndexFinds, MarksAre
  <2> QED
    BY <2>1, PositionIs, MarksAre
<1>5. idx \in Q => first + 2 <= idx \/ idx + 2 <= first
  BY <1>3, ThinkApart
<1>6. mm.once \in BOOLEAN
  BY DEF Remembers
<1> HIDE DEF from, idx, first, Q, P
<1>7. CASE Q = {}
  <2>1. ~ InRange(s, from, Len(s))
    BY <1>1, <1>4, <1>7
  <2> QED
    BY <1>2, <1>3, <1>6, <2>1 DEF InRange, Remembers
<1>8. CASE Q # {}
  <2>1. ~ (TagLen <= idx) \/ ~ (0 <= from) \/ ~ (from <= idx)
    BY <1>1, <1>3, <1>4, <1>8 DEF InRange, TagLen
  <2>2. CASE mm.once
    <3>1. from = mm.think /\ from \in Nat /\ from >= 2 /\ from < idx + 2
      BY <1>2, <1>4, <1>8, <2>2 DEF Remembers, Q
    <3>2. idx < from
      BY <1>4, <1>8, <2>1, <3>1 DEF TagLen
    <3>3. idx + 1 = from
      BY <1>4, <1>8, <3>1, <3>2
    <3> QED
      BY <1>4, <1>8, <2>2, <3>1, <3>3 DEF Q
  <2>3. CASE ~ mm.once
    <3>1. idx < first + 2
      BY <1>2, <1>3, <1>4, <1>8, <2>1, <2>3 DEF TagLen
    <3>2. idx < first
      BY <1>3, <1>4, <1>5, <1>8, <3>1
    <3> QED
      BY <1>3, <1>4, <1>8, <3>2 DEF Q, P
  <2> QED
    BY <2>2, <2>3
<1> QED
  BY <1>7, <1>8

\* Trimming keeps what begins and ends with ink.
LEMMA TrimKeeps ==
  ASSUME NEW s \in Text, Len(s) # 0, NEW k \in 1 .. Len(s), s[k] # Blank, s[Len(s)] # Blank
  PROVE  /\ \E a \in 1 .. k : TrimSpace(s) = SubSeq(s, a, Len(s))
         /\ k = 1 => TrimSpace(s) = s
<1> DEFINE n == Len(s)
           ink == {j \in 1 .. n : s[j] # Blank}
<1>1. n \in Nat /\ DOMAIN s = 1 .. n
  BY LenProperties DEF Text
<1>2. TrimSpace(s) = IF ink = {} THEN <<>> ELSE SubSeq(s, Min(ink), Max(ink))
  BY <1>1 DEF TrimSpace
<1>3. k \in ink /\ n \in ink
  BY <1>1
<1>4. ink \in SUBSET Nat /\ ink \in SUBSET (0 .. n) /\ \A j \in ink : j \in 1 .. n
  BY <1>1
<1> HIDE DEF ink, n
<1>5. Min(ink) \in ink /\ Min(ink) <= k /\ Max(ink) \in ink /\ n <= Max(ink)
  BY <1>1, <1>3, <1>4, MinIs, MaxIs
<1>6. Max(ink) = n /\ Min(ink) \in 1 .. k
  <2> DEFINE a == Min(ink)
             b == Max(ink)
  <2>1. a \in 1 .. n /\ b \in 1 .. n /\ a <= k /\ n <= b
    BY <1>4, <1>5
  <2>2. k \in Nat
    OBVIOUS
  <2> HIDE DEF a, b
  <2>3. b = n /\ a \in 1 .. k
    BY <1>1, <2>1, <2>2
  <2> QED
    BY <2>3 DEF a, b
<1>7. TrimSpace(s) = SubSeq(s, Min(ink), n)
  BY <1>2, <1>3, <1>6
<1>8. k = 1 => SubSeq(s, Min(ink), n) = s
  <2>1. ASSUME k = 1 PROVE SubSeq(s, Min(ink), n) = s
    <3>1. Min(ink) = 1
      BY <1>6, <2>1
    <3>2. SubSeq(s, 1, n) = s
      BY SubSeqFull DEF Text, n
    <3> QED
      BY <3>1, <3>2
  <2> QED
    BY <2>1
<1> QED
  BY <1>6, <1>7, <1>8 DEF n

LEMMA InkIs == ImEnd[1] # Blank /\ CallOpen[1] # Blank /\ CallClose[2] # Blank
  BY Zenon DEF ImEnd, CallOpen, CallClose, Blank

\* The text up to the last closing tag of a call.
LEMMA BlockIs ==
  ASSUME NEW s \in Text, Positions(s, CallClose) # {}
  PROVE  LET q == LastIndex(s, CallClose)
             b == Block(CallClose, s)
         IN  /\ q \in Positions(s, CallClose) /\ q \in Nat /\ q + 2 <= Len(s)
             /\ b \in Text /\ Len(b) = q + 2 /\ \A k \in 1 .. (q + 2) : b[k] = s[k]
             /\ b[Len(b)] # Blank
<1> DEFINE q == LastIndex(s, CallClose)
           b == Block(CallClose, s)
           m == q + 2
<1>1. q \in Positions(s, CallClose)
  BY IndexFinds, MarksAre
<1>2. q \in Nat /\ q + 2 <= Len(s) /\ s[q + 2] = CallClose[2] /\ Len(s) \in Nat
  BY <1>1, PositionIs, MarksAre, LenProperties DEF Text
<1>3. b = Slice(s, 0, m)
  BY MarksAre DEF Block, IsMark
<1>4. m \in Int /\ 0 \in Int /\ InRange(s, 0, m) /\ m - 0 = m
  BY <1>2 DEF InRange
<1> HIDE DEF b, m
<1>5. b \in Text /\ Len(b) = m /\ \A k \in 1 .. m : b[k] = s[k]
  <2>1. LET x == Slice(s, 0, m)
        IN  x \in Text /\ Len(x) = m - 0 /\ \A k \in 1 .. (m - 0) : x[k] = s[0 + k]
    BY <1>4, SliceIs
  <2>2. \A k \in 1 .. m : 0 + k = k
    OBVIOUS
  <2> QED
    BY <1>3, <1>4, <2>1, <2>2
<1>6. b[m] # Blank
  <2>1. m \in 1 .. m /\ s[m] = CallClose[2]
    BY <1>2 DEF m
  <2> QED
    BY <1>5, <2>1, InkIs
<1> QED
  BY <1>1, <1>2, <1>5, <1>6 DEF b, m

LEMMA CallPanics ==
  ASSUME NEW s \in Text, Positions(s, CallOpen) # {},
         Enclosed(CallClose, s, CallHandler(Block(CallClose, s))).panic
  PROVE  \E q \in Positions(s, CallClose), p \in Positions(s, CallOpen) : q < p
<1> DEFINE q == LastIndex(s, CallClose)
           b == Block(CallClose, s)
           t == TrimSpace(b)
<1>1. Positions(s, CallClose) # {}
  <2>1. Positions(s, CallClose) = {} => q = -1
    BY IndexFinds, MarksAre
  <2>2. q # -1
    BY DEF Enclosed, Wait, Answer
  <2> QED
    BY <2>1, <2>2
<1>2. /\ q \in Positions(s, CallClose) /\ q \in Nat /\ q + 2 <= Len(s)
      /\ b \in Text /\ Len(b) = q + 2 /\ \A k \in 1 .. (q + 2) : b[k] = s[k]
      /\ b[Len(b)] # Blank
  BY <1>1, BlockIs
<1>3. ~ InRange(t, TagLen, Len(t) - TagLen)
  <2>1. CallHandler(b).panic <=> ~ InRange(t, TagLen, Len(t) - TagLen)
    BY DEF CallHandler, Answer
  <2>2. ~ (q < 0)
    BY <1>2
  <2> QED
    BY <2>1, <2>2 DEF Enclosed
<1>4. PICK p : p \in Positions(s, CallOpen)
  OBVIOUS
<1>5. p \in Nat /\ p + 2 <= Len(s) /\ s[p + 1] = CallOpen[1]
  BY <1>4, PositionIs, MarksAre
<1>6. p + 2 <= q \/ q + 2 <= p
  BY <1>2, <1>4, CallApart
<1> SUFFICES ASSUME ~ (q < p) PROVE FALSE
  BY <1>2, <1>4
<1> HIDE DEF q, b, t
<1>7. p + 2 <= q
  BY <1>2, <1>5, <1>6
<1>8. p + 1 \in 1 .. Len(b) /\ b[p + 1] # Blank /\ Len(b) # 0
  BY <1>2, <1>5, <1>7, InkIs
<1>9. PICK a \in 1 .. (p + 1) : t = SubSeq(b, a, Len(b))
  BY <1>2, <1>8, TrimKeeps DEF t
<1>10. Len(t) = Len(b) - a + 1
  <2>1. a \in 1 .. (Len(b) + 1) /\ Len(b) \in (a - 1) .. Len(b)
    BY <1>2, <1>5, <1>7
  <2> QED
    BY <1>2, <1>9, <2>1, SubSeqProperties DEF Text
<1>11. Len(t) \in Nat /\ Len(t) >= 4
  BY <1>2, <1>5, <1>7, <1>10
<1> QED
  BY <1>3, <1>11 DEF InRange, TagLen

\* The matchers behind the second never panic nor report a call, and report reasoning
\* only when a configured one hits.
LEMMA LaterAnswers ==
  ASSUME NEW i \in 3 .. Size, NEW index, NEW content, NEW mm
  PROVE  LET h == H(i, index, content, mm)
         IN  /\ h.panic = FALSE /\ h.put.call = {}
             /\ i = 3 \/ h.state # Matched => h.put.think = {}
<1> DEFINE h == H(i, index, content, mm)
<1>1. /\ Wait(content).panic = FALSE /\ Wait(content).put.call = {} /\ Wait(content).put.think = {}
  BY DEF Wait, Answer, Nothing
<1>2. ASSUME NEW o, NEW c
      PROVE  /\ ConfiguredHandler(o, c).panic = FALSE /\ ConfiguredHandler(o, c).put.call = {}
             /\ ConfiguredHandler(o, c).state = Matched
  <2> DEFINE x == ConfiguredHandler(o, c)
  <2>1. \/ x = Answer(Matched, <<>>, Nothing, FALSE)
        \/ \E r : x = Answer(Matched, <<>>, Thought(r), FALSE)
        \/ \E r : x = Answer(Matched, r, Nothing, FALSE)
    BY DEF ConfiguredHandler
  <2> HIDE DEF x
  <2>2. ASSUME NEW r, NEW t, x = Answer(Matched, r, t, FALSE)
        PROVE  x.panic = FALSE /\ x.put = t /\ x.state = Matched
    BY <2>2 DEF Answer
  <2>3. Nothing.call = {} /\ \A r : Thought(r).call = {}
    BY DEF Nothing, Thought
  <2>4. x.panic = FALSE /\ x.put.call = {} /\ x.state = Matched
    <3>1. CASE x = Answer(Matched, <<>>, Nothing, FALSE)
      BY <2>2, <2>3, <3>1
    <3>2. CASE \E r : x = Answer(Matched, <<>>, Thought(r), FALSE)
      <4>1. PICK r : x = Answer(Matched, <<>>, Thought(r), FALSE)
        BY <3>2
      <4> QED
        BY <2>2, <2>3, <4>1
    <3>3. CASE \E r : x = Answer(Matched, r, Nothing, FALSE)
      <4>1. PICK r : x = Answer(Matched, r, Nothing, FALSE)
        BY <3>3
      <4> QED
        BY <2>2, <2>3, <4>1
    <3> QED
      BY <2>1, <3>1, <3>2, <3>3
  <2> QED
    BY <2>4 DEF x
<1>3. CASE i = 3
  <2>1. H(3, index, content, mm) = Answer(Matched, <<>>, Nothing, FALSE)
    BY HIs
  <2> QED
    BY <1>3, <2>1 DEF Answer, Nothing
<1>4. CASE i \in 4 .. Size
  <2> DEFINE o == Chain[i].obj
  <2>1. h = Wait(content) \/ \E c : h = ConfiguredHandler(o, c)
    <3>1. h = IF o.over # <<>>
              THEN Enclosed(o.over, content, ConfiguredHandler(o, Block(o.over, content)))
              ELSE Span(o, index, content)
      BY <1>4, HIs
    <3> HIDE DEF h, o
    <3>2. CASE o.over # <<>>
      BY <3>1, <3>2 DEF Enclosed
    <3>3. CASE o.over = <<>>
      BY <3>1, <3>3 DEF Span
    <3> QED
      BY <3>2, <3>3
  <2> HIDE DEF h
  <2>2. h.panic = FALSE /\ h.put.call = {} /\ (h.state # Matched => h.put.think = {})
    <3>1. CASE h = Wait(content)
      BY <1>1, <3>1
    <3>2. CASE \E c : h = ConfiguredHandler(o, c)
      <4>1. PICK c : h = ConfiguredHandler(o, c)
        BY <3>2
      <4> HIDE DEF o
      <4> QED
        BY <1>2, <4>1
    <3> QED
      BY <2>1, <3>1, <3>2
  <2>3. i # 3
    BY <1>4
  <2> QED
    BY <2>2, <2>3 DEF h
<1>5. i = 3 \/ i \in 4 .. Size
  BY ChainIs
<1> QED
  BY <1>3, <1>4, <1>5

LEMMA LaterSteps ==
  ASSUME NEW i \in 3 .. Size, NEW w, TextWork(w), NEW last \in BOOLEAN
  PROVE  LET v == Step(i, w, last)
         IN  /\ v.mem = w.mem /\ v.panic = w.panic /\ v.put.call = w.put.call
             /\ i = 3 \/ v.hits[i] = 0 => v.put.think = w.put.think
<1> DEFINE v == Step(i, w, last)
           h == H(i, At(i, w), Content(i, w), w.mem)
<1>1. i \in DOMAIN Chain /\ Chain[i].kind # "think"
  <2>1. i = 3 \/ i \in 4 .. Size
    BY ChainIs
  <2>2. Chain[3].kind # "think"
    BY ChainIs
  <2>3. i \in 4 .. Size => Chain[i].kind # "think"
    BY Configured
  <2> QED
    BY <2>1, <2>2, <2>3, ChainIs
<1>2. h.panic = FALSE /\ h.put.call = {} /\ (i = 3 \/ h.state # Matched => h.put.think = {})
  BY LaterAnswers
<1>3. w.live \in BOOLEAN /\ w.hits \in [DOMAIN Chain -> Nat] /\ IsWork(w)
  BY DEF TextWork, IsWork
<1>4. CASE w.live = FALSE
  BY <1>4 DEF Step
<1>5. CASE w.live
  <2>1. v = Scan(i, w, last)
    BY <1>5 DEF Step
  <2>2. \/ Found(i, w) /\ Executes(i, w, v, h, last)
        \/ ~ Found(i, w) /\ Passes(i, w, v)
    BY <1>1, <1>3, <2>1, ScanCases
  <2> SUFFICES /\ v.mem = w.mem /\ v.panic = w.panic /\ v.put.call = w.put.call
               /\ i = 3 \/ v.hits[i] = 0 => v.put.think = w.put.think
    OBVIOUS
  <2> HIDE DEF v, h
  <2>3. CASE Executes(i, w, v, h, last)
    <3>1. v.mem = w.mem /\ v.put = PutAfter(w, h)
      BY <1>1, <2>3 DEF Executes, MemAfter
    <3>2. v.panic = w.panic
      BY <1>2, <2>3 DEF Executes, Hits, LetsGo, Keeps
    <3>3. v.put.call = w.put.call /\ (h.put.think = {} => v.put.think = w.put.think)
      BY <1>2, <3>1 DEF PutAfter
    <3>4. h.state = Matched => v.hits[i] # 0
      <4>1. ASSUME h.state = Matched PROVE v.hits[i] # 0
        <5>1. Hits(i, w, v, h)
          BY <1>2, <2>3, <4>1 DEF Executes, Matched, Matching
        <5>2. v.hits = [w.hits EXCEPT ![i] = @ + 1]
          BY <5>1 DEF Hits
        <5>3. v.hits[i] = w.hits[i] + 1 /\ w.hits[i] \in Nat
          BY <1>1, <1>3, <5>2
        <5> QED
          BY <5>3
      <4> QED
        BY <4>1
    <3> QED
      BY <1>2, <3>1, <3>2, <3>3, <3>4
  <2>4. CASE Passes(i, w, v)
    <3>1. v.mem = w.mem /\ v.put = w.put
      BY <2>4 DEF Passes
    <3>2. v.panic = w.panic
      BY <2>4 DEF Passes, HandsOn, Keeps
    <3> QED
      BY <3>1, <3>2
  <2> QED
    BY <2>2, <2>3, <2>4
<1> QED
  BY <1>3, <1>4, <1>5

-----------------------------------------------------------------------------
(* A call, matcher by matcher: the first, the second, and the rest.        *)

\* v is what the first matcher makes of the call, with c its cache and the chunk.
ThinkRuns(v, c, last) ==
  LET h == ThinkHandler(c, mem)
  IN  /\ v.mem = Remember(c, mem)
      /\ v.put.think = h.put.think /\ v.put.call = {}
      /\ \/ h.panic /\ v.panic = TRUE /\ v.live = FALSE /\ v.hits = hits
         \/ /\ ~ h.panic /\ h.state = Matched /\ v.panic = FALSE
            /\ v.hits = [hits EXCEPT ![1] = @ + 1]
         \/ /\ ~ h.panic /\ h.state = Matching /\ last
            /\ v.text = c /\ v.cache = cache /\ v.live = TRUE
            /\ v.panic = FALSE /\ v.hits = hits
         \/ /\ ~ h.panic /\ h.state = Matching /\ ~ last
            /\ v.text = <<>> /\ v.cache = [cache EXCEPT ![1] = c] /\ v.live = FALSE
            /\ v.panic = FALSE /\ v.hits = hits

ThinkPasses(v, c) ==
  /\ v.mem = mem /\ v.put.think = {} /\ v.put.call = {}
  /\ v.panic = FALSE /\ v.hits = hits
  /\ \/ /\ NextToken(ThinkOpen, c).state = Default
        /\ v.text = c /\ v.cache = [cache EXCEPT ![1] = <<>>] /\ v.live = TRUE
     \/ /\ NextToken(ThinkOpen, c).state = Matching
        /\ v.text = <<>> /\ v.cache = [cache EXCEPT ![1] = c] /\ v.live = FALSE

ThinkStep(v, c, last) ==
  \/ NextToken(ThinkOpen, c).state = Matched /\ ThinkRuns(v, c, last)
  \/ NextToken(ThinkOpen, c).state # Matched /\ ThinkPasses(v, c)

\* w is what the second one makes of v.
CallStep(v, w, last) ==
  LET c == v.cache[2] \o v.text
      h == Enclosed(CallClose, c, CallHandler(Block(CallClose, c)))
  IN  \/ v.live = FALSE /\ w = v
      \/ /\ v.live = TRUE /\ w.mem = v.mem /\ w.put.think = v.put.think
         /\ \/ NextToken(CallOpen, c).state = Matched /\ Executes(2, v, w, h, last)
            \/ NextToken(CallOpen, c).state # Matched /\ Passes(2, v, w)

\* x is what the rest leave of w.
RestStep(w, x) ==
  /\ x.mem = w.mem /\ x.panic = w.panic /\ x.put.call = w.put.call
  /\ x.cache[1] = w.cache[1] /\ x.cache[2] = w.cache[2] /\ x.hits[1] = w.hits[1]
  /\ NoConfiguredHits(x.hits) => x.put.think = w.put.think

LEMMA ThinkStepIs ==
  ASSUME Texts, NEW chunk \in Text, NEW last \in BOOLEAN
  PROVE  ThinkStep(Step(1, Start(chunk), last), cache[1] \o chunk, last)
<1> DEFINE w == Start(chunk)
           c == cache[1] \o chunk
           v == Step(1, w, last)
           h == H(1, At(1, w), Content(1, w), w.mem)
<1>1. /\ w.text = chunk /\ w.cache = cache /\ w.mem = mem /\ w.put = Nothing
      /\ w.live = TRUE /\ w.panic = FALSE /\ w.hits = hits
  BY DEF Start
<1>2. TextWork(w)
  <2>1. InLine(w, 0, chunk, last)
    BY InLineStart
  <2> QED
    BY <2>1 DEF InLine
<1>3. 1 \in DOMAIN Chain /\ 1 \in 1 .. Size /\ Chain[1].kind = "think" /\ Chain[1].find = ThinkOpen
      /\ ThinkOpen # <<>> /\ IsWork(w)
  <2>1. ThinkOpen # <<>>
    BY MarksAre DEF IsMark
  <2> QED
    BY <1>2, <2>1, ChainIs DEF TextWork
<1>4. Content(1, w) = c
  BY <1>1, <1>3 DEF Content
<1>5. h = ThinkHandler(c, mem)
  <2> DEFINE x == At(1, w)
             y == Content(1, w)
             z == w.mem
  <2>1. y = c /\ z = mem
    BY <1>1, <1>4
  <2> HIDE DEF x, y, z
  <2>2. H(1, x, y, z) = ThinkHandler(y, z)
    BY HIs
  <2>3. H(1, x, y, z) = ThinkHandler(c, mem)
    BY <2>1, <2>2
  <2> QED
    BY <2>3 DEF x, y, z
<1>6. v = Scan(1, w, last)
  BY <1>1 DEF Step
<1>7. Found(1, w) <=> NextToken(ThinkOpen, c).state = Matched
  BY <1>3, <1>4 DEF Found
<1> HIDE DEF w, c, v
<1>8. \/ Found(1, w) /\ Executes(1, w, v, h, last)
      \/ ~ Found(1, w) /\ Passes(1, w, v)
  BY <1>3, <1>6, ScanCases
<1> HIDE DEF h
<1>9. h.put.call = {}
  BY <1>5 DEF ThinkHandler, Answer, Nothing, Thought
<1>10. Nothing.think = {} /\ Nothing.call = {}
  BY DEF Nothing
<1>11. ASSUME Executes(1, w, v, h, last) PROVE ThinkRuns(v, c, last)
  <2>1. v.mem = Remember(c, mem)
    BY <1>1, <1>3, <1>4, <1>11 DEF Executes, MemAfter
  <2>2. v.put.think = h.put.think /\ v.put.call = {}
    <3>1. v.put = PutAfter(w, h)
      BY <1>11 DEF Executes
    <3>2. w.put.think = {} /\ w.put.call = {}
      BY <1>1, <1>10
    <3> QED
      BY <1>9, <3>1, <3>2 DEF PutAfter
  <2>3. \/ h.panic /\ v.panic = TRUE /\ v.live = FALSE /\ v.hits = hits
        \/ /\ ~ h.panic /\ h.state = Matched /\ v.panic = FALSE
           /\ v.hits = [hits EXCEPT ![1] = @ + 1]
        \/ /\ ~ h.panic /\ h.state = Matching /\ last
           /\ v.text = c /\ v.cache = cache /\ v.live = TRUE
           /\ v.panic = FALSE /\ v.hits = hits
        \/ /\ ~ h.panic /\ h.state = Matching /\ ~ last
           /\ v.text = <<>> /\ v.cache = [cache EXCEPT ![1] = c] /\ v.live = FALSE
           /\ v.panic = FALSE /\ v.hits = hits
    BY <1>1, <1>4, <1>11 DEF Executes, Panics, Hits, LetsGo, Keeps
  <2> QED
    BY <1>5, <2>1, <2>2, <2>3 DEF ThinkRuns
<1>12. ASSUME Passes(1, w, v) PROVE ThinkPasses(v, c)
  BY <1>1, <1>3, <1>4, <1>10, <1>12 DEF Passes, ThinkPasses, HandsOn, Keeps
<1> QED
  BY <1>7, <1>8, <1>11, <1>12 DEF ThinkStep, v, w, c

LEMMA CallStepIs ==
  ASSUME NEW v, TextWork(v), NEW last \in BOOLEAN
  PROVE  CallStep(v, Step(2, v, last), last)
<1> DEFINE c == v.cache[2] \o v.text
           w == Step(2, v, last)
           h == H(2, At(2, v), Content(2, v), v.mem)
           g == Enclosed(CallClose, c, CallHandler(Block(CallClose, c)))
<1>1. 2 \in DOMAIN Chain /\ 2 \in 1 .. Size /\ Chain[2].kind # "think" /\ Chain[2].find = CallOpen
      /\ CallOpen # <<>> /\ IsWork(v)
  <2>1. CallOpen # <<>>
    BY MarksAre DEF IsMark
  <2> QED
    BY <2>1, ChainIs DEF TextWork
<1>2. Content(2, v) = c
  BY <1>1 DEF Content
<1>3. h = g
  <2> DEFINE x == At(2, v)
             y == Content(2, v)
             z == v.mem
  <2>1. y = c
    BY <1>2
  <2> HIDE DEF x, y, z, c
  <2>2. H(2, x, y, z) = Enclosed(CallClose, y, CallHandler(Block(CallClose, y)))
    BY HIs
  <2>3. H(2, x, y, z) = g
    BY <2>1, <2>2
  <2> QED
    BY <2>3 DEF x, y, z
<1>4. Found(2, v) <=> NextToken(CallOpen, c).state = Matched
  BY <1>1, <1>2 DEF Found
<1>5. v.live \in BOOLEAN
  BY <1>1 DEF IsWork
<1>6. CASE v.live = FALSE
  <2>1. w = v
    BY <1>6 DEF Step
  <2> QED
    BY <1>6, <2>1 DEF CallStep
<1>7. CASE v.live = TRUE
  <2>1. w = Scan(2, v, last)
    BY <1>7 DEF Step
  <2> HIDE DEF w
  <2>2. \/ Found(2, v) /\ Executes(2, v, w, h, last)
        \/ ~ Found(2, v) /\ Passes(2, v, w)
    BY <1>1, <2>1, ScanCases
  <2>3. g.put.think = {}
    BY DEF Enclosed, Wait, CallHandler, Answer, Nothing, Call
  <2> HIDE DEF h, c, g
  <2>4. w.mem = v.mem
    BY <1>1, <2>2 DEF Executes, Passes, MemAfter
  <2>5. w.put.think = v.put.think
    BY <1>3, <2>2, <2>3 DEF Executes, Passes, PutAfter
  <2>6. CallStep(v, w, last)
    BY <1>3, <1>4, <1>7, <2>2, <2>4, <2>5 DEF CallStep, c, g
  <2> QED
    BY <2>6 DEF w
<1> QED
  BY <1>5, <1>6, <1>7

LEMMA RestStepIs ==
  ASSUME Texts, NEW chunk \in Text, NEW last \in BOOLEAN, NEW f, Runs(f, chunk, last)
  PROVE  RestStep(f[2], f[Size])
<1>1. /\ f[0] = Start(chunk) /\ \A i \in 1 .. Size : f[i] = Step(i, f[i - 1], last)
  BY DEF Runs
<1>2. \A i \in 0 .. Size : TextWork(f[i])
  BY RunInLine DEF InLine
<1>3. Size \in Nat /\ Size >= 3 /\ DOMAIN Chain = 1 .. Size
  BY ChainIs
<1> DEFINE T == {i \in 2 .. Size : RestStep(f[2], f[i])}
<1>4. 2 \in T
  BY <1>3 DEF RestStep
<1>5. ASSUME NEW i \in 2 .. Size, i \in T, i < Size PROVE i + 1 \in T
  <2>1. /\ i + 1 \in 3 .. Size /\ i + 1 \in 1 .. Size /\ i + 1 \in 2 .. Size /\ (i + 1) - 1 = i
        /\ i \in 0 .. Size /\ i + 1 # 1 /\ i + 1 # 2
    BY <1>3, <1>5
  <2> DEFINE k == i + 1
             w == f[i]
             v == f[k]
  <2>2. v = Step(k, w, last) /\ TextWork(w)
    BY <1>1, <1>2, <2>1
  <2>3. RestStep(f[2], w)
    BY <1>5
  <2>4. k \in 3 .. Size /\ k \in 1 .. Size /\ k # 1 /\ k # 2
    BY <2>1
  <2> HIDE DEF k, w, v
  <2>5. /\ TextWork(v)
        /\ \A j \in 1 .. Size : j # k => v.cache[j] = w.cache[j] /\ v.hits[j] = w.hits[j]
        /\ \A j \in 1 .. Size : w.hits[j] <= v.hits[j]
    BY <2>2, <2>4, StepKeeps
  <2>6. /\ v.mem = w.mem /\ v.panic = w.panic /\ v.put.call = w.put.call
        /\ k = 3 \/ v.hits[k] = 0 => v.put.think = w.put.think
    BY <2>2, <2>4, LaterSteps
  <2>7. 1 \in 1 .. Size /\ 2 \in 1 .. Size
    BY <1>3
  <2>8. ASSUME NoConfiguredHits(v.hits)
        PROVE  NoConfiguredHits(w.hits) /\ v.put.think = w.put.think
    <3>1. ASSUME NEW j \in 4 .. Size PROVE w.hits[j] = 0
      <4>1. j \in 1 .. Size /\ v.hits[j] = 0
        BY <2>8 DEF NoConfiguredHits
      <4>2. w.hits[j] <= v.hits[j] /\ w.hits[j] \in Nat
        BY <1>3, <2>2, <2>5, <4>1 DEF TextWork, IsWork
      <4> QED
        BY <4>1, <4>2
    <3>2. k = 3 \/ k \in 4 .. Size
      BY <1>3, <2>4
    <3>3. k = 3 \/ v.hits[k] = 0
      BY <2>8, <3>2 DEF NoConfiguredHits
    <3> QED
      BY <2>6, <3>1, <3>3 DEF NoConfiguredHits
  <2>9. RestStep(f[2], v)
    BY <2>3, <2>4, <2>5, <2>6, <2>7, <2>8 DEF RestStep
  <2> QED
    BY <2>1, <2>9 DEF v, k
<1>6. 2 .. Size \subseteq T
  <2> HIDE DEF T
  <2>1. 2 \in Int /\ Size \in Int
    BY <1>3
  <2>2. \A i \in 2 .. Size : i \in T /\ i < Size => i + 1 \in T
    BY <1>5
  <2> QED
    BY <1>4, <2>1, <2>2, InductionUpTo
<1>7. Size \in 2 .. Size
  BY <1>3
<1> QED
  BY <1>6, <1>7

LEMMA CallIs ==
  ASSUME Texts, NEW chunk \in Text, NEW last \in BOOLEAN
  PROVE  \E v, w : /\ TextWork(v) /\ TextWork(w)
                   /\ ThinkStep(v, cache[1] \o chunk, last)
                   /\ \A j \in 1 .. Size : j # 1 => v.cache[j] = cache[j]
                   /\ CallStep(v, w, last)
                   /\ \A j \in 1 .. Size : j # 2 => w.cache[j] = v.cache[j] /\ w.hits[j] = v.hits[j]
                   /\ RestStep(w, RunChain(chunk, last))
<1>1. PICK f : Runs(f, chunk, last)
  BY RunsExist
<1>2. /\ f[0] = Start(chunk) /\ \A i \in 1 .. Size : f[i] = Step(i, f[i - 1], last)
      /\ RunChain(chunk, last) = f[Size]
  BY <1>1 DEF Runs
<1>3. \A i \in 0 .. Size : TextWork(f[i])
  BY <1>1, RunInLine DEF InLine
<1>4. /\ 0 \in 0 .. Size /\ 1 \in 0 .. Size /\ 2 \in 0 .. Size /\ 1 \in 1 .. Size /\ 2 \in 1 .. Size
      /\ 1 - 1 = 0 /\ 2 - 1 = 1
  BY ChainIs
<1>5. f[1] = Step(1, Start(chunk), last) /\ f[2] = Step(2, f[1], last)
  BY <1>2, <1>4
<1>6. ThinkStep(f[1], cache[1] \o chunk, last)
  BY <1>5, ThinkStepIs
<1>7. CallStep(f[1], f[2], last)
  BY <1>3, <1>4, <1>5, CallStepIs
<1>8. RestStep(f[2], RunChain(chunk, last))
  BY <1>1, <1>2, RestStepIs
<1>9. \A j \in 1 .. Size : j # 1 => f[1].cache[j] = cache[j]
  <2> DEFINE x == Start(chunk)
             y == f[1]
  <2>1. TextWork(x) /\ x.cache = cache
    BY <1>2, <1>3, <1>4 DEF Start
  <2>2. y = Step(1, x, last)
    BY <1>5
  <2> HIDE DEF x, y
  <2>3. \A j \in 1 .. Size : j # 1 => y.cache[j] = x.cache[j]
    BY <1>4, <2>1, <2>2, StepKeeps
  <2> QED
    BY <2>1, <2>3 DEF y
<1>10. \A j \in 1 .. Size : j # 2 => f[2].cache[j] = f[1].cache[j] /\ f[2].hits[j] = f[1].hits[j]
  <2> DEFINE x == f[1]
             y == f[2]
  <2>1. y = Step(2, x, last) /\ TextWork(x)
    BY <1>3, <1>4, <1>5
  <2> HIDE DEF x, y
  <2>2. \A j \in 1 .. Size : j # 2 => y.cache[j] = x.cache[j] /\ y.hits[j] = x.hits[j]
    BY <1>4, <2>1, StepKeeps
  <2> QED
    BY <2>2 DEF x, y
<1> QED
  BY <1>3, <1>4, <1>6, <1>7, <1>8, <1>9, <1>10

-----------------------------------------------------------------------------
(* The first reasoning of a stream.                                        *)

\* The think matcher has not been asked yet, or all it has been shown is reasoning.
Thinking(mm, c) ==
  \/ mm.once = FALSE /\ mm.think = 2
  \/ /\ mm.once = TRUE /\ mm.think = Len(c)
     /\ NextToken(ThinkOpen, c).state = Matched /\ Positions(c, ThinkClose) = {}

\* What of it has been reported.
Reported(mm, c) == IF mm.once THEN From(c, Index(c, ThinkOpen) + 2) ELSE <<>>

Cause(t, marks, h) ==
  \/ h > 0
  \/ \E q \in Positions(t, ThinkClose) :
        \/ q + 1 \in marks
        \/ \E p \in Positions(t, ThinkOpen) : q < p
  \/ \E q \in Positions(t, CallClose), p \in Positions(t, CallOpen) : q < p

\* The caches of the first two matchers are the end of the input.
Aligned == \E pre \in Text : input = pre \o (cache[2] \o cache[1])

ThinkInv ==
  /\ panic => Cause(input, cuts, hits[1])
  /\ mem.once \in BOOLEAN /\ (hits[1] # 0 => mem.once)
  /\ ~ over /\ ~ panic /\ hits[1] = 0 =>
       /\ Aligned /\ Thinking(mem, cache[1])
       /\ NoConfiguredHits(hits) => thought = Reported(mem, cache[1])

LEMMA ThinkingGoesOn ==
  ASSUME NEW c \in Text, NEW chunk \in Text, NEW mm, Thinking(mm, c)
  PROVE  LET u == c \o chunk
         IN  /\ u \in Text
             /\ NextToken(ThinkOpen, u).state = Matched =>
                  /\ Remembers(u, mm) /\ Positions(u, ThinkOpen) # {}
                  /\ mm.once => mm.think = Len(c) /\ Len(c) >= 2
                                /\ Positions(c, ThinkOpen) # {} /\ Positions(c, ThinkClose) = {}
             /\ NextToken(ThinkOpen, u).state # Matched => ~ mm.once
<1> DEFINE u == c \o chunk
<1>1. u \in Text /\ Len(c) \in Nat /\ Len(chunk) \in Nat /\ Len(u) = Len(c) + Len(chunk)
  BY TextConcat
<1>2. CASE mm.once = FALSE /\ mm.think = 2
  <2>1. NextToken(ThinkOpen, u).state = Matched => Positions(u, ThinkOpen) # {}
    <3> HIDE DEF u
    <3> QED
      BY <1>1, MatchedIsThere, MarksAre
  <2> HIDE DEF u
  <2>2. Remembers(u, mm)
    BY <1>2 DEF Remembers
  <2> QED
    BY <1>1, <1>2, <2>1, <2>2 DEF u
<1>3. CASE /\ mm.once = TRUE /\ mm.think = Len(c)
           /\ NextToken(ThinkOpen, c).state = Matched /\ Positions(c, ThinkClose) = {}
  <2>1. NextToken(ThinkOpen, u).state = Matched
    BY <1>3, MatchedStays, MarksAre
  <2>2. PICK p \in Positions(c, ThinkOpen) : p + 2 < Len(c)
    BY <1>3, MatchedIsThere, MarksAre
  <2>3. p \in Nat /\ Len(c) >= 2
    <3>1. p \in Nat
      BY <2>2, PositionIs, MarksAre
    <3> QED
      BY <1>1, <2>2, <3>1
  <2>4. Positions(u, ThinkOpen) # {}
    BY <2>2, PositionShift, MarksAre
  <2>5. ASSUME NEW q \in Positions(u, ThinkClose) PROVE Len(c) < q + 2
    <3>1. ~ (q + 2 <= Len(c))
      BY <1>3, PositionBefore, MarksAre
    <3>2. q \in Nat
      BY <1>1, PositionIs, MarksAre
    <3> QED
      BY <1>1, <3>1, <3>2
  <2> HIDE DEF u
  <2>6. Remembers(u, mm)
    BY <1>1, <1>3, <2>3, <2>5 DEF Remembers
  <2> QED
    BY <1>1, <1>3, <2>1, <2>2, <2>3, <2>4, <2>6 DEF u
<1> QED
  BY <1>2, <1>3 DEF Thinking

\* A chunk goes to the end of the input.
Grows(pre, a, b, chunk) ==
  /\ (pre \o (a \o b)) \o chunk = pre \o (a \o (b \o chunk))
  /\ pre \o (a \o (b \o chunk)) = (pre \o a) \o (b \o chunk)
  /\ Len(pre \o (a \o b)) = Len(pre \o a) + Len(b)
  /\ pre \o a \in Text /\ a \o b \in Text /\ b \o chunk \in Text
  /\ a \o (b \o chunk) \in Text /\ pre \o (a \o b) \in Text

LEMMA InputGrows ==
  ASSUME NEW pre \in Text, NEW a \in Text, NEW b \in Text, NEW chunk \in Text
  PROVE  Grows(pre, a, b, chunk)
<1>1. /\ a \o b \in Text /\ b \o chunk \in Text /\ pre \o a \in Text
      /\ Len(a \o b) = Len(a) + Len(b) /\ Len(pre \o a) = Len(pre) + Len(a)
      /\ Len(pre) \in Nat /\ Len(a) \in Nat /\ Len(b) \in Nat
  BY TextConcat
<1>2. /\ pre \o (a \o b) \in Text /\ a \o (b \o chunk) \in Text
      /\ Len(pre \o (a \o b)) = Len(pre) + Len(a \o b)
  BY <1>1, TextConcat
<1>3. (pre \o (a \o b)) \o chunk = pre \o ((a \o b) \o chunk)
  <2> DEFINE x == a \o b
  <2>1. x \in Text
    BY <1>1
  <2> HIDE DEF x
  <2>2. Regroups(pre, x, chunk)
    BY <2>1, TextRegroups
  <2> QED
    BY ONLY <2>2 DEF Regroups, x
<1>4. (a \o b) \o chunk = a \o (b \o chunk)
  <2>1. Regroups(a, b, chunk)
    BY TextRegroups
  <2> QED
    BY ONLY <2>1 DEF Regroups
<1>5. (pre \o a) \o (b \o chunk) = pre \o (a \o (b \o chunk))
  <2> DEFINE x == b \o chunk
  <2>1. x \in Text
    BY <1>1
  <2> HIDE DEF x
  <2>2. Regroups(pre, a, x)
    BY <2>1, TextRegroups
  <2> QED
    BY ONLY <2>2 DEF Regroups, x
<1> QED
  BY <1>1, <1>2, <1>3, <1>4, <1>5 DEF Grows

\* Why a call panics that is made before the first hit of the think matcher.
LEMMA PanicCause ==
  ASSUME Texts, input \in Text, NEW chunk \in Text, NEW last \in BOOLEAN,
         hits[1] = 0, Aligned, Thinking(mem, cache[1]),
         NEW v, TextWork(v), NEW w, ThinkStep(v, cache[1] \o chunk, last),
         v.cache[2] = cache[2], CallStep(v, w, last), w.hits[1] = v.hits[1], w.panic = TRUE
  PROVE  Cause(input \o chunk, {Len(input)}, w.hits[1])
<1> DEFINE a == cache[2]
           b == cache[1]
           c == b \o chunk
           new == input \o chunk
<1>1. a \in Text /\ b \in Text /\ 1 \in DOMAIN Chain /\ hits \in [DOMAIN Chain -> Nat]
  <2>1. 1 \in 1 .. Size /\ 2 \in 1 .. Size /\ 1 \in DOMAIN Chain
    BY ChainIs
  <2> QED
    BY <2>1 DEF Texts, TextsUpTo, Basic
<1>2. PICK pre \in Text : input = pre \o (a \o b)
  BY DEF Aligned
<1> HIDE DEF a, b
<1>3. /\ new = pre \o (a \o c) /\ new = (pre \o a) \o c /\ Len(input) = Len(pre \o a) + Len(b)
      /\ pre \o a \in Text /\ c \in Text /\ a \o c \in Text
  <2>1. /\ (pre \o (a \o b)) \o chunk = pre \o (a \o (b \o chunk))
        /\ pre \o (a \o (b \o chunk)) = (pre \o a) \o (b \o chunk)
        /\ Len(pre \o (a \o b)) = Len(pre \o a) + Len(b)
        /\ pre \o a \in Text /\ b \o chunk \in Text /\ a \o (b \o chunk) \in Text
    <3> HIDE DEF c, new
    <3>1. Grows(pre, a, b, chunk)
      BY <1>1, InputGrows
    <3> QED
      BY <3>1 DEF Grows
  <2> QED
    BY <1>2, <2>1
<1> DEFINE far == pre \o a
<1>4. ThinkStep(v, c, last) /\ Thinking(mem, b)
  BY DEF b
<1>5. NextToken(ThinkOpen, c).state = Matched =>
        /\ Remembers(c, mem) /\ Positions(c, ThinkOpen) # {}
        /\ mem.once => mem.think = Len(b)
  BY <1>1, <1>4, ThinkingGoesOn
<1> HIDE DEF c, new
<1>6. CASE v.panic = TRUE
  <2>1. NextToken(ThinkOpen, c).state = Matched /\ ThinkRuns(v, c, last)
    BY <1>4, <1>6 DEF ThinkStep, ThinkPasses
  <2>2. ThinkHandler(c, mem).panic
    BY <1>6, <2>1 DEF ThinkRuns
  <2>3. PICK q \in Positions(c, ThinkClose) :
          \/ mem.once /\ q + 1 = mem.think
          \/ \E p \in Positions(c, ThinkOpen) : q < p
    BY <1>3, <1>5, <2>1, <2>2, ThinkPanics
  <2> HIDE DEF far
  <2>4. far \in Text /\ new = far \o c /\ Len(far) \in Nat /\ Len(b) \in Nat /\ Len(input) = Len(far) + Len(b)
    BY <1>1, <1>3, LenProperties DEF Text, far
  <2>5. Len(far) + q \in Positions(new, ThinkClose) /\ q \in Nat
    BY <1>3, <2>4, PositionShift, PositionIs, MarksAre
  <2>6. CASE mem.once /\ q + 1 = mem.think
    <3>1. (Len(far) + q) + 1 = Len(input)
      <4>1. q + 1 = Len(b)
        BY <1>5, <2>1, <2>6
      <4>2. \A i, j, k \in Nat : k + 1 = j => (i + k) + 1 = i + j
        OBVIOUS
      <4>3. (Len(far) + q) + 1 = Len(far) + Len(b)
        BY <2>4, <2>5, <4>1, <4>2
      <4> QED
        BY <2>4, <4>3
    <3> QED
      BY <2>5, <3>1 DEF Cause, new
  <2>7. CASE \E p \in Positions(c, ThinkOpen) : q < p
    <3>1. PICK p \in Positions(c, ThinkOpen) : q < p
      BY <2>7
    <3>2. Len(far) + p \in Positions(new, ThinkOpen) /\ p \in Nat
      BY <1>3, <2>4, PositionShift, PositionIs, MarksAre
    <3>3. Len(far) + q < Len(far) + p
      BY <2>4, <2>5, <3>1, <3>2
    <3> QED
      BY <2>5, <3>2, <3>3 DEF Cause, new
  <2> QED
    BY <2>3, <2>6, <2>7
<1>7. CASE v.panic # TRUE
  <2> DEFINE s == v.cache[2] \o v.text
             h == Enclosed(CallClose, s, CallHandler(Block(CallClose, s)))
  <2>1. v.live = TRUE
    BY <1>7 DEF CallStep
  <2>2. NextToken(CallOpen, s).state = Matched /\ h.panic
    BY <1>7, <2>1 DEF CallStep, Executes, Passes, Panics, Hits, LetsGo, Keeps, HandsOn
  <2>3. CASE v.hits = hits
    <3>1. v.text = c
      <4>1. hits[1] # [hits EXCEPT ![1] = @ + 1][1]
        BY <1>1
      <4>2. hits # [hits EXCEPT ![1] = @ + 1]
        BY <4>1
      <4> QED
        BY <1>4, <1>7, <2>1, <2>3, <4>2 DEF ThinkStep, ThinkRuns, ThinkPasses
    <3>2. s = a \o c
      BY <3>1 DEF a
    <3> HIDE DEF s
    <3>3. s \in Text /\ new = pre \o s
      BY <1>3, <3>2
    <3>4. Positions(s, CallOpen) # {}
      BY <2>2, <3>3, MatchedIsThere, MarksAre
    <3>5. PICK q \in Positions(s, CallClose), p \in Positions(s, CallOpen) : q < p
      BY <2>2, <3>3, <3>4, CallPanics
    <3>6. Len(pre) \in Nat /\ q \in Nat /\ p \in Nat
      BY <3>3, PositionIs, MarksAre, LenProperties DEF Text
    <3>7. Len(pre) + q \in Positions(new, CallClose) /\ Len(pre) + p \in Positions(new, CallOpen)
      BY <3>3, PositionShift, MarksAre
    <3>8. Len(pre) + q < Len(pre) + p
      BY <3>5, <3>6
    <3> QED
      BY <3>7, <3>8 DEF Cause, new
  <2>4. CASE v.hits = [hits EXCEPT ![1] = @ + 1]
    <3>1. v.hits[1] = hits[1] + 1
      BY <1>1, <2>4
    <3>2. w.hits[1] > 0
      BY <3>1
    <3> QED
      BY <3>2 DEF Cause
  <2> QED
    BY <1>4, <2>3, <2>4 DEF ThinkStep, ThinkRuns, ThinkPasses
<1> QED
  BY <1>6, <1>7

-----------------------------------------------------------------------------
(* Slices of a text that grows.                                            *)

SameAt(s, a, t, c, n) == \A k \in 1 .. n : s[a + k] = t[c + k]

LEMMA SameSlice ==
  ASSUME NEW s \in Text, NEW a \in Int, NEW b \in Int, InRange(s, a, b),
         NEW t \in Text, NEW c \in Int, NEW d \in Int, InRange(t, c, d), b - a = d - c,
         SameAt(s, a, t, c, b - a)
  PROVE  Slice(s, a, b) = Slice(t, c, d)
<1> DEFINE x == Slice(s, a, b)
           y == Slice(t, c, d)
<1>1. /\ x \in Text /\ Len(x) = b - a /\ \A k \in 1 .. (b - a) : x[k] = s[a + k]
  BY SliceIs
<1>2. /\ y \in Text /\ Len(y) = d - c /\ \A k \in 1 .. (d - c) : y[k] = t[c + k]
  BY SliceIs
<1> HIDE DEF x, y
<1>3. Len(x) = Len(y) /\ \A k \in 1 .. Len(x) : x[k] = y[k]
  BY <1>1, <1>2 DEF SameAt
<1>4. x = y
  BY <1>1, <1>2, <1>3, SeqEqual DEF Text
<1> QED
  BY <1>4 DEF x, y

LEMMA SliceShift ==
  ASSUME NEW s \in Text, NEW a \in Int, NEW b \in Int, InRange(s, a, b), NEW pre \in Text
  PROVE  Slice(pre \o s, Len(pre) + a, Len(pre) + b) = Slice(s, a, b)
<1> DEFINE u == pre \o s
           n == Len(pre)
           c == n + a
           d == n + b
<1>1. /\ u \in Text /\ n \in Nat /\ Len(s) \in Nat /\ Len(u) = n + Len(s)
      /\ \A k \in 1 .. Len(s) : u[n + k] = s[k]
  BY TextConcat
<1> HIDE DEF u, n
<1>2. c \in Int /\ d \in Int /\ InRange(u, c, d) /\ d - c = b - a
  BY <1>1 DEF InRange
<1>3. ASSUME NEW k \in 1 .. (d - c) PROVE u[c + k] = s[a + k]
  <2>1. a + k \in 1 .. Len(s) /\ c + k = n + (a + k)
    BY <1>1, <1>2 DEF InRange
  <2> QED
    BY <1>1, <2>1
<1> HIDE DEF c, d
<1>4. Slice(u, c, d) = Slice(s, a, b)
  <2>1. SameAt(u, c, s, a, d - c)
    BY <1>3 DEF SameAt
  <2>2. u \in Text /\ c \in Int /\ d \in Int /\ InRange(u, c, d) /\ d - c = b - a
    BY <1>1, <1>2
  <2>3. s \in Text /\ a \in Int /\ b \in Int /\ InRange(s, a, b)
    OBVIOUS
  <2> QED
    BY ONLY <2>1, <2>2, <2>3, SameSlice
<1> QED
  BY <1>4 DEF u, n, c, d

LEMMA SliceBefore ==
  ASSUME NEW s \in Text, NEW a \in Int, NEW b \in Int, InRange(s, a, b), NEW t \in Text
  PROVE  Slice(s \o t, a, b) = Slice(s, a, b) /\ InRange(s \o t, a, b)
<1> DEFINE u == s \o t
<1>1. /\ u \in Text /\ Len(s) \in Nat /\ Len(t) \in Nat /\ Len(u) = Len(s) + Len(t)
      /\ \A k \in 1 .. Len(s) : u[k] = s[k]
  BY TextConcat
<1> HIDE DEF u
<1>2. InRange(u, a, b) /\ \A k \in 1 .. (b - a) : u[a + k] = s[a + k]
  BY <1>1 DEF InRange
<1>3. Slice(u, a, b) = Slice(s, a, b)
  <2>1. SameAt(u, a, s, a, b - a)
    BY <1>2 DEF SameAt
  <2> QED
    BY <1>1, <1>2, <2>1, SameSlice
<1> QED
  BY <1>2, <1>3 DEF u

LEMMA SliceJoin ==
  ASSUME NEW s \in Text, NEW a \in Int, NEW b \in Int, NEW c \in Int,
         InRange(s, a, b), InRange(s, b, c)
  PROVE  Slice(s, a, b) \o Slice(s, b, c) = Slice(s, a, c)
<1> DEFINE x == Slice(s, a, b)
           y == Slice(s, b, c)
           z == Slice(s, a, c)
<1>1. InRange(s, a, c) /\ a <= b /\ b <= c
  BY DEF InRange
<1>2. /\ x \in Text /\ Len(x) = b - a /\ \A k \in 1 .. (b - a) : x[k] = s[a + k]
  BY SliceIs
<1>3. /\ y \in Text /\ Len(y) = c - b /\ \A k \in 1 .. (c - b) : y[k] = s[b + k]
  BY SliceIs
<1>4. /\ z \in Text /\ Len(z) = c - a /\ \A k \in 1 .. (c - a) : z[k] = s[a + k]
  BY <1>1, SliceIs
<1> HIDE DEF x, y, z
<1>5. /\ x \o y \in Text /\ Len(x \o y) = Len(x) + Len(y)
      /\ \A k \in 1 .. Len(x) : (x \o y)[k] = x[k]
      /\ \A k \in 1 .. Len(y) : (x \o y)[Len(x) + k] = y[k]
  BY <1>2, <1>3, TextConcat
<1>6. Len(x \o y) = Len(z)
  BY <1>1, <1>2, <1>3, <1>4, <1>5
<1>7. ASSUME NEW k \in 1 .. Len(z) PROVE (x \o y)[k] = z[k]
  <2>1. CASE k <= b - a
    <3>1. k \in 1 .. Len(x) /\ k \in 1 .. (b - a) /\ k \in 1 .. (c - a)
      BY <1>1, <1>2, <1>4, <2>1
    <3> QED
      BY <1>2, <1>4, <1>5, <3>1
  <2>2. CASE ~ (k <= b - a)
    <3> DEFINE j == k - (b - a)
    <3>1. /\ j \in 1 .. Len(y) /\ j \in 1 .. (c - b) /\ k \in 1 .. (c - a)
          /\ Len(x) + j = k /\ b + j = a + k
      BY <1>1, <1>2, <1>3, <1>4, <2>2
    <3> HIDE DEF j
    <3> QED
      BY <1>3, <1>4, <1>5, <3>1
  <2> QED
    BY <2>1, <2>2
<1>8. x \o y = z
  BY <1>4, <1>5, <1>6, <1>7, SeqEqual DEF Text
<1> QED
  BY <1>8 DEF x, y, z

-----------------------------------------------------------------------------
\* What the think matcher reports of c, up to idx, completes what it has reported of b.
LEMMA ReportGrows ==
  ASSUME NEW b \in Text, NEW chunk \in Text, NEW mm, Thinking(mm, b),
         NextToken(ThinkOpen, b \o chunk).state = Matched,
         NEW idx \in Int, InRange(b \o chunk, Offset(b \o chunk, mm), idx)
  PROVE  LET c == b \o chunk
             first == Index(c, ThinkOpen)
         IN  /\ Reported(mm, b) \o Slice(c, Offset(c, mm), idx) = Slice(c, first + 2, idx)
             /\ first \in Positions(c, ThinkOpen) /\ first \in Nat
             /\ InRange(c, first + 2, idx)
<1> DEFINE c == b \o chunk
           first == Index(c, ThinkOpen)
           from == Offset(c, mm)
           part == Slice(c, from, idx)
<1>1. c \in Text /\ Len(b) \in Nat /\ Len(chunk) \in Nat /\ Len(c) = Len(b) + Len(chunk)
  BY TextConcat
<1>2. /\ Remembers(c, mm) /\ Positions(c, ThinkOpen) # {}
      /\ mm.once => mm.think = Len(b) /\ Len(b) >= 2
                    /\ Positions(b, ThinkOpen) # {} /\ Positions(b, ThinkClose) = {}
  BY ThinkingGoesOn
<1> SUFFICES /\ Reported(mm, b) \o part = Slice(c, first + 2, idx)
             /\ first \in Positions(c, ThinkOpen) /\ first \in Nat
             /\ InRange(c, first + 2, idx)
  OBVIOUS
<1>3. InRange(c, from, idx)
  OBVIOUS
<1>4. mm.once \in BOOLEAN
  BY DEF Thinking
<1> HIDE DEF c
<1>5. from = IF mm.once THEN mm.think ELSE first + 2
  BY <1>1, <1>2, OffsetIs
<1>6. /\ first \in Positions(c, ThinkOpen) /\ first \in Nat
      /\ \A p \in Positions(c, ThinkOpen) : first <= p
  <2>1. first \in Positions(c, ThinkOpen) /\ \A p \in Positions(c, ThinkOpen) : first <= p
    BY <1>1, <1>2, IndexFinds, MarksAre
  <2> QED
    BY <1>1, <2>1, PositionIs, MarksAre
<1> HIDE DEF from
<1>7. CASE mm.once = FALSE
  <2>1. part \in Text
    <3>1. from \in Int
      BY <1>5, <1>6, <1>7
    <3> QED
      BY <1>1, <1>3, <3>1, SliceIs
  <2>2. Reported(mm, b) = <<>> /\ from = first + 2
    BY <1>5, <1>7 DEF Reported
  <2>3. <<>> \o part = part
    BY <2>1, TextEmpty
  <2> QED
    BY <1>3, <1>6, <2>2, <2>3
<1>8. CASE mm.once = TRUE
  <2> DEFINE was == Index(b, ThinkOpen)
  <2>1. was \in Positions(b, ThinkOpen) /\ \A p \in Positions(b, ThinkOpen) : was <= p
    BY <1>2, <1>8, IndexFinds, MarksAre
  <2>2. was \in Nat /\ was + 2 <= Len(b)
    BY <2>1, PositionIs, MarksAre
  <2>3. was \in Positions(c, ThinkOpen)
    BY <2>1, PositionShift, MarksAre DEF c
  <2>4. first <= was
    BY <1>6, <2>3
  <2>5. first \in Positions(b, ThinkOpen)
    <3>1. first + 2 <= Len(b)
      BY <1>1, <1>6, <2>2, <2>4
    <3> QED
      BY <1>6, <3>1, PositionBefore, MarksAre DEF c
  <2>6. was = first
    BY <1>6, <2>1, <2>2, <2>4, <2>5
  <2> HIDE DEF was, first
  <2>7. Reported(mm, b) = Slice(b, was + 2, Len(b))
    BY <1>8 DEF Reported, From, was
  <2> DEFINE at == first + 2
             n == Len(b)
  <2>8. at \in Int /\ n \in Int /\ InRange(b, at, n)
    BY <1>1, <1>6, <2>2, <2>6 DEF InRange
  <2>9. from = n
    BY <1>2, <1>5, <1>8
  <2> HIDE DEF at, n
  <2>10. Slice(c, at, n) = Slice(b, at, n) /\ InRange(c, at, n)
    BY <2>8, SliceBefore DEF c
  <2>11. InRange(c, n, idx)
    BY <1>3, <2>9
  <2>12. Slice(c, at, n) \o Slice(c, n, idx) = Slice(c, at, idx)
    BY <1>1, <2>8, <2>10, <2>11, SliceJoin
  <2>13. InRange(c, at, idx)
    BY <2>8, <2>10, <2>11 DEF InRange
  <2>14. Reported(mm, b) = Slice(c, at, n)
    BY <2>6, <2>7, <2>10 DEF at, n
  <2> QED
    BY <1>6, <2>9, <2>12, <2>13, <2>14 DEF at
<1> QED
  BY <1>4, <1>7, <1>8

\* The same of a text that continues another.
Continues(c, b) == \E chunk \in Text : c = b \o chunk

LEMMA ReportCompletes ==
  ASSUME NEW b \in Text, NEW c, Continues(c, b), NEW mm, Thinking(mm, b),
         NextToken(ThinkOpen, c).state = Matched,
         NEW idx \in Int, InRange(c, Offset(c, mm), idx)
  PROVE  Reported(mm, b) \o Slice(c, Offset(c, mm), idx) = Slice(c, Index(c, ThinkOpen) + 2, idx)
<1> PICK chunk \in Text : c = b \o chunk
  BY DEF Continues
<1> DEFINE x == b \o chunk
<1>1. NextToken(ThinkOpen, x).state = Matched /\ InRange(x, Offset(x, mm), idx) /\ c = x
  OBVIOUS
<1>2. Reported(mm, b) \o Slice(x, Offset(x, mm), idx) = Slice(x, Index(x, ThinkOpen) + 2, idx)
  BY <1>1, ReportGrows
<1> HIDE DEF x
<1> QED
  BY ONLY <1>1, <1>2

\* What the handler of the think matcher answers.
LEMMA ThinkAnswers ==
  ASSUME NEW c \in Text, NEW mm
  PROVE  LET h == ThinkHandler(c, mm)
             from == Offset(c, mm)
             idx == LastIndex(c, ThinkClose)
         IN  /\ h.state = Matching => Positions(c, ThinkClose) = {} /\ h.put.think = {Slice(c, from, Len(c))}
             /\ h.state = Matched => idx \in Positions(c, ThinkClose) /\ h.put.think = {Slice(c, from, idx)}
             /\ ~ h.panic /\ h.state = Matching => InRange(c, from, Len(c))
             /\ ~ h.panic /\ h.state = Matched => InRange(c, from, idx)
<1> DEFINE h == ThinkHandler(c, mm)
           from == Offset(c, mm)
           idx == LastIndex(c, ThinkClose)
           Q == Positions(c, ThinkClose)
<1>1. (Q = {} => idx = -1) /\ (Q # {} => idx \in Q)
  BY IndexFinds, MarksAre
<1>2. idx \in Q => idx \in Nat
  BY PositionIs, MarksAre
<1>3. h = IF idx < 0
          THEN Answer(Matching, c, Thought(From(c, from)), ~InRange(c, from, Len(c)))
          ELSE Answer(Matched, From(c, idx + TagLen), Thought(Slice(c, from, idx)),
                      ~InRange(c, TagLen, idx) \/ ~InRange(c, from, idx))
  BY DEF ThinkHandler
<1> SUFFICES /\ h.state = Matching => Q = {} /\ h.put.think = {Slice(c, from, Len(c))}
             /\ h.state = Matched => idx \in Q /\ h.put.think = {Slice(c, from, idx)}
             /\ ~ h.panic /\ h.state = Matching => InRange(c, from, Len(c))
             /\ ~ h.panic /\ h.state = Matched => InRange(c, from, idx)
  OBVIOUS
<1> HIDE DEF h, from, idx, Q
<1>4. CASE idx < 0
  <2>1. Q = {}
    BY <1>1, <1>2, <1>4
  <2>2. /\ h.state = Matching /\ h.put.think = {From(c, from)}
        /\ h.panic <=> ~InRange(c, from, Len(c))
    BY <1>3, <1>4 DEF Answer, Thought, Nothing
  <2> QED
    BY <2>1, <2>2 DEF From, Matching, Matched
<1>5. CASE ~ (idx < 0)
  <2>1. idx \in Q
    BY <1>1, <1>5
  <2>2. /\ h.state = Matched /\ h.put.think = {Slice(c, from, idx)}
        /\ h.panic <=> (~InRange(c, TagLen, idx) \/ ~InRange(c, from, idx))
    BY <1>3, <1>5 DEF Answer, Thought, Nothing
  <2> QED
    BY <2>1, <2>2 DEF Matching, Matched
<1> QED
  BY <1>4, <1>5

LEMMA OnlyOne == \A s : (CHOOSE x \in {s} : TRUE) = s
OBVIOUS

\* A call that leaves the think matcher without a hit leaves the caches aligned, and
\* has reported what there is of the reasoning.
Stays(w, chunk) ==
  /\ \E pre \in Text : input \o chunk = pre \o (w.cache[2] \o w.cache[1])
  /\ Thinking(w.mem, w.cache[1])
  /\ \/ w.put.think = {} /\ Reported(w.mem, w.cache[1]) = Reported(mem, cache[1])
     \/ \E s : /\ w.put.think = {s}
               /\ Reported(w.mem, w.cache[1]) = Reported(mem, cache[1]) \o s

LEMMA ThinkStays ==
  ASSUME Texts, input \in Text, NEW chunk \in Text,
         hits[1] = 0, Aligned, Thinking(mem, cache[1]),
         NEW v, TextWork(v), NEW w, ThinkStep(v, cache[1] \o chunk, FALSE),
         v.cache[2] = cache[2], CallStep(v, w, FALSE), w.cache[1] = v.cache[1],
         w.hits[1] = v.hits[1], w.panic # TRUE, w.hits[1] = 0
  PROVE  Stays(w, chunk)
<1> DEFINE a == cache[2]
           b == cache[1]
           c == b \o chunk
           new == input \o chunk
<1>1. /\ a \in Text /\ b \in Text /\ 1 \in DOMAIN Chain /\ 2 \in DOMAIN Chain
      /\ hits \in [DOMAIN Chain -> Nat] /\ DOMAIN cache = DOMAIN Chain
  <2>1. 1 \in 1 .. Size /\ 2 \in 1 .. Size /\ 1 \in DOMAIN Chain /\ 2 \in DOMAIN Chain
    BY ChainIs
  <2>2. cache = [i \in DOMAIN Chain |-> cache[i]]
    BY DEF Texts, Basic
  <2>3. DOMAIN cache = DOMAIN Chain
    BY <2>2
  <2> QED
    BY <2>1, <2>3 DEF Texts, TextsUpTo, Basic
<1>2. PICK pre \in Text : input = pre \o (a \o b)
  BY DEF Aligned
<1>3. ThinkStep(v, c, FALSE) /\ Thinking(mem, b) /\ v.cache[2] = a
  OBVIOUS
<1> HIDE DEF a, b
<1>4. new = pre \o (a \o c) /\ c \in Text /\ a \o c \in Text
  <2>1. Grows(pre, a, b, chunk)
    BY <1>1, InputGrows
  <2> QED
    BY <1>2, <2>1 DEF Grows
<1>5. new \in Text
  BY TextConcat
<1>6. /\ NextToken(ThinkOpen, c).state = Matched => Positions(c, ThinkOpen) # {}
      /\ NextToken(ThinkOpen, c).state # Matched => mem.once = FALSE
  <2> HIDE DEF c
  <2>1. b \in Text /\ chunk \in Text /\ Thinking(mem, b)
    BY <1>1, <1>3
  <2>2. LET u == b \o chunk
        IN  /\ NextToken(ThinkOpen, u).state = Matched =>
                 /\ Remembers(u, mem) /\ Positions(u, ThinkOpen) # {}
                 /\ mem.once => mem.think = Len(b)
    BY <2>1, ThinkingGoesOn
  <2>3. NextToken(ThinkOpen, b \o chunk).state # Matched => ~ mem.once
    BY <2>1, ThinkingGoesOn
  <2> QED
    BY <2>1, <2>2, <2>3 DEF c, Thinking
<1> SUFFICES /\ \E p \in Text : new = p \o (w.cache[2] \o w.cache[1])
             /\ Thinking(w.mem, w.cache[1])
             /\ \/ w.put.think = {} /\ Reported(w.mem, w.cache[1]) = Reported(mem, b)
                \/ \E s : w.put.think = {s}
                          /\ Reported(w.mem, w.cache[1]) = Reported(mem, b) \o s
  BY DEF b, Stays
<1>7. v.cache = [cache EXCEPT ![1] = c] => v.cache[1] = c
  BY <1>1
<1>8. v.cache = [cache EXCEPT ![1] = <<>>] => v.cache[1] = <<>>
  BY <1>1
<1>9. CASE NextToken(ThinkOpen, c).state = Matched
  <2> DEFINE h == ThinkHandler(c, mem)
             from == Offset(c, mem)
             s == Slice(c, from, Len(c))
  <2>1. ThinkRuns(v, c, FALSE)
    BY <1>3, <1>9 DEF ThinkStep
  <2>2. hits[1] # [hits EXCEPT ![1] = @ + 1][1]
    BY <1>1
  <2>3. v.panic # TRUE \/ v.live # FALSE
    BY DEF CallStep
  <2>4. /\ ~ h.panic /\ h.state = Matching /\ v.cache = [cache EXCEPT ![1] = c] /\ v.live = FALSE
        /\ v.mem = Remember(c, mem) /\ v.put.think = h.put.think
    BY <2>1, <2>2, <2>3 DEF ThinkRuns
  <2>5. w = v /\ w.cache[1] = c
    BY <1>7, <2>4 DEF CallStep
  <2>6. Positions(c, ThinkClose) = {} /\ h.put.think = {s} /\ InRange(c, from, Len(c))
    BY <1>4, <2>4, ThinkAnswers
  <2>7. w.mem.think = Len(c) /\ w.mem.once = TRUE
    BY <2>4, <2>5 DEF Remember
  <2>8. Thinking(w.mem, w.cache[1])
    BY <1>9, <2>5, <2>6, <2>7 DEF Thinking
  <2>9. \E p \in Text : new = p \o (w.cache[2] \o w.cache[1])
    BY <1>3, <1>4, <2>5
  <2>10. Reported(w.mem, w.cache[1]) = Reported(mem, b) \o s
    <3> DEFINE n == Len(c)
    <3>1. n \in Int
      BY <1>4, LenProperties DEF Text
    <3>2. Reported(mem, b) \o Slice(c, from, n) = Slice(c, Index(c, ThinkOpen) + 2, n)
      <4> HIDE DEF n
      <4>1. /\ b \in Text /\ Continues(c, b) /\ Thinking(mem, b) /\ n \in Int
            /\ NextToken(ThinkOpen, c).state = Matched
            /\ InRange(c, Offset(c, mem), n)
        BY <1>1, <1>3, <1>9, <2>6, <3>1 DEF n, Continues
      <4> HIDE DEF b, c
      <4>2. Reported(mem, b) \o Slice(c, Offset(c, mem), n) = Slice(c, Index(c, ThinkOpen) + 2, n)
        BY ONLY <4>1, ReportCompletes
      <4> QED
        BY ONLY <4>2
    <3>3. Reported(w.mem, c) = Slice(c, Index(c, ThinkOpen) + 2, n)
      BY <2>7 DEF Reported, From
    <3> QED
      BY <2>5, <3>2, <3>3
  <2> QED
    BY <2>4, <2>5, <2>6, <2>8, <2>9, <2>10
<1>10. CASE NextToken(ThinkOpen, c).state # Matched
  <2>1. ThinkPasses(v, c) /\ mem.once = FALSE
    BY <1>3, <1>6, <1>10 DEF ThinkStep
  <2>2. v.mem = mem /\ v.put.think = {}
    BY <2>1 DEF ThinkPasses
  <2>3. w.mem = mem /\ w.put.think = {}
    BY <2>2 DEF CallStep
  <2>4. Thinking(w.mem, w.cache[1]) /\ Reported(w.mem, w.cache[1]) = Reported(mem, b)
    BY <1>3, <2>1, <2>3 DEF Thinking, Reported
  <2>5. \E p \in Text : new = p \o (w.cache[2] \o w.cache[1])
    <3>1. CASE v.cache = [cache EXCEPT ![1] = c] /\ v.live = FALSE
      <4>1. w = v /\ w.cache[1] = c
        BY <1>7, <3>1 DEF CallStep
      <4> QED
        BY <1>3, <1>4, <4>1
    <3>2. CASE v.text = c /\ v.cache = [cache EXCEPT ![1] = <<>>] /\ v.live = TRUE
      <4>1. w.cache[1] = <<>> /\ Content(2, v) = a \o c
        <5>1. Chain[2].find # <<>>
          BY ChainIs, MarksAre DEF IsMark
        <5> QED
          BY <1>3, <1>8, <3>2, <5>1 DEF Content
      <4>2. \/ w.cache = [v.cache EXCEPT ![2] = <<>>]
            \/ w.cache = [v.cache EXCEPT ![2] = a \o c]
        BY <3>2, <4>1 DEF CallStep, Executes, Passes, Panics, Hits, LetsGo, Keeps, HandsOn
      <4>3. 2 \in DOMAIN v.cache
        BY <1>1, <3>2
      <4>4. w.cache[2] = <<>> \/ w.cache[2] = a \o c
        BY <4>2, <4>3
      <4>5. CASE w.cache[2] = <<>>
        <5>1. new = new \o (<<>> \o <<>>)
          BY <1>5, TextEmpty
        <5> QED
          BY <1>5, <4>1, <4>5, <5>1
      <4>6. CASE w.cache[2] = a \o c
        <5>1. (a \o c) \o <<>> = a \o c
          BY <1>4, TextEmpty
        <5> QED
          BY <1>4, <4>1, <4>6, <5>1
      <4> QED
        BY <4>4, <4>5, <4>6
    <3> QED
      BY <2>1, <3>1, <3>2 DEF ThinkPasses
  <2> QED
    BY <2>3, <2>4, <2>5
<1> QED
  BY <1>9, <1>10

\* The call in which the think matcher first hits completes the report.
Finds(w, chunk) ==
  \E s : /\ w.put.think = {s}
         /\ \E p \in Positions(input \o chunk, ThinkOpen),
               q \in Positions(input \o chunk, ThinkClose) :
              /\ p + 2 <= q
              /\ Reported(mem, cache[1]) \o s = Slice(input \o chunk, p + 2, q)

LEMMA ThinkFinds ==
  ASSUME Texts, NEW chunk \in Text, NEW last \in BOOLEAN,
         hits[1] = 0, Aligned, Thinking(mem, cache[1]),
         NEW v, NEW w, ThinkStep(v, cache[1] \o chunk, last),
         CallStep(v, w, last), w.hits[1] = v.hits[1], w.hits[1] = 1
  PROVE  Finds(w, chunk)
<1> DEFINE a == cache[2]
           b == cache[1]
           c == b \o chunk
           new == input \o chunk
           h == ThinkHandler(c, mem)
           from == Offset(c, mem)
           idx == LastIndex(c, ThinkClose)
           first == Index(c, ThinkOpen)
           s == Slice(c, from, idx)
           at == first + 2
<1>1. a \in Text /\ b \in Text
  <2>1. 1 \in 1 .. Size /\ 2 \in 1 .. Size
    BY ChainIs
  <2> QED
    BY <2>1 DEF Texts, TextsUpTo
<1>2. PICK pre \in Text : input = pre \o (a \o b)
  BY DEF Aligned
<1>3. ThinkStep(v, c, last) /\ Thinking(mem, b)
  OBVIOUS
<1> SUFFICES \E x : /\ w.put.think = {x}
                    /\ \E p \in Positions(new, ThinkOpen), q \in Positions(new, ThinkClose) :
                         p + 2 <= q /\ Reported(mem, b) \o x = Slice(new, p + 2, q)
  BY DEF Finds
<1> HIDE DEF a, b
<1> DEFINE far == pre \o a
<1>4. new = far \o c /\ c \in Text /\ far \in Text
  <2>1. Grows(pre, a, b, chunk)
    BY <1>1, InputGrows
  <2> QED
    BY <1>2, <2>1 DEF Grows
<1> HIDE DEF new, far
<1>16. v.hits # hits
  <2>1. v.hits[1] = 1 /\ hits[1] = 0
    OBVIOUS
  <2> QED
    BY <2>1
<1>5. NextToken(ThinkOpen, c).state = Matched /\ ThinkRuns(v, c, last)
  BY <1>3, <1>16 DEF ThinkStep, ThinkPasses
<1>6. ~ h.panic /\ h.state = Matched /\ v.put.think = h.put.think
  BY <1>5, <1>16 DEF ThinkRuns
<1>7. idx \in Positions(c, ThinkClose) /\ h.put.think = {s} /\ InRange(c, from, idx)
  BY <1>4, <1>6, ThinkAnswers
<1>8. w.put.think = {s}
  BY <1>6, <1>7 DEF CallStep
<1>9. idx \in Nat
  BY <1>4, <1>7, PositionIs, MarksAre
<1>10. /\ Reported(mem, b) \o s = Slice(c, at, idx)
       /\ first \in Positions(c, ThinkOpen) /\ first \in Nat /\ InRange(c, at, idx)
  <2> HIDE DEF idx
  <2>1. /\ b \in Text /\ chunk \in Text /\ Thinking(mem, b) /\ idx \in Int
        /\ NextToken(ThinkOpen, b \o chunk).state = Matched
        /\ InRange(b \o chunk, Offset(b \o chunk, mem), idx)
    BY <1>1, <1>3, <1>5, <1>7, <1>9
  <2> QED
    BY ONLY <2>1, ReportGrows
<1> HIDE DEF c, s, idx, first
<1> DEFINE n == Len(far)
           p == n + first
           q == n + idx
<1>11. p \in Positions(new, ThinkOpen) /\ q \in Positions(new, ThinkClose)
  BY <1>4, <1>7, <1>10, PositionShift, MarksAre
<1>12. n \in Nat
  BY <1>4, LenProperties DEF Text
<1>13. p + 2 <= q /\ p + 2 = n + at
  BY <1>9, <1>10, <1>12 DEF InRange
<1>14. Slice(new, n + at, n + idx) = Slice(c, at, idx)
  <2>1. at \in Int /\ idx \in Int
    BY <1>9, <1>10
  <2> HIDE DEF at
  <2>2. Slice(far \o c, Len(far) + at, Len(far) + idx) = Slice(c, at, idx)
    BY <1>4, <1>10, <2>1, SliceShift
  <2> QED
    BY <1>4, <2>2
<1>15. Reported(mem, b) \o s = Slice(new, p + 2, q)
  BY <1>10, <1>13, <1>14
<1> QED
  BY <1>8, <1>11, <1>13, <1>15

LEMMA CauseGrows ==
  ASSUME NEW t, NEW m, NEW marks, NEW h, Cause(t, {m}, h), m \in marks
  PROVE  Cause(t, marks, h)
BY DEF Cause

LEMMA ThinkInit == Init => ThinkInv
<1> SUFFICES ASSUME Init PROVE ThinkInv
  OBVIOUS
<1>1. /\ cache = [i \in DOMAIN Chain |-> <<>>] /\ hits = [i \in DOMAIN Chain |-> 0]
      /\ mem = [think |-> TagLen, once |-> FALSE] /\ thought = <<>>
      /\ input = <<>> /\ over = FALSE /\ panic = FALSE
  BY DEF Init
<1>2. 1 \in DOMAIN Chain /\ 2 \in DOMAIN Chain
  BY ChainIs
<1>3. cache[1] = <<>> /\ cache[2] = <<>> /\ hits[1] = 0 /\ mem.once = FALSE /\ mem.think = 2
  BY <1>1, <1>2 DEF TagLen
<1>4. <<>> \in Text /\ <<>> = <<>> \o (<<>> \o <<>>)
  BY TextEmpty
<1>5. Aligned
  BY <1>1, <1>3, <1>4 DEF Aligned
<1> QED
  BY <1>1, <1>3, <1>5 DEF ThinkInv, Thinking, Reported

LEMMA ThinkNext == StreamInv /\ ThinkInv /\ [Next]_vars => ThinkInv'
<1> SUFFICES ASSUME StreamInv, ThinkInv, [Next]_vars PROVE ThinkInv'
  OBVIOUS
<1>1. CASE UNCHANGED vars
  BY <1>1 DEF vars, ThinkInv, Aligned, NoConfiguredHits
<1>2. CASE Next
  <2>1. PICK chunk \in Chunks, last \in BOOLEAN : ExecuteInterceptors(chunk, last)
    BY <1>2 DEF Next
  <2> DEFINE x == RunChain(chunk, last)
             b == cache[1]
  <2>2. /\ ~ over /\ ~ panic /\ cache' = x.cache /\ mem' = x.mem /\ hits' = x.hits /\ panic' = x.panic
        /\ thought' = IF x.panic \/ x.put.think = {} THEN thought
                      ELSE thought \o (CHOOSE s \in x.put.think : TRUE)
        /\ over' = last /\ input' = input \o chunk /\ cuts' = cuts \cup {Len(input)}
    BY <2>1 DEF ExecuteInterceptors
  <2>3. Texts /\ input \in Text /\ chunk \in Text
    BY ChunkIsText DEF StreamInv, Shape
  <2>4. InLine(x, Size, chunk, last)
    BY <2>3, InLineEnd
  <2>5. PICK v, w : /\ TextWork(v) /\ TextWork(w)
                    /\ ThinkStep(v, b \o chunk, last)
                    /\ \A j \in 1 .. Size : j # 1 => v.cache[j] = cache[j]
                    /\ CallStep(v, w, last)
                    /\ \A j \in 1 .. Size : j # 2 => w.cache[j] = v.cache[j] /\ w.hits[j] = v.hits[j]
                    /\ RestStep(w, x)
    BY <2>3, CallIs
  <2>6. 1 \in 1 .. Size /\ 2 \in 1 .. Size /\ 1 \in DOMAIN Chain /\ DOMAIN Chain = 1 .. Size
    BY ChainIs
  <2>7. v.cache[2] = cache[2] /\ w.cache[1] = v.cache[1] /\ w.hits[1] = v.hits[1]
    BY <2>5, <2>6
  <2>8. x.hits \in [1 .. Size -> Nat] /\ x.panic \in BOOLEAN /\ hits \in [1 .. Size -> Nat]
        /\ \A j \in 1 .. Size : hits[j] <= x.hits[j]
    BY <2>3, <2>4, <2>6 DEF InLine, TextWork, IsWork, Texts, Basic
  <2> HIDE DEF x
  <2>9. /\ x.mem = w.mem /\ x.panic = w.panic /\ x.hits[1] = w.hits[1]
        /\ x.cache[1] = w.cache[1] /\ x.cache[2] = w.cache[2]
        /\ NoConfiguredHits(x.hits) => x.put.think = w.put.think
    BY <2>5 DEF RestStep
  <2>10. hits[1] \in Nat /\ x.hits[1] \in Nat /\ hits[1] <= x.hits[1]
    BY <2>6, <2>8
  <2>11. w.mem = v.mem
    BY <2>5 DEF CallStep
  <2>12. x.mem.once \in BOOLEAN /\ (x.hits[1] # 0 => x.mem.once)
    <3>1. CASE ThinkRuns(v, b \o chunk, last)
      BY <2>9, <2>11, <3>1 DEF ThinkRuns, Remember
    <3>2. CASE ThinkPasses(v, b \o chunk)
      BY <2>7, <2>9, <2>11, <3>2 DEF ThinkPasses, ThinkInv
    <3> QED
      BY <2>5, <3>1, <3>2 DEF ThinkStep
  <2>13. x.panic => Cause(input \o chunk, cuts \cup {Len(input)}, x.hits[1])
    <3>1. CASE hits[1] # 0
      <4>1. x.hits[1] > 0
        BY <2>10, <3>1
      <4> QED
        BY <4>1 DEF Cause
    <3>2. CASE hits[1] = 0
      <4> SUFFICES ASSUME x.panic PROVE Cause(input \o chunk, cuts \cup {Len(input)}, x.hits[1])
        OBVIOUS
      <4>1. Aligned /\ Thinking(mem, cache[1]) /\ w.panic = TRUE
        BY <2>2, <2>8, <2>9, <3>2 DEF ThinkInv
      <4>2. Cause(input \o chunk, {Len(input)}, w.hits[1])
        BY <2>3, <2>5, <2>7, <3>2, <4>1, PanicCause
      <4> QED
        BY <2>9, <4>2, CauseGrows
    <3> QED
      BY <3>1, <3>2
  <2>14. ASSUME ~ last, ~ x.panic, x.hits[1] = 0
         PROVE  /\ Aligned' /\ Thinking(x.mem, x.cache[1])
                /\ NoConfiguredHits(x.hits) => thought' = Reported(x.mem, x.cache[1])
    <3>1. hits[1] = 0
      BY <2>10, <2>14
    <3>2. /\ Aligned /\ Thinking(mem, cache[1])
          /\ NoConfiguredHits(hits) => thought = Reported(mem, cache[1])
      BY <2>2, <3>1 DEF ThinkInv
    <3>3. w.panic # TRUE /\ w.hits[1] = 0 /\ last = FALSE
      BY <2>9, <2>14
    <3>4. /\ \E pre \in Text : input \o chunk = pre \o (w.cache[2] \o w.cache[1])
          /\ Thinking(w.mem, w.cache[1])
          /\ \/ w.put.think = {} /\ Reported(w.mem, w.cache[1]) = Reported(mem, cache[1])
             \/ \E s : w.put.think = {s}
                       /\ Reported(w.mem, w.cache[1]) = Reported(mem, cache[1]) \o s
      <4>1. /\ Texts /\ input \in Text /\ chunk \in Text /\ hits[1] = 0 /\ Aligned
            /\ Thinking(mem, cache[1]) /\ TextWork(v) /\ ThinkStep(v, cache[1] \o chunk, FALSE)
            /\ v.cache[2] = cache[2] /\ CallStep(v, w, FALSE) /\ w.cache[1] = v.cache[1]
            /\ w.hits[1] = v.hits[1] /\ w.panic # TRUE /\ w.hits[1] = 0
        BY <2>3, <2>5, <2>7, <3>1, <3>2, <3>3
      <4>2. Stays(w, chunk)
        BY <4>1, ThinkStays
      <4> QED
        BY <4>2 DEF Stays
    <3>5. Aligned'
      BY <2>2, <2>9, <3>4 DEF Aligned
    <3>6. ASSUME NoConfiguredHits(x.hits) PROVE thought' = Reported(x.mem, x.cache[1])
      <4>1. NoConfiguredHits(hits)
        <5> SUFFICES ASSUME NEW j \in 4 .. Size PROVE hits[j] = 0
          BY DEF NoConfiguredHits
        <5>1. j \in 1 .. Size /\ x.hits[j] = 0
          BY <3>6, ChainIs DEF NoConfiguredHits
        <5> QED
          BY <2>8, <5>1
      <4>2. thought = Reported(mem, cache[1]) /\ x.put.think = w.put.think
        BY <2>9, <3>2, <3>6, <4>1
      <4>3. CASE w.put.think = {} /\ Reported(w.mem, w.cache[1]) = Reported(mem, cache[1])
        BY <2>2, <2>9, <4>2, <4>3
      <4>4. CASE \E s : w.put.think = {s}
                        /\ Reported(w.mem, w.cache[1]) = Reported(mem, cache[1]) \o s
        <5>1. PICK s : w.put.think = {s}
                       /\ Reported(w.mem, w.cache[1]) = Reported(mem, cache[1]) \o s
          BY <4>4
        <5>2. thought' = thought \o (CHOOSE y \in {s} : TRUE)
          BY <2>2, <2>14, <4>2, <5>1
        <5>3. (CHOOSE y \in {s} : TRUE) = s
          BY OnlyOne
        <5> QED
          BY <2>9, <4>2, <5>1, <5>2, <5>3
      <4> QED
        BY <3>4, <4>3, <4>4
    <3> QED
      BY <2>9, <3>4, <3>5, <3>6
  <2> QED
    BY <2>2, <2>12, <2>13, <2>14 DEF ThinkInv, NoConfiguredHits
<1> QED
  BY <1>1, <1>2

\* A slice of the handlers is out of range only for one of the three causes: no other
\* way to cut a stream makes a call panic (ctor.go:145, 149, 150, 162).
THEOREM PanicsAreExplained == Spec => []PanicHasCause
<1>1. ThinkInv => PanicHasCause
  BY DEF ThinkInv, PanicHasCause, Cause
<1>2. StreamInv /\ ThinkInv /\ [Next]_vars => (StreamInv /\ ThinkInv)'
  BY StreamNext, ThinkNext
<1> QED
  BY <1>1, <1>2, StreamInit, ThinkInit, PTL DEF Spec

\* Unless a configured matcher has hit, the reasoning that has been sent when the think
\* matcher first hits is the text between its tags, in however many calls it came
\* (ctor.go:136-151).
THEOREM ReasoningIsSentWhole == Spec => ThoughtIsEnclosed
<1> DEFINE Act ==
      /\ hits[1] = 0 /\ hits'[1] = 1 /\ ~panic'
      /\ \A i \in DOMAIN Chain : Chain[i].kind = "configured" => hits'[i] = 0
      => \E p \in Positions(input', ThinkOpen), q \in Positions(input', ThinkClose) :
            p + TagLen <= q /\ thought' = Slice(input', p + TagLen, q)
<1>1. StreamInv /\ ThinkInv /\ [Next]_vars => [Act]_vars
  <2> SUFFICES ASSUME StreamInv, ThinkInv, Next,
                      hits[1] = 0, hits'[1] = 1, ~panic',
                      \A i \in DOMAIN Chain : Chain[i].kind = "configured" => hits'[i] = 0
               PROVE  \E p \in Positions(input', ThinkOpen), q \in Positions(input', ThinkClose) :
                         p + TagLen <= q /\ thought' = Slice(input', p + TagLen, q)
    OBVIOUS
  <2>1. PICK chunk \in Chunks, last \in BOOLEAN : ExecuteInterceptors(chunk, last)
    BY DEF Next
  <2> DEFINE x == RunChain(chunk, last)
  <2>2. /\ ~ over /\ ~ panic /\ hits' = x.hits /\ panic' = x.panic
        /\ thought' = IF x.panic \/ x.put.think = {} THEN thought
                      ELSE thought \o (CHOOSE s \in x.put.think : TRUE)
        /\ input' = input \o chunk
    BY <2>1 DEF ExecuteInterceptors
  <2>3. Texts /\ input \in Text /\ chunk \in Text
    BY ChunkIsText DEF StreamInv, Shape
  <2>4. InLine(x, Size, chunk, last)
    BY <2>3, InLineEnd
  <2>5. PICK v, w : /\ ThinkStep(v, cache[1] \o chunk, last)
                    /\ CallStep(v, w, last)
                    /\ \A j \in 1 .. Size : j # 2 => w.cache[j] = v.cache[j] /\ w.hits[j] = v.hits[j]
                    /\ RestStep(w, x)
    BY <2>3, CallIs
  <2>6. \A j \in 1 .. Size : hits[j] <= x.hits[j]
    BY <2>4 DEF InLine
  <2> HIDE DEF x
  <2>7. 1 \in 1 .. Size /\ DOMAIN Chain = 1 .. Size
    BY ChainIs
  <2>8. NoConfiguredHits(x.hits)
    <3> SUFFICES ASSUME NEW j \in 4 .. Size PROVE x.hits[j] = 0
      BY DEF NoConfiguredHits
    <3>1. j \in DOMAIN Chain /\ Chain[j].kind = "configured"
      BY ChainIs, Configured
    <3> QED
      BY <2>2, <3>1
  <2>9. NoConfiguredHits(hits)
    <3> SUFFICES ASSUME NEW j \in 4 .. Size PROVE hits[j] = 0
      BY DEF NoConfiguredHits
    <3>1. j \in 1 .. Size /\ x.hits[j] = 0
      BY <2>8, ChainIs DEF NoConfiguredHits
    <3>2. hits[j] \in Nat
      BY <2>3, <2>7, <3>1 DEF Texts, Basic
    <3> QED
      BY <2>6, <3>1, <3>2
  <2>10. x.put.think = w.put.think /\ w.hits[1] = v.hits[1] /\ w.hits[1] = 1
    BY <2>2, <2>5, <2>7, <2>8 DEF RestStep
  <2>11. Aligned /\ Thinking(mem, cache[1]) /\ thought = Reported(mem, cache[1])
    BY <2>2, <2>9 DEF ThinkInv
  <2>12. PICK s : /\ w.put.think = {s}
                  /\ \E p \in Positions(input \o chunk, ThinkOpen),
                        q \in Positions(input \o chunk, ThinkClose) :
                       /\ p + 2 <= q
                       /\ Reported(mem, cache[1]) \o s = Slice(input \o chunk, p + 2, q)
    <3>1. /\ Texts /\ chunk \in Text /\ last \in BOOLEAN /\ hits[1] = 0 /\ Aligned
          /\ Thinking(mem, cache[1]) /\ ThinkStep(v, cache[1] \o chunk, last)
          /\ CallStep(v, w, last) /\ w.hits[1] = v.hits[1] /\ w.hits[1] = 1
      BY <2>3, <2>5, <2>10, <2>11
    <3>2. Finds(w, chunk)
      BY <3>1, ThinkFinds
    <3> QED
      BY <3>2 DEF Finds
  <2>13. thought' = thought \o (CHOOSE y \in {s} : TRUE)
    BY <2>2, <2>10, <2>12
  <2>14. (CHOOSE y \in {s} : TRUE) = s
    BY OnlyOne
  <2> QED
    BY <2>2, <2>11, <2>12, <2>13, <2>14 DEF TagLen
<1>2. StreamInv /\ ThinkInv /\ [Next]_vars => (StreamInv /\ ThinkInv)'
  BY StreamNext, ThinkNext
<1> QED
  BY <1>1, <1>2, StreamInit, ThinkInit, PTL DEF Spec, ThoughtIsEnclosed

-----------------------------------------------------------------------------
(* The first tool call of a stream.                                        *)

\* The first symbol at which a mark is complete ends the mark.
LEMMA FirstHit ==
  ASSUME NEW find, IsMark(find), NEW s \in Text, NEW f, IsProgress(f, find, s),
         NEW k \in 0 .. Len(s), f[k] = 2, \A m \in 0 .. Len(s) : f[m] = 2 => k <= m
  PROVE  k - 2 \in Positions(s, find) /\ f[k - 2] = 0
<1> DEFINE n == Len(s)
<1>1. n \in Nat
  BY LenProperties DEF Text
<1>4. /\ f[0] = 0 /\ \A j \in 1 .. n : f[j] = Scanned(find, f[j - 1], s[j])
      /\ \A j \in 0 .. n : f[j] \in 0 .. 2
  BY DEF IsProgress
<1>6. k \in 1 .. n /\ k - 1 \in 0 .. n
  <2>1. k # 0
    BY <1>4
  <2> QED
    BY <1>1, <2>1
<1>7. f[k - 1] # 2
  <2>1. ~ (k <= k - 1)
    BY <1>6
  <2> QED
    BY <1>6, <2>1
<1>9. f[k - 1] = 1 /\ s[k] = find[2]
  <2> DEFINE b == f[k - 1]
  <2>1. b \in 0 .. 2 /\ b # 2 /\ f[k] = Scanned(find, b, s[k])
    BY <1>4, <1>6, <1>7
  <2> HIDE DEF b
  <2>2. CASE b = 0
    <3>1. f[k] = IF s[k] = find[1] THEN 1 ELSE 0
      BY <2>1, <2>2, ScannedMark
    <3> QED
      BY <3>1
  <2>3. CASE b = 1
    <3>1. f[k] = IF s[k] = find[2] THEN 2 ELSE 0
      BY <2>1, <2>3, ScannedMark
    <3> QED
      BY <2>3, <3>1 DEF b
  <2> QED
    BY <2>1, <2>2, <2>3
<1>10. k - 1 \in 1 .. n /\ (k - 1) - 1 = k - 2 /\ k - 2 \in 0 .. n /\ k - 2 \in Nat
  <2>1. k - 1 # 0
    BY <1>4, <1>9
  <2> QED
    BY <1>1, <1>6, <2>1
<1>11. f[k - 2] = 0 /\ s[k - 1] = find[1]
  <2> DEFINE b == f[k - 2]
             c == s[k - 1]
  <2>1. b \in 0 .. 2 /\ f[k - 1] = Scanned(find, b, c)
    BY <1>4, <1>10
  <2>2. b # 2
    <3>1. ~ (k <= k - 2)
      BY <1>6
    <3> QED
      BY <1>10, <3>1
  <2> HIDE DEF b, c
  <2>3. CASE b = 0
    <3>1. f[k - 1] = IF c = find[1] THEN 1 ELSE 0
      BY <2>1, <2>3, ScannedMark
    <3> QED
      BY <1>9, <2>3, <3>1 DEF b, c
  <2>4. CASE b = 1
    <3>1. f[k - 1] = IF c = find[2] THEN 2 ELSE 0
      BY <2>1, <2>4, ScannedMark
    <3> QED
      BY <1>9, <3>1
  <2> QED
    BY <2>1, <2>2, <2>3, <2>4
<1> DEFINE p == k - 2
<1>12. p \in Nat /\ p + 2 = k /\ p + 1 = k - 1 /\ p + 2 <= n
  BY <1>1, <1>6, <1>10
<1>13. s[p + 1] = find[1] /\ s[p + 2] = find[2]
  BY <1>9, <1>11, <1>12
<1> HIDE DEF p
<1>14. p \in Positions(s, find)
  BY <1>12, <1>13, PositionIs
<1> QED
  BY <1>11, <1>14 DEF p

\* What a matcher has read of a text stays read when the text grows.
LEMMA ProgressStays ==
  ASSUME NEW find, IsMark(find), NEW s \in Text, NEW t \in Text
  PROVE  \A k \in 0 .. Len(s) : Progress(find, s \o t)[k] = Progress(find, s)[k]
<1> DEFINE u == s \o t
           f == Progress(find, s)
           g == Progress(find, u)
           n == Len(s)
<1>1. /\ u \in Text /\ n \in Nat /\ Len(t) \in Nat /\ Len(u) = n + Len(t)
      /\ \A k \in 1 .. n : u[k] = s[k]
  BY TextConcat
<1> HIDE DEF u
<1>2. IsProgress(f, find, s) /\ IsProgress(g, find, u)
  BY <1>1, ProgressIs
<1> HIDE DEF f, g
<1>4. /\ f[0] = 0 /\ \A m \in 1 .. n : f[m] = Scanned(find, f[m - 1], s[m])
      /\ g[0] = 0 /\ \A m \in 1 .. Len(u) : g[m] = Scanned(find, g[m - 1], u[m])
  BY <1>2 DEF IsProgress
<1> DEFINE T == {m \in 0 .. n : g[m] = f[m]}
<1>5. 0 .. n \subseteq T
  <2>1. 0 \in T
    BY <1>1, <1>4
  <2>2. ASSUME NEW m \in 0 .. n, m \in T, m < n PROVE m + 1 \in T
    <3>1. m + 1 \in 1 .. n /\ m + 1 \in 1 .. Len(u) /\ (m + 1) - 1 = m /\ m + 1 \in 0 .. n
      BY <1>1, <2>2
    <3>2. f[m + 1] = Scanned(find, f[m], s[m + 1]) /\ g[m + 1] = Scanned(find, g[m], u[m + 1])
      BY <1>4, <3>1
    <3> QED
      BY <1>1, <2>2, <3>1, <3>2
  <2> HIDE DEF T, n
  <2>3. 0 \in Int /\ n \in Int
    BY <1>1
  <2>4. \A m \in 0 .. n : m \in T /\ m < n => m + 1 \in T
    BY <2>2
  <2> QED
    BY <2>1, <2>3, <2>4, InductionUpTo
<1> QED
  BY <1>5 DEF f, g, u

\* Two matchers that read the same text are at the same place as long as neither has
\* its whole mark, for their marks begin alike.  So where the call matcher begins to
\* read its mark, the think matcher has not begun to read its own.
LEMMA CallBegins ==
  ASSUME NEW c \in Text, NextToken(ThinkOpen, c).state = Default,
         NextToken(CallOpen, c).state # Default
  PROVE  \E p \in Positions(c, CallOpen) : Progress(ThinkOpen, c)[p] = 0
<1> DEFINE n == Len(c)
           e == Progress(ThinkOpen, c)
           f == Progress(CallOpen, c)
<1>1. n \in Nat
  BY LenProperties DEF Text
<1>2. IsProgress(e, ThinkOpen, c) /\ IsProgress(f, CallOpen, c)
  BY ProgressIs, MarksAre
<1>3. e[n] = 0 /\ \A k \in 0 .. (n - 1) : e[k] # 2
  BY TokenIs, MarksAre
<1>4. f[n] # 0 \/ \E k \in 0 .. (n - 1) : f[k] = 2
  BY TokenIs, MarksAre
<1> HIDE DEF e, f
<1>5. /\ e[0] = 0 /\ f[0] = 0
      /\ \A k \in 1 .. n : /\ e[k] = Scanned(ThinkOpen, e[k - 1], c[k])
                           /\ f[k] = Scanned(CallOpen, f[k - 1], c[k])
      /\ \A k \in 0 .. n : e[k] \in 0 .. 2 /\ f[k] \in 0 .. 2
  BY <1>2 DEF IsProgress
<1>6. \A k \in 0 .. n : e[k] # 2
  <2>1. \A k \in 0 .. n : k = n \/ k \in 0 .. (n - 1)
    BY <1>1
  <2> QED
    BY <1>3, <2>1
<1>7. ASSUME NEW m \in 0 .. n, \A k \in 0 .. m : f[k] # 2
      PROVE  \A k \in 0 .. m : e[k] = f[k]
  <2> DEFINE T == {k \in 0 .. m : e[k] = f[k]}
  <2>1. 0 \in T
    BY <1>5
  <2>2. ASSUME NEW k \in 0 .. m, k \in T, k < m PROVE k + 1 \in T
    <3> DEFINE j == k + 1
               b == e[k]
    <3>1. j \in 1 .. n /\ j - 1 = k /\ j \in 0 .. m /\ j \in 0 .. n /\ k \in 0 .. n
      BY <1>1, <2>2
    <3>2. /\ e[j] = Scanned(ThinkOpen, b, c[j]) /\ f[j] = Scanned(CallOpen, b, c[j])
          /\ b \in 0 .. 2 /\ b # 2 /\ e[j] # 2 /\ f[j] # 2
      BY <1>5, <1>6, <1>7, <2>2, <3>1
    <3> HIDE DEF b, j
    <3>3. CASE b = 0
      <4>1. /\ e[j] = IF c[j] = ThinkOpen[1] THEN 1 ELSE 0
            /\ f[j] = IF c[j] = CallOpen[1] THEN 1 ELSE 0
        BY <3>2, <3>3, ScannedMark, MarksAre
      <4>2. ThinkOpen[1] = CallOpen[1]
        BY MarksAre
      <4> QED
        BY <3>1, <4>1, <4>2 DEF j
    <3>4. CASE b = 1
      <4>1. /\ e[j] = IF c[j] = ThinkOpen[2] THEN 2 ELSE 0
            /\ f[j] = IF c[j] = CallOpen[2] THEN 2 ELSE 0
        BY <3>2, <3>4, ScannedMark, MarksAre
      <4> QED
        BY <3>1, <3>2, <4>1 DEF j
    <3> QED
      BY <3>2, <3>3, <3>4
  <2>3. 0 .. m \subseteq T
    <3> HIDE DEF T
    <3>1. 0 \in Int /\ m \in Int
      OBVIOUS
    <3>2. \A k \in 0 .. m : k \in T /\ k < m => k + 1 \in T
      BY <2>2
    <3> QED
      BY <2>1, <3>1, <3>2, InductionUpTo
  <2> QED
    BY <2>3
<1> DEFINE K == {k \in 0 .. n : f[k] = 2}
<1>8. K # {}
  <2> SUFFICES ASSUME \A k \in 0 .. n : f[k] # 2 PROVE FALSE
    OBVIOUS
  <2>1. n \in 0 .. n
    BY <1>1
  <2>2. e[n] = f[n]
    BY <1>7, <2>1
  <2>3. \A k \in 0 .. (n - 1) : k \in 0 .. n
    BY <1>1
  <2> QED
    BY <1>3, <1>4, <2>2, <2>3
<1>9. PICK k \in K : \A m \in K : k <= m
  <2>1. K \in SUBSET Nat
    OBVIOUS
  <2> HIDE DEF K
  <2> QED
    BY <1>8, <2>1, LeastNumber
<1>10. k \in 0 .. n /\ f[k] = 2 /\ \A m \in 0 .. n : f[m] = 2 => k <= m
  BY <1>9
<1> HIDE DEF K
<1>11. k - 2 \in Positions(c, CallOpen) /\ f[k - 2] = 0
  BY <1>2, <1>10, FirstHit, MarksAre
<1>12. k - 2 \in Nat
  BY <1>11, PositionIs, MarksAre
<1> DEFINE p == k - 2
<1>13. p \in 0 .. n /\ p \in 0 .. p /\ \A m \in 0 .. p : m \in 0 .. n /\ ~ (k <= m)
  BY <1>1, <1>10, <1>12
<1> HIDE DEF p
<1>14. \A m \in 0 .. p : f[m] # 2
  BY <1>10, <1>13
<1>15. e[p] = f[p]
  BY <1>7, <1>13, <1>14
<1> QED
  BY <1>11, <1>15 DEF p, e

LEMMA OneInSeq ==
  ASSUME NEW y
  PROVE  SetToSeq({y}) = <<y>>
<1>1. Cardinality({y}) = 1
  BY FS_Singleton
<1> DEFINE F == [1 .. 1 -> {y}]
<1>2. SetToSeq({y}) = CHOOSE f \in F : IsInjective(f)
  BY <1>1 DEF SetToSeq
<1>3. <<y>> \in F /\ \A f \in F : f = <<y>>
  <2>1. <<y>> = [k \in 1 .. 1 |-> y]
    OBVIOUS
  <2>2. \A f \in F : f = [k \in 1 .. 1 |-> y]
    OBVIOUS
  <2> QED
    BY <2>1, <2>2
<1>4. IsInjective(<<y>>)
  BY DEF IsInjective
<1>5. \E f \in F : IsInjective(f)
  BY <1>3, <1>4
<1> QED
  BY <1>2, <1>3, <1>5

LEMMA NoneInSeq == SetToSeq({}) = <<>>
<1>1. Cardinality({}) = 0
  BY FS_EmptySet
<1> DEFINE F == [1 .. 0 -> {}]
<1>2. SetToSeq({}) = CHOOSE f \in F : IsInjective(f)
  BY <1>1 DEF SetToSeq
<1>3. \A f \in F : f = <<>>
  OBVIOUS
<1>4. <<>> \in F /\ IsInjective(<<>>)
  BY DEF IsInjective
<1> QED
  BY <1>2, <1>3, <1>4

\* The think matcher holds b because a mark may have begun at its end,
Waiting(b) == b = <<>> \/ NextToken(ThinkOpen, b).state = Matching

\* and also at each of the cuts that lie in b, which begins at n.
Read(b, n, marks) ==
  \A m \in 1 .. (Len(b) - 1) : n + m \in marks => Progress(ThinkOpen, b)[m] # 0

LEMMA CutsAreRead ==
  ASSUME NEW b \in Text, NEW chunk \in Text, NEW n \in Nat, NEW marks,
         marks \subseteq 0 .. (n + Len(b)), Waiting(b), Read(b, n, marks)
  PROVE  \A m \in Nat \ {0} : n + m \in marks \cup {n + Len(b)} =>
           m <= Len(b) /\ Progress(ThinkOpen, b \o chunk)[m] # 0
<1> SUFFICES ASSUME NEW m \in Nat \ {0}, n + m \in marks \cup {n + Len(b)}
             PROVE  m <= Len(b) /\ Progress(ThinkOpen, b \o chunk)[m] # 0
  OBVIOUS
<1>1. Len(b) \in Nat
  BY LenProperties DEF Text
<1>2. m <= Len(b)
  BY <1>1
<1>3. m \in 0 .. Len(b)
  BY <1>1, <1>2
<1>4. Progress(ThinkOpen, b \o chunk)[m] = Progress(ThinkOpen, b)[m]
  BY <1>3, ProgressStays, MarksAre
<1>5. CASE m = Len(b)
  <2>1. b # <<>>
    <3>1. Len(<<>>) = 0
      OBVIOUS
    <3> QED
      BY <1>5, <3>1
  <2>2. NextToken(ThinkOpen, b).state = Matching
    BY <2>1 DEF Waiting
  <2>3. Progress(ThinkOpen, b)[Len(b)] # 0
    <3> DEFINE f == Progress(ThinkOpen, b)
               st == NextToken(ThinkOpen, b).state
               hit == \E k \in 0 .. (Len(b) - 1) : f[k] = 2
    <3>1. (st = Matched <=> hit) /\ (st = Default <=> ~ hit /\ f[Len(b)] = 0)
      BY TokenIs, MarksAre
    <3> HIDE DEF f, hit
    <3>2. f[Len(b)] # 0
      BY <2>2, <3>1 DEF Default, Matching, Matched
    <3> QED
      BY <3>2 DEF f
  <2> QED
    BY <1>2, <1>4, <1>5, <2>3
<1>6. CASE m # Len(b)
  <2>1. m \in 1 .. (Len(b) - 1) /\ n + m # n + Len(b)
    BY <1>1, <1>2, <1>6
  <2>2. Progress(ThinkOpen, b)[m] # 0
    BY <2>1 DEF Read
  <2> QED
    BY <1>2, <1>4, <2>2
<1> QED
  BY <1>5, <1>6

\* Before a call: no reasoning has been opened, and every opening of a tool call that
\* the input will then have is at the beginning of a chunk.
Setting(pre, chunk) ==
  /\ pre \in Text /\ chunk \in Text /\ cache[1] \in Text /\ cache[2] \in Text
  /\ input = pre \o (cache[2] \o cache[1])
  /\ cuts \subseteq 0 .. Len(input)
  /\ cache[2] = <<>> \/ 0 \in Positions(cache[2], CallOpen)
  /\ Waiting(cache[1]) /\ Read(cache[1], Len(pre \o cache[2]), cuts)
  /\ Positions(input \o chunk, CallOpen) \subseteq cuts \cup {Len(input)}

\* What the call matcher has in hand when it does not hand on begins with its mark.
LEMMA CallIsFirst ==
  ASSUME NEW pre, NEW chunk, Setting(pre, chunk),
         NextToken(ThinkOpen, cache[1] \o chunk).state = Default,
         NextToken(CallOpen, cache[2] \o (cache[1] \o chunk)).state # Default
  PROVE  0 \in Positions(cache[2] \o (cache[1] \o chunk), CallOpen)
<1> DEFINE a == cache[2]
           b == cache[1]
           c == b \o chunk
           far == pre \o a
           n == Len(far)
           new == input \o chunk
<1>1. /\ pre \in Text /\ chunk \in Text /\ b \in Text /\ a \in Text
      /\ input = pre \o (a \o b) /\ cuts \subseteq 0 .. Len(input)
      /\ a = <<>> \/ 0 \in Positions(a, CallOpen)
      /\ Waiting(b) /\ Read(b, n, cuts)
      /\ Positions(new, CallOpen) \subseteq cuts \cup {Len(input)}
  BY DEF Setting
<1>2. NextToken(ThinkOpen, c).state = Default /\ NextToken(CallOpen, a \o c).state # Default
  OBVIOUS
<1> SUFFICES 0 \in Positions(a \o c, CallOpen)
  OBVIOUS
<1> HIDE DEF a, b
<1>3. Grows(pre, a, b, chunk)
  BY <1>1, InputGrows
<1>4. /\ new = far \o c /\ Len(input) = n + Len(b)
      /\ far \in Text /\ c \in Text /\ n \in Nat /\ Len(b) \in Nat
  BY <1>1, <1>3, LenProperties DEF Grows, Text
<1> HIDE DEF new, far, n
<1>5. CASE a # <<>>
  <2>1. 0 \in Positions(a, CallOpen)
    BY <1>1, <1>5
  <2> QED
    BY <1>1, <1>4, <2>1, PositionShift, MarksAre
<1>6. CASE a = <<>>
  <2>1. a \o c = c
    BY <1>4, <1>6, TextEmpty
  <2> HIDE DEF c
  <2>2. PICK p \in Positions(c, CallOpen) : Progress(ThinkOpen, c)[p] = 0
    BY <1>2, <1>4, <2>1, CallBegins
  <2>3. p \in Nat
    BY <1>4, PositionIs, MarksAre
  <2>4. n + p \in cuts \cup {Len(input)}
    <3>1. Len(far) + p \in Positions(far \o c, CallOpen)
      BY <1>4, PositionShift, MarksAre
    <3> QED
      BY <1>1, <1>4, <3>1 DEF n
  <2>5. \A m \in Nat \ {0} : n + m \in cuts \cup {n + Len(b)} =>
           m <= Len(b) /\ Progress(ThinkOpen, b \o chunk)[m] # 0
    <3>1. cuts \subseteq 0 .. (n + Len(b))
      BY <1>1, <1>4
    <3> QED
      BY <1>1, <1>4, <3>1, CutsAreRead
  <2>6. p = 0
    BY <1>4, <2>2, <2>3, <2>4, <2>5 DEF c
  <2> QED
    BY <2>1, <2>2, <2>6
<1> QED
  BY <1>5, <1>6

\* A call that keeps its arguments: the content begins with the mark.
LEMMA CallIsCut ==
  ASSUME NEW s \in Text, 0 \in Positions(s, CallOpen), Positions(s, CallClose) # {},
         NEW h, h = CallHandler(Block(CallClose, s)), ~ h.panic
  PROVE  LET q == LastIndex(s, CallClose)
         IN  /\ q \in Positions(s, CallClose) /\ q \in Nat /\ 2 <= q
             /\ h.put.call = {Slice(s, 2, q)} /\ InRange(s, 2, q)
<1> DEFINE q == LastIndex(s, CallClose)
           b == Block(CallClose, s)
           m == q + 2
<1>1. /\ q \in Positions(s, CallClose) /\ q \in Nat /\ q + 2 <= Len(s)
      /\ b \in Text /\ Len(b) = m /\ \A k \in 1 .. m : b[k] = s[k]
      /\ b[Len(b)] # Blank
  BY BlockIs
<1>2. s[0 + 1] = CallOpen[1] /\ Len(s) \in Nat
  BY PositionIs, MarksAre, LenProperties DEF Text
<1>3. 2 <= q
  <2>1. 0 + 2 <= q \/ q + 2 <= 0
    BY <1>1, CallApart
  <2> QED
    BY <1>1, <2>1
<1>4. h = CallHandler(b)
  OBVIOUS
<1> SUFFICES /\ q \in Positions(s, CallClose) /\ q \in Nat /\ 2 <= q
             /\ h.put.call = {Slice(s, 2, q)} /\ InRange(s, 2, q)
  OBVIOUS
<1> HIDE DEF q, b
<1>5. TrimSpace(b) = b
  <2>1. 1 \in 1 .. Len(b) /\ b[1] # Blank /\ Len(b) # 0
    <3>1. 1 \in 1 .. m /\ s[1] = CallOpen[1]
      BY <1>1, <1>2
    <3> QED
      BY <1>1, <3>1, InkIs
  <2> QED
    BY <1>1, <2>1, TrimKeeps
<1>6. h.put.call = {Slice(b, 2, q)}
  <2>1. h.put.call = {Slice(b, TagLen, Len(b) - TagLen)}
    BY ONLY <1>4, <1>5 DEF CallHandler, Answer, Call, Nothing
  <2>2. Len(b) - TagLen = q /\ TagLen = 2
    BY <1>1 DEF TagLen
  <2> QED
    BY <2>1, <2>2
<1>7. InRange(b, 2, q) /\ InRange(s, 2, q)
  BY <1>1, <1>3 DEF InRange
<1>8. Slice(b, 2, q) = Slice(s, 2, q)
  <2>1. \A k \in 1 .. (q - 2) : b[2 + k] = s[2 + k]
    BY <1>1
  <2>2. SameAt(b, 2, s, 2, q - 2)
    BY <2>1 DEF SameAt
  <2> QED
    BY <1>1, <1>7, <2>2, SameSlice
<1> QED
  BY <1>1, <1>3, <1>6, <1>7, <1>8

Begins(c) == c = <<>> \/ 0 \in Positions(c, CallOpen)

\* What a call that opens no reasoning leaves of the setting.
LEMMA CallStays ==
  ASSUME Texts, NEW pre, NEW chunk, Setting(pre, chunk), NEW n, n = Len(pre \o cache[2]),
         NEW v, NEW w, ThinkStep(v, cache[1] \o chunk, FALSE), ~ v.mem.once,
         v.cache[2] = cache[2], CallStep(v, w, FALSE), w.cache[1] = v.cache[1], w.panic # TRUE
  PROVE  /\ Begins(w.cache[2]) /\ Waiting(w.cache[1])
         /\ Read(w.cache[1], Len(input \o chunk) - Len(w.cache[1]), cuts \cup {Len(input)})
<1> DEFINE a == cache[2]
           b == cache[1]
           c == b \o chunk
           marks == cuts \cup {Len(input)}
           new == input \o chunk
<1>1. /\ pre \in Text /\ chunk \in Text /\ b \in Text /\ a \in Text
      /\ input = pre \o (a \o b) /\ cuts \subseteq 0 .. Len(input)
      /\ Begins(a) /\ Waiting(b) /\ Read(b, n, cuts)
  BY DEF Setting, Begins
<1>2. /\ 1 \in DOMAIN Chain /\ 2 \in DOMAIN Chain /\ DOMAIN cache = DOMAIN Chain
      /\ Chain[2].find = CallOpen /\ Chain[2].find # <<>>
  <2>1. cache = [i \in DOMAIN Chain |-> cache[i]]
    BY DEF Texts, Basic
  <2>2. DOMAIN cache = DOMAIN Chain
    BY <2>1
  <2>3. CallOpen # <<>>
    BY MarksAre DEF IsMark
  <2> QED
    BY <2>2, <2>3, ChainIs
<1>3. ThinkStep(v, c, FALSE) /\ v.cache[2] = a
  OBVIOUS
<1>4. ThinkPasses(v, c)
  BY <1>3 DEF ThinkStep, ThinkRuns, Remember
<1>5. v.panic = FALSE
  BY <1>4 DEF ThinkPasses
<1> SUFFICES /\ Begins(w.cache[2]) /\ Waiting(w.cache[1])
             /\ Read(w.cache[1], Len(new) - Len(w.cache[1]), marks)
  OBVIOUS
<1> HIDE DEF a, b
<1>6. /\ Len(input) = n + Len(b) /\ Len(new) = n + Len(c) /\ c \in Text
      /\ n \in Nat /\ Len(b) \in Nat /\ Len(c) \in Nat
  <2>1. Grows(pre, a, b, chunk)
    BY <1>1, InputGrows
  <2> DEFINE far == pre \o a
  <2>2. new = far \o c /\ Len(input) = Len(far) + Len(b) /\ far \in Text /\ c \in Text
    BY <1>1, <2>1 DEF Grows
  <2>3. n = Len(far)
    BY DEF a
  <2> HIDE DEF far, new, c
  <2>4. Len(far \o c) = Len(far) + Len(c) /\ Len(far) \in Nat /\ Len(c) \in Nat /\ Len(b) \in Nat
    BY <1>1, <2>2, TextConcat, LenProperties DEF Text
  <2> QED
    BY <2>2, <2>3, <2>4
<1>7. CASE v.cache = [cache EXCEPT ![1] = c] /\ v.live = FALSE
           /\ NextToken(ThinkOpen, c).state = Matching
  <2>1. w = v /\ v.cache[1] = c
    BY <1>2, <1>7 DEF CallStep
  <2>2. Begins(w.cache[2]) /\ w.cache[1] = c
    BY <1>1, <1>3, <2>1
  <2>3. Waiting(c)
    BY <1>7 DEF Waiting
  <2>4. Read(c, n, marks)
    <3> SUFFICES ASSUME NEW m \in 1 .. (Len(c) - 1), n + m \in marks
                 PROVE  Progress(ThinkOpen, c)[m] # 0
      BY DEF Read
    <3>1. cuts \subseteq 0 .. (n + Len(b)) /\ m \in Nat \ {0} /\ n + m \in cuts \cup {n + Len(b)}
      BY <1>1, <1>6
    <3>2. \A k \in Nat \ {0} : n + k \in cuts \cup {n + Len(b)} =>
            k <= Len(b) /\ Progress(ThinkOpen, b \o chunk)[k] # 0
      BY <1>1, <1>6, <3>1, CutsAreRead
    <3> QED
      BY <3>1, <3>2
  <2>5. Len(new) - Len(c) = n
    BY <1>6
  <2> QED
    BY <2>2, <2>3, <2>4, <2>5
<1>8. CASE /\ v.text = c /\ v.cache = [cache EXCEPT ![1] = <<>>] /\ v.live = TRUE
           /\ NextToken(ThinkOpen, c).state = Default
  <2> DEFINE s == a \o c
             h == Enclosed(CallClose, s, CallHandler(Block(CallClose, s)))
  <2>1. v.cache[1] = <<>> /\ w.cache[1] = <<>> /\ 2 \in DOMAIN v.cache
    BY <1>2, <1>8
  <2>2. Content(2, v) = s
    BY <1>2, <1>3, <1>8 DEF Content
  <2>3. \/ NextToken(CallOpen, s).state = Matched /\ Executes(2, v, w, h, FALSE)
        \/ NextToken(CallOpen, s).state # Matched /\ Passes(2, v, w)
    BY <1>3, <1>8 DEF CallStep
  <2> HIDE DEF s, h
  <2>4. \/ w.cache = [v.cache EXCEPT ![2] = <<>>]
        \/ /\ w.cache = [v.cache EXCEPT ![2] = s]
           /\ NextToken(CallOpen, s).state # Default
    <3>1. CASE NextToken(CallOpen, s).state = Matched /\ Executes(2, v, w, h, FALSE)
      <4>1. NextToken(CallOpen, s).state # Default
        BY <3>1 DEF Matched, Default
      <4>2. \/ w.cache = [v.cache EXCEPT ![2] = <<>>]
            \/ w.cache = [v.cache EXCEPT ![2] = s]
        BY <2>2, <3>1 DEF Executes, Panics, Hits, Keeps
      <4> QED
        BY <4>1, <4>2
    <3>2. CASE Passes(2, v, w)
      <4>1. CASE HandsOn(2, v, w)
        BY <4>1 DEF HandsOn
      <4>2. CASE NextToken(Chain[2].find, Content(2, v)).state = Matching /\ Keeps(2, v, w)
        <5>1. NextToken(CallOpen, s).state = Matching /\ w.cache = [v.cache EXCEPT ![2] = s]
          BY <1>2, <2>2, <4>2 DEF Keeps
        <5> QED
          BY <5>1 DEF Matching, Default
      <4> QED
        BY <3>2, <4>1, <4>2 DEF Passes
    <3> QED
      BY <2>3, <3>1, <3>2
  <2>5. Begins(w.cache[2])
    <3>1. CASE w.cache = [v.cache EXCEPT ![2] = <<>>]
      BY <2>1, <3>1 DEF Begins
    <3>2. CASE w.cache = [v.cache EXCEPT ![2] = s] /\ NextToken(CallOpen, s).state # Default
      <4>1. 0 \in Positions(s, CallOpen)
        BY <1>8, <3>2, CallIsFirst DEF s, a, b
      <4> QED
        BY <2>1, <3>2, <4>1 DEF Begins
    <3> QED
      BY <2>4, <3>1, <3>2
  <2>6. Waiting(<<>>) /\ Read(<<>>, Len(new) - Len(<<>>), marks)
    <3>1. 1 .. (Len(<<>>) - 1) = {}
      OBVIOUS
    <3> QED
      BY <3>1 DEF Waiting, Read
  <2> QED
    BY <2>1, <2>5, <2>6
<1> QED
  BY <1>4, <1>7, <1>8 DEF ThinkPasses

\* The call that is reported is one of the input.
Reports(w, chunk) ==
  \/ w.put.call = {}
  \/ \E y : /\ w.put.call = {y}
            /\ \E p \in Positions(input \o chunk, CallOpen),
                  q \in Positions(input \o chunk, CallClose) :
                 p + 2 <= q /\ y = Slice(input \o chunk, p + 2, q)

LEMMA CallReports ==
  ASSUME NEW pre, NEW chunk, Setting(pre, chunk), NEW last \in BOOLEAN,
         NEW v, NEW w, ThinkStep(v, cache[1] \o chunk, last), ~ v.mem.once,
         v.cache[2] = cache[2], CallStep(v, w, last), w.panic # TRUE
  PROVE  Reports(w, chunk)
<1> DEFINE a == cache[2]
           b == cache[1]
           c == b \o chunk
           s == a \o c
           new == input \o chunk
           h == Enclosed(CallClose, s, CallHandler(Block(CallClose, s)))
<1>1. /\ pre \in Text /\ chunk \in Text /\ b \in Text /\ a \in Text
      /\ input = pre \o (a \o b)
  BY DEF Setting
<1>2. ThinkStep(v, c, last) /\ v.cache[2] = a
  OBVIOUS
<1>3. ThinkPasses(v, c)
  <2>1. ASSUME ThinkRuns(v, c, last)
        PROVE  FALSE
    <3>1. v.mem = Remember(c, mem)
      BY ONLY <2>1 DEF ThinkRuns
    <3>2. Remember(c, mem).once = TRUE
      BY ONLY DEF Remember
    <3> QED
      BY <3>1, <3>2
  <2> QED
    BY ONLY <1>2, <2>1 DEF ThinkStep
<1> SUFFICES ASSUME w.put.call # {} PROVE Reports(w, chunk)
  BY DEF Reports
<1>4. v.put.call = {}
  BY <1>3 DEF ThinkPasses
<1>5. v.live = TRUE
  BY <1>4 DEF CallStep
<1>6. v.text = c /\ NextToken(ThinkOpen, c).state = Default
  BY <1>3, <1>5 DEF ThinkPasses
<1>7. NextToken(CallOpen, s).state = Matched /\ Executes(2, v, w, h, last)
  <2>1. \/ NextToken(CallOpen, s).state = Matched /\ Executes(2, v, w, h, last)
        \/ NextToken(CallOpen, s).state # Matched /\ Passes(2, v, w)
    BY <1>2, <1>5, <1>6 DEF CallStep
  <2> HIDE DEF s, h
  <2> QED
    BY <1>4, <2>1 DEF Passes
<1>8. 0 \in Positions(s, CallOpen)
  BY <1>6, <1>7, CallIsFirst DEF Default, Matched
<1> HIDE DEF a, b
<1>9. new = pre \o s /\ s \in Text
  <2>1. Grows(pre, a, b, chunk)
    BY <1>1, InputGrows
  <2> QED
    BY <1>1, <2>1 DEF Grows
<1>10. h.put.call # {} /\ ~ h.panic /\ w.put.call = h.put.call
  <2> HIDE DEF h, s
  <2>1. w.put = PutAfter(v, h)
    BY <1>7 DEF Executes
  <2>2. h.put.call # {} /\ w.put.call = h.put.call
    BY <1>4, <2>1 DEF PutAfter
  <2>3. ~ h.panic
    BY <1>7 DEF Executes, Panics
  <2> QED
    BY <2>2, <2>3
<1> DEFINE q == LastIndex(s, CallClose)
           g == CallHandler(Block(CallClose, s))
<1>11. Positions(s, CallClose) # {} /\ h = g
  <2>1. Positions(s, CallClose) = {} => q = -1
    BY <1>9, IndexFinds, MarksAre
  <2>2. ~ (q < 0)
    BY <1>10 DEF Enclosed, Wait, Answer, Nothing
  <2>3. h = g
    BY <2>2 DEF Enclosed
  <2> QED
    BY <2>1, <2>2, <2>3
<1> HIDE DEF h
<1>12. /\ q \in Positions(s, CallClose) /\ q \in Nat /\ 2 <= q
       /\ h.put.call = {Slice(s, 2, q)} /\ InRange(s, 2, q)
  BY <1>8, <1>9, <1>10, <1>11, CallIsCut
<1> HIDE DEF s, q, g, new
<1> DEFINE n == Len(pre)
<1>13. n \in Nat /\ n + 0 = n
  BY <1>1, LenProperties DEF Text
<1>14. n \in Positions(new, CallOpen) /\ n + q \in Positions(new, CallClose)
  <2>1. n + 0 \in Positions(pre \o s, CallOpen) /\ n + q \in Positions(pre \o s, CallClose)
    <3>1. IsMark(CallOpen) /\ IsMark(CallClose)
      BY MarksAre
    <3>2. pre \in Text /\ s \in Text /\ 0 \in Positions(s, CallOpen) /\ q \in Positions(s, CallClose)
      BY <1>1, <1>8, <1>9, <1>12
    <3>3. n + 0 \in Positions(pre \o s, CallOpen)
      BY <3>1, <3>2, PositionShift
    <3>4. n + q \in Positions(pre \o s, CallClose)
      BY <3>1, <3>2, PositionShift
    <3> QED
      BY <3>3, <3>4
  <2> QED
    BY <1>9, <1>13, <2>1
<1>15. Slice(new, n + 2, n + q) = Slice(s, 2, q)
  <2>1. s \in Text /\ pre \in Text /\ 2 \in Int /\ q \in Int /\ InRange(s, 2, q)
    BY <1>1, <1>9, <1>12
  <2>2. Slice(pre \o s, n + 2, n + q) = Slice(s, 2, q)
    BY ONLY <2>1, SliceShift
  <2> QED
    BY <1>9, <2>2
<1>16. n + 2 <= n + q
  BY <1>12, <1>13
<1> HIDE DEF n
<1> QED
  BY <1>10, <1>12, <1>14, <1>15, <1>16 DEF Reports, new

CallInv ==
  /\ cuts \subseteq 0 .. Len(input)
  /\ \E S : calls \in Seq(S)
  /\ ~ mem.once /\ ~ over /\ ~ panic /\ Positions(input, CallOpen) \subseteq cuts =>
       /\ Begins(cache[2]) /\ Waiting(cache[1])
       /\ Read(cache[1], Len(input) - Len(cache[1]), cuts)

LEMMA CallInit == Init => CallInv
<1> SUFFICES ASSUME Init PROVE CallInv
  OBVIOUS
<1>1. /\ cache = [i \in DOMAIN Chain |-> <<>>] /\ calls = <<>> /\ input = <<>> /\ cuts = {}
  BY DEF Init
<1>2. 1 \in DOMAIN Chain /\ 2 \in DOMAIN Chain
  BY ChainIs
<1>3. cache[1] = <<>> /\ cache[2] = <<>>
  BY <1>1, <1>2
<1>4. \E S : calls \in Seq(S)
  <2>1. calls \in Seq({})
    BY <1>1
  <2> QED
    BY <2>1
<1>5. Begins(<<>>) /\ Waiting(<<>>) /\ Read(<<>>, Len(<<>>) - Len(<<>>), {})
  BY DEF Begins, Waiting, Read
<1> QED
  BY <1>1, <1>3, <1>4, <1>5 DEF CallInv

\* What holds before a call whose input has every opening at the beginning of a chunk.
LEMMA SettingIs ==
  ASSUME Texts, input \in Text, ThinkInv, CallInv, NEW chunk \in Text, ~ over, ~ panic, ~ mem.once,
         Positions(input \o chunk, CallOpen) \subseteq cuts \cup {Len(input)}
  PROVE  \E pre : Setting(pre, chunk)
<1> DEFINE a == cache[2]
           b == cache[1]
<1>1. a \in Text /\ b \in Text
  <2>1. 1 \in 1 .. Size /\ 2 \in 1 .. Size
    BY ChainIs
  <2> QED
    BY <2>1 DEF Texts, TextsUpTo
<1>2. Aligned
  <2>1. hits[1] = 0
    BY DEF ThinkInv
  <2> QED
    BY <2>1 DEF ThinkInv
<1>3. PICK pre \in Text : input = pre \o (a \o b)
  BY <1>2 DEF Aligned
<1>4. Positions(input, CallOpen) \subseteq cuts
  <2> SUFFICES ASSUME NEW p \in Positions(input, CallOpen) PROVE p \in cuts
    OBVIOUS
  <2>1. p \in Positions(input \o chunk, CallOpen)
    BY PositionShift, MarksAre
  <2>2. p \in Nat /\ p + 2 <= Len(input) /\ Len(input) \in Nat
    BY PositionIs, MarksAre, LenProperties DEF Text
  <2> QED
    BY <2>1, <2>2
<1>5. /\ cuts \subseteq 0 .. Len(input)
      /\ Begins(a) /\ Waiting(b) /\ Read(b, Len(input) - Len(b), cuts)
  BY <1>4 DEF CallInv
<1>6. Len(input) - Len(b) = Len(pre \o a)
  <2> HIDE DEF a, b
  <2>1. Grows(pre, a, b, chunk)
    BY <1>1, InputGrows
  <2> DEFINE far == pre \o a
  <2>2. Len(input) = Len(far) + Len(b) /\ far \in Text
    BY <1>3, <2>1 DEF Grows
  <2> HIDE DEF far
  <2>3. Len(far) \in Nat /\ Len(b) \in Nat
    BY <1>1, <2>2, LenProperties DEF Text
  <2>4. Len(input) - Len(b) = Len(far)
    BY <2>2, <2>3
  <2> QED
    BY <2>4 DEF far
<1>7. Setting(pre, chunk)
  BY <1>1, <1>3, <1>5, <1>6 DEF Setting, Begins
<1> QED
  BY <1>7

\* What a call does, as far as the first two matchers are concerned.
Two(v, w, chunk, last) ==
  /\ ThinkStep(v, cache[1] \o chunk, last) /\ CallStep(v, w, last)
  /\ v.cache[2] = cache[2] /\ w.cache[1] = v.cache[1]

CallResult(v, w, x) ==
  /\ x.mem = v.mem /\ x.panic = w.panic /\ x.put.call = w.put.call
  /\ x.cache[1] = w.cache[1] /\ x.cache[2] = w.cache[2]

LEMMA TwoIs ==
  ASSUME Texts, NEW chunk \in Text, NEW last \in BOOLEAN
  PROVE  \E v, w : Two(v, w, chunk, last) /\ CallResult(v, w, RunChain(chunk, last))
<1>1. PICK v, w : /\ TextWork(v) /\ TextWork(w)
                  /\ ThinkStep(v, cache[1] \o chunk, last)
                  /\ \A j \in 1 .. Size : j # 1 => v.cache[j] = cache[j]
                  /\ CallStep(v, w, last)
                  /\ \A j \in 1 .. Size : j # 2 => w.cache[j] = v.cache[j] /\ w.hits[j] = v.hits[j]
                  /\ RestStep(w, RunChain(chunk, last))
  BY CallIs
<1>2. 1 \in 1 .. Size /\ 2 \in 1 .. Size
  BY ChainIs
<1>3. Two(v, w, chunk, last)
  BY <1>1, <1>2 DEF Two
<1>4. w.mem = v.mem
  BY <1>1 DEF CallStep
<1>5. CallResult(v, w, RunChain(chunk, last))
  BY <1>1, <1>4 DEF RestStep, CallResult
<1> QED
  BY <1>3, <1>5

\* Once reasoning has been opened it has been.
LEMMA OnceStays ==
  ASSUME NEW v, NEW c, NEW last, ThinkStep(v, c, last), ~ v.mem.once
  PROVE  ~ mem.once
BY DEF ThinkStep, ThinkRuns, ThinkPasses, Remember

\* A call reports one tool call at most.
LEMMA OneCall ==
  ASSUME NEW v, NEW w, NEW x, NEW chunk, NEW last, Two(v, w, chunk, last), CallResult(v, w, x)
  PROVE  x.put.call = {} \/ \E y : x.put.call = {y}
<1> DEFINE s == v.cache[2] \o v.text
           h == Enclosed(CallClose, s, CallHandler(Block(CallClose, s)))
<1>1. v.put.call = {}
  BY DEF Two, ThinkStep, ThinkRuns, ThinkPasses
<1>2. h.put.call = {} \/ \E y : h.put.call = {y}
  <2>1. Wait(s).put.call = {}
    BY DEF Wait, Answer, Nothing
  <2> DEFINE g == CallHandler(Block(CallClose, s))
  <2>2. \E y : g.put.call = {y}
    BY DEF CallHandler, Answer, Call, Nothing
  <2> HIDE DEF g
  <2> QED
    BY <2>1, <2>2 DEF Enclosed, g
<1>3. \/ w = v
      \/ Executes(2, v, w, h, last)
      \/ Passes(2, v, w)
  BY DEF Two, CallStep
<1> HIDE DEF h, s
<1>4. CASE w = v
  BY <1>1, <1>4 DEF CallResult
<1>5. CASE Executes(2, v, w, h, last)
  <2>1. w.put = PutAfter(v, h)
    BY <1>5 DEF Executes
  <2>2. w.put.call = IF h.put.call = {} THEN {} ELSE h.put.call
    BY <1>1, <2>1 DEF PutAfter
  <2> QED
    BY <1>2, <2>2 DEF CallResult
<1>6. CASE Passes(2, v, w)
  BY <1>1, <1>6 DEF Passes, CallResult
<1> QED
  BY <1>3, <1>4, <1>5, <1>6

LEMMA CallNext == StreamInv /\ ThinkInv /\ CallInv /\ [Next]_vars => CallInv'
<1> SUFFICES ASSUME StreamInv, ThinkInv, CallInv, [Next]_vars PROVE CallInv'
  OBVIOUS
<1>1. CASE UNCHANGED vars
  BY <1>1 DEF vars, CallInv
<1>2. CASE Next
  <2>1. PICK chunk \in Chunks, last \in BOOLEAN : ExecuteInterceptors(chunk, last)
    BY <1>2 DEF Next
  <2> DEFINE x == RunChain(chunk, last)
  <2>2. /\ ~ over /\ ~ panic /\ cache' = x.cache /\ mem' = x.mem /\ panic' = x.panic
        /\ calls' = IF x.panic THEN calls ELSE calls \o SetToSeq(x.put.call)
        /\ over' = last /\ input' = input \o chunk /\ cuts' = cuts \cup {Len(input)}
    BY <2>1 DEF ExecuteInterceptors
  <2>3. Texts /\ input \in Text /\ chunk \in Text
    BY ChunkIsText DEF StreamInv, Shape
  <2>4. PICK v, w : Two(v, w, chunk, last) /\ CallResult(v, w, x)
    BY <2>3, TwoIs
  <2>5. InLine(x, Size, chunk, last)
    BY <2>3, InLineEnd
  <2>6. x.panic \in BOOLEAN
    BY <2>5 DEF InLine, TextWork, IsWork
  <2> HIDE DEF x
  <2>7. cuts' \subseteq 0 .. Len(input')
    <3> DEFINE new == input \o chunk
    <3>1. Len(new) = Len(input) + Len(chunk) /\ Len(input) \in Nat /\ Len(chunk) \in Nat
      BY <2>3, TextConcat
    <3>2. cuts \subseteq 0 .. Len(input)
      BY DEF CallInv
    <3> HIDE DEF new
    <3>3. cuts \cup {Len(input)} \subseteq 0 .. Len(new)
      <4>1. 0 .. Len(input) \subseteq 0 .. Len(new)
        <5> DEFINE m == Len(input)
                   n == Len(new)
        <5>1. m \in Nat /\ n \in Nat /\ m <= n
          BY <3>1
        <5> HIDE DEF m, n
        <5>2. 0 .. m \subseteq 0 .. n
          BY <5>1
        <5> QED
          BY <5>2 DEF m, n
      <4>2. Len(input) \in 0 .. Len(input)
        BY <3>1
      <4> QED
        BY <3>2, <4>1, <4>2
    <3> QED
      BY <2>2, <3>3 DEF new
  <2>8. \E S : calls' \in Seq(S)
    <3>1. PICK S : calls \in Seq(S)
      BY DEF CallInv
    <3>2. CASE calls' = calls
      <4>1. calls' \in Seq(S)
        BY <3>1, <3>2
      <4> QED
        BY <4>1
    <3>3. CASE \E y : calls' = calls \o <<y>>
      <4>1. PICK y : calls' = calls \o <<y>>
        BY <3>3
      <4> DEFINE U == S \cup {y}
      <4>2. calls \in Seq(U)
        <5>1. S \subseteq U
          OBVIOUS
        <5> HIDE DEF U
        <5> QED
          BY <3>1, <5>1, SeqMonotonic
      <4>3. <<y>> \in Seq(U)
        OBVIOUS
      <4> HIDE DEF U
      <4>4. calls \o <<y>> \in Seq(U)
        BY <4>2, <4>3, ConcatProperties
      <4> QED
        BY <4>1, <4>4
    <3>4. x.panic \/ x.put.call = {} \/ \E y : x.put.call = {y}
      BY <2>4, OneCall
    <3>5. CASE x.panic
      BY <2>2, <3>2, <3>5
    <3>6. CASE ~ x.panic /\ x.put.call = {}
      <4>1. calls' = calls \o <<>>
        BY <2>2, <3>6, NoneInSeq
      <4>2. calls \o <<>> = calls
        BY <3>1, ConcatEmptySeq
      <4> QED
        BY <3>2, <4>1, <4>2
    <3>7. CASE ~ x.panic /\ \E y : x.put.call = {y}
      <4>1. PICK y : x.put.call = {y}
        BY <3>7
      <4>2. calls' = calls \o <<y>>
        BY <2>2, <3>7, <4>1, OneInSeq
      <4> QED
        BY <3>3, <4>2
    <3> QED
      BY <3>4, <3>5, <3>6, <3>7
  <2>9. ASSUME ~ x.mem.once, ~ last, ~ x.panic,
               Positions(input \o chunk, CallOpen) \subseteq cuts \cup {Len(input)}
        PROVE  /\ Begins(x.cache[2]) /\ Waiting(x.cache[1])
               /\ Read(x.cache[1], Len(input \o chunk) - Len(x.cache[1]), cuts \cup {Len(input)})
    <3>1. ~ v.mem.once /\ ~ mem.once
      BY <2>4, <2>9, OnceStays DEF CallResult, Two
    <3>2. PICK pre : Setting(pre, chunk)
      BY <2>2, <2>3, <2>9, <3>1, SettingIs
    <3>3. /\ ThinkStep(v, cache[1] \o chunk, FALSE) /\ CallStep(v, w, FALSE)
          /\ v.cache[2] = cache[2] /\ w.cache[1] = v.cache[1] /\ w.panic # TRUE
      <4>1. last = FALSE
        BY <2>9
      <4> QED
        BY <2>4, <2>9, <4>1 DEF Two, CallResult
    <3>4. /\ Begins(w.cache[2]) /\ Waiting(w.cache[1])
          /\ Read(w.cache[1], Len(input \o chunk) - Len(w.cache[1]), cuts \cup {Len(input)})
      BY <2>3, <3>1, <3>2, <3>3, CallStays
    <3> QED
      BY <2>4, <3>4 DEF CallResult
  <2> QED
    BY <2>2, <2>7, <2>8, <2>9 DEF CallInv
<1> QED
  BY <1>1, <1>2

\* Where every opening tag begins a chunk and no reasoning has been opened, a tool call is
\* reported as its tags enclose it (ctor.go:160-164, markup.go:18-30).
THEOREM CallsAreSentWhole == Spec => CallIsEnclosed
<1> DEFINE Act ==
      /\ Len(calls') > Len(calls)
      /\ ~mem'.once
      /\ Positions(input', CallOpen) \subseteq cuts'
      => \E p \in Positions(input', CallOpen), q \in Positions(input', CallClose) :
            /\ p + TagLen <= q
            /\ Last(calls') = Slice(input', p + TagLen, q)
<1>1. StreamInv /\ ThinkInv /\ CallInv /\ [Next]_vars => [Act]_vars
  <2> SUFFICES ASSUME StreamInv, ThinkInv, CallInv, Next,
                      Len(calls') > Len(calls), ~mem'.once,
                      Positions(input', CallOpen) \subseteq cuts'
               PROVE  \E p \in Positions(input', CallOpen), q \in Positions(input', CallClose) :
                         p + TagLen <= q /\ Last(calls') = Slice(input', p + TagLen, q)
    OBVIOUS
  <2>1. PICK chunk \in Chunks, last \in BOOLEAN : ExecuteInterceptors(chunk, last)
    BY DEF Next
  <2> DEFINE x == RunChain(chunk, last)
  <2>2. /\ ~ over /\ ~ panic /\ mem' = x.mem
        /\ calls' = IF x.panic THEN calls ELSE calls \o SetToSeq(x.put.call)
        /\ input' = input \o chunk /\ cuts' = cuts \cup {Len(input)}
    BY <2>1 DEF ExecuteInterceptors
  <2>3. Texts /\ input \in Text /\ chunk \in Text
    BY ChunkIsText DEF StreamInv, Shape
  <2>4. PICK v, w : Two(v, w, chunk, last) /\ CallResult(v, w, x)
    BY <2>3, TwoIs
  <2> HIDE DEF x
  <2>5. PICK S : calls \in Seq(S)
    BY DEF CallInv
  <2>6. Len(calls) \in Nat /\ calls \o <<>> = calls
    BY <2>5, LenProperties, ConcatEmptySeq
  <2>7. calls' # calls
    BY <2>6
  <2>8. ~ x.panic /\ x.put.call # {}
    BY <2>2, <2>6, <2>7, NoneInSeq
  <2>9. ~ v.mem.once /\ ~ mem.once
    BY <2>2, <2>4, OnceStays DEF CallResult, Two
  <2>10. PICK pre : Setting(pre, chunk)
    BY <2>2, <2>3, <2>9, SettingIs
  <2>11. Reports(w, chunk)
    <3>1. /\ ThinkStep(v, cache[1] \o chunk, last) /\ CallStep(v, w, last)
          /\ v.cache[2] = cache[2] /\ w.panic # TRUE
      BY <2>4, <2>8 DEF Two, CallResult
    <3> QED
      BY <2>9, <2>10, <3>1, CallReports
  <2>12. w.put.call # {} /\ x.put.call = w.put.call
    BY <2>4, <2>8 DEF CallResult
  <2>13. PICK y : /\ w.put.call = {y}
                  /\ \E p \in Positions(input \o chunk, CallOpen),
                        q \in Positions(input \o chunk, CallClose) :
                       p + 2 <= q /\ y = Slice(input \o chunk, p + 2, q)
    BY <2>11, <2>12 DEF Reports
  <2>14. calls' = calls \o <<y>>
    BY <2>2, <2>8, <2>12, <2>13, OneInSeq
  <2>15. Last(calls') = y
    <3> DEFINE U == S \cup {y}
    <3>1. calls \in Seq(U)
      <4>1. S \subseteq U
        OBVIOUS
      <4> HIDE DEF U
      <4> QED
        BY <2>5, <4>1, SeqMonotonic
    <3>2. <<y>> \in Seq(U) /\ Len(<<y>>) = 1 /\ <<y>>[1] = y
      OBVIOUS
    <3> DEFINE one == <<y>>
    <3>3. one \in Seq(U) /\ Len(one) = 1 /\ one[1] = y
      BY <3>2
    <3> HIDE DEF U, one
    <3>4. Len(calls \o one) = Len(calls) + 1 /\ (calls \o one)[Len(calls) + 1] = one[1]
      <4>1. /\ Len(calls \o one) = Len(calls) + Len(one)
            /\ \A i \in 1 .. (Len(calls) + Len(one)) :
                 (calls \o one)[i] = IF i <= Len(calls) THEN calls[i] ELSE one[i - Len(calls)]
        BY <3>1, <3>3, ConcatProperties
      <4>2. Len(calls) + 1 \in 1 .. (Len(calls) + Len(one)) /\ ~ (Len(calls) + 1 <= Len(calls))
            /\ (Len(calls) + 1) - Len(calls) = 1
        BY <2>6, <3>3
      <4> QED
        BY <3>3, <4>1, <4>2
    <3> QED
      BY <2>14, <3>3, <3>4 DEF Last, one
  <2> QED
    BY <2>2, <2>13, <2>15 DEF TagLen
<1>2. StreamInv /\ ThinkInv /\ CallInv /\ [Next]_vars => (StreamInv /\ ThinkInv /\ CallInv)'
  BY StreamNext, ThinkNext, CallNext
<1> QED
  BY <1>1, <1>2, StreamInit, ThinkInit, CallInit, PTL DEF Spec, CallIsEnclosed
=============================================================================
