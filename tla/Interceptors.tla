---------------------------- MODULE Interceptors ----------------------------
(***************************************************************************)
(* interceptor/: the chain of matchers a streamed answer runs through.     *)
(*                                                                         *)
(* The relay cuts the answer in chunks at arbitrary places and hands them, *)
(* one by one and with over set on the last call, to ExecuteInterceptors.  *)
(* Each matcher looks for an opening tag, keeps in its cache the text that *)
(* may belong to one, and hands on the rest.  Reasoning and tool calls     *)
(* leave by the channel; what no matcher kept is returned.                 *)
(*                                                                         *)
(* A text is a sequence of symbols.  Every tag has two of them: the "<"    *)
(* that all the real ones share, and a letter.  Slices and indices are the *)
(* code's, with 2 for the length of each tag.                              *)
(***************************************************************************)
EXTENDS Integers, Sequences, FiniteSets, SequencesExt

CONSTANTS Alphabets, \* the sets of symbols a stream may be made of
          MaxInput,  \* bound: how much text a stream has, for each of them
          MaxChunk,  \* bound: how much text one call brings
          Objs       \* the matchers configured under the key "interceptor"

Symbols == STRING
Text    == Seq(Symbols)

\* A configuration entry: match, over, regex, think_reason, max.  The regex is
\* left out ("none"), "blank", or a rule "pattern" : "replacement", whose pattern
\* stands for itself here; a malformed replacement makes every Replace fail.
Entries == [match : Text, over : Text, regex : {"none", "blank", "rule"},
            pattern : Text \ {<<>>}, replacement : Text, malformed : BOOLEAN,
            thinkReason : BOOLEAN, max : Nat]

ASSUME StreamAssumption ==
  /\ \A a \in Alphabets : a \subseteq Symbols
  /\ MaxInput \in [Alphabets -> Nat] /\ MaxChunk \in Nat \ {0}
  /\ Objs \in Seq(Entries)

Default == 0
Matching == 1
Matched == 2

ThinkOpen  == <<"<", "k">>      \* <think>
ThinkClose == <<"<", "K">>      \* </think>
CallOpen   == <<"<", "t">>      \* <tool_call>
CallClose  == <<"<", "T">>      \* </tool_call>
ImEnd      == <<"<", "i">>      \* <|im_end|>
Blank      == " "
TagLen     == 2

-----------------------------------------------------------------------------
(* Strings.                                                                *)

Positions(s, t) == {p \in 0 .. (Len(s) - Len(t)) : SubSeq(s, p + 1, p + Len(t)) = t}
Index(s, t)     == IF Positions(s, t) = {} THEN -1 ELSE Min(Positions(s, t))
LastIndex(s, t) == IF Positions(s, t) = {} THEN -1 ELSE Max(Positions(s, t))

\* s[a:b]; outside of InRange the slice expression panics.
InRange(s, a, b) == 0 <= a /\ a <= b /\ b <= Len(s)
Slice(s, a, b)   == SubSeq(s, a + 1, b)
From(s, a)       == Slice(s, a, Len(s))

TrimSpace(s) ==
  LET ink == {k \in DOMAIN s : s[k] # Blank}
  IN  IF ink = {} THEN <<>> ELSE SubSeq(s, Min(ink), Max(ink))

-----------------------------------------------------------------------------
(* symbolInterceptor.nextToken: one pass, no second look at a symbol.      *)

\* n symbols of find are matched and another one is read.  One that does not fit
\* starts over, and is not itself tried against the first symbol.
Advance(find, n, symbol) == IF symbol = find[n + 1] THEN n + 1 ELSE 0

\* How much of find is matched after each prefix of s, up to a full match.
Progress(find, s) ==
  LET pos[n \in 0 .. Len(s)] ==
        IF n = 0 THEN 0
        ELSE LET before == pos[n - 1]
             IN  IF before = Len(find) THEN before
                 ELSE Advance(find, before, s[n])
  IN  pos

\* A hit is only seen at the symbol that follows it.
NextToken(find, s) ==
  LET pos == Progress(find, s)
      hit == {n \in 0 .. (Len(s) - 1) : pos[n] = Len(find)}
  IN  IF hit # {} THEN [state |-> Matched, index |-> Min(hit)]
      ELSE [state |-> IF pos[Len(s)] = 0 THEN Default ELSE Matching, index |-> 0]

-----------------------------------------------------------------------------
(* The handlers H.  An answer has a state, a result, what is put on the    *)
(* context for ExecuteInterceptors to send, and whether a slice panicked.  *)

Nothing == [think |-> {}, call |-> {}]
Thought(s) == [Nothing EXCEPT !.think = {s}]
Call(s)    == [Nothing EXCEPT !.call = {s}]

Answer(state, result, put, panic) ==
  [state |-> state, result |-> result, put |-> put, panic |-> panic]

\* MUTANT of Offset: the first tag is taken to open the text.
OffsetAtStart(content, mem) == mem.think

\* What of the content has been reported: once, on the first call, the offset
\* moves to the first tag; later calls find what the deferred assignment left.
Offset(content, mem) ==
  LET first == Index(content, ThinkOpen)
  IN  IF ~mem.once /\ first > 0 THEN mem.think + first ELSE mem.think

\* MUTANT of Remember: one symbol more than there is.
RememberTooMuch(content, mem) == [think |-> Len(content) + 1, once |-> TRUE]

\* defer: all of the content has been reported, whatever the outcome.
Remember(content, mem) == [think |-> Len(content), once |-> TRUE]

\* <think>: report what is new, and let the rest go on after the closing tag.
ThinkHandler(content, mem) ==
  LET from == Offset(content, mem)
      idx  == LastIndex(content, ThinkClose)
  IN  IF idx < 0
      THEN Answer(Matching, content, Thought(From(content, from)),
                  ~InRange(content, from, Len(content)))
      ELSE Answer(Matched, From(content, idx + TagLen),
                  Thought(Slice(content, from, idx)),
                  ~InRange(content, TagLen, idx) \/ ~InRange(content, from, idx))

\* MUTANT of CallHandler: takes the block for one that has no closing tag.
CallHandlerOpen(content) ==
  LET block == TrimSpace(content)
      end   == Len(block) - TagLen
  IN  Answer(Matched, <<>>, Call(From(block, TagLen)), ~InRange(block, TagLen, end))

\* <tool_call>: the content is cut as if it began with the opening tag.
CallHandler(content) ==
  LET block == TrimSpace(content)
      end   == Len(block) - TagLen
  IN  Answer(Matched, <<>>, Call(Slice(block, TagLen, end)),
             ~InRange(block, TagLen, end))

\* c.Replace(content, replacement, 0, 1): the first match of the pattern is
\* replaced, if there is one.  With an error the result is the empty string.
Replace(o, content) ==
  LET at == Index(content, o.pattern)
  IN  CASE o.malformed -> <<>>
        [] ~o.malformed /\ at < 0 -> content
        [] OTHER -> Slice(content, 0, at) \o o.replacement
                      \o From(content, at + Len(o.pattern))

\* A configured matcher: what Replace answers is reasoning, or the text that goes
\* on; with an error all the content goes on.
ConfiguredHandler(o, content) ==
  CASE o.regex = "blank" -> Answer(Matched, <<>>, Nothing, FALSE)
    [] o.regex # "blank" /\ o.thinkReason /\ content # <<>> ->
         Answer(Matched, <<>>, Thought(Replace(o, content)), FALSE)
    [] OTHER -> Answer(Matched, IF o.malformed THEN content ELSE Replace(o, content),
                       Nothing, FALSE)

Wait(content) == Answer(Matching, content, Nothing, FALSE)

\* markupInterceptor: wait for the closing tag, then handle the text up to its
\* end.  (The rest goes to a cache that scan clears at once.)
Block(over, content) == Slice(content, 0, LastIndex(content, over) + Len(over))

Enclosed(over, content, handled) ==
  IF LastIndex(content, over) < 0 THEN Wait(content) ELSE handled

\* expressionInterceptor: wait until max symbols follow the opening tag.
Span(o, index, content) ==
  LET max == IF o.max = 0 THEN 10 ELSE o.max
  IN  IF index + max > Len(content) - 1 THEN Wait(content)
      ELSE ConfiguredHandler(o, content)

-----------------------------------------------------------------------------
(* The chain.                                                              *)

\* initInterceptor skips an entry without regex, and returns - with what it has
\* - at the first entry that has a closing tag.
Constructed ==
  LET made[k \in 0 .. Len(Objs)] ==
        IF k = 0 THEN <<>>
        ELSE LET before   == made[k - 1]
                 returned == before # <<>> /\ Last(before).obj.over # <<>>
             IN  IF returned \/ Objs[k].regex = "none" THEN before
                 ELSE Append(before, [kind |-> "configured", find |-> Objs[k].match,
                                      obj |-> Objs[k]])
  IN  made[Len(Objs)]

Chain == <<[kind |-> "think", find |-> ThinkOpen],
           [kind |-> "call",  find |-> CallOpen],
           [kind |-> "end",   find |-> ImEnd]>> \o Constructed

H(i, index, content, mem) ==
  CASE Chain[i].kind = "think" -> ThinkHandler(content, mem)
    [] Chain[i].kind = "call"  -> Enclosed(CallClose, content,
                                           CallHandler(Block(CallClose, content)))
    [] Chain[i].kind = "end"   -> Answer(Matched, <<>>, Nothing, FALSE)
    [] OTHER -> LET o == Chain[i].obj
                IN  IF o.over # <<>>
                    THEN Enclosed(o.over, content,
                                  ConfiguredHandler(o, Block(o.over, content)))
                    ELSE Span(o, index, content)

\* The work of one call: the text in hand, the caches, what the think matcher
\* remembers, what was put on the context, whether the chain goes on, and, as
\* history, how often each matcher has hit.

\* MUTANT of HandOn: the cached text is forgotten.
HandOnForgets(i, w, content) ==
  [w EXCEPT !.text = From(content, Len(w.cache[i])), !.cache[i] = <<>>]

\* Not a hit: all the content goes on, the cached one included.
HandOn(i, w, content) == [w EXCEPT !.text = content, !.cache[i] = <<>>]

\* MUTANT of Keep: the text is cached and goes on as well.
KeepAndHandOn(i, w, content) == [w EXCEPT !.cache[i] = content]

\* Cache the content for the next call; only this stops the chain.
Keep(i, w, content) ==
  [w EXCEPT !.text = <<>>, !.cache[i] = content, !.live = FALSE]

\* execute: a hit empties the cache; at the end of the stream a matcher that
\* still waits lets everything go, and its cache stays as it is.
Execute(i, w, content, h, over) ==
  LET put(old, new) == IF new = {} THEN old ELSE new
      x == [w EXCEPT !.put = [think |-> put(@.think, h.put.think),
                              call  |-> put(@.call, h.put.call)],
                     !.mem = IF Chain[i].kind = "think" THEN Remember(content, @)
                             ELSE @]
  IN  IF h.panic THEN [x EXCEPT !.panic = TRUE, !.live = FALSE]
      ELSE IF h.state = Matched
           THEN [x EXCEPT !.text = h.result, !.cache[i] = <<>>, !.hits[i] = @ + 1]
      ELSE IF over THEN [x EXCEPT !.text = content]
      ELSE Keep(i, x, h.result)

\* scan, for matcher i.  An empty match always hits, on the chunk alone.
Scan(i, w, over) ==
  IF Chain[i].find = <<>>
  THEN Execute(i, w, w.text, H(i, 0, w.text, w.mem), over)
  ELSE LET content == w.cache[i] \o w.text
           tok     == NextToken(Chain[i].find, content)
       IN  IF tok.state = Default THEN HandOn(i, w, content)
           ELSE IF tok.state = Matching THEN Keep(i, w, content)
           ELSE Execute(i, w, content, H(i, tok.index, content, w.mem), over)

-----------------------------------------------------------------------------
(* The stream.                                                             *)

VARIABLES
  alphabet,  \* the symbols of this stream: never changes
  cache,     \* the cache of each matcher
  mem,       \* think and once, of the think matcher
  emitted,   \* the text ExecuteInterceptors has returned so far
  thought,   \* the reasoning it has sent on the channel so far
  calls,     \* the tool calls it has sent on the channel, in order
  over,      \* the last call has been made
  panic,     \* a call has panicked
  input,     \* history: the text of all the chunks
  cuts,      \* history: where the chunks began
  hits       \* history: how often each matcher has hit

vars == <<alphabet, cache, mem, emitted, thought, calls, over, panic, input, cuts,
          hits>>

Init ==
  /\ alphabet \in Alphabets
  /\ cache = [i \in DOMAIN Chain |-> <<>>]
  /\ mem = [think |-> TagLen, once |-> FALSE]
  /\ emitted = <<>> /\ thought = <<>> /\ calls = <<>>
  /\ over = FALSE /\ panic = FALSE
  /\ input = <<>> /\ cuts = {}
  /\ hits = [i \in DOMAIN Chain |-> 0]

\* The loop over the matchers.
RunChain(chunk, last) ==
  LET w[i \in 0 .. Len(Chain)] ==
        IF i = 0
        THEN [text |-> chunk, cache |-> cache, mem |-> mem, put |-> Nothing,
              live |-> TRUE, panic |-> FALSE, hits |-> hits]
        ELSE LET before == w[i - 1]
             IN  IF before.live THEN Scan(i, before, last) ELSE before
  IN  w[Len(Chain)]

Chunks == UNION {[1 .. n -> alphabet] : n \in 0 .. MaxChunk}

\* ExecuteInterceptors: run the chain, send what it put on the context - the
\* call first, then the reasoning - and return the text.
ExecuteInterceptors(chunk, last) ==
  /\ ~over /\ ~panic
  /\ Len(input) + Len(chunk) <= MaxInput[alphabet]
  /\ LET w == RunChain(chunk, last)
     IN  /\ cache' = w.cache
         /\ mem' = w.mem
         /\ hits' = w.hits
         /\ panic' = w.panic
         /\ emitted' = IF w.panic THEN emitted ELSE emitted \o w.text
         /\ calls' = IF w.panic THEN calls ELSE calls \o SetToSeq(w.put.call)
         /\ thought' = IF w.panic \/ w.put.think = {} THEN thought
                       ELSE thought \o (CHOOSE s \in w.put.think : TRUE)
  /\ over' = last
  /\ input' = input \o chunk
  /\ cuts' = cuts \cup {Len(input)}
  /\ UNCHANGED alphabet

Next == \E chunk \in Chunks, last \in BOOLEAN : ExecuteInterceptors(chunk, last)

Spec == Init /\ [][Next]_vars

-----------------------------------------------------------------------------
(* Properties.                                                             *)

NoHits == \A i \in DOMAIN Chain : hits[i] = 0

\* Until a matcher hits, the text that came out and the texts the matchers hold
\* back, the last matcher's first, are the text that went in: nothing is lost,
\* doubled or overtaken, wherever the chunks are cut (symbol.go:20-35,
\* ctor.go:202-207).  An entry with an empty match is another matter: it looks at
\* the chunk alone, and what it has cached is overwritten (symbol.go:15-18, 114).
NothingLostBeforeHit ==
  (\A i \in DOMAIN Chain : Chain[i].find # <<>>) /\ NoHits /\ ~over /\ ~panic =>
    input = emitted \o FlattenSeq(Reverse([i \in DOMAIN Chain |-> cache[i]]))

\* Where s can be found in t, symbol by symbol and in order.
Reach(s, t) ==
  LET at[k \in 0 .. Len(s)] ==
        IF k = 0 THEN 0
        ELSE LET before == at[k - 1]
                 later  == {p \in (before + 1) .. Len(t) : t[p] = s[k]}
             IN  IF later = {} THEN Len(t) + 1 ELSE Min(later)
  IN  at[Len(s)]

\* A hit of such an entry sends on nothing that it was not given.
Erases(o) == \/ o.regex = "blank" \/ o.thinkReason
             \/ o.malformed \/ o.replacement = <<>>

\* Only configured matchers make text, those whose replacement does: as long as
\* none of these has hit, what comes out can be read off the input from left to
\* right, nothing is doubled and nothing overtaken, whatever else has hit and
\* wherever the chunks are cut (symbol.go:11-44, ctor.go:85-101).
EmittedInOrder ==
  (\A i \in DOMAIN Chain :
     Chain[i].kind = "configured" /\ hits[i] > 0 => Erases(Chain[i].obj))
  => Reach(emitted, input) <= Len(input)

\* The first reasoning block of a stream is reported exactly, if no configured
\* matcher has hit and reported reasoning of its own (ctor.go:91-94): what was
\* sent is the text between an opening and a closing tag, however it was cut in
\* chunks (ctor.go:136-151).
ThoughtIsEnclosed ==
  [][/\ hits[1] = 0 /\ hits'[1] = 1 /\ ~panic'
     /\ \A i \in DOMAIN Chain : Chain[i].kind = "configured" => hits'[i] = 0
     =>
       \E p \in Positions(input', ThinkOpen), q \in Positions(input', ThinkClose) :
          p + TagLen <= q /\ thought' = Slice(input', p + TagLen, q)]_vars

\* The slices of the handlers (ctor.go:145, 149, 150, 162) are out of range only
\* after a first reasoning block, a closing tag that was cut in two, or one before
\* an opening tag.
PanicHasCause ==
  panic => \/ hits[1] > 0
           \/ \E q \in Positions(input, ThinkClose) :
                 \/ q + 1 \in cuts
                 \/ \E p \in Positions(input, ThinkOpen) : q < p
           \/ \E q \in Positions(input, CallClose), p \in Positions(input, CallOpen) :
                 q < p

\* Where every opening tag begins a chunk and no reasoning has been opened, a tool
\* call is exactly what its tags enclose (ctor.go:160-164, markup.go:18-30).  Behind
\* reasoning that the stream never closes it is not: at the end of the stream the
\* block is cut as if it began with <tool_call>, and it begins with <think>.
CallIsEnclosed ==
  [][/\ Len(calls') > Len(calls)
     /\ ~mem'.once
     /\ Positions(input', CallOpen) \subseteq cuts'
     => \E p \in Positions(input', CallOpen), q \in Positions(input', CallClose) :
           /\ p + TagLen <= q
           /\ Last(calls') = Slice(input', p + TagLen, q)]_vars

\* The end mark <|im_end|> reaches the client only after a symbol that looks
\* like its beginning, which the matcher does not look at twice, or where a
\* configured matcher has cut the text behind it (symbol.go:55-84).
EndMarkIsRemoved ==
  (\A i \in DOMAIN Chain : Chain[i].kind = "configured" => hits[i] = 0) =>
     \A p \in Positions(emitted, ImEnd) : p > 0 /\ emitted[p] = "<"

\* symbol.go:24 "not a hit: return all the content (the cache included)": a
\* stream in which nothing hits comes out whole.
MissReturnsAll == NoHits /\ over /\ ~panic => emitted = input
=============================================================================
