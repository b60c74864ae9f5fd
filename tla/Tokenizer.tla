------------------------------ MODULE Tokenizer ------------------------------
(***************************************************************************)
(* tokenizer/: a Parser that splits a text in plain strings and the        *)
(* elements <ident ...>...</ident> whose name is in its schemas.           *)
(*                                                                         *)
(* The lexer cuts the text in tokens, one ahead of the parser.  The parser *)
(* tries an element at every "<": it reads tokens up to a closing tag,     *)
(* counts what it has opened on the way, and goes back to the "<" when     *)
(* there is no closing tag.  Whatever is not an element comes out token by *)
(* token, as strings.                                                      *)
(*                                                                         *)
(* A text is a sequence of symbols.  Positions count from 0, as in Go.     *)
(***************************************************************************)
EXTENDS Integers, Sequences, FiniteSets, SequencesExt

CONSTANTS
  Letters, Digits,  \* symbols
  Schemas,          \* the names of elements
  Texts,            \* what the parser is given to parse
  AttrLists         \* attribute lists that some of the texts render

ASSUME TextsAssumption == \A text \in Texts : text \in Seq(STRING)

NUL   == "NUL"      \* rune 0: in a text, and what readChar finds behind its end
Blank == " "
Quote == "\""

\* Names are not made of what separates them.
ASSUME LettersAssumption == (Letters \cup Digits) \cap {NUL, Blank, "<", ">", "/"} = {}

IdentChars == Letters \cup Digits \cup {"@", "_"}
NameChars  == Letters \cup Digits \cup {"_"}

\* What n rounds of a loop make of what is there at the start.
Rounds(Round(_), start, n) ==
  LET after[k \in 0 .. n] == IF k = 0 THEN start ELSE Round(after[k - 1])
  IN  after[n]

At(s, p)       == IF p \in 0 .. Len(s) - 1 THEN s[p + 1] ELSE NUL
Span(s, p, q)  == SubSeq(s, p + 1, q + 1)

\* The last position from p on up to which all the symbols behind p are in set.
Run(s, p, set) == Min({q \in p .. Len(s) - 1 : At(s, q + 1) \notin set})

TrimSpace(s) ==
  LET ink == {k \in DOMAIN s : s[k] # Blank}
  IN  IF ink = {} THEN <<>> ELSE SubSeq(s, Min(ink), Max(ink))

-----------------------------------------------------------------------------
(* The lexer.  A token is a kind and the text from first to pos.           *)

Token(kind, first, pos) == [kind |-> kind, first |-> first, pos |-> pos]
Literal(s, t) == IF t.kind = "EOF" THEN <<>> ELSE Span(s, t.first, t.pos)

\* MUTANT of AfterOpening: a name behind "</" is not looked for.
AfterOpeningOnly(s, p) == p > 0 /\ At(s, p - 1) = "<"

\* An identifier stands behind "<" or "</".
AfterOpening(s, p) ==
  \/ p > 0 /\ At(s, p - 1) = "<"
  \/ p > 1 /\ At(s, p - 1) = "/" /\ At(s, p - 2) = "<"

\* readString, entered at position p: a backslash behind p hides a backslash or
\* ">" that follows it.
StringEnd(s, p) ==
  LET end[q \in 0 .. Len(s)] ==
        CASE At(s, q + 1) \in {NUL, "<", ">", "/"} -> q
          [] At(s, q + 1) = "\\" /\ At(s, q + 2) \in {"\\", ">"} -> end[q + 2]
          [] OTHER -> end[q + 1]
  IN  end[p]

\* The text at p: a name that a blank, "/" or ">" follows, or else a string.  A
\* blank where the name should be sends the lexer one symbol back.
Word(s, p) ==
  LET last  == Run(s, p - 1, IdentChars)
      named == AfterOpening(s, p) /\ At(s, last + 1) \in {Blank, "/", ">"}
      from  == IF named THEN p - 1 ELSE p
  IN  IF named /\ last >= p THEN Token("ident", p, last)
      ELSE Token("str", from, StringEnd(s, from))

\* nextToken of a lexer at position p - 1.
Lex(s, p) ==
  CASE At(s, p) = NUL -> Token("EOF", p, p)
    [] At(s, p) = "<" -> Token("Lt", p, p)
    [] At(s, p) = ">" -> Token("Rt", p, p)
    [] At(s, p) = "/" -> Token("sL", p, p)
    [] OTHER -> Word(s, p)

-----------------------------------------------------------------------------
(* The parser: its text, the position of its lexer, and two tokens.        *)

Nil == Token("nil", 0, 0)

Shift(p, t) == [p EXCEPT !.curr = p.peek, !.peek = t, !.pos = t.pos]

NextToken(p) == Shift(p, Lex(p.input, p.pos + 1))

\* MUTANT of SeekToken: the lexer stays where it is.
SeekTokenOnly(p, start) == [p EXCEPT !.curr = start.curr, !.peek = start.peek]

\* Back to where the parser was at start.  position() keeps within the text.
SeekToken(p, start) ==
  [p EXCEPT !.curr = start.curr, !.peek = start.peek,
            !.pos = Min({start.peek.pos, Len(p.input) - 1})]

\* A round of eachTokenOf: read a token, then try the kinds on those behind it.  The
\* token at which they fail is the next that is read, and is not tried as the first
\* of them.
ReadRound(kinds, r) ==
  LET after[j \in 0 .. Len(kinds)] ==
        NextToken(IF j = 0 THEN r.parser ELSE after[j - 1])
      fits == Min({Len(kinds)} \cup
                  {j \in 0 .. Len(kinds) - 1 : after[j].peek.kind # kinds[j + 1]})
  IN  IF after[0].peek.kind = "EOF" THEN [r EXCEPT !.state = "missing"]
      ELSE [state  |-> IF fits = Len(kinds) THEN "found" ELSE "reading",
            tokens |-> r.tokens \o [j \in 1 .. fits + 1 |-> after[j - 1].curr],
            parser |-> after[fits]]

OrBack(p, last) ==
  LET ok == last.state = "found"
  IN  [ok |-> ok, tokens |-> last.tokens,
       parser |-> IF ok THEN last.parser ELSE SeekToken(last.parser, p)]

\* eachTokenOf: read up to a run of tokens of these kinds, or go back.  No text has
\* as many tokens as it gets rounds.
EachTokenOf(p, kinds) ==
  LET Round(r) == IF r.state = "reading" THEN ReadRound(kinds, r) ELSE r
  IN  OrBack(p, Rounds(Round, [state |-> "reading", tokens |-> <<>>, parser |-> p],
                       Len(p.input) + 2))

Join(s, tokens) == FlattenSeq([k \in DOMAIN tokens |-> Literal(s, tokens[k])])

-----------------------------------------------------------------------------
(* parseAttributes.                                                        *)

\* MUTANT of QuoteEnd: a backslash means nothing.
QuoteEndPlain(s, p) ==
  LET ends == {q \in p + 1 .. Len(s) - 1 : At(s, q) = Quote}
  IN  IF ends = {} THEN -1 ELSE Min(ends)

\* The quote that ends what the one at p begins.
QuoteEnd(s, p) ==
  LET end[q \in p .. Len(s) + 1] ==
        CASE At(s, q + 1) = NUL   -> -1
          [] At(s, q + 1) = Quote -> q + 1
          [] At(s, q + 1) = "\\"  -> end[q + 2]
          [] OTHER -> end[q + 1]
  IN  end[p]

\* Where the value behind the "=" at p ends, or -1.  What is quoted, and a word,
\* takes the symbol that follows with it.
ValueEnd(s, p) ==
  LET last  == Len(s) - 1
      digit == Run(s, p, Digits)
      word  == Run(s, p, Letters)
      quote == QuoteEnd(s, p + 1)
  IN  CASE At(s, p + 1) = Quote -> IF quote < 0 THEN -1 ELSE Min({quote + 1, last})
        [] digit > p -> digit
        [] word > p  -> Min({word + 1, last})
        [] OTHER     -> -1

\* One attribute behind position at, unless what is there is not one.
AttributeRound(s, r) ==
  LET start == Run(s, r.at, {Blank})
      end   == Run(s, start, NameChars)
      value == ValueEnd(s, end + 1)
      With(v) == [n \in DOMAIN r.opts \cup {Span(s, start + 1, end)} |->
                    IF n = Span(s, start + 1, end) THEN v ELSE r.opts[n]]
  IN  CASE end > start /\ At(s, end + 1) \in {Blank, NUL} ->
             [at |-> Min({end + 1, Len(s) - 1}), opts |-> With(<<>>)]
        [] end > start /\ At(s, end + 1) = "=" /\ value >= 0 ->
             [at |-> value, opts |-> With(Span(s, end + 2, value))]
        [] OTHER -> r

ParseAttributes(content) ==
  LET s == TrimSpace(content)
      Round(r) == AttributeRound(s, r)
  IN  Rounds(Round, [at |-> -1, opts |-> <<>>], Len(s)).opts

\* nodeElem.Str: without the quotes, if it has them at both ends.
Str(value) ==
  IF Len(value) >= 2 /\ Head(value) = Quote /\ Last(value) = Quote
  THEN SubSeq(value, 2, Len(value) - 1) ELSE value

-----------------------------------------------------------------------------
(* parseElem and parse.                                                    *)

\* An element, with the part of the text it was read from as history.
Node(s, ident, attributes, content, p, q) ==
  [kind |-> "node", expr |-> ident, attributes |-> attributes,
   content |-> content, first |-> p.curr.first, last |-> q.curr.pos]

StrElem(s, t) ==
  [kind |-> "str", expr |-> <<>>, attributes |-> <<>>, content |-> Literal(s, t),
   first |-> t.first, last |-> t.pos]

\* MUTANT of CountIdentifier: an opening at the start of tok is overlooked.
CountIdentifierLater(s, ident, tok) ==
  Cardinality({k \in 2 .. Len(tok) - 2 :
     tok[k].kind = "Lt" /\ tok[k + 1].kind = "ident" /\ tok[k + 2].kind = "Rt"
     /\ Literal(s, tok[k + 1]) = ident})

\* How many times tok opens ident, as <ident> or <ident/>.
CountIdentifier(s, ident, tok) ==
  LET kind(k) == IF k \in DOMAIN tok THEN tok[k].kind ELSE "nil"
  IN  Cardinality({k \in DOMAIN tok :
        /\ kind(k) = "Lt" /\ kind(k + 1) = "ident"
        /\ Literal(s, tok[k + 1]) = ident
        /\ \/ kind(k + 2) = "Rt"
           \/ kind(k + 2) = "sL" /\ kind(k + 3) = "Rt"})

\* MUTANT of Content: a token of the closing tag stays.
ContentLong(tokens) == SubSeq(tokens, 1, Len(tokens) - 3)

\* All but the closing tag.
Content(tokens) == SubSeq(tokens, 1, Len(tokens) - 4)

ClosingTag == <<"Lt", "sL", "ident", "Rt">>

\* A stretch of tokens ends in a closing tag.  It closes the element if the tag is
\* that of ident and nothing is open.  Behind the last closing tag an element that has
\* opened others ends with that tag, whosever it is, and one that has not is none.
Stretch(ident, r, next) ==
  LET tok    == next.tokens
      opened == CountIdentifier(r.parser.input, ident, tok)
      nested == (IF opened > 0 /\ r.count = -1 THEN 0 ELSE r.count) + opened
      Read(state, count) ==
        [state |-> state, parser |-> next.parser, cache |-> r.cache \o tok, count |-> count]
  IN  CASE ~next.ok ->
             [r EXCEPT !.state = IF r.count = -1 THEN "none" ELSE "closed", !.parser = next.parser]
        [] next.ok /\ Literal(r.parser.input, tok[Len(tok) - 1]) # ident -> Read("open", r.count)
        [] OTHER -> IF nested > 0 THEN Read("open", nested - 1) ELSE Read("closed", nested)

CloseRound(ident, r) == Stretch(ident, r, EachTokenOf(r.parser, ClosingTag))

\* The content of the element of p behind its tag, where q is, and its end.
Close(p, q, ident) ==
  LET Round(r) == IF r.state = "open" THEN CloseRound(ident, r) ELSE r
      last == Rounds(Round, [state |-> "open", parser |-> q, cache |-> <<>>, count |-> -1],
                     Len(p.input) + 1)
  IN  IF last.state = "closed"
      THEN [ok |-> TRUE, parser |-> last.parser, content |-> Join(p.input, Content(last.cache))]
      ELSE [ok |-> FALSE, parser |-> SeekToken(last.parser, p), content |-> <<>>]

Found(p, ident, attributes, close) ==
  [ok |-> close.ok, parser |-> close.parser,
   elem |-> IF close.ok THEN Node(p.input, ident, attributes, close.content, p, close.parser)
            ELSE StrElem(p.input, p.curr)]

\* parseElem behind the tag that opens an element, or where none is.
Opened(p, ident, open) ==
  LET tokens  == open.tokens
      slashed == Len(tokens) > 2 /\ tokens[Len(tokens) - 1].kind = "sL"
      Attributes(n) ==
        ParseAttributes(Join(p.input, SubSeq(tokens, 2, Len(tokens) - n)))
      empty   == [ok |-> TRUE, parser |-> open.parser, content |-> <<>>]
  IN  CASE ~open.ok -> Found(p, ident, <<>>, [empty EXCEPT !.ok = FALSE])
        [] open.ok /\ slashed -> Found(p, ident, Attributes(2), empty)
        [] OTHER -> Found(p, ident, Attributes(1),
                      Close(p, open.parser, ident))

ParseElem(p) ==
  LET ident == Literal(p.input, p.peek)
  IN  IF p.curr.kind = "Lt" /\ p.peek.kind = "ident" /\ ident \in Schemas
      THEN Opened(p, ident, EachTokenOf(p, <<"Rt">>))
      ELSE [ok |-> FALSE, parser |-> p, elem |-> StrElem(p.input, p.curr)]

\* A round of parse: an element, or the token as a string.
ParseRound(r) ==
  LET next == ParseElem(r.parser)
  IN  IF r.parser.curr.kind = "EOF" THEN r
      ELSE [parser |-> NextToken(next.parser), elems |-> Append(r.elems, next.elem)]

\* Each round reads a token at least.
ParseFrom(p) == Rounds(ParseRound, [parser |-> p, elems |-> <<>>], Len(p.input))

VARIABLES
  parser,  \* the text, the lexer's position, the current and the next token
  elems,   \* what the last call of Parse has returned
  parses   \* history: how many calls there have been

vars == <<parser, elems, parses>>

Init ==
  /\ parser = [input |-> <<>>, pos |-> -1, curr |-> Nil, peek |-> Nil]
  /\ elems = <<>>
  /\ parses = 0

\* currTokenIs, on a parser that has no tokens yet, reads two.
Primed(p) == IF p.curr # Nil THEN p ELSE NextToken(NextToken(p))

\* A new lexer.  The tokens stay what they are.
Restarted(text) == [parser EXCEPT !.input = text, !.pos = -1]

\* Bound: a parser is used twice, the second time for a short text.
Parse(text) ==
  /\ parses = 0 \/ (parses = 1 /\ Len(text) <= 1)
  /\ \E r \in {ParseFrom(Primed(Restarted(text)))} :
        parser' = r.parser /\ elems' = r.elems
  /\ parses' = parses + 1

Next == \E text \in Texts : Parse(text)

Spec == Init /\ [][Next]_vars

-----------------------------------------------------------------------------
(* Properties.                                                             *)

input == parser.input
Nodes == {k \in DOMAIN elems : elems[k].kind = "node"}
Text(e) == Span(input, e.first, e.last)

\* The tokens of s, joined: rune 0 is no token, and where a blank stands in the
\* place of a name the symbol before it is read twice.
Literals(s) ==
  LET twice(k) == At(s, k) = Blank /\ AfterOpening(s, k)
  IN  FlattenSeq([k \in DOMAIN s |->
        IF s[k] = NUL THEN <<>> ELSE IF twice(k) THEN <<s[k], s[k]>> ELSE <<s[k]>>])

\* Where parse stops: at a rune 0 that no element has swallowed.
Stop ==
  Min({Len(input)} \cup
      {q \in 0 .. Len(input) - 1 :
         At(input, q) = NUL /\ \A k \in Nodes : q \notin elems[k].first .. elems[k].last})

\* Strings and elements together are the text, in order: whatever is tried and
\* taken back, nothing is lost and nothing comes twice (parser.go:20-24, 37-54,
\* 159-165).  A parser that has parsed once answers nothing at all: the end of
\* the first text is still its current token (parser.go:32, 59-67).
TextIsKept ==
  IF parses > 1 THEN elems = <<>>
  ELSE FlattenSeq([k \in DOMAIN elems |->
                     IF k \in Nodes THEN Literals(Text(elems[k])) ELSE elems[k].content])
       = Literals(Span(input, 0, Stop - 1))

Places(s, t) == {k \in 1 .. Len(s) - Len(t) + 1 : SubSeq(s, k, k + Len(t) - 1) = t}
Count(s, t)  == Cardinality(Places(s, t))
Opening(ident) == <<"<">> \o ident \o <<">">>
Empty(ident)   == <<"<">> \o ident \o <<"/", ">">>
Closing(ident) == <<"<", "/">> \o ident \o <<">">>

\* The closing tags of ident in s that the parser can see: not behind a rune 0,
\* nor directly behind another tag or a "<".
Visible(ident, s) ==
  {k \in Places(s, Closing(ident)) :
     k > 1 /\ s[k - 1] \notin {">", "<", "/"} /\ NUL \notin {s[j] : j \in 1 .. k}}

\* An element is the tag that opens it, its content, and a closing tag; the tag
\* is its own unless the content opens its name again, and as often as it closes
\* it (parser.go:116-149).
NodeIsEnclosed ==
  \A k \in Nodes :
     LET e    == elems[k]
         text == Literals(Text(e))
         head == SubSeq(text, 1, Min({j \in DOMAIN text : text[j] = ">"}))
         opened == Count(e.content, Opening(e.expr)) + Count(e.content, Empty(e.expr))
     IN  /\ IsPrefix(<<"<">> \o e.expr, head)
         /\ \/ /\ IsSuffix(<<"/", ">">>, text) /\ e.content = <<>>
            \/ \E ident \in Schemas :
                 /\ text = head \o e.content \o Closing(ident)
                 /\ ident # e.expr =>
                      0 < opened /\ Cardinality(Visible(e.expr, e.content)) <= opened

\* A stretch of content in which the parser counts right: plain openings and
\* closings of ident, no other closing tag, and a closing tag never directly
\* behind another tag or a "<".
Counted(ident, s) ==
  /\ Count(s, <<"<", "/">>) = Count(s, Closing(ident))
  /\ Count(s, <<"<">> \o ident) = Count(s, Opening(ident))
  /\ Visible(ident, s) = Places(s, Closing(ident))

Later(e) == Span(input, e.last + 1, Len(input) - 1)

\* The closing tag that ends an element is the one that belongs to it: what is
\* opened inside is closed inside, or there is no closing tag left
\* (parser.go:134-148).
NestingIsRight ==
  \A k \in Nodes :
     LET e == elems[k]
     IN  Counted(e.expr, e.content) =>
           \/ Count(e.content, Opening(e.expr)) = Count(e.content, Closing(e.expr))
           \/ Visible(e.expr, Later(e)) = {}

\* What opens an element of the schemas and still comes out as a string has no
\* closing tag behind it that the parser can see (parser.go:118-122, 154-190).
MissedHasCause ==
  \A k \in DOMAIN elems, ident \in Schemas :
     LET after == Span(input, elems[k].first, Len(input) - 1)
     IN  elems[k].kind = "str" /\ IsPrefix(Opening(ident), after) =>
           Visible(ident, after) = {}

\* The tag <a .../> with these attributes, a blank before each of them.
Rendered(attrs) ==
  <<"<", "a">> \o
  FlattenSeq([k \in DOMAIN attrs |->
    <<Blank>> \o attrs[k].name \o
    (IF attrs[k].value = <<>> THEN <<>> ELSE <<"=">> \o attrs[k].value)]) \o
  <<"/", ">">>
AttrTexts == {Rendered(attrs) : attrs \in AttrLists}

\* Attributes are read back, one by one and whatever is quoted: a number as it
\* stands, a word or a quoted text with the blank that follows it, so that Str
\* takes the quotes off the last one only (parser.go:192-353, elem.go:69-78).
AttributesAreRead ==
  parses = 1 /\ input \in AttrTexts =>
  \A attrs \in AttrLists : input = Rendered(attrs) =>
     /\ DOMAIN elems[1].attributes = {attrs[k].name : k \in DOMAIN attrs}
     /\ \A k \in DOMAIN attrs :
          LET value == attrs[k].value
              read  == elems[1].attributes[attrs[k].name]
              alone == k = Len(attrs) \/ value = <<>> \/ Head(value) \in Digits
          IN  /\ read = IF alone THEN value ELSE Append(value, Blank)
              /\ alone /\ value # <<>> /\ Head(value) = Quote =>
                   Str(read) = SubSeq(value, 2, Len(value) - 1)
=============================================================================
