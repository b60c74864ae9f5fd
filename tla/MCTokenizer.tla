---------------------------- MODULE MCTokenizer ----------------------------
(* Texts built from tags and pieces of text, and lists of attributes.      *)
EXTENDS Tokenizer

CONSTANTS MaxTags,   \* bound: how many tags make a text
          MaxPieces  \* bound: how many pieces of any kind do

Names == {<<"a">>, <<"b">>}

\* What nests, and what only looks like a tag.
Tags ==
  {Opening(<<"a">>), <<"<", "a", " ", "k", ">">>, Empty(<<"a">>), Closing(<<"a">>),
   <<"x">> \o Closing(<<"a">>), <<"x">> \o Closing(<<"b">>)}
Odds ==
  {<<"<">>, <<"/">>, <<Blank>>, <<NUL>>, <<"x", "\\", ">">>, Opening(<<"a">>),
   Closing(<<"a">>), <<"x">> \o Closing(<<"a">>), Opening(<<"b">>)}

UpTo(max, pieces) == {FlattenSeq(t) : t \in UNION {[1 .. n -> pieces] : n \in 0 .. max}}

\* A switch, a number, a word, and quoted texts with a blank, a quote, a tag.
Values ==
  {<<>>, <<"1", "2">>, <<"v", "k">>, <<Quote, "v", Quote>>, <<Quote, Quote>>,
   <<Quote, "v", Blank, "k", Quote>>, <<Quote, "v", "\\", Quote, Quote>>,
   <<Quote, "/", "v", "\\", ">", Quote>>}
Lists ==
  LET of(name) == {[name |-> name, value |-> v] : v \in Values}
  IN  {<<x>> : x \in of(<<"k">>)} \cup
      {<<x, y, z>> : x \in of(<<"k">>), y \in of(<<"v", "1">>), z \in of(<<"_">>)}

Built == UpTo(MaxTags, Tags) \cup UpTo(MaxPieces, Odds)
           \cup {Rendered(attrs) : attrs \in Lists}
=============================================================================
