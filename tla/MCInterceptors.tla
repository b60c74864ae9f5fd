--------------------------- MODULE MCInterceptors ---------------------------
(* Streams over different alphabets, with and without configured matchers. *)
EXTENDS Interceptors

\* As a configuration file may have them: an entry without regex, three by
\* steps, which remove text, make some, and fail, one between marks, and one
\* behind it that is never installed.
Step(match, pattern, replacement) ==
  [match |-> match, over |-> <<>>, regex |-> "rule", pattern |-> pattern,
   replacement |-> replacement, malformed |-> FALSE, thinkReason |-> FALSE, max |-> 1]

SomeObjs ==
  <<[Step(<<"x">>, <<"x">>, <<>>) EXCEPT !.regex = "none"],
    Step(<<" ">>, <<" ">>, <<>>),
    Step(<<"K">>, <<"K">>, <<"x", "K">>),
    [Step(<<"k">>, <<"k">>, <<"<">>) EXCEPT !.malformed = TRUE],
    [Step(<<"i">>, <<"T">>, <<"t">>) EXCEPT !.over = <<"T">>, !.thinkReason = TRUE,
                                            !.max = 0],
    [Step(<<"t">>, <<"t">>, <<>>) EXCEPT !.regex = "blank"]>>

ThinkSymbols == {"<", "k", "K", "x"}
CallSymbols  == {"<", "t", "T", "i", " "}
TagSymbols   == {"<", "k", "K", "t", "T", "i", "x"}

Mixed        == {"<", "k", "t", "T"}

Streamed == {ThinkSymbols, CallSymbols, Mixed}
Missed   == {TagSymbols}

Lengths     == [a \in Streamed |-> IF a = CallSymbols THEN 5 ELSE 6]
MissLengths == [a \in Missed |-> 3]
=============================================================================
