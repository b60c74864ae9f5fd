------------------------------ MODULE MCStream ------------------------------
(* Pipelines of three operations over a source of three elements.          *)
EXTENDS Stream

CONSTANTS slice, slice2, err, one

Elements == {0, 1, 2}
ThreeElements == <<1, 0, 1>>

\* FlatMap makes three elements of 1 and drops 0, Distinct by parity, Map.
Rotate  == [v \in Elements |-> <<(v + 1) % 3>>]
Double  == [v \in Elements |-> IF v = 0 THEN <<>> ELSE <<v, 0, 2>>]
NonZero == [v \in Elements |-> IF v = 0 THEN <<>> ELSE <<v>>]
OddEven == [v \in Elements |-> v % 2]
Growing == <<Double, Rotate, Rotate>>
Plain   == <<NonZero, Rotate, Rotate>>
Built   == {Growing, Plain}

\* Each terminal alone, two that share, and nobody.
AllSinks == {slice, slice2, err, one}
How == [s \in AllSinks |-> IF s = err THEN "RangeErr" ELSE IF s = one THEN "One"
                           ELSE "ToSlice"]
Draining == {{slice}, {err}, {one}, {slice, slice2}, {}}
=============================================================================
