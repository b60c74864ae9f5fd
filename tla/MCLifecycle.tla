---------------------------- MODULE MCLifecycle ----------------------------
(* Three hooks of two priorities, and hooks that register others.          *)
EXTENDS Lifecycle

CONSTANTS h1, h2, h3, l1, l2

PackageHooks == {h1, h2, h3}
TwoLate      == {l1, l2}
Every        == PackageHooks \cup TwoLate

WithLate == [h \in Every |-> IF h = h1 THEN 1 ELSE IF h = l2 THEN 20 ELSE 10]

\* No hook registers another; or h2 one of its own rank and h3 a later one; or h1
\* two at once, the later first.
Quiet    == [h \in Every |-> <<>>]
Chained  == [Quiet EXCEPT ![h2] = <<l1>>, ![h3] = <<l2>>]
Twice    == [Quiet EXCEPT ![h1] = <<l2, l1>>]
SomeWays == {Quiet, Chained, Twice}
=============================================================================
