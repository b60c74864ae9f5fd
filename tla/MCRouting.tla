----------------------------- MODULE MCRouting -----------------------------
(* Offers that share an id within a type and across types.                 *)
EXTENDS Routing, TLC

\* Requests and contexts are interchangeable.
Symmetry == Permutations(Requests) \cup Permutations(Slots)

\* Two relays that both serve "m", an image offer that retries, one with a
\* negative number of retries, and one with no models.
Varied ==
  {[typed |-> "relay", mod |-> {"m"}, relay |-> "a", retry |-> 0],
   [typed |-> "relay", mod |-> {"m", "n"}, relay |-> "b", retry |-> 0],
   [typed |-> "image", mod |-> {"m"}, relay |-> "c", retry |-> 2],
   [typed |-> "image", mod |-> {"n"}, relay |-> "d", retry |-> -1],
   [typed |-> "relay", mod |-> {}, relay |-> "e", retry |-> 0]}

\* One relay and no choice.
Single == {[typed |-> "relay", mod |-> {"m"}, relay |-> "a", retry |-> 0]}
=============================================================================
