----------------------------- MODULE ListResult -----------------------------
(***************************************************************************)
(* What a pipeline promises to one who drains it alone: the elements of    *)
(* the list, each once and in the order of the list, and the end only      *)
(* after the last of them.                                                 *)
(***************************************************************************)
EXTENDS Naturals, Sequences

CONSTANT Sinks   \* those who may drain it

VARIABLES result,   \* the list each of them is to get: never changes
          got, done

resultVars == <<result, got, done>>

ResultInit == got = [s \in Sinks |-> <<>>] /\ done = {}

NextElement(s) ==
  /\ s \notin done
  /\ Len(got[s]) < Len(result[s])
  /\ got' = [got EXCEPT ![s] = Append(@, result[s][Len(@) + 1])]
  /\ UNCHANGED <<result, done>>

EndOfList(s) ==
  /\ s \notin done
  /\ got[s] = result[s]
  /\ done' = done \cup {s}
  /\ UNCHANGED <<result, got>>

ResultNext == \E s \in Sinks : NextElement(s) \/ EndOfList(s)

ResultSpec == ResultInit /\ [][ResultNext]_resultVars
=============================================================================
