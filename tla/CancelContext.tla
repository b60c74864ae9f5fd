--------------------------- MODULE CancelContext ---------------------------
(***************************************************************************)
(* What a cancellation context promises to the code that holds it: it is   *)
(* open, then done, once, and the error it reports when it is done is set  *)
(* at that moment and never changes.  AbortContext implements it.          *)
(***************************************************************************)
CONSTANTS None,      \* what Err() answers while the context is open
          Errors     \* the errors a finished context can report

VARIABLES done, err

ctxVars == <<done, err>>

CtxInit == done = FALSE /\ err = None

\* The context finishes with error e; a finished context never moves again.
Finish(e) == /\ ~done
             /\ done' = TRUE
             /\ err' = e

CtxNext == \E e \in Errors : Finish(e)

CtxSpec == CtxInit /\ [][CtxNext]_ctxVars
=============================================================================
