---------------------------- MODULE AbortContext ----------------------------
(***************************************************************************)
(* internal/v1/abort.go: the context a chat completion runs under.         *)
(*                                                                         *)
(* newAbort starts two goroutines and returns a cancel function.  The      *)
(* poller looks at the client's connection and leaves a byte in ch when it *)
(* is gone; the watcher waits for the parent context, for ch or for done   *)
(* itself; any number of callers may run cancel.  They all meet on done,   *)
(* an UNBUFFERED channel that is first sent on and then closed:            *)
(*                                                                         *)
(*     select { case <-done: default: done <- {}; err = ...; close(done) } *)
(*                                                                         *)
(* A send blocks until somebody receives, the receiver may be anybody who  *)
(* looks at done (the watcher, another cancel, a Done() listener, an Err() *)
(* call), and the check, the send, the store and the close are four steps. *)
(***************************************************************************)
EXTENDS Naturals, FiniteSets

CONSTANTS Cancellers,     \* calls of the cancel function
          Listeners,      \* goroutines that use Done() and Err()
          Watcher,        \* the goroutine started last in newAbort
          CanDisconnect   \* may the client go away?

ASSUME ActorsAssumption ==
  /\ Watcher \notin Cancellers
  /\ Cancellers \cap Listeners = {}
  /\ CanDisconnect \in BOOLEAN

Closers == Cancellers \cup {Watcher}

None      == "nil"
Canceled  == "canceled"
ParentErr == "parent error"
Torn      == "torn"       \* an interface value read half-way through a store

VARIABLES
  closed,       \* done has been closed
  err,          \* abortCtx.err
  loop,         \* the flag the poller runs on
  ch,           \* bytes buffered in ch (capacity 1)
  pc,           \* where each canceller and the watcher is
  poller,       \* where the poller is
  lpc,          \* where each listener is
  answer,       \* what Err() last told each listener
  disconnected, \* the peer has closed the connection
  parentDone,   \* the parent context has ended
  background,   \* the parent is context.Background(), fiber's default, which
                \* never ends: never changes
  racers        \* history: closers that found done open and went on to close

env  == <<disconnected, parentDone, background>>
vars == <<closed, err, loop, ch, pc, poller, lpc, answer, disconnected,
          parentDone, background, racers>>

CloserPC == {"idle", "select", "check", "parentCheck", "toSend", "parked",
             "setErr", "setParentErr", "close", "closed", "returned",
             "panicked"}
PollerPC   == {"test", "probe", "notify", "clear", "exit"}
ListenerPC == {"run", "waiting", "notified", "reading"}

Init ==
  /\ closed = FALSE
  /\ err = None
  /\ loop = TRUE
  /\ ch = 0
  /\ pc = [a \in Closers |-> IF a = Watcher THEN "select" ELSE "idle"]
  /\ poller = "test"
  /\ lpc = [l \in Listeners |-> "run"]
  /\ answer = [l \in Listeners |-> None]
  /\ disconnected = FALSE
  /\ parentDone = FALSE
  /\ background \in BOOLEAN
  /\ racers = {}

\* A panic in the watcher goroutine has nobody to recover it.
Crashed == pc[Watcher] = "panicked"

-----------------------------------------------------------------------------
(* The channel done.                                                       *)

Parked == {a \in Closers : pc[a] = "parked"}

\* A receive from done can complete now: it is closed, or a sender waits.
Receivable == closed \/ Parked # {}

\* MUTANT of Receive: the released sender forgets to store and close.
ReceiveAndForget(closersPC) ==
  \/ closed /\ pc' = closersPC
  \/ /\ ~closed
     /\ \E s \in Parked : pc' = [closersPC EXCEPT ![s] = "returned"]

\* What a receive does to the closers: nothing when done is closed, else it
\* releases one parked sender.
Receive(closersPC) ==
  \/ closed /\ pc' = closersPC
  \/ /\ ~closed
     /\ \E s \in Parked : pc' = [closersPC EXCEPT ![s] = "setErr"]

\* MUTANT of CheckDone: goes on to send and close without looking at done.
CheckNothing(a, next) ==
  /\ pc' = [pc EXCEPT ![a] = next]
  /\ racers' = IF closed THEN racers ELSE racers \cup {a}

\* select { case <-done: ... default: ... }, for the closer a: leave if the
\* receive is possible, else go on to next.
CheckDone(a, next) ==
  \/ /\ Receivable
     /\ Receive([pc EXCEPT ![a] = "returned"])
     /\ UNCHANGED racers
  \/ /\ ~Receivable
     /\ pc' = [pc EXCEPT ![a] = next]
     /\ racers' = racers \cup {a}

-----------------------------------------------------------------------------
(* cancel, and the part of the watcher that has the same shape.            *)

\* MUTANT of CancelCall: leaves the poller running.
CancelCallKeepsLoop(c) ==
  /\ pc[c] = "idle"
  /\ pc' = [pc EXCEPT ![c] = "check"]
  /\ UNCHANGED <<closed, err, loop, ch, poller, lpc, answer, env, racers>>

CancelCall(c) ==
  /\ pc[c] = "idle"
  /\ loop' = FALSE
  /\ pc' = [pc EXCEPT ![c] = "check"]
  /\ UNCHANGED <<closed, err, ch, poller, lpc, answer, env, racers>>

Check(a) ==
  /\ pc[a] = "check"
  /\ CheckDone(a, "toSend")
  /\ UNCHANGED <<closed, err, loop, ch, poller, lpc, answer, env>>

\* done <- struct{}{}: wait for a receiver; on a closed channel, panic.
Send(a) ==
  /\ \/ pc[a] = "toSend" /\ ~closed /\ pc' = [pc EXCEPT ![a] = "parked"]
     \/ pc[a] \in {"toSend", "parked"} /\ closed
        /\ pc' = [pc EXCEPT ![a] = "panicked"]
  /\ UNCHANGED <<closed, err, loop, ch, poller, lpc, answer, env, racers>>

\* MUTANT of SetErr: every branch copies the parent's error, nil while it runs.
SetErrOfParent(a) ==
  /\ pc[a] \in {"setErr", "setParentErr"}
  /\ err' = IF parentDone THEN ParentErr ELSE None
  /\ pc' = [pc EXCEPT ![a] = "close"]
  /\ UNCHANGED <<closed, loop, ch, poller, lpc, answer, env, racers>>

\* MUTANT of SetErr: the error is the one the socket reported.
SetSocketErr(a) ==
  /\ pc[a] \in {"setErr", "setParentErr"}
  /\ err' = "ECONNRESET"
  /\ pc' = [pc EXCEPT ![a] = "close"]
  /\ UNCHANGED <<closed, loop, ch, poller, lpc, answer, env, racers>>

SetErr(a) ==
  /\ \/ pc[a] = "setErr" /\ err' = Canceled
     \/ pc[a] = "setParentErr" /\ err' = ParentErr
  /\ pc' = [pc EXCEPT ![a] = "close"]
  /\ UNCHANGED <<closed, loop, ch, poller, lpc, answer, env, racers>>

Close(a) ==
  /\ pc[a] = "close"
  /\ closed' = TRUE
  /\ pc' = [pc EXCEPT ![a] = IF closed THEN "panicked" ELSE "closed"]
  /\ UNCHANGED <<err, loop, ch, poller, lpc, answer, env, racers>>

CloserStep(a) == Check(a) \/ Send(a) \/ SetErr(a) \/ Close(a)

-----------------------------------------------------------------------------
(* The watcher: select over the parent, ch and done.                       *)

WatchParent ==
  /\ pc[Watcher] = "select"
  /\ parentDone
  /\ pc' = [pc EXCEPT ![Watcher] = "parentCheck"]
  /\ UNCHANGED <<closed, err, loop, ch, poller, lpc, answer, env, racers>>

\* On this branch the watcher closes without sending first.
ParentCheck ==
  /\ pc[Watcher] = "parentCheck"
  /\ CheckDone(Watcher, "setParentErr")
  /\ UNCHANGED <<closed, err, loop, ch, poller, lpc, answer, env>>

\* MUTANT of WatchClient: returns as soon as the client is gone.
WatchClientLeaves ==
  /\ pc[Watcher] = "select"
  /\ ch = 1
  /\ ch' = 0
  /\ pc' = [pc EXCEPT ![Watcher] = "returned"]
  /\ UNCHANGED <<closed, err, loop, poller, lpc, answer, env, racers>>

WatchClient ==
  /\ pc[Watcher] = "select"
  /\ ch = 1
  /\ ch' = 0
  /\ pc' = [pc EXCEPT ![Watcher] = "check"]
  /\ UNCHANGED <<closed, err, loop, poller, lpc, answer, env, racers>>

WatchDone ==
  /\ pc[Watcher] = "select"
  /\ Receive([pc EXCEPT ![Watcher] = "returned"])
  /\ UNCHANGED <<closed, err, loop, ch, poller, lpc, answer, env, racers>>

WatcherStep == \/ WatchParent \/ ParentCheck \/ WatchClient \/ WatchDone
               \/ CloserStep(Watcher)

-----------------------------------------------------------------------------
(* The poller: for loop { if isClosed(conn) { ch <- 1; loop = false }; ... }*)

PollTest ==
  /\ poller = "test"
  /\ poller' = IF loop THEN "probe" ELSE "exit"
  /\ UNCHANGED <<closed, err, loop, ch, pc, lpc, answer, env, racers>>

\* MUTANT of PollProbe: stops polling but tells nobody.
PollProbeSilent ==
  /\ poller = "probe"
  /\ poller' = IF disconnected THEN "clear" ELSE "test"
  /\ UNCHANGED <<closed, err, loop, ch, pc, lpc, answer, env, racers>>

\* isClosed peeks at the socket; the sleep between two rounds is the step back.
PollProbe ==
  /\ poller = "probe"
  /\ poller' = IF disconnected THEN "notify" ELSE "test"
  /\ UNCHANGED <<closed, err, loop, ch, pc, lpc, answer, env, racers>>

PollNotify ==
  /\ poller = "notify"
  /\ ch = 0
  /\ ch' = 1
  /\ poller' = "clear"
  /\ UNCHANGED <<closed, err, loop, pc, lpc, answer, env, racers>>

PollClear ==
  /\ poller = "clear"
  /\ loop' = FALSE
  /\ poller' = "test"
  /\ UNCHANGED <<closed, err, ch, pc, lpc, answer, env, racers>>

PollerStep == PollTest \/ PollProbe \/ PollNotify \/ PollClear

-----------------------------------------------------------------------------
(* The relay's side: it blocks on Done() or asks Err() whenever it likes.  *)

Listen(l) ==
  /\ lpc[l] = "run"
  /\ lpc' = [lpc EXCEPT ![l] = "waiting"]
  /\ UNCHANGED <<closed, err, loop, ch, pc, poller, answer, env, racers>>

Notified(l) ==
  /\ lpc[l] = "waiting"
  /\ Receive(pc)
  /\ lpc' = [lpc EXCEPT ![l] = "notified"]
  /\ UNCHANGED <<closed, err, loop, ch, poller, answer, env, racers>>

\* MUTANT of AskErr: only a waiting sender counts, a closed channel does not.
AskErrIgnoresClose(l) ==
  /\ lpc[l] \in {"run", "notified"}
  /\ \/ /\ Parked # {}
        /\ Receive(pc)
        /\ lpc' = [lpc EXCEPT ![l] = "reading"]
        /\ UNCHANGED answer
     \/ /\ Parked = {}
        /\ answer' = [answer EXCEPT ![l] = None]
        /\ lpc' = [lpc EXCEPT ![l] = "run"]
        /\ UNCHANGED pc
  /\ UNCHANGED <<closed, err, loop, ch, poller, env, racers>>

\* Err(): a receive that is possible leads to the error, else the answer is nil.
AskErr(l) ==
  /\ lpc[l] \in {"run", "notified"}
  /\ \/ /\ Receivable
        /\ Receive(pc)
        /\ lpc' = [lpc EXCEPT ![l] = "reading"]
        /\ UNCHANGED answer
     \/ /\ ~Receivable
        /\ answer' = [answer EXCEPT ![l] = None]
        /\ lpc' = [lpc EXCEPT ![l] = "run"]
        /\ UNCHANGED pc
  /\ UNCHANGED <<closed, err, loop, ch, poller, env, racers>>

\* abortCtx.err is read without a lock: while a closer stores another value the
\* two words of the interface may not belong together.
Readable ==
  {err} \cup
  {Torn : a \in {x \in Closers : \/ pc[x] = "setErr" /\ err # Canceled
                                 \/ pc[x] = "setParentErr" /\ err # ParentErr}}

ReadErr(l) ==
  /\ lpc[l] = "reading"
  /\ \E e \in Readable : answer' = [answer EXCEPT ![l] = e]
  /\ lpc' = [lpc EXCEPT ![l] = "run"]
  /\ UNCHANGED <<closed, err, loop, ch, pc, poller, env, racers>>

ListenerStep(l) == Notified(l) \/ AskErr(l) \/ ReadErr(l)

-----------------------------------------------------------------------------
(* The world outside.                                                      *)

Disconnect ==
  /\ CanDisconnect /\ ~disconnected
  /\ disconnected' = TRUE
  /\ UNCHANGED <<closed, err, loop, ch, pc, poller, lpc, answer, parentDone,
                 background, racers>>

ParentEnds ==
  /\ ~background /\ ~parentDone
  /\ parentDone' = TRUE
  /\ UNCHANGED <<closed, err, loop, ch, pc, poller, lpc, answer,
                 disconnected, background, racers>>

Next ==
  /\ ~Crashed
  /\ \/ \E c \in Cancellers : CancelCall(c) \/ CloserStep(c)
     \/ WatcherStep
     \/ PollerStep
     \/ \E l \in Listeners : Listen(l) \/ ListenerStep(l)
     \/ Disconnect
     \/ ParentEnds

Spec == Init /\ [][Next]_vars

\* The Go scheduler runs every goroutine that can run.  Whether anybody calls
\* cancel, listens, disconnects or ends the parent is not promised.
Fairness ==
  /\ \A c \in Cancellers : WF_vars(~Crashed /\ CloserStep(c))
  /\ WF_vars(~Crashed /\ WatcherStep)
  /\ WF_vars(~Crashed /\ PollerStep)
  /\ \A l \in Listeners : WF_vars(~Crashed /\ (Notified(l) \/ ReadErr(l)))

FairSpec == Spec /\ Fairness

-----------------------------------------------------------------------------
(* Safety.                                                                 *)

TypeOK ==
  /\ closed \in BOOLEAN
  /\ err \in {None, Canceled, ParentErr}
  /\ loop \in BOOLEAN
  /\ ch \in {0, 1}
  /\ pc \in [Closers -> CloserPC]
  /\ pc[Watcher] # "idle"
  /\ poller \in PollerPC
  /\ lpc \in [Listeners -> ListenerPC]
  /\ answer \in [Listeners -> {None, Canceled, ParentErr, Torn}]
  /\ disconnected \in BOOLEAN
  /\ parentDone \in BOOLEAN /\ background \in BOOLEAN
  /\ racers \subseteq Closers

\* A context that is done has an error: whichever closer closes the channel, it
\* or a rival has stored one before (abort.go:34-35, 58-59, 68-69).
ClosedHasError == closed => err # None

\* "send on closed channel" and "close of closed channel" (abort.go:33, 35, 59,
\* 67, 69) happen only when two closers found done open at the same time: calls
\* of cancel and disconnections that come one after another never panic.
PanicNeedsRace ==
  (\E a \in Closers : pc[a] = "panicked") =>
     \E a, b \in racers : a # b

\* Whoever got past done - a listener, an Err() call, a cancel or the watcher -
\* got past it because the context is closed or somebody is about to close it:
\* no wake-up is spurious, although most are sent before the close.
WakeupIsHonest ==
  \/ \E a \in Closers : pc[a] = "returned"
  \/ \E l \in Listeners : lpc[l] \in {"notified", "reading"}
  => \/ closed
     \/ \E a \in Closers : pc[a] \in {"setErr", "close"}

\* A cancel that races with nobody always finds the watcher ready to take the
\* value it sends (abort.go:33 against 73), whatever the client, the parent and
\* the listeners do: the call cannot block for ever on its own.
LoneCancelHasReceiver ==
  \A c \in Cancellers :
     /\ pc[c] \in {"toSend", "parked"}
     /\ ~closed
     /\ racers = {c}
     => pc[Watcher] \in {"select", "check", "parentCheck"}

\* Without a parent that ends, an Err() call on a closed context answers
\* Canceled: never nil, never half an error, however many closers collide.
AnswerIsFinal ==
  [][\A l \in Listeners :
       background /\ closed /\ lpc'[l] = "run" /\ lpc[l] # "run" => answer'[l] = Canceled]_vars

\* With such a parent the done channel and Err() behave as a cancellation
\* context: done once, with an error that never changes afterwards.
Ctx == INSTANCE CancelContext
         WITH None <- None, Errors <- {Canceled, ParentErr},
              done <- background /\ closed,
              err  <- IF background /\ closed THEN err ELSE None

ImplementsContext == Ctx!CtxSpec

-----------------------------------------------------------------------------
(* Liveness.                                                               *)

Called(c) == pc[c] # "idle"

\* A cancel that is alone, with a client and a parent that stay: the call comes
\* back, the context is done, and neither goroutine of newAbort is left behind
\* (abort.go:27-49).
CancelReleasesAll ==
  \A c \in Cancellers :
     pc[c] = "check" ~> \/ /\ pc[c] = "closed"
                           /\ closed
                           /\ pc[Watcher] = "returned"
                           /\ poller = "exit"
                        \/ disconnected \/ parentDone
                        \/ \E d \in Cancellers \ {c} : Called(d)

\* Nobody cancels and the client goes away: if somebody listens, the context is
\* done and both goroutines end (abort.go:41-76).
DisconnectReleasesAll ==
  /\ disconnected
  /\ \E l \in Listeners : lpc[l] = "waiting"
  ~> \/ closed /\ pc[Watcher] = "closed" /\ poller = "exit"
     \/ \E c \in Cancellers : Called(c)

\* Nothing newAbort starts is left behind, by a lone cancel or by a
\* disconnection somebody listens for.
GoroutinesEnd == CancelReleasesAll /\ DisconnectReleasesAll

-----------------------------------------------------------------------------
(* What a comment of abort.go says, and the code does not do.              *)

\* abort.go:19 "creates a Context that listens for the client disconnecting":
\* after a disconnection the context becomes done.
DisconnectCloses == disconnected ~> closed
=============================================================================
