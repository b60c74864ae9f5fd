----------------------------- MODULE ServerProofs -----------------------------
(***************************************************************************)
(* Proofs about internal/v1: AbortContext for any number of cancel calls   *)
(* and listeners, and Routing for any number of requests, contexts and     *)
(* offers.  The two modules share no state.                                *)
(***************************************************************************)
EXTENDS AbortContext, Routing, TLAPS

-----------------------------------------------------------------------------
(***************************************************************************)
(* AbortContext.  The properties rest on one inductive invariant: who is   *)
(* past the check of done is in racers, a closed channel has a closer that *)
(* closed it, a panic is only met on a closed channel, an error is stored  *)
(* before the close, and a wake-up without a close has a sender behind it. *)
(***************************************************************************)

\* The program counters of a closer that has passed the check of done.
PastCheck == {"toSend", "parked", "setErr", "setParentErr", "close", "closed",
              "panicked"}

PastCheckRaces == \A a \in Closers : pc[a] \in PastCheck => a \in racers
ClosedByOne    == closed => \E a \in Closers : pc[a] = "closed"
PanicOnClosed  == \A a \in Closers : pc[a] = "panicked" => closed
ErrBeforeClose == /\ closed => err # None
                  /\ \A a \in Closers : pc[a] = "close" => err # None

IInv == /\ TypeOK
        /\ PastCheckRaces
        /\ ClosedByOne
        /\ PanicOnClosed
        /\ ErrBeforeClose
        /\ WakeupIsHonest

\* The constants alone decide nothing about the initial state.
LEMMA InitInv == Init => IInv
<1> SUFFICES ASSUME Init PROVE IInv
  OBVIOUS
<1>1. Watcher \in Closers
  BY DEF Closers
<1>2. TypeOK
  BY <1>1 DEF Init, TypeOK, CloserPC, PollerPC, ListenerPC, None, Canceled,
              ParentErr, Torn
<1>3. PastCheckRaces /\ ClosedByOne /\ PanicOnClosed /\ ErrBeforeClose
  BY DEF Init, PastCheckRaces, PastCheck, ClosedByOne, PanicOnClosed,
         ErrBeforeClose
<1>4. WakeupIsHonest
  BY DEF Init, WakeupIsHonest
<1> QED
  BY <1>2, <1>3, <1>4 DEF IInv

\* Every step preserves the types.
LEMMA TypeStep ==
  ASSUME TypeOK, [Next]_vars
  PROVE  TypeOK'
<1> USE DEF TypeOK, env, None, Canceled, ParentErr, Torn
<1>w. Watcher \in Closers
  BY DEF Closers
<1>c. \A c \in Cancellers : c \in Closers /\ (pc[c] = "idle" => c # Watcher)
  BY DEF Closers
<1>r. ASSUME NEW f \in [Closers -> CloserPC], f[Watcher] # "idle", Receive(f)
      PROVE  pc' \in [Closers -> CloserPC] /\ pc'[Watcher] # "idle"
  BY <1>w, <1>r DEF Receive, Parked, CloserPC
<1>1. ASSUME NEW a \in Closers, CloserStep(a)
      PROVE  TypeOK'
  <2>1. CASE Check(a)
    <3>1. [pc EXCEPT ![a] = "returned"] \in [Closers -> CloserPC]
          /\ [pc EXCEPT ![a] = "returned"][Watcher] # "idle"
      BY <1>w DEF CloserPC
    <3>2. pc' \in [Closers -> CloserPC] /\ pc'[Watcher] # "idle"
      BY <1>w, <1>r, <2>1, <3>1 DEF Check, CheckDone, CloserPC
    <3>3. racers' \subseteq Closers
      BY <2>1 DEF Check, CheckDone
    <3> QED BY <2>1, <3>2, <3>3 DEF Check
  <2>2. CASE Send(a)
    BY <1>w, <2>2 DEF Send, CloserPC
  <2>3. CASE SetErr(a)
    BY <1>w, <2>3 DEF SetErr, CloserPC
  <2>4. CASE Close(a)
    BY <1>w, <2>4 DEF Close, CloserPC
  <2> QED BY <1>1, <2>1, <2>2, <2>3, <2>4 DEF CloserStep
<1>2. ASSUME NEW c \in Cancellers, CancelCall(c)
      PROVE  TypeOK'
  BY <1>2, <1>c, <1>w DEF CancelCall, CloserPC
<1>3. CASE WatchParent
  BY <1>3, <1>w DEF WatchParent, CloserPC
<1>4. CASE ParentCheck
  <2>1. [pc EXCEPT ![Watcher] = "returned"] \in [Closers -> CloserPC]
        /\ [pc EXCEPT ![Watcher] = "returned"][Watcher] # "idle"
    BY <1>w DEF CloserPC
  <2>2. pc' \in [Closers -> CloserPC] /\ pc'[Watcher] # "idle"
    BY <1>w, <1>r, <1>4, <2>1 DEF ParentCheck, CheckDone, CloserPC
  <2>3. racers' \subseteq Closers
    BY <1>w, <1>4 DEF ParentCheck, CheckDone
  <2> QED BY <1>4, <2>2, <2>3 DEF ParentCheck
<1>5. CASE WatchClient
  BY <1>5, <1>w DEF WatchClient, CloserPC
<1>6. CASE WatchDone
  <2>1. [pc EXCEPT ![Watcher] = "returned"] \in [Closers -> CloserPC]
        /\ [pc EXCEPT ![Watcher] = "returned"][Watcher] # "idle"
    BY <1>w DEF CloserPC
  <2> QED BY <1>r, <1>6, <2>1 DEF WatchDone
<1>7. CASE PollerStep
  <2>1. CASE PollTest
    BY <2>1 DEF PollTest, PollerPC
  <2>2. CASE PollProbe
    BY <2>2 DEF PollProbe, PollerPC
  <2>3. CASE PollNotify
    BY <2>3 DEF PollNotify, PollerPC
  <2>4. CASE PollClear
    BY <2>4 DEF PollClear, PollerPC
  <2> QED BY <1>7, <2>1, <2>2, <2>3, <2>4 DEF PollerStep
<1>8. ASSUME NEW l \in Listeners, Listen(l) \/ ListenerStep(l)
      PROVE  TypeOK'
  <2>1. CASE Listen(l)
    BY <2>1 DEF Listen, ListenerPC
  <2>2. CASE Notified(l)
    BY <1>r, <2>2 DEF Notified, ListenerPC
  <2>3. CASE AskErr(l)
    BY <1>r, <2>3 DEF AskErr, ListenerPC
  <2>4. CASE ReadErr(l)
    <3>1. Readable \subseteq {None, Canceled, ParentErr, Torn}
      BY DEF Readable
    <3>2. PICK e \in Readable : answer' = [answer EXCEPT ![l] = e]
      BY <2>4 DEF ReadErr
    <3>3. answer' \in [Listeners -> {None, Canceled, ParentErr, Torn}]
      BY <3>1, <3>2
    <3>4. lpc' \in [Listeners -> ListenerPC]
      BY <2>4 DEF ReadErr, ListenerPC
    <3> QED
      BY <2>4, <3>3, <3>4 DEF ReadErr
  <2> QED BY <1>8, <2>1, <2>2, <2>3, <2>4 DEF ListenerStep
<1>9. CASE Disconnect \/ ParentEnds
  BY <1>9 DEF Disconnect, ParentEnds
<1>10. CASE UNCHANGED vars
  BY <1>10 DEF vars
<1> QED
  BY <1>1, <1>2, <1>3, <1>4, <1>5, <1>6, <1>7, <1>8, <1>9, <1>10, <1>w, <1>c
  DEF Next, WatcherStep

\* Every step preserves the invariant.
LEMMA InvStep ==
  ASSUME IInv, [Next]_vars
  PROVE  IInv'
<1> USE DEF IInv
<1>t. TypeOK'
  BY TypeStep
<1>w. Watcher \in Closers /\ pc \in [Closers -> CloserPC]
  BY DEF Closers, TypeOK
<1>p. PastCheckRaces /\ ClosedByOne /\ PanicOnClosed /\ ErrBeforeClose /\ WakeupIsHonest
  OBVIOUS
<1> USE DEF PastCheckRaces, PastCheck, ClosedByOne, PanicOnClosed,
            ErrBeforeClose, WakeupIsHonest
\* A receive, together with whatever else its step does.
<1>r. ASSUME NEW f \in [Closers -> CloserPC], Receive(f),
             \A a \in Closers : f[a] = pc[a] \/ (f[a] = "returned" /\ pc[a] \notin PastCheck),
             closed' = closed, err' = err, racers' = racers
      PROVE  IInv'
  <2>1. CASE closed /\ pc' = f
    BY <1>t, <1>p, <1>r, <2>1
  <2>2. CASE ~closed
    <3>1. PICK s \in Closers : pc[s] = "parked" /\ pc' = [f EXCEPT ![s] = "setErr"]
      BY <1>r, <2>2 DEF Receive, Parked
    <3>2. PastCheckRaces' /\ ClosedByOne' /\ PanicOnClosed' /\ ErrBeforeClose'
      BY <1>p, <1>r, <2>2, <3>1
    <3>3. pc'[s] = "setErr"
      BY <1>r, <3>1
    <3>4. WakeupIsHonest'
      BY <3>3
    <3> QED BY <1>t, <3>2, <3>4
  <2> QED BY <1>r, <2>1, <2>2 DEF Receive
\* A look at done by a closer that has not passed the check yet.
<1>k. ASSUME NEW a \in Closers, NEW next \in {"toSend", "setParentErr"},
             CheckDone(a, next), pc[a] \in {"check", "parentCheck"},
             closed' = closed, err' = err, lpc' = lpc
      PROVE  IInv'
  <2>1. CASE Receivable
    <3>1. [pc EXCEPT ![a] = "returned"] \in [Closers -> CloserPC]
      BY <1>w DEF CloserPC
    <3> QED BY <1>k, <1>r, <1>w, <2>1, <3>1 DEF CheckDone
  <2>2. CASE ~Receivable
    <3>1. pc' = [pc EXCEPT ![a] = next] /\ racers' = racers \cup {a}
      BY <1>k, <2>2 DEF CheckDone
    <3>2. ~closed /\ ~closed'
      BY <1>k, <2>2 DEF Receivable
    <3>3. PastCheckRaces' /\ ClosedByOne' /\ PanicOnClosed' /\ ErrBeforeClose'
      BY <1>k, <1>p, <1>w, <3>1, <3>2
    <3>4. WakeupIsHonest'
      BY <1>k, <1>p, <1>w, <3>1, <3>2
    <3> QED BY <1>t, <3>3, <3>4
  <2> QED BY <2>1, <2>2
<1>1. ASSUME NEW a \in Closers, CloserStep(a)
      PROVE  IInv'
  <2>1. CASE Check(a)
    BY <1>k, <2>1 DEF Check
  <2>2. CASE Send(a)
    <3>1. PastCheckRaces' /\ ClosedByOne' /\ PanicOnClosed' /\ ErrBeforeClose'
      BY <1>p, <1>w, <2>2 DEF Send
    <3>2. WakeupIsHonest'
      BY <1>p, <1>w, <2>2 DEF Send
    <3> QED BY <1>t, <3>1, <3>2
  <2>3. CASE SetErr(a)
    <3>1. PastCheckRaces' /\ ClosedByOne' /\ PanicOnClosed'
      BY <1>p, <1>w, <2>3 DEF SetErr
    <3>2. ErrBeforeClose'
      BY <1>p, <1>w, <2>3 DEF SetErr, None, Canceled, ParentErr
    <3>3. WakeupIsHonest'
      BY <1>p, <1>w, <2>3 DEF SetErr
    <3> QED BY <1>t, <3>1, <3>2, <3>3
  <2>4. CASE Close(a)
    <3>1. PastCheckRaces' /\ ClosedByOne' /\ PanicOnClosed' /\ ErrBeforeClose'
      BY <1>p, <1>w, <2>4 DEF Close
    <3>2. WakeupIsHonest'
      BY <1>p, <1>w, <2>4 DEF Close
    <3> QED BY <1>t, <3>1, <3>2
  <2> QED BY <1>1, <2>1, <2>2, <2>3, <2>4 DEF CloserStep
<1>2. ASSUME NEW c \in Cancellers, CancelCall(c)
      PROVE  IInv'
  <2>1. c \in Closers
    BY DEF Closers
  <2> QED BY <1>2, <1>p, <1>t, <1>w, <2>1 DEF CancelCall
<1>3. CASE WatchParent \/ WatchClient
  BY <1>3, <1>p, <1>t, <1>w DEF WatchParent, WatchClient
<1>4. CASE ParentCheck
  BY <1>4, <1>k, <1>w DEF ParentCheck
<1>5. CASE WatchDone
  <2>1. [pc EXCEPT ![Watcher] = "returned"] \in [Closers -> CloserPC]
    BY <1>w DEF CloserPC
  <2> QED BY <1>5, <1>r, <1>w, <2>1 DEF WatchDone
<1>6. CASE PollerStep
  BY <1>6, <1>p, <1>t DEF PollerStep, PollTest, PollProbe, PollNotify, PollClear
<1>7. ASSUME NEW l \in Listeners, Listen(l) \/ ListenerStep(l)
      PROVE  IInv'
  <2>l. lpc \in [Listeners -> ListenerPC]
    BY DEF TypeOK
  <2>1. CASE Listen(l) \/ ReadErr(l)
    BY <1>p, <1>t, <2>1, <2>l DEF Listen, ReadErr
  <2>2. CASE Notified(l)
    BY <1>r, <1>w, <2>2 DEF Notified
  <2>3. CASE AskErr(l) /\ Receivable
    BY <1>r, <1>w, <2>3 DEF AskErr
  <2>4. CASE AskErr(l) /\ ~Receivable
    BY <1>p, <1>t, <2>4, <2>l DEF AskErr
  <2> QED BY <1>7, <2>1, <2>2, <2>3, <2>4 DEF ListenerStep
<1>8. CASE Disconnect \/ ParentEnds
  BY <1>8, <1>p, <1>t DEF Disconnect, ParentEnds
<1>9. CASE UNCHANGED vars
  BY <1>9, <1>p, <1>t DEF vars
<1>c. \A c \in Cancellers : c \in Closers
  BY DEF Closers
<1> QED
  BY <1>1, <1>2, <1>3, <1>4, <1>5, <1>6, <1>7, <1>8, <1>9, <1>w, <1>c
  DEF Next, WatcherStep

THEOREM Invariance == Spec => []IInv
<1>1. IInv /\ [Next]_vars => IInv'
  BY InvStep
<1> QED
  BY <1>1, InitInv, PTL DEF Spec

\* The variables keep their types, for any set of callers.
THEOREM TypeCorrect == Spec => []TypeOK
<1>1. IInv => TypeOK
  BY DEF IInv
<1> QED
  BY <1>1, Invariance, PTL

\* A closed context always carries an error.
THEOREM DoneHasError == Spec => []ClosedHasError
<1>1. IInv => ClosedHasError
  BY DEF IInv, ErrBeforeClose, ClosedHasError
<1> QED
  BY <1>1, Invariance, PTL

\* Callers that do not overlap never make the handshake panic.
THEOREM PanicsAreRaces == Spec => []PanicNeedsRace
<1>1. IInv => PanicNeedsRace
  <2> SUFFICES ASSUME IInv, NEW a \in Closers, pc[a] = "panicked"
               PROVE  \E x, y \in racers : x # y
    BY DEF PanicNeedsRace
  <2>1. PICK b \in Closers : pc[b] = "closed"
    BY DEF IInv, PanicOnClosed, ClosedByOne
  <2>2. a \in racers /\ b \in racers /\ a # b
    BY <2>1 DEF IInv, PastCheckRaces, PastCheck
  <2> QED BY <2>2
<1> QED
  BY <1>1, Invariance, PTL

\* Nobody gets past done unless the context is closed or about to be.
THEOREM WakeupsAreHonest == Spec => []WakeupIsHonest
<1>1. IInv => WakeupIsHonest
  BY DEF IInv
<1> QED
  BY <1>1, Invariance, PTL

\* A cancel that nobody races has a receiver for the value it sends.
THEOREM LoneCancelIsReceived == Spec => []LoneCancelHasReceiver
<1>1. IInv => LoneCancelHasReceiver
  <2> SUFFICES ASSUME IInv, NEW c \in Cancellers,
                      pc[c] \in {"toSend", "parked"}, ~closed, racers = {c}
               PROVE  pc[Watcher] \in {"select", "check", "parentCheck"}
    BY DEF LoneCancelHasReceiver
  <2>w. Watcher \in Closers /\ c \in Closers /\ c # Watcher
    BY ActorsAssumption DEF Closers
  <2>1. pc[Watcher] \notin PastCheck
    BY <2>w DEF IInv, PastCheckRaces
  <2>2. pc[Watcher] # "returned"
    <3> SUFFICES ASSUME pc[Watcher] = "returned" PROVE FALSE
      OBVIOUS
    <3>1. PICK a \in Closers : pc[a] \in {"setErr", "close"}
      BY <2>w DEF IInv, WakeupIsHonest
    <3>2. a \in racers /\ a # c
      BY <3>1 DEF IInv, PastCheckRaces, PastCheck
    <3> QED BY <3>2
  <2>3. pc[Watcher] \in CloserPC /\ pc[Watcher] # "idle"
    BY <2>w DEF IInv, TypeOK
  <2> QED BY <2>1, <2>2, <2>3 DEF CloserPC, PastCheck
<1> QED
  BY <1>1, Invariance, PTL

-----------------------------------------------------------------------------
(* Under fiber the parent context is context.Background(): nothing but     *)
(* Canceled is ever stored, and the context keeps its promise.             *)

NoParentInv ==
  background =>
    /\ ~parentDone
    /\ err # ParentErr
    /\ \A a \in Closers : pc[a] \notin {"parentCheck", "setParentErr"}

LEMMA NoParentInit == Init => NoParentInv
  BY DEF Init, NoParentInv, None, ParentErr, Closers

LEMMA NoParentStep ==
  ASSUME TypeOK, NoParentInv, [Next]_vars
  PROVE  NoParentInv'
<1> SUFFICES ASSUME background' PROVE NoParentInv'
  BY DEF NoParentInv
<1>b. background
  BY DEF Next, vars, env, CancelCall, CloserStep, Check, Send, SetErr, Close,
         WatcherStep, WatchParent, ParentCheck, WatchClient, WatchDone, PollerStep,
         PollTest, PollProbe, PollNotify, PollClear, Listen, ListenerStep,
         Notified, AskErr, ReadErr, Disconnect, ParentEnds
<1> USE <1>b DEF NoParentInv, env
<1>w. Watcher \in Closers /\ pc \in [Closers -> CloserPC]
  BY DEF Closers, TypeOK
<1>r. ASSUME NEW f \in [Closers -> CloserPC], Receive(f),
             \A a \in Closers : f[a] \notin {"parentCheck", "setParentErr"}
      PROVE  \A a \in Closers : pc'[a] \notin {"parentCheck", "setParentErr"}
  BY <1>r DEF Receive
<1>1. ASSUME NEW a \in Closers, CloserStep(a)
      PROVE  NoParentInv'
  <2>1. CASE Check(a)
    <3>1. [pc EXCEPT ![a] = "returned"] \in [Closers -> CloserPC]
      BY <1>w DEF CloserPC
    <3>2. \A b \in Closers : pc'[b] \notin {"parentCheck", "setParentErr"}
      BY <1>r, <1>w, <2>1, <3>1 DEF Check, CheckDone
    <3> QED BY <2>1, <3>2 DEF Check
  <2>2. CASE Send(a) \/ Close(a)
    BY <1>w, <2>2 DEF Send, Close
  <2>3. CASE SetErr(a)
    BY <1>w, <2>3 DEF SetErr, Canceled, ParentErr
  <2> QED BY <1>1, <2>1, <2>2, <2>3 DEF CloserStep
<1>2. ASSUME NEW c \in Cancellers, CancelCall(c)
      PROVE  NoParentInv'
  BY <1>2, <1>w DEF CancelCall, Closers
<1>3. CASE WatchParent \/ ParentCheck
  BY <1>3, <1>w DEF WatchParent, ParentCheck
<1>4. CASE WatchClient
  BY <1>4, <1>w DEF WatchClient
<1>5. CASE WatchDone
  <2>1. [pc EXCEPT ![Watcher] = "returned"] \in [Closers -> CloserPC]
    BY <1>w DEF CloserPC
  <2> QED BY <1>5, <1>r, <1>w, <2>1 DEF WatchDone
<1>6. CASE PollerStep
  BY <1>6 DEF PollerStep, PollTest, PollProbe, PollNotify, PollClear
<1>7. ASSUME NEW l \in Listeners, Listen(l) \/ ListenerStep(l)
      PROVE  NoParentInv'
  <2>1. CASE Listen(l) \/ ReadErr(l)
    BY <2>1 DEF Listen, ReadErr
  <2>2. CASE Notified(l) \/ AskErr(l)
    BY <1>r, <1>w, <2>2 DEF Notified, AskErr
  <2> QED BY <1>7, <2>1, <2>2 DEF ListenerStep
<1>8. CASE Disconnect \/ ParentEnds
  BY <1>8 DEF Disconnect, ParentEnds
<1>9. CASE UNCHANGED vars
  BY <1>9 DEF vars
<1>c. \A c \in Cancellers : c \in Closers
  BY DEF Closers
<1> QED
  BY <1>1, <1>2, <1>3, <1>4, <1>5, <1>6, <1>7, <1>8, <1>9, <1>w, <1>c
  DEF Next, WatcherStep

\* Only Close and SetErr touch what the context shows: Close finishes it, and a
\* SetErr after that stores the error that is there already.
LEMMA ContextStep ==
  ASSUME IInv, NoParentInv, [Next]_vars
  PROVE  [Ctx!CtxNext]_(Ctx!ctxVars)
<1>b. background' = background
  BY DEF Next, vars, env, CancelCall, CloserStep, Check, Send, SetErr, Close,
         WatcherStep, WatchParent, ParentCheck, WatchClient, WatchDone, PollerStep,
         PollTest, PollProbe, PollNotify, PollClear, Listen, ListenerStep,
         Notified, AskErr, ReadErr, Disconnect, ParentEnds
<1>f. CASE ~background
  BY <1>b, <1>f DEF Ctx!ctxVars
<1> SUFFICES ASSUME background PROVE [Ctx!CtxNext]_(Ctx!ctxVars)
  BY <1>f
<1> USE <1>b DEF Ctx!CtxNext, Ctx!Finish, Ctx!ctxVars
<1>1. CASE \E a \in Closers : Close(a)
  <2>1. PICK a \in Closers : Close(a)
    BY <1>1
  <2>2. err = Canceled
    BY <2>1 DEF IInv, ErrBeforeClose, Close, NoParentInv, TypeOK
  <2> QED BY <2>1, <2>2 DEF Close
<1>2. CASE \E a \in Closers : SetErr(a)
  <2>1. PICK a \in Closers : SetErr(a)
    BY <1>2
  <2>2. err' = Canceled /\ closed' = closed
    BY <2>1 DEF SetErr, NoParentInv
  <2>3. closed => err = Canceled
    BY DEF IInv, ErrBeforeClose, NoParentInv, TypeOK
  <2> QED BY <2>2, <2>3
<1>3. CASE UNCHANGED <<closed, err>>
  BY <1>3
<1>4. \/ UNCHANGED <<closed, err>>
      \/ \E a \in Closers : Close(a) \/ SetErr(a)
  BY DEF Next, vars, Closers, CancelCall, CloserStep, Check, Send, WatcherStep,
         WatchParent, ParentCheck, WatchClient, WatchDone, PollerStep, PollTest,
         PollProbe, PollNotify, PollClear, Listen, ListenerStep, Notified,
         AskErr, ReadErr, Disconnect, ParentEnds
<1> QED
  BY <1>1, <1>2, <1>3, <1>4

\* With a parent that never ends, the Done channel and the error are a correct
\* cancellation context, however many cancels and disconnections collide.
THEOREM FiberContextRefines == Spec => ImplementsContext
<1>1. Init => Ctx!CtxInit
  BY DEF Init, Ctx!CtxInit
<1>2. Init => NoParentInv
  BY NoParentInit
<1>3. IInv /\ NoParentInv /\ [Next]_vars => NoParentInv'
  BY NoParentStep DEF IInv
<1>4. IInv /\ NoParentInv /\ [Next]_vars => [Ctx!CtxNext]_(Ctx!ctxVars)
  BY ContextStep
<1> QED
  BY <1>1, <1>2, <1>3, <1>4, Invariance, PTL DEF Spec, ImplementsContext, Ctx!CtxSpec

\* Nor does an Err() call on a closed context ever answer nil or half an error.
THEOREM FiberAnswersAreFinal == Spec => AnswerIsFinal
<1>2. Init => NoParentInv
  BY NoParentInit
<1>3. IInv /\ NoParentInv /\ [Next]_vars => NoParentInv'
  BY NoParentStep DEF IInv
<1>4. ASSUME IInv, NoParentInv, [Next]_vars, NEW l \in Listeners,
             background, closed, lpc'[l] = "run", lpc[l] # "run"
      PROVE  answer'[l] = Canceled
  <2>l. lpc \in [Listeners -> ListenerPC] /\ answer \in [Listeners -> {None, Canceled, ParentErr, Torn}]
    BY <1>4 DEF IInv, TypeOK
  <2>1. err = Canceled
    BY <1>4 DEF IInv, ErrBeforeClose, NoParentInv, TypeOK
  <2>2. Readable = {Canceled}
    BY <1>4, <2>1 DEF Readable, NoParentInv
  <2>3. \E m \in Listeners : ReadErr(m) \/ AskErr(m) \/ Notified(m) \/ Listen(m)
    BY <1>4 DEF Next, vars, CancelCall, CloserStep, Check, Send, SetErr, Close,
       WatcherStep, WatchParent, ParentCheck, WatchClient, WatchDone, PollerStep,
       PollTest, PollProbe, PollNotify, PollClear, ListenerStep, Disconnect,
       ParentEnds
  <2>4. PICK m \in Listeners : ReadErr(m) \/ AskErr(m) \/ Notified(m) \/ Listen(m)
    BY <2>3
  <2>5. CASE ReadErr(m)
    BY <1>4, <2>l, <2>2, <2>5 DEF ReadErr
  <2>6. CASE AskErr(m)
    BY <1>4, <2>l, <2>6 DEF AskErr, Receivable
  <2>7. CASE Notified(m) \/ Listen(m)
    BY <1>4, <2>l, <2>7 DEF Notified, Listen
  <2> QED BY <2>4, <2>5, <2>6, <2>7
<1>5. IInv /\ NoParentInv /\ [Next]_vars =>
        [\A l \in Listeners :
           background /\ closed /\ lpc'[l] = "run" /\ lpc[l] # "run"
             => answer'[l] = Canceled]_vars
  BY <1>4
<1> QED
  BY <1>2, <1>3, <1>5, Invariance, PTL DEF Spec, AnswerIsFinal

-----------------------------------------------------------------------------
(***************************************************************************)
(* Routing.  The inductive invariant RoutingInv has three parts beside the *)
(* types.  Settled ties what Support has found to the container, which no  *)
(* longer changes while requests are served.  Budgeted balances the calls  *)
(* made with the retries left.  Owned says, as long as no accesses to the  *)
(* map have met, whose the entries of the map are.                         *)
(***************************************************************************)

Routed   == {"call", "again", "store"}
Served   == {"returned", "panicked", "delete", "look", "recoverDelete", "done",
             "storeLate", "gone"}
Places   == {"new", "bound"} \cup Routed \cup Served
Results  == {"none", "invalid", "notFound", "ok", "error", "panic"}
Asks     == [typed : Types, model : Models \cup {Nothing}]
Entry    == [slot : Slots, by : Requests]

RoutingTypeOK ==
  /\ container \subseteq Offers
  /\ listening \in BOOLEAN
  /\ at \in [Requests -> Places]
  /\ slot \in [Requests -> Slots \cup {Nothing}]
  /\ ask \in [Requests -> Asks]
  /\ relay \in [Requests -> Offers \cup {Nothing}]
  /\ retry \in [Requests -> Nat]
  /\ panics \subseteq Entry
  /\ raced \subseteq Requests /\ armed \subseteq Requests
  /\ fatal \in BOOLEAN
  /\ result \in [Requests -> Results]
  /\ tries \in [Requests -> Nat]
  /\ succeeded \in [Requests -> SUBSET Nat]
  /\ answerer \in [Requests -> Requests \cup {Nothing}]

\* What a request has been told and given fits the container.
SettledOf(r) ==
  /\ at[r] # "new" => listening /\ slot[r] \in Slots
  /\ at[r] \in {"new", "bound"} => relay[r] = Nothing /\ result[r] = "none"
  /\ at[r] \in Routed => relay[r] # Nothing /\ result[r] = "none"
  /\ at[r] \in Served => result[r] # "none"
  /\ result[r] \in {"ok", "error", "panic"} => relay[r] # Nothing
  /\ result[r] = "notFound" =>
       relay[r] = Nothing /\ Found(ask[r].typed, ask[r].model) = {}
  /\ relay[r] # Nothing => relay[r] \in Found(ask[r].typed, ask[r].model)

Settled == \A r \in Requests : SettledOf(r)

\* The retries of an offer; Relay and a negative number stand for none.
Retries(o) == IF o = Nothing \/ o.retry < 0 THEN 0 ELSE o.retry

\* The calls made and the retries left are the retries there were, until the last
\* call is made; only the last call may have succeeded, and then it is the answer.
BudgetedOf(r) ==
  /\ relay[r] = Nothing => tries[r] = 0
  /\ at[r] \in Routed => tries[r] + retry[r] = Retries(relay[r])
  /\ at[r] \in Served => tries[r] <= 1 + Retries(relay[r])
  /\ result[r] = "error" => tries[r] = 1 + Retries(relay[r])
  /\ succeeded[r] \subseteq {tries[r]}
  /\ result[r] = "ok" <=> succeeded[r] # {}

Budgeted == \A r \in Requests : BudgetedOf(r)

\* Where a request's own entry may be in the map.
Entered == {"call", "again", "store", "returned", "panicked", "delete", "look",
            "recoverDelete"}

\* No two requests have one context at once.
SlotsApart ==
  \A q, r \in Requests : Active(q) /\ Active(r) /\ q # r => slot[q] # slot[r]

\* An entry stands under the context of the request that made it, and that request
\* still has its context or has left a stray.
EntriesOwned ==
  raced = {} => \A e \in panics :
    /\ slot[e.by] = e.slot
    /\ at[e.by] \in Entered \/ Stray(e.by)

\* What a panic has called, a request that has not begun has called nothing.
AnswersOwned ==
  /\ \A r \in Requests : at[r] = "new" => answerer[r] = Nothing
  /\ PanicsCallTheirOwn

\* Only the stream of a call that returned comes back to the map.
StraysStream ==
  \A r \in Requests : at[r] \in {"storeLate", "gone"} => Late /\ result[r] = "ok"

Owned == SlotsApart /\ EntriesOwned /\ AnswersOwned /\ StraysStream

RoutingInv == RoutingTypeOK /\ Settled /\ Budgeted /\ Owned

-----------------------------------------------------------------------------

LEMMA RoutingInitInv == RoutingInit => RoutingInv
<1> SUFFICES ASSUME RoutingInit PROVE RoutingInv
  OBVIOUS
<1>1. RoutingTypeOK
  BY DEF RoutingInit, RoutingTypeOK, Places, Results, Asks, Types
<1>2. Settled /\ Budgeted
  BY DEF RoutingInit, Settled, SettledOf, Budgeted, BudgetedOf, Routed, Served, Retries
<1>3. Owned
  BY DEF RoutingInit, Owned, SlotsApart, EntriesOwned, AnswersOwned, PanicsCallTheirOwn,
         StraysStream, Active
<1> QED
  BY <1>1, <1>2, <1>3 DEF RoutingInv

\* What a request does moves itself from one place to another.
LEMMA GoMoves ==
  ASSUME RoutingTypeOK, NEW r \in Requests, NEW from, NEW to \in Places, Go(r, from, to)
  PROVE  /\ ~fatal /\ at[r] = from /\ at'[r] = to
         /\ at' \in [Requests -> Places]
         /\ \A q \in Requests \ {r} : at'[q] = at[q]
BY DEF Go, RoutingTypeOK

\* It comes to an access to the map, or past it when the map is empty.
LEMMA EnterMoves ==
  ASSUME RoutingTypeOK, NEW r \in Requests, NEW from, NEW access \in Places,
         NEW after \in Places, Enter(r, from, access, after)
  PROVE  /\ ~fatal /\ at[r] = from
         /\ \/ at'[r] = access
            \/ at'[r] = after /\ panics = {} /\ access \notin Storing
         /\ at' \in [Requests -> Places]
         /\ \A q \in Requests \ {r} : at'[q] = at[q]
         /\ raced' \in SUBSET Requests /\ raced \subseteq raced' /\ fatal' \in BOOLEAN
<1>1. CASE Go(r, from, after) /\ UNCHANGED <<raced, fatal>> /\ panics = {} /\ access \notin Storing
  BY <1>1, GoMoves DEF RoutingTypeOK
<1>2. CASE /\ Go(r, from, access)
           /\ \/ UNCHANGED raced /\ fatal' = TRUE
              \/ raced' = raced \cup {r} /\ UNCHANGED fatal
              \/ UNCHANGED <<raced, fatal>>
  BY <1>2, GoMoves DEF RoutingTypeOK
<1> QED
  BY <1>1, <1>2 DEF Enter

\* Such a step leaves a request on its side of the handler.
LEMMA ReachMoves ==
  ASSUME RoutingTypeOK, NEW r \in Requests,
         OnError(r) \/ Finish(r) \/ Recover(r) \/ OnErrorLate(r)
  PROVE  /\ \/ at[r] \in Routed /\ at'[r] \in Routed
            \/ at[r] \in Served /\ at'[r] \in Served
         /\ \A q \in Requests \ {r} : at'[q] = at[q]
<1>1. ASSUME NEW from, NEW access \in Places, NEW after \in Places, Enter(r, from, access, after)
      PROVE  /\ at[r] = from /\ at'[r] \in {access, after}
             /\ \A q \in Requests \ {r} : at'[q] = at[q]
  BY <1>1, EnterMoves
<1>2. CASE Enter(r, "call", "store", "call")
  <2>1. {"call", "store"} \subseteq Routed /\ "call" \in Places /\ "store" \in Places
    BY DEF Routed, Places
  <2> QED
    BY <1>1, <1>2, <2>1
<1>3. CASE Enter(r, "returned", "delete", "done")
  <2>1. {"returned", "delete", "done"} \subseteq Served /\ "delete" \in Places /\ "done" \in Places
    BY DEF Served, Places
  <2> QED
    BY <1>1, <1>3, <2>1
<1>4. CASE Enter(r, "panicked", "look", "done")
  <2>1. {"panicked", "look", "done"} \subseteq Served /\ "look" \in Places /\ "done" \in Places
    BY DEF Served, Places
  <2> QED
    BY <1>1, <1>4, <2>1
<1>5. CASE Enter(r, "done", "storeLate", "gone")
  <2>1. {"done", "storeLate", "gone"} \subseteq Served /\ "storeLate" \in Places /\ "gone" \in Places
    BY DEF Served, Places
  <2> QED
    BY <1>1, <1>5, <2>1
<1> QED
  BY <1>2, <1>3, <1>4, <1>5 DEF OnError, Finish, Recover, OnErrorLate, Reach

\* An answer is that of one request.
LEMMA Answers ==
  ASSUME RoutingTypeOK, NEW r \in Requests, NEW how, Answer(r, how)
  PROVE  result'[r] = how /\ \A q \in Requests \ {r} : result'[q] = result[q]
BY DEF Answer, RoutingTypeOK

LEMMA PlacesList ==
  /\ "new" \in Places /\ "bound" \in Places /\ "call" \in Places /\ "again" \in Places
  /\ "store" \in Places /\ "returned" \in Places /\ "panicked" \in Places
  /\ "delete" \in Places /\ "look" \in Places /\ "recoverDelete" \in Places
  /\ "done" \in Places /\ "storeLate" \in Places /\ "gone" \in Places
BY DEF Places, Routed, Served

LEMMA BeginDoes ==
  ASSUME RoutingTypeOK, NEW r \in Requests, Begin(r)
  PROVE  /\ at[r] = "new" /\ listening /\ listening' /\ slot'[r] \in Slots
         /\ \/ at'[r] = "bound" /\ result'[r] = result[r]
            \/ at'[r] = "returned" /\ result'[r] = "invalid"
         /\ \A q \in Requests \ {r} :
              /\ at'[q] = at[q] /\ slot'[q] = slot[q] /\ ask'[q] = ask[q]
              /\ result'[q] = result[q]
         /\ \A q \in Requests : Active(q) => slot[q] # slot'[r]
<1>1. listening /\ listening'
  BY DEF Begin
<1>2. PICK s \in Slots : /\ slot' = [slot EXCEPT ![r] = s]
                         /\ \A q \in Requests : Active(q) => slot[q] # s
  BY DEF Begin
<1>3. /\ slot'[r] = s
      /\ \A q \in Requests \ {r} : slot'[q] = slot[q] /\ ask'[q] = ask[q]
  BY <1>2 DEF Begin, RoutingTypeOK
<1>4. CASE Go(r, "new", "bound") /\ UNCHANGED result
  BY <1>1, <1>2, <1>3, <1>4, GoMoves, PlacesList
<1>5. CASE Go(r, "new", "returned") /\ Answer(r, "invalid")
  BY <1>1, <1>2, <1>3, <1>5, GoMoves, Answers, PlacesList
<1> QED
  BY <1>4, <1>5 DEF Begin

LEMMA SupportDoes ==
  ASSUME RoutingTypeOK, NEW r \in Requests, Support(r)
  PROVE  /\ at[r] = "bound"
         /\ UNCHANGED <<container, listening, slot, ask, panics, armed, raced, fatal,
                        tries, succeeded, answerer>>
         /\ \/ /\ Found(ask[r].typed, ask[r].model) = {}
               /\ at'[r] = "returned" /\ result'[r] = "notFound"
               /\ relay'[r] = relay[r]
            \/ /\ relay'[r] \in Found(ask[r].typed, ask[r].model)
               /\ at'[r] = "call" /\ result'[r] = result[r]
               /\ retry'[r] = Retries(relay'[r])
         /\ \A q \in Requests \ {r} :
              /\ at'[q] = at[q] /\ result'[q] = result[q]
              /\ relay'[q] = relay[q] /\ retry'[q] = retry[q]
<1>1. UNCHANGED <<container, listening, slot, ask, panics, armed, raced, fatal,
                  tries, succeeded, answerer>>
  BY DEF Support
<1>2. CASE /\ Found(ask[r].typed, ask[r].model) = {}
           /\ Go(r, "bound", "returned") /\ Answer(r, "notFound")
           /\ UNCHANGED <<relay, retry>>
  BY <1>1, <1>2, GoMoves, Answers, PlacesList
<1>3. ASSUME NEW o \in Found(ask[r].typed, ask[r].model),
             Go(r, "bound", "call"), UNCHANGED result,
             relay' = [relay EXCEPT ![r] = o],
             retry' = [retry EXCEPT ![r] = IF o.retry < 0 THEN 0 ELSE o.retry]
      PROVE  /\ at[r] = "bound"
             /\ relay'[r] = o /\ at'[r] = "call" /\ result'[r] = result[r]
             /\ retry'[r] = Retries(o)
             /\ \A q \in Requests \ {r} :
                  /\ at'[q] = at[q] /\ result'[q] = result[q]
                  /\ relay'[q] = relay[q] /\ retry'[q] = retry[q]
  <2>1. o # Nothing
    BY OfferAssumption DEF Found, RoutingTypeOK
  <2>2. at[r] = "bound" /\ at'[r] = "call" /\ \A q \in Requests \ {r} : at'[q] = at[q]
    BY <1>3, GoMoves, PlacesList
  <2>3. relay'[r] = o /\ \A q \in Requests \ {r} : relay'[q] = relay[q]
    BY <1>3 DEF RoutingTypeOK
  <2>4. /\ retry'[r] = IF o.retry < 0 THEN 0 ELSE o.retry
        /\ \A q \in Requests \ {r} : retry'[q] = retry[q]
    BY <1>3 DEF RoutingTypeOK
  <2>5. retry'[r] = Retries(o)
    BY <2>1, <2>4 DEF Retries
  <2> QED
    BY <1>3, <2>2, <2>3, <2>4, <2>5
<1>4. CASE \E o \in Found(ask[r].typed, ask[r].model) :
             /\ Go(r, "bound", "call") /\ UNCHANGED result
             /\ relay' = [relay EXCEPT ![r] = o]
             /\ retry' = [retry EXCEPT ![r] = IF o.retry < 0 THEN 0 ELSE o.retry]
  <2>1. PICK o \in Found(ask[r].typed, ask[r].model) :
             /\ Go(r, "bound", "call") /\ UNCHANGED result
             /\ relay' = [relay EXCEPT ![r] = o]
             /\ retry' = [retry EXCEPT ![r] = IF o.retry < 0 THEN 0 ELSE o.retry]
    BY <1>4
  <2> QED
    BY <1>1, <1>3, <2>1
<1> QED
  BY <1>2, <1>4 DEF Support

LEMMA CallDoes ==
  ASSUME RoutingTypeOK, NEW r \in Requests, Call(r)
  PROVE  /\ at[r] = "call"
         /\ UNCHANGED <<container, listening, slot, ask, relay, panics, armed, raced,
                        fatal, answerer>>
         /\ tries'[r] = tries[r] + 1
         /\ \/ /\ at'[r] = "again" /\ result'[r] = result[r]
               /\ retry'[r] = retry[r] - 1 /\ succeeded'[r] = succeeded[r]
            \/ /\ at'[r] = "returned" /\ result'[r] = "ok"
               /\ succeeded'[r] = succeeded[r] \cup {tries[r] + 1}
            \/ /\ at'[r] = "returned" /\ result'[r] = "error" /\ retry[r] = 0
               /\ succeeded'[r] = succeeded[r]
            \/ /\ at'[r] = "panicked" /\ result'[r] = "panic"
               /\ succeeded'[r] = succeeded[r]
         /\ \A q \in Requests \ {r} :
              /\ at'[q] = at[q] /\ result'[q] = result[q]
              /\ retry'[q] = retry[q] /\ tries'[q] = tries[q]
              /\ succeeded'[q] = succeeded[q]
<1> USE PlacesList
<1>1. /\ UNCHANGED <<container, listening, slot, ask, relay, panics, armed, raced,
                     fatal, answerer>>
      /\ tries'[r] = tries[r] + 1
      /\ \A q \in Requests \ {r} : tries'[q] = tries[q]
  BY DEF Call, RoutingTypeOK
<1>2. CASE /\ Go(r, "call", "returned") /\ Answer(r, "ok") /\ UNCHANGED retry
           /\ succeeded' = [succeeded EXCEPT ![r] = @ \cup {tries[r] + 1}]
  <2>1. /\ succeeded'[r] = succeeded[r] \cup {tries[r] + 1}
        /\ \A q \in Requests \ {r} : succeeded'[q] = succeeded[q]
    BY <1>2 DEF RoutingTypeOK
  <2> QED
    BY <1>1, <1>2, <2>1, GoMoves, Answers
<1>3. CASE /\ Go(r, "call", "panicked") /\ Answer(r, "panic") /\ UNCHANGED retry
           /\ UNCHANGED succeeded
  BY <1>1, <1>3, GoMoves, Answers
<1>4. CASE /\ retry[r] = 0 /\ Go(r, "call", "returned") /\ Answer(r, "error")
           /\ UNCHANGED retry /\ UNCHANGED succeeded
  BY <1>1, <1>4, GoMoves, Answers
<1>5. CASE /\ Go(r, "call", "again") /\ UNCHANGED result
           /\ retry' = [retry EXCEPT ![r] = @ - 1] /\ UNCHANGED succeeded
  <2>1. retry'[r] = retry[r] - 1 /\ \A q \in Requests \ {r} : retry'[q] = retry[q]
    BY <1>5 DEF RoutingTypeOK
  <2> QED
    BY <1>1, <1>5, <2>1, GoMoves
<1> QED
  BY <1>2, <1>3, <1>4, <1>5 DEF Call, Failed, Succeeded

LEMMA RoutingTypeStep ==
  ASSUME RoutingTypeOK, Settled, [RoutingNext]_routingVars
  PROVE  RoutingTypeOK'
<1> USE OfferAssumption, PlacesList
<1>s. \A r \in Requests : at[r] # "new" => slot[r] \in Slots
  BY DEF Settled, SettledOf
<1>1. ASSUME NEW o \in Offers, Put(o)
      PROVE  RoutingTypeOK'
  BY <1>1 DEF Put, RoutingTypeOK
<1>2. CASE StartListening
  BY <1>2 DEF StartListening, RoutingTypeOK
<1>3. ASSUME NEW r \in Requests, Begin(r)
      PROVE  RoutingTypeOK'
  <2>1. at' \in [Requests -> Places]
    BY <1>3, GoMoves DEF Begin
  <2>2. slot' \in [Requests -> Slots \cup {Nothing}] /\ ask' \in [Requests -> Asks]
    BY <1>3 DEF Begin, RoutingTypeOK, Asks
  <2>3. result' \in [Requests -> Results]
    BY <1>3 DEF Begin, RoutingTypeOK, Answer, Results
  <2> QED
    BY <1>3, <2>1, <2>2, <2>3 DEF Begin, RoutingTypeOK
<1>4. ASSUME NEW r \in Requests, Support(r)
      PROVE  RoutingTypeOK'
  <2>1. \A o \in Found(ask[r].typed, ask[r].model) : o \in Offers /\ o.retry \in Int
    BY DEF Found, OfferType, RoutingTypeOK
  <2>2. at' \in [Requests -> Places]
    BY <1>4, GoMoves DEF Support
  <2>3. result' \in [Requests -> Results]
    BY <1>4 DEF Support, Answer, Results, RoutingTypeOK
  <2>4. relay' \in [Requests -> Offers \cup {Nothing}]
    BY <1>4, <2>1 DEF Support, RoutingTypeOK
  <2>5. retry' \in [Requests -> Nat]
    <3>1. CASE UNCHANGED retry
      BY <3>1 DEF RoutingTypeOK
    <3>2. ASSUME NEW o \in Found(ask[r].typed, ask[r].model),
                 retry' = [retry EXCEPT ![r] = IF o.retry < 0 THEN 0 ELSE o.retry]
          PROVE  retry' \in [Requests -> Nat]
      <4>1. (IF o.retry < 0 THEN 0 ELSE o.retry) \in Nat
        BY <2>1
      <4> QED
        BY <3>2, <4>1 DEF RoutingTypeOK
    <3> QED
      BY <1>4, <3>1, <3>2 DEF Support
  <2> QED
    BY <1>4, <2>2, <2>3, <2>4, <2>5 DEF Support, RoutingTypeOK
<1>5. ASSUME NEW r \in Requests, Call(r)
      PROVE  RoutingTypeOK'
  <2>1. at' \in [Requests -> Places]
    BY <1>5, GoMoves DEF Call, Failed, Succeeded
  <2>3. result' \in [Requests -> Results]
    BY <1>5 DEF Call, Failed, Succeeded, Answer, Results, RoutingTypeOK
  <2>2. retry' \in [Requests -> Nat] /\ tries' \in [Requests -> Nat]
    BY <1>5 DEF Call, Failed, Succeeded, RoutingTypeOK
  <2>4. succeeded' \in [Requests -> SUBSET Nat]
    <3>1. tries[r] + 1 \in Nat
      BY DEF RoutingTypeOK
    <3> QED
      BY <1>5, <3>1 DEF Call, RoutingTypeOK
  <2> QED
    BY <1>5, <2>1, <2>2, <2>3, <2>4 DEF Call, RoutingTypeOK
<1>6. ASSUME NEW r \in Requests, Again(r)
      PROVE  RoutingTypeOK'
  BY <1>6, GoMoves DEF Again, RoutingTypeOK
<1>7. ASSUME NEW r \in Requests,
             \/ OnErrorStored(r) \/ OnErrorLateStored(r)
             \/ FinishDeleted(r) \/ RecoverDeleted(r)
      PROVE  RoutingTypeOK'
  <2>1. at' \in [Requests -> Places] /\ at[r] # "new"
    BY <1>7, GoMoves DEF OnErrorStored, OnErrorLateStored, FinishDeleted,
                         RecoverDeleted, Leave
  <2>2. Stored(r) \subseteq Entry /\ Deleted(r) \subseteq Entry
    BY <1>s, <2>1 DEF Stored, Deleted, Entries, Entry, RoutingTypeOK
  <2>3. panics' \subseteq Entry
    BY <1>7, <2>2 DEF OnErrorStored, OnErrorLateStored, FinishDeleted, RecoverDeleted,
                      Leave, RoutingTypeOK
  <2> QED
    BY <1>7, <2>1, <2>3 DEF OnErrorStored, OnErrorLateStored, FinishDeleted,
                            RecoverDeleted, Leave, RoutingTypeOK
<1>8. ASSUME NEW r \in Requests,
             OnError(r) \/ Finish(r) \/ Recover(r) \/ OnErrorLate(r)
      PROVE  RoutingTypeOK'
  <2>1. /\ at' \in [Requests -> Places]
        /\ raced' \in SUBSET Requests /\ fatal' \in BOOLEAN
    BY <1>8, EnterMoves DEF OnError, Finish, Recover, OnErrorLate, Reach
  <2>2. armed' \in SUBSET Requests
    BY <1>8 DEF OnError, Finish, Recover, OnErrorLate, RoutingTypeOK
  <2> QED
    BY <1>8, <2>1, <2>2 DEF OnError, Finish, Recover, OnErrorLate, Reach, RoutingTypeOK
<1>9. ASSUME NEW r \in Requests, Looked(r)
      PROVE  RoutingTypeOK'
  <2>1. /\ at' \in [Requests -> Places]
        /\ raced' \in SUBSET Requests /\ fatal' \in BOOLEAN
    BY <1>9, EnterMoves, GoMoves DEF Looked, RoutingTypeOK
  <2>2. answerer' \in [Requests -> Requests \cup {Nothing}]
    BY <1>9 DEF Looked, Entries, Entry, RoutingTypeOK
  <2> QED
    BY <1>9, <2>1, <2>2 DEF Looked, RoutingTypeOK
<1>10. CASE UNCHANGED routingVars
  BY <1>10 DEF routingVars, RoutingTypeOK
<1> QED
  BY <1>1, <1>2, <1>3, <1>4, <1>5, <1>6, <1>7, <1>8, <1>9, <1>10 DEF RoutingNext, Serve

\* Steps that leave alone what Support has found and what has been answered.
LEMMA SettledStep ==
  ASSUME RoutingTypeOK, Settled, [RoutingNext]_routingVars
  PROVE  Settled'
<1> USE OfferAssumption, PlacesList DEF Settled
<1>k. ASSUME NEW r \in Requests, SettledOf(r),
             UNCHANGED <<container, listening>>,
             slot'[r] = slot[r], ask'[r] = ask[r], relay'[r] = relay[r],
             result'[r] = result[r],
             \/ at'[r] = at[r]
             \/ at[r] \in Routed /\ at'[r] \in Routed
             \/ at[r] \in Served /\ at'[r] \in Served
      PROVE  SettledOf(r)'
  BY <1>k DEF SettledOf, Found, Routed, Served
<1>1. ASSUME NEW o \in Offers, Put(o)
      PROVE  Settled'
  <2>1. \A r \in Requests : at[r] = "new" /\ at'[r] = "new" /\ relay'[r] = Nothing /\ result'[r] = "none"
    BY <1>1 DEF Put, SettledOf
  <2> QED
    BY <2>1 DEF SettledOf, Routed, Served
<1>2. CASE StartListening
  BY <1>2 DEF StartListening, SettledOf, Found
<1>3. ASSUME NEW r \in Requests, Begin(r)
      PROVE  Settled'
  <2>1. UNCHANGED <<container, listening, relay>>
    BY <1>3 DEF Begin
  <2>2. \A q \in Requests \ {r} : SettledOf(q)'
    BY <1>3, <1>k, <2>1, BeginDoes
  <2>3. /\ listening' /\ slot'[r] \in Slots /\ at[r] = "new"
        /\ \/ at'[r] = "bound" /\ result'[r] = result[r]
           \/ at'[r] = "returned" /\ result'[r] = "invalid"
    BY <1>3, BeginDoes
  <2>4. relay'[r] = Nothing /\ result[r] = "none"
    BY <2>1, <2>3 DEF SettledOf
  <2>5. SettledOf(r)'
    BY <2>3, <2>4 DEF SettledOf, Routed, Served
  <2> QED
    BY <2>2, <2>5
<1>4. ASSUME NEW r \in Requests, Support(r)
      PROVE  Settled'
  <2>1. UNCHANGED <<container, listening, slot, ask>> /\ at[r] = "bound"
    BY <1>4, SupportDoes
  <2>2. \A q \in Requests \ {r} : SettledOf(q)'
    BY <1>4, <1>k, <2>1, SupportDoes
  <2>3. listening /\ slot[r] \in Slots /\ relay[r] = Nothing /\ result[r] = "none"
    BY <2>1 DEF SettledOf
  <2>4. Nothing \notin Found(ask[r].typed, ask[r].model)
    BY DEF Found, RoutingTypeOK
  <2>5. Found(ask[r].typed, ask[r].model)' = Found(ask[r].typed, ask[r].model)
    BY <2>1 DEF Found
  <2>6. ASSUME Found(ask[r].typed, ask[r].model) = {},
               at'[r] = "returned", result'[r] = "notFound", relay'[r] = relay[r]
        PROVE  SettledOf(r)'
    BY <2>1, <2>3, <2>5, <2>6 DEF SettledOf, Routed, Served
  <2>7. ASSUME relay'[r] \in Found(ask[r].typed, ask[r].model),
               at'[r] = "call", result'[r] = result[r]
        PROVE  SettledOf(r)'
    BY <2>1, <2>3, <2>4, <2>5, <2>7 DEF SettledOf, Routed, Served
  <2> QED
    BY <1>4, <2>2, <2>6, <2>7, SupportDoes
<1>5. ASSUME NEW r \in Requests, Call(r)
      PROVE  Settled'
  <2>1. UNCHANGED <<container, listening, slot, ask, relay>> /\ at[r] = "call"
    BY <1>5, CallDoes
  <2>2. \A q \in Requests \ {r} : SettledOf(q)'
    BY <1>5, <1>k, <2>1, CallDoes
  <2>3. \/ at'[r] = "again" /\ result'[r] = result[r]
        \/ at'[r] \in {"returned", "panicked"} /\ result'[r] \in {"ok", "error", "panic"}
    BY <1>5, CallDoes
  <2>4. SettledOf(r)'
    BY <2>1, <2>3 DEF SettledOf, Routed, Served, Found
  <2> QED
    BY <2>2, <2>4
<1>6. ASSUME NEW r \in Requests, Again(r)
      PROVE  Settled'
  <2>1. /\ at[r] \in Routed /\ at'[r] \in Routed
        /\ \A q \in Requests \ {r} : at'[q] = at[q]
    BY <1>6, GoMoves DEF Again, Routed
  <2> QED
    BY <1>6, <1>k, <2>1 DEF Again
<1>7. ASSUME NEW r \in Requests,
             \/ OnErrorStored(r) \/ OnErrorLateStored(r)
             \/ FinishDeleted(r) \/ RecoverDeleted(r)
      PROVE  Settled'
  <2>1. /\ \/ at[r] \in Routed /\ at'[r] \in Routed
           \/ at[r] \in Served /\ at'[r] \in Served
        /\ \A q \in Requests \ {r} : at'[q] = at[q]
    BY <1>7, GoMoves DEF OnErrorStored, OnErrorLateStored, FinishDeleted, RecoverDeleted,
                         Leave, Routed, Served
  <2> QED
    BY <1>7, <1>k, <2>1 DEF OnErrorStored, OnErrorLateStored, FinishDeleted,
                            RecoverDeleted, Leave
<1>8. ASSUME NEW r \in Requests,
             OnError(r) \/ Finish(r) \/ Recover(r) \/ OnErrorLate(r)
      PROVE  Settled'
  <2>1. /\ \/ at[r] \in Routed /\ at'[r] \in Routed
           \/ at[r] \in Served /\ at'[r] \in Served
        /\ \A q \in Requests \ {r} : at'[q] = at[q]
    BY <1>8, ReachMoves
  <2> QED
    BY <1>8, <1>k, <2>1 DEF OnError, Finish, Recover, OnErrorLate, Reach
<1>9. ASSUME NEW r \in Requests, Looked(r)
      PROVE  Settled'
  <2>1. /\ at[r] \in Served /\ at'[r] \in Served
        /\ \A q \in Requests \ {r} : at'[q] = at[q]
    <3>1. CASE Enter(r, "look", "recoverDelete", "done")
      BY <3>1, EnterMoves DEF Served
    <3>2. CASE Go(r, "look", "done")
      BY <3>2, GoMoves DEF Served
    <3> QED
      BY <1>9, <3>1, <3>2 DEF Looked
  <2> QED
    BY <1>9, <1>k, <2>1 DEF Looked
<1>10. CASE UNCHANGED routingVars
  BY <1>10, <1>k DEF routingVars
<1> QED
  BY <1>1, <1>2, <1>3, <1>4, <1>5, <1>6, <1>7, <1>8, <1>9, <1>10 DEF RoutingNext, Serve

LEMMA NoRetries == Retries(Nothing) = 0
BY DEF Retries

\* Each call either spends a retry or is the last one.
LEMMA BudgetedStep ==
  ASSUME RoutingTypeOK, Settled, Budgeted, [RoutingNext]_routingVars
  PROVE  Budgeted'
<1> USE OfferAssumption, PlacesList DEF Budgeted
<1>k. ASSUME NEW r \in Requests, BudgetedOf(r),
             relay'[r] = relay[r], retry'[r] = retry[r],
             result'[r] = result[r], tries'[r] = tries[r],
             succeeded'[r] = succeeded[r],
             \/ at'[r] = at[r]
             \/ at[r] \in Routed /\ at'[r] \in Routed
             \/ at[r] \in Served /\ at'[r] \in Served
      PROVE  BudgetedOf(r)'
  BY <1>k DEF BudgetedOf, Routed, Served, Retries
<1>1. CASE StartListening \/ (\E o \in Offers : Put(o)) \/ UNCHANGED routingVars
  BY <1>1, <1>k DEF Put, StartListening, routingVars
<1>3. ASSUME NEW r \in Requests, Begin(r)
      PROVE  Budgeted'
  <2>1. UNCHANGED <<relay, retry, tries, succeeded>>
    BY <1>3 DEF Begin
  <2>2. \A q \in Requests \ {r} : BudgetedOf(q)'
    BY <1>3, <1>k, <2>1, BeginDoes
  <2>3. relay[r] = Nothing /\ result[r] = "none" /\ tries[r] = 0 /\ succeeded[r] = {}
    BY <1>3, BeginDoes DEF Settled, SettledOf, BudgetedOf
  <2>4. at'[r] \in {"bound", "returned"} /\ result'[r] \in {"none", "invalid"}
    BY <1>3, <2>3, BeginDoes
  <2>5. relay'[r] = Nothing /\ tries'[r] = 0 /\ succeeded'[r] = {}
    BY <2>1, <2>3
  <2>6. BudgetedOf(r)'
    BY <2>4, <2>5, NoRetries DEF BudgetedOf, Routed
  <2> QED
    BY <2>2, <2>6
<1>4. ASSUME NEW r \in Requests, Support(r)
      PROVE  Budgeted'
  <2>1. UNCHANGED <<tries, succeeded>> /\ at[r] = "bound"
    BY <1>4, SupportDoes
  <2>2. \A q \in Requests \ {r} : BudgetedOf(q)'
    BY <1>4, <1>k, <2>1, SupportDoes
  <2>3. relay[r] = Nothing /\ result[r] = "none" /\ tries[r] = 0 /\ succeeded[r] = {}
    BY <2>1 DEF Settled, SettledOf, BudgetedOf
  <2>4. \A o \in Found(ask[r].typed, ask[r].model) : o # Nothing /\ Retries(o) \in Nat
    BY DEF Found, RoutingTypeOK, OfferType, Retries
  <2>5. ASSUME at'[r] = "returned", result'[r] = "notFound", relay'[r] = relay[r]
        PROVE  BudgetedOf(r)'
    <3>1. relay'[r] = Nothing /\ tries'[r] = 0 /\ succeeded'[r] = {}
      BY <2>1, <2>3, <2>5
    <3> QED
      BY <2>5, <3>1, NoRetries DEF BudgetedOf, Routed
  <2>6. ASSUME relay'[r] \in Found(ask[r].typed, ask[r].model),
               at'[r] = "call", result'[r] = result[r], retry'[r] = Retries(relay'[r])
        PROVE  BudgetedOf(r)'
    <3>1. relay'[r] # Nothing /\ Retries(relay'[r]) \in Nat /\ at'[r] \notin Served
      BY <2>4, <2>6 DEF Served
    <3>2. tries'[r] + retry'[r] = Retries(relay'[r])
      BY <2>1, <2>3, <2>6, <3>1
    <3>3. succeeded'[r] = {} /\ result'[r] = "none"
      BY <2>1, <2>3, <2>6
    <3> QED
      BY <3>1, <3>2, <3>3 DEF BudgetedOf
  <2> QED
    BY <1>4, <2>2, <2>5, <2>6, SupportDoes
<1>5. ASSUME NEW r \in Requests, Call(r)
      PROVE  Budgeted'
  <2>1. UNCHANGED relay /\ at[r] = "call"
    BY <1>5, CallDoes
  <2>2. \A q \in Requests \ {r} : BudgetedOf(q)'
    BY <1>5, <1>k, <2>1, CallDoes
  <2>3. /\ relay[r] # Nothing /\ result[r] = "none"
        /\ tries[r] + retry[r] = Retries(relay[r]) /\ succeeded[r] = {}
    BY <2>1 DEF Settled, SettledOf, BudgetedOf, Routed
  <2>4. tries[r] \in Nat /\ retry[r] \in Nat /\ tries'[r] = tries[r] + 1
    BY <1>5, CallDoes DEF RoutingTypeOK
  <2>5. relay'[r] = relay[r]
    BY <2>1
  <2>6. ASSUME at'[r] = "again", result'[r] = result[r], retry'[r] = retry[r] - 1,
               succeeded'[r] = succeeded[r]
        PROVE  BudgetedOf(r)'
    <3>1. tries'[r] + retry'[r] = Retries(relay'[r])
      BY <2>3, <2>4, <2>5, <2>6
    <3> QED
      BY <2>3, <2>5, <2>6, <3>1 DEF BudgetedOf, Served
  <2>7. ASSUME at'[r] \in {"returned", "panicked"},
               result'[r] = "error" => retry[r] = 0,
               \/ result'[r] = "ok" /\ succeeded'[r] = succeeded[r] \cup {tries[r] + 1}
               \/ result'[r] # "ok" /\ succeeded'[r] = succeeded[r]
        PROVE  BudgetedOf(r)'
    <3>1. /\ tries'[r] <= 1 + Retries(relay'[r])
          /\ result'[r] = "error" => tries'[r] = 1 + Retries(relay'[r])
      BY <2>3, <2>4, <2>5, <2>7
    <3>2. /\ succeeded'[r] \subseteq {tries'[r]}
          /\ result'[r] = "ok" <=> succeeded'[r] # {}
      BY <2>3, <2>4, <2>7
    <3> QED
      BY <2>3, <2>5, <2>7, <3>1, <3>2 DEF BudgetedOf, Routed
  <2> QED
    BY <1>5, <2>2, <2>6, <2>7, CallDoes
<1>6. ASSUME NEW r \in Requests, Again(r)
      PROVE  Budgeted'
  <2>1. /\ at[r] \in Routed /\ at'[r] \in Routed
        /\ \A q \in Requests \ {r} : at'[q] = at[q]
    BY <1>6, GoMoves DEF Again, Routed
  <2>2. UNCHANGED <<relay, retry, result, tries, succeeded>>
    BY <1>6 DEF Again
  <2> QED
    BY <1>k, <2>1, <2>2
<1>7. ASSUME NEW r \in Requests,
             \/ OnErrorStored(r) \/ OnErrorLateStored(r)
             \/ FinishDeleted(r) \/ RecoverDeleted(r)
      PROVE  Budgeted'
  <2>1. /\ \/ at[r] \in Routed /\ at'[r] \in Routed
           \/ at[r] \in Served /\ at'[r] \in Served
        /\ \A q \in Requests \ {r} : at'[q] = at[q]
    BY <1>7, GoMoves DEF OnErrorStored, OnErrorLateStored, FinishDeleted, RecoverDeleted,
                         Leave, Routed, Served
  <2> QED
    BY <1>7, <1>k, <2>1 DEF OnErrorStored, OnErrorLateStored, FinishDeleted,
                            RecoverDeleted, Leave
<1>8. ASSUME NEW r \in Requests,
             OnError(r) \/ Finish(r) \/ Recover(r) \/ OnErrorLate(r)
      PROVE  Budgeted'
  <2>1. /\ \/ at[r] \in Routed /\ at'[r] \in Routed
           \/ at[r] \in Served /\ at'[r] \in Served
        /\ \A q \in Requests \ {r} : at'[q] = at[q]
    BY <1>8, ReachMoves
  <2> QED
    BY <1>8, <1>k, <2>1 DEF OnError, Finish, Recover, OnErrorLate, Reach
<1>9. ASSUME NEW r \in Requests, Looked(r)
      PROVE  Budgeted'
  <2>1. /\ at[r] \in Served /\ at'[r] \in Served
        /\ \A q \in Requests \ {r} : at'[q] = at[q]
    <3>1. CASE Enter(r, "look", "recoverDelete", "done")
      BY <3>1, EnterMoves DEF Served
    <3>2. CASE Go(r, "look", "done")
      BY <3>2, GoMoves DEF Served
    <3> QED
      BY <1>9, <3>1, <3>2 DEF Looked
  <2> QED
    BY <1>9, <1>k, <2>1 DEF Looked
<1> QED
  BY <1>1, <1>3, <1>4, <1>5, <1>6, <1>7, <1>8, <1>9 DEF RoutingNext, Serve


\* A request that has begun moves on: the contexts stay apart, and what has been
\* called stays one's own.
LEMMA OneMoves ==
  ASSUME RoutingTypeOK, Owned, NEW r \in Requests,
         UNCHANGED <<slot, answerer>>, raced \subseteq raced',
         at[r] \notin {"new", "gone"}, at'[r] # "new",
         at[r] \in {"done", "storeLate"} => at'[r] \in {"storeLate", "gone"},
         at'[r] \in {"storeLate", "gone"} => Late /\ result'[r] = "ok",
         \A q \in Requests \ {r} : at'[q] = at[q] /\ result'[q] = result[q]
  PROVE  SlotsApart' /\ AnswersOwned' /\ StraysStream'
<1>1. \A q \in Requests : Active(q)' => Active(q)
  BY DEF Active
<1>2. SlotsApart'
  BY <1>1 DEF Owned, SlotsApart, Active
<1>3. \A q \in Requests : Stray(q) => Stray(q)'
  BY DEF Stray
<1>4. PanicsCallTheirOwn'
  <2> SUFFICES ASSUME raced' = {}, NEW q \in Requests, answerer[q] \notin {Nothing, q}
               PROVE  Stray(answerer[q])' /\ slot[answerer[q]] = slot[q]
    BY DEF PanicsCallTheirOwn
  <2>1. Stray(answerer[q]) /\ slot[answerer[q]] = slot[q]
    BY DEF Owned, AnswersOwned, PanicsCallTheirOwn
  <2>2. answerer[q] \in Requests
    BY DEF RoutingTypeOK
  <2> QED
    BY <1>3, <2>1, <2>2
<1>5. \A q \in Requests : at'[q] = "new" => answerer'[q] = Nothing
  BY DEF Owned, AnswersOwned
<1>6. StraysStream'
  BY DEF Owned, StraysStream
<1> QED
  BY <1>2, <1>4, <1>5, <1>6 DEF AnswersOwned

\* The entries keep their owners when the one that moves has none in the map or may
\* still have one.
LEMMA EntriesStay ==
  ASSUME RoutingTypeOK, Owned, NEW r \in Requests,
         UNCHANGED <<slot, panics>>, raced \subseteq raced', at[r] # "gone",
         \/ at[r] \notin Entered
         \/ at'[r] \in Entered
         \/ raced' # {}
         \/ Entries(slot[r]) = {},
         \A q \in Requests \ {r} : at'[q] = at[q] /\ result'[q] = result[q]
  PROVE  EntriesOwned'
<1> SUFFICES ASSUME raced' = {}, NEW e \in panics
             PROVE  slot[e.by] = e.slot /\ (at'[e.by] \in Entered \/ Stray(e.by)')
  BY DEF EntriesOwned
<1>1. slot[e.by] = e.slot /\ (at[e.by] \in Entered \/ Stray(e.by))
  BY DEF Owned, EntriesOwned
<1>2. e.by \in Requests
  BY DEF RoutingTypeOK, Entry
<1>3. CASE e.by = r
  BY <1>1, <1>3 DEF Entries, Stray
<1>4. CASE e.by # r
  BY <1>1, <1>2, <1>4 DEF Stray
<1> QED
  BY <1>3, <1>4


\* Storing makes an entry of one's own, deleting removes what one has.
LEMMA EntriesChange ==
  ASSUME RoutingTypeOK, Owned, NEW r \in Requests,
         UNCHANGED <<slot, raced>>, at[r] # "gone",
         \/ panics' = Deleted(r)
         \/ panics' = Stored(r) /\ (at'[r] \in Entered \/ Stray(r)')
         \/ raced # {},
         \A q \in Requests \ {r} : at'[q] = at[q] /\ result'[q] = result[q]
  PROVE  EntriesOwned'
<1> SUFFICES ASSUME raced = {}, NEW e \in panics'
             PROVE  slot[e.by] = e.slot /\ (at'[e.by] \in Entered \/ Stray(e.by)')
  BY DEF EntriesOwned
<1>1. ASSUME e \in panics \ Entries(slot[r])
      PROVE  slot[e.by] = e.slot /\ (at'[e.by] \in Entered \/ Stray(e.by)')
  <2>1. slot[e.by] = e.slot /\ (at[e.by] \in Entered \/ Stray(e.by)) /\ e.by \in Requests
    BY <1>1 DEF Owned, EntriesOwned, RoutingTypeOK, Entry
  <2>2. e.by # r
    BY <1>1, <2>1 DEF Entries
  <2> QED
    BY <2>1, <2>2 DEF Stray
<1>2. ASSUME e = [slot |-> slot[r], by |-> r], at'[r] \in Entered \/ Stray(r)'
      PROVE  slot[e.by] = e.slot /\ (at'[e.by] \in Entered \/ Stray(e.by)')
  BY <1>2
<1> QED
  BY <1>1, <1>2 DEF Deleted, Stored

LEMMA OwnedStep ==
  ASSUME RoutingTypeOK, Settled, Owned, [RoutingNext]_routingVars
  PROVE  Owned'
<1> USE OfferAssumption, PlacesList
<1>1. CASE StartListening \/ (\E o \in Offers : Put(o)) \/ UNCHANGED routingVars
  BY <1>1 DEF Put, StartListening, routingVars, Owned, SlotsApart, EntriesOwned, AnswersOwned,
              PanicsCallTheirOwn, StraysStream, Active, Stray
<1>2. ASSUME NEW r \in Requests, Begin(r)
      PROVE  Owned'
  <2>1. UNCHANGED <<panics, raced, answerer>> /\ at[r] = "new"
    BY <1>2, BeginDoes DEF Begin
  <2>2. /\ \A q \in Requests \ {r} :
             at'[q] = at[q] /\ slot'[q] = slot[q] /\ result'[q] = result[q]
        /\ \A q \in Requests : Active(q) => slot[q] # slot'[r]
        /\ at'[r] \in {"bound", "returned"}
    BY <1>2, BeginDoes
  <2>3. \A q \in Requests \ {r} : Active(q)' = Active(q) /\ Stray(q)' = Stray(q)
    BY <2>2 DEF Active, Stray
  <2>4. ~ Stray(r) /\ at[r] \notin Entered
    BY <2>1 DEF Stray, Entered
  <2>5. SlotsApart'
    BY <2>2, <2>3 DEF Owned, SlotsApart
  <2>6. EntriesOwned'
    <3> SUFFICES ASSUME raced = {}, NEW e \in panics
                 PROVE  slot'[e.by] = e.slot /\ (at'[e.by] \in Entered \/ Stray(e.by)')
      BY <2>1 DEF EntriesOwned
    <3>1. slot[e.by] = e.slot /\ (at[e.by] \in Entered \/ Stray(e.by)) /\ e.by \in Requests
      BY DEF Owned, EntriesOwned, RoutingTypeOK, Entry
    <3> QED
      BY <2>2, <2>3, <2>4, <3>1
  <2>7. AnswersOwned'
    <3>1. \A q \in Requests : at'[q] = "new" => answerer'[q] = Nothing
      BY <2>1, <2>2 DEF Owned, AnswersOwned
    <3>2. answerer[r] = Nothing
      BY <2>1 DEF Owned, AnswersOwned
    <3>3. ASSUME raced = {}, NEW q \in Requests, answerer[q] \notin {Nothing, q}
          PROVE  Stray(answerer[q])' /\ slot'[answerer[q]] = slot'[q]
      <4>1. /\ Stray(answerer[q]) /\ slot[answerer[q]] = slot[q]
            /\ answerer[q] \in Requests /\ q # r
        BY <3>2, <3>3 DEF Owned, AnswersOwned, PanicsCallTheirOwn, RoutingTypeOK
      <4> QED
        BY <2>1, <2>2, <2>4, <4>1 DEF Stray
    <3> QED
      BY <2>1, <3>1, <3>3 DEF AnswersOwned, PanicsCallTheirOwn
  <2>8. StraysStream'
    BY <2>2 DEF Owned, StraysStream
  <2> QED
    BY <2>5, <2>6, <2>7, <2>8 DEF Owned
<1>3. ASSUME NEW r \in Requests, Support(r)
      PROVE  Owned'
  <2>1. /\ UNCHANGED <<slot, answerer, raced, panics>> /\ raced \subseteq raced'
        /\ at[r] = "bound" /\ at'[r] \in {"call", "returned"}
        /\ \A q \in Requests \ {r} : at'[q] = at[q] /\ result'[q] = result[q]
    BY <1>3, SupportDoes
  <2>2. EntriesOwned'
    BY <2>1, EntriesStay DEF Entered
  <2> QED
    BY <2>1, <2>2, OneMoves DEF Owned
<1>4. ASSUME NEW r \in Requests, Call(r)
      PROVE  Owned'
  <2>1. /\ UNCHANGED <<slot, answerer, raced, panics>> /\ raced \subseteq raced'
        /\ at[r] = "call" /\ at'[r] \in {"again", "panicked", "returned"}
        /\ \A q \in Requests \ {r} : at'[q] = at[q] /\ result'[q] = result[q]
    BY <1>4, CallDoes
  <2>2. EntriesOwned'
    BY <2>1, EntriesStay DEF Entered
  <2> QED
    BY <2>1, <2>2, OneMoves DEF Owned
<1>5. ASSUME NEW r \in Requests, Again(r)
      PROVE  Owned'
  <2>1. /\ UNCHANGED <<slot, answerer, raced, panics, result>> /\ raced \subseteq raced'
        /\ at[r] = "again" /\ at'[r] = "call"
        /\ \A q \in Requests \ {r} : at'[q] = at[q] /\ result'[q] = result[q]
    BY <1>5, GoMoves DEF Again
  <2>2. EntriesOwned'
    BY <2>1, EntriesStay DEF Entered
  <2> QED
    BY <2>1, <2>2, OneMoves DEF Owned
\* The steps to an access of the map, or past it when the map is empty.
<1>6. ASSUME NEW r \in Requests, OnError(r) \/ Finish(r) \/ Recover(r)
      PROVE  Owned'
  <2>1. UNCHANGED <<slot, answerer, panics, result>>
    BY <1>6 DEF OnError, Finish, Recover, Reach
  <2>2. /\ raced \subseteq raced'
        /\ at[r] \in {"call", "returned", "panicked"}
        /\ \/ at'[r] \in {"store", "delete", "look"}
           \/ at'[r] = "done" /\ panics = {}
        /\ \A q \in Requests \ {r} : at'[q] = at[q]
    <3>1. CASE Enter(r, "call", "store", "call")
      BY <3>1, EnterMoves DEF Storing
    <3>2. CASE Enter(r, "returned", "delete", "done")
      <4>1. "delete" \in Places /\ "done" \in Places
        BY DEF Places, Served
      <4>2. RoutingTypeOK /\ r \in Requests
        OBVIOUS
      <4> QED
        BY ONLY <3>2, <4>1, <4>2, EnterMoves
    <3>3. CASE Enter(r, "panicked", "look", "done")
      <4>1. "look" \in Places /\ "done" \in Places
        BY DEF Places, Served
      <4>2. RoutingTypeOK /\ r \in Requests
        OBVIOUS
      <4> QED
        BY ONLY <3>3, <4>1, <4>2, EnterMoves
    <3> QED
      BY <1>6, <3>1, <3>2, <3>3 DEF OnError, Finish, Recover, Reach
  <2>3. EntriesOwned'
    BY <2>1, <2>2, EntriesStay DEF Entered, Entries
  <2> QED
    BY <2>1, <2>2, <2>3, OneMoves DEF Owned
<1>7. ASSUME NEW r \in Requests, OnErrorLate(r)
      PROVE  Owned'
  <2>1. /\ UNCHANGED <<slot, answerer, panics, result>> /\ raced \subseteq raced'
        /\ at[r] = "done" /\ at'[r] = "storeLate" /\ Late /\ result[r] = "ok"
        /\ \A q \in Requests \ {r} : at'[q] = at[q] /\ result'[q] = result[q]
    BY <1>7, EnterMoves DEF OnErrorLate, Reach, Storing
  <2>2. EntriesOwned'
    BY <2>1, EntriesStay DEF Entered
  <2> QED
    BY <2>1, <2>2, OneMoves DEF Owned
\* The accesses.
<1>8. ASSUME NEW r \in Requests,
             \/ OnErrorStored(r) \/ FinishDeleted(r) \/ RecoverDeleted(r)
      PROVE  Owned'
  <2>1. /\ UNCHANGED <<slot, answerer, raced, result>> /\ raced \subseteq raced'
        /\ \/ at[r] = "store" /\ at'[r] = "call"
           \/ at[r] \in {"delete", "recoverDelete"} /\ at'[r] = "done"
        /\ \A q \in Requests \ {r} : at'[q] = at[q] /\ result'[q] = result[q]
    BY <1>8, GoMoves DEF OnErrorStored, FinishDeleted, RecoverDeleted, Leave
  <2>2. \/ panics' = Deleted(r)
        \/ panics' = Stored(r) /\ at'[r] = "call"
        \/ raced # {}
    BY <1>8, GoMoves DEF OnErrorStored, FinishDeleted, RecoverDeleted, Leave
  <2>3. EntriesOwned'
    BY <2>1, <2>2, EntriesChange DEF Entered
  <2> QED
    BY <2>1, <2>3, OneMoves DEF Owned
<1>9. ASSUME NEW r \in Requests, OnErrorLateStored(r)
      PROVE  Owned'
  <2>1. /\ UNCHANGED <<slot, answerer, raced, result>> /\ raced \subseteq raced'
        /\ at[r] = "storeLate" /\ at'[r] = "gone"
        /\ \A q \in Requests \ {r} : at'[q] = at[q] /\ result'[q] = result[q]
    BY <1>9, GoMoves DEF OnErrorLateStored, Leave
  <2>2. Late /\ result[r] = "ok" /\ Stray(r)'
    BY <2>1 DEF Owned, StraysStream, Stray
  <2>3. EntriesOwned'
    BY <1>9, <2>1, <2>2, EntriesChange DEF OnErrorLateStored, Leave
  <2> QED
    BY <2>1, <2>2, <2>3, OneMoves DEF Owned
<1>10. ASSUME NEW r \in Requests, Looked(r)
       PROVE  Owned'
  <2>1. UNCHANGED <<slot, panics, result>>
    BY <1>10 DEF Looked
  <2>2. ASSUME at[r] = "look", raced \subseteq raced', UNCHANGED answerer,
               at'[r] = "done", Entries(slot[r]) = {} \/ raced' # {},
               \A q \in Requests \ {r} : at'[q] = at[q]
        PROVE  Owned'
    <3>1. EntriesOwned'
      BY <2>1, <2>2, EntriesStay DEF Entered
    <3> QED
      BY <2>1, <2>2, <3>1, OneMoves DEF Owned
  <2>3. CASE Go(r, "look", "done") /\ UNCHANGED <<answerer, raced>>
             /\ (Entries(slot[r]) = {} \/ r \in raced)
    BY <2>2, <2>3, GoMoves
  <2>4. ASSUME NEW e \in Entries(slot[r]), answerer' = [answerer EXCEPT ![r] = e.by],
               Enter(r, "look", "recoverDelete", "done")
        PROVE  Owned'
    <3>1. panics # {}
      BY DEF Entries
    <3>2. /\ at[r] = "look" /\ at'[r] = "recoverDelete" /\ raced \subseteq raced'
          /\ \A q \in Requests \ {r} : at'[q] = at[q] /\ result'[q] = result[q]
      BY <2>1, <2>4, <3>1, EnterMoves
    <3>3. EntriesOwned'
      BY <2>1, <3>2, EntriesStay DEF Entered
    <3>4. SlotsApart'
      BY <2>1, <3>2 DEF Owned, SlotsApart, Active
    <3>5. StraysStream'
      BY <2>1, <3>2 DEF Owned, StraysStream
    <3>7. /\ answerer'[r] = e.by
          /\ \A q \in Requests \ {r} : answerer'[q] = answerer[q]
      BY <2>4 DEF RoutingTypeOK
    <3>8. \A q \in Requests : at'[q] = "new" => answerer'[q] = Nothing
      BY <3>2, <3>7 DEF Owned, AnswersOwned
    <3>9. ASSUME raced' = {}, NEW q \in Requests, answerer'[q] \notin {Nothing, q}
          PROVE  Stray(answerer[q])' /\ slot[answerer'[q]] = slot[q]
      <4>0. raced = {}
        BY <3>2, <3>9
      <4>1. CASE q = r
        <5>1. /\ e \in panics /\ e.slot = slot[r] /\ e.by \in Requests /\ e.by # r
          BY <3>7, <3>9, <4>1 DEF Entries, RoutingTypeOK, Entry
        <5>2. slot[e.by] = slot[r] /\ (at[e.by] \in Entered \/ Stray(e.by))
          BY <4>0, <5>1 DEF Owned, EntriesOwned
        <5>3. at[e.by] \notin Entered
          BY <3>2, <5>1, <5>2 DEF Owned, SlotsApart, Active, Entered
        <5> QED
          BY <2>1, <3>2, <3>7, <4>1, <5>1, <5>2, <5>3 DEF Stray
      <4>2. CASE q # r
        <5>1. /\ Stray(answerer[q]) /\ slot[answerer[q]] = slot[q]
              /\ answerer[q] \in Requests /\ answerer'[q] = answerer[q]
          BY <3>7, <3>9, <4>0, <4>2 DEF Owned, AnswersOwned, PanicsCallTheirOwn, RoutingTypeOK
        <5> QED
          BY <2>1, <3>2, <5>1 DEF Stray
      <4> QED
        BY <4>1, <4>2
    <3>10. PanicsCallTheirOwn'
      BY <2>1, <3>9 DEF PanicsCallTheirOwn
    <3> QED
      BY <3>3, <3>4, <3>5, <3>8, <3>10 DEF Owned, AnswersOwned
  <2> QED
    BY <1>10, <2>3, <2>4 DEF Looked
<1> QED
  BY <1>1, <1>2, <1>3, <1>4, <1>5, <1>6, <1>7, <1>8, <1>9, <1>10 DEF RoutingNext, Serve

-----------------------------------------------------------------------------

\* The inductive invariant holds for any number of requests, contexts and offers.
THEOREM Invariant == RoutingSpec => []RoutingInv
<1>1. RoutingInv /\ [RoutingNext]_routingVars => RoutingInv'
  BY RoutingTypeStep, SettledStep, BudgetedStep, OwnedStep DEF RoutingInv
<1> QED
  BY <1>1, RoutingInitInv, PTL DEF RoutingSpec

\* Every variable keeps its type: the lists and maps of v1.go and container.go hold
\* what they are meant to hold.
THEOREM RoutingTypeCorrect == RoutingSpec => []RoutingTypeOK
BY Invariant, PTL DEF RoutingInv

\* A panic calls what its own request registered, or a stream of the same context
\* whose handler had returned, as long as no accesses to the map met
\* (v1.go:92-95, 106).
THEOREM OnlyTheirOwn == RoutingSpec => []PanicsCallTheirOwn
<1>1. RoutingInv => PanicsCallTheirOwn
  BY DEF RoutingInv, Owned, AnswersOwned
<1> QED
  BY <1>1, Invariant, PTL

\* execute gives up only after the first call and all of the retries, and the call
\* that succeeds is the last one and the answer (builder.go:51-72).
THEOREM RetriesSpent == RoutingSpec => []RetriesAreSpent
<1>1. RoutingInv => RetriesAreSpent
  <2> SUFFICES ASSUME RoutingInv, NEW r \in Requests
               PROVE  /\ tries[r] <= 1 + Retries(relay[r])
                      /\ result[r] = "error" => tries[r] = 1 + Retries(relay[r])
                      /\ succeeded[r] \subseteq {tries[r]}
                      /\ result[r] = "ok" <=> succeeded[r] # {}
    BY DEF RetriesAreSpent, Retries
  <2>1. BudgetedOf(r) /\ SettledOf(r)
    BY DEF RoutingInv, Budgeted, Settled
  <2>2. tries[r] \in Nat /\ retry[r] \in Nat /\ Retries(relay[r]) \in Nat
    BY OfferAssumption DEF RoutingInv, RoutingTypeOK, Retries, OfferType
  <2>3. CASE at[r] \in {"new", "bound"}
    BY <2>1, <2>2, <2>3 DEF BudgetedOf, SettledOf
  <2>4. CASE at[r] \in Routed
    BY <2>1, <2>2, <2>4 DEF BudgetedOf
  <2>5. CASE at[r] \in Served
    BY <2>1, <2>2, <2>5 DEF BudgetedOf
  <2>6. at[r] \in Places
    BY DEF RoutingInv, RoutingTypeOK
  <2> QED
    BY <2>3, <2>4, <2>5, <2>6 DEF Places
<1> QED
  BY <1>1, Invariant, PTL

\* Two requests for one model and type are given the same relay, or none both, unless
\* two offers of the type share an id (container.go:58-93).
THEOREM Stable == RoutingSpec => []RoutingIsStable
<1>1. RoutingInv => RoutingIsStable
  <2> SUFFICES ASSUME RoutingInv,
                      \A o, p \in container :
                        o.typed = p.typed /\ o.mod \cap p.mod # {} => o = p,
                      NEW q \in Requests, NEW r \in Requests, ask[q] = ask[r],
                      {result[q], result[r]} \cap {"none", "invalid"} = {}
               PROVE  relay[q] = relay[r]
    BY DEF RoutingIsStable
  <2> DEFINE found == Found(ask[q].typed, ask[q].model)
  <2>1. \A o, p \in found : o = p
    BY DEF Found
  <2>2. \A s \in {q, r} : (relay[s] = Nothing /\ found = {}) \/ relay[s] \in found
    BY DEF RoutingInv, RoutingTypeOK, Results, Settled, SettledOf
  <2> QED
    BY <2>1, <2>2
<1> QED
  BY <1>1, Invariant, PTL
=============================================================================
