------------------------------- MODULE Robot -------------------------------
(***************************************************************************)
(* The desktop robot (src/internal/robot/robot.go): callers of WaitEvent,  *)
(* which take turns at a mutex, and the event hook, which does not take    *)
(* it, start one application, drive it, and kill it.                       *)
(*                                                                         *)
(* The application is started by a goroutine that nobody waits for, and    *)
(* that writes its outcome into the err of the runApp that started it,     *)
(* while runApp reads and writes the same variable.  Nothing in the        *)
(* package sends to chanToken.  An application bears the name of who       *)
(* started it.  The robotgo library and the desktop are external: a look   *)
(* for the application may miss it, and every call may fail.               *)
(***************************************************************************)
EXTENDS Naturals, FiniteSets

CONSTANTS Callers,    \* calls of WaitEvent
          Hook,       \* the call of eventHook
          User,       \* who may have started the application before
          None,       \* no process, nobody
          Crowds,     \* bound: which calls there are in one run
          MaxEvents   \* bound: the events of the configuration

ASSUME RobotAssumption ==
    /\ Hook \notin Callers /\ User \notin Callers \cup {Hook}
    /\ None \notin Callers \cup {Hook, User}
    /\ MaxEvents \in Nat

Procs == Callers \cup {Hook}

ASSUME CrowdAssumption == Crowds \subseteq SUBSET Procs

VARIABLES at,       \* where each call is
          late,     \* callers whose context is done: 10 s are over, or the parent ended
          mu,       \* who holds the mutex
          pid,      \* pid[p]: the application p has found, None is -1
          err,      \* err[p]: p's runApp has an error, from Check or Activate on
          started,  \* started[p]: p's goroutine, "no", "asked", "run" or "over"
          apps,     \* applications that run
          sent,     \* sent[p]: events p has sent
          answer,   \* how each call was answered
          excused   \* history: an application was missed by a look or came after it

robotVars == <<at, late, mu, pid, err, started, apps, sent, answer, excused>>

\* Where runApp's err is still to be read.
ErrMatters == {"checked", "return"}

RobotInit ==
    /\ \E crowd \in Crowds : at = [p \in Procs |-> IF p \in crowd THEN "new" ELSE "absent"]
    /\ late = {} /\ mu = None
    /\ pid = [p \in Procs |-> None]
    /\ err = [p \in Procs |-> FALSE]
    /\ started = [p \in Procs |-> "no"]
    /\ apps \in SUBSET {User}
    /\ sent = [p \in Procs |-> 0]
    /\ answer = [p \in Procs |-> "none"]
    /\ excused = FALSE

\* log.Fatal in the hook ends them all.
Lasts == answer[Hook] # "fatal"

Go(p, from, to) == Lasts /\ at[p] = from /\ at' = [at EXCEPT ![p] = to]

\* isCancel: the hook has no context.
IsCancel(p) == p \in late
----------------------------------------------------------------------------
\* runApp, of a caller or of the hook.

\* FindIds answers the application's processes, of which the first is taken,
\* or none, or fails; its error is overwritten before it is read.
FindIds(p) ==
    /\ \E app \in apps \cup {None} : pid' = [pid EXCEPT ![p] = app]
    /\ excused' = (excused \/ (pid'[p] = None /\ apps # {}))

\* One that does not run is started by a goroutine, and has a second.
Find(p) ==
    /\ FindIds(p)
    /\ IF pid'[p] = None
       THEN Go(p, "find", "sleep") /\ started' = [started EXCEPT ![p] = "asked"]
       ELSE Go(p, "find", "check") /\ UNCHANGED started
    /\ UNCHANGED <<late, mu, err, apps, sent, answer>>

FindAgain(p) ==
    /\ Go(p, "sleep", "check")
    /\ FindIds(p)
    /\ UNCHANGED <<late, mu, err, started, apps, sent, answer>>

\* Cancelled, or nothing found: -1 and an error are answered.
Check(p) ==
    /\ IF IsCancel(p) \/ pid[p] = None
       THEN /\ Go(p, "check", "return")
            /\ pid' = [pid EXCEPT ![p] = None]
            /\ err' = [err EXCEPT ![p] = TRUE]
       ELSE Go(p, "check", "activate") /\ UNCHANGED <<pid, err>>
    /\ UNCHANGED <<late, mu, started, apps, sent, answer, excused>>

Activate(p) ==
    /\ Go(p, "activate", "checked")
    /\ \E e \in BOOLEAN : err' = [err EXCEPT ![p] = e]
    /\ UNCHANGED <<late, mu, pid, started, apps, sent, answer, excused>>

Checked(p) ==
    /\ Go(p, "checked", "return")
    /\ pid' = [pid EXCEPT ![p] = IF err[p] THEN None ELSE @]
    /\ UNCHANGED <<late, mu, err, started, apps, sent, answer, excused>>

\* The goroutine's Run comes back, with or without an error, when that makes
\* a difference: the application could not be started, has ended, or goes on
\* by itself.
RunComesBack(p) ==
    /\ Lasts /\ started[p] \in {"asked", "run"}
    /\ at[p] \in ErrMatters
    /\ started' = [started EXCEPT ![p] = "over"]
    /\ \E e \in BOOLEAN : err' = [err EXCEPT ![p] = e]
    /\ UNCHANGED <<at, late, mu, pid, apps, sent, answer, excused>>

\* The application comes up, in time for the second look or not.
AppStarts(p) ==
    /\ Lasts /\ started[p] = "asked"
    /\ started' = [started EXCEPT ![p] = "run"]
    /\ apps' = apps \cup {p}
    /\ excused' = (excused \/ at[p] # "sleep")
    /\ UNCHANGED <<at, late, mu, pid, err, sent, answer>>

\* External: it quits by itself.
AppEnds(app) ==
    /\ Lasts /\ app \in apps
    /\ apps' = apps \ {app}
    /\ UNCHANGED <<at, late, mu, pid, err, started, sent, answer, excused>>
----------------------------------------------------------------------------
\* WaitEvent.

\* The ten seconds begin before the lock is taken.
Call(c) ==
    /\ Go(c, "new", "lock")
    /\ UNCHANGED <<late, mu, pid, err, started, apps, sent, answer, excused>>

TimeIsUp(c) ==
    /\ Lasts /\ at[c] \notin {"absent", "new", "done"} /\ c \notin late
    /\ late' = late \cup {c}
    /\ UNCHANGED <<at, mu, pid, err, started, apps, sent, answer, excused>>

\* MUTANT of Unlocked: the lock is not there.
UnlockedAnyway == TRUE

\* The mutex is free.
Unlocked == mu = None

Lock(c) ==
    /\ Go(c, "lock", "find")
    /\ Unlocked
    /\ mu' = c
    /\ UNCHANGED <<late, pid, err, started, apps, sent, answer, excused>>

\* runAuto has what runApp answered, the err as it is now, and asks once more
\* whether the time is up.
RunAuto(c) ==
    /\ Go(c, "return", IF err[c] \/ IsCancel(c) THEN "after" ELSE "event")
    /\ err' = [err EXCEPT ![c] = FALSE]
    /\ UNCHANGED <<late, mu, pid, started, apps, sent, answer, excused>>

\* MUTANT of Unlock: the mutex is unlocked behind the wait for the token.
UnlockAtTheEnd(c) == mu' = IF answer'[c] = "timeout" THEN None ELSE mu

\* The deferred unlock belongs to every end of WaitEvent.
Unlock(c) == mu' = None

Return(c, from, how) ==
    /\ Go(c, from, "done")
    /\ answer' = [answer EXCEPT ![c] = how]
    /\ Unlock(c)
    /\ pid' = [pid EXCEPT ![c] = None] /\ sent' = [sent EXCEPT ![c] = 0]
    /\ UNCHANGED <<late, err, started, apps, excused>>

\* The next event; one that is not of the type its key asks for panics.
Event(c) ==
    /\ ~IsCancel(c) /\ sent[c] < MaxEvents
    /\ \/ /\ Go(c, "event", "event")
          /\ sent' = [sent EXCEPT ![c] = @ + 1]
          /\ UNCHANGED <<late, mu, pid, err, started, apps, answer, excused>>
       \/ Return(c, "event", "panic")

\* The loop over the events is left, and the application with it.
LeaveEvents(c) ==
    /\ IsCancel(c) /\ sent[c] < MaxEvents
    /\ Go(c, "event", "after")
    /\ UNCHANGED <<late, mu, pid, err, started, apps, sent, answer, excused>>

\* Behind the last event the application is killed, cancelled or not; Kill may
\* fail, and its error is logged.
Kill(c) ==
    /\ sent[c] = MaxEvents
    /\ Go(c, "event", "after")
    /\ apps' \in {apps, apps \ {pid[c]}}
    /\ UNCHANGED <<late, mu, pid, err, started, sent, answer, excused>>

\* The time was up before the wait for a token: no token and no error.  It was
\* not: three seconds, or what is left of the ten, pass.
After(c) ==
    \/ IsCancel(c) /\ Return(c, "after", "nothing")
    \/ /\ ~IsCancel(c)
       /\ Go(c, "after", "wait")
       /\ UNCHANGED <<late, mu, pid, err, started, apps, sent, answer, excused>>

Wait(c) == Return(c, "wait", "timeout")
----------------------------------------------------------------------------
\* eventHook, without the mutex and without a context.

StartHook ==
    /\ Go(Hook, "new", "find")
    /\ UNCHANGED <<late, mu, pid, err, started, apps, sent, answer, excused>>

Hooking ==
    /\ Go(Hook, "return", IF err[Hook] THEN "done" ELSE "hooking")
    /\ answer' = [answer EXCEPT ![Hook] = IF err[Hook] THEN "fatal" ELSE "none"]
    /\ UNCHANGED <<late, mu, pid, err, started, apps, sent, excused>>

\* External: the escape key.
Escape ==
    /\ Go(Hook, "hooking", "done")
    /\ \/ apps' = apps \ {pid[Hook]} /\ answer' = [answer EXCEPT ![Hook] = "killed"]
       \/ UNCHANGED apps /\ answer' = [answer EXCEPT ![Hook] = "fatal"]
    /\ UNCHANGED <<late, mu, pid, err, started, sent, excused>>
----------------------------------------------------------------------------
RunAppStep(p) == Find(p) \/ FindAgain(p) \/ Check(p) \/ Activate(p) \/ Checked(p)

CallerStep(c) ==
    \/ RunAppStep(c) \/ Lock(c) \/ RunAuto(c) \/ Event(c) \/ LeaveEvents(c)
    \/ Kill(c) \/ After(c) \/ Wait(c)

RobotNext ==
    \/ \E c \in Callers : Call(c) \/ TimeIsUp(c) \/ CallerStep(c)
    \/ RunAppStep(Hook) \/ StartHook \/ Hooking \/ Escape
    \/ \E p \in Procs : RunComesBack(p) \/ AppStarts(p)
    \/ \E app \in apps : AppEnds(app)

RobotSpec == RobotInit /\ [][RobotNext]_robotVars

\* The library's calls come back, and so do the sleeps and the timer of Wait;
\* nobody has to escape, and no application has to come up or to end.
RobotFairSpec == RobotSpec /\ \A c \in Callers : WF_robotVars(CallerStep(c))
----------------------------------------------------------------------------
\* Properties.

\* INVARIANT.  The mutex keeps callers from starting one application twice
\* (src/internal/robot/robot.go:43, 238): a second one runs beside what a
\* caller has started only if a look missed the first, the first came up
\* behind the second look (247), or the hook started one of its own.
SecondAppHasCause ==
    Cardinality(apps) > 1 => excused \/ at[Hook] \notin {"new", "absent"}

\* Between the lock and the deferred unlock of WaitEvent.
Locked == {"find", "sleep", "check", "activate", "checked", "return", "event",
           "after", "wait"}

\* INVARIANT.  The mutex is held by exactly the caller between the lock and the
\* end of its WaitEvent (robot.go:43-44): there is never a second one in between,
\* and every way out, in time, late or by a panic of an event, has unlocked it.
MutexIsHeldInside == \A c \in Callers : mu = c <=> at[c] \in Locked

\* TEMPORAL.  Every call of WaitEvent comes back (robot.go:39-63), whoever has
\* held the mutex and however its runAuto ended; without a token and an error
\* only when its time was up.
EveryCallReturns ==
    \A c \in Callers :
        at[c] = "lock" ~> \/ at[c] = "done" /\ (answer[c] = "nothing" => c \in late)
                          \/ ~Lasts
=============================================================================
