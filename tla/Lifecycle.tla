----------------------------- MODULE Lifecycle -----------------------------
(***************************************************************************)
(* The process from its start to its end: the hooks of env/initialized.go, *)
(* the configuration of env/env.go and the Run function of                 *)
(* internal/cobra.go.                                                      *)
(*                                                                         *)
(* inits is a Go slice: AddInitialized appends to it and sorts it in       *)
(* place, and Initialized ranges over the slice as it was at the start.    *)
(* As long as the array behind it has room, a hook that registers another  *)
(* one moves the elements under the running loop.                          *)
(***************************************************************************)
EXTENDS Integers, Sequences, FiniteSets, SequencesExt

CONSTANTS
  Hooks,       \* hooks registered by the init functions of packages
  LateHooks,   \* hooks registered by a hook
  Priority,    \* the priority each is registered with
  Registers,   \* the ways in which hooks may register others when they run
  ExitHooks,   \* hooks registered with AddExited
  MaxSignals   \* bound: SIGINT and SIGTERM received

AllHooks == Hooks \cup LateHooks

\* A hook stands for one call of AddInitialized: no two calls are of one hook.
ASSUME HookAssumption ==
  /\ Hooks \cap LateHooks = {}
  /\ Priority \in [AllHooks -> Int]
  /\ Registers \subseteq [AllHooks -> Seq(LateHooks)]
  /\ \A way \in Registers : \A g, h \in AllHooks :
       \A j \in DOMAIN way[g], k \in DOMAIN way[h] :
          way[g][j] = way[h][k] => g = h /\ j = k
  /\ MaxSignals \in Nat
  /\ Cardinality(AllHooks) <= 12   \* up to 12 elements SortFunc is stable

VARIABLES
  registers, \* registers[h]: the late hooks h registers; never changes
  modelView, \* the flag --models; never changes
  inits,     \* the slice of hooks
  capacity,  \* how many elements the array behind it holds
  view,      \* the loop's slice: its length, and its array if that is another
  pos,       \* how far the loop has come
  exits,     \* the slice of exit hooks
  phase,     \* where main is
  signals,   \* signals received so far
  osSignal,  \* signals buffered for the goroutine (capacity 1)
  exiting,   \* the goroutine: how many exit hooks it has called, or -1
  ran,       \* history: the hooks that were run
  exited,    \* history: the exit hooks that were run
  ending     \* "none" while the process runs, then what ended it

setting == <<registers, modelView>>

vars == <<setting, inits, capacity, view, pos, exits, phase, signals, osSignal,
          exiting, ran, exited, ending>>

Init ==
  /\ registers \in Registers /\ modelView \in BOOLEAN
  /\ inits = <<>> /\ capacity = 0
  /\ view = [length |-> 0, shared |-> TRUE, array |-> <<>>]
  /\ pos = 0 /\ exits = <<>>
  /\ phase = "init"
  /\ signals = 0 /\ osSignal = 0 /\ exiting = -1
  /\ ran = <<>> /\ exited = <<>>
  /\ ending = "none"

Alive == ending = "none"

-----------------------------------------------------------------------------
(* The slices.                                                             *)

\* MUTANT of Sorted: puts an element before those of its own priority.
SortedBefore(s, h) ==
  LET before == {k \in DOMAIN s : Priority[s[k]] < Priority[h]}
      n      == Cardinality(before)
  IN  SubSeq(s, 1, n) \o <<h>> \o SubSeq(s, n + 1, Len(s))

\* MUTANT of Sorted: the new element stays where append has put it.
Unsorted(s, h) == Append(s, h)

\* append and SortFunc: s is sorted, and h goes behind the elements that do not
\* come after it.
Sorted(s, h) ==
  LET before == {k \in DOMAIN s : Priority[s[k]] <= Priority[h]}
      n      == Cardinality(before)
  IN  SubSeq(s, 1, n) \o <<h>> \o SubSeq(s, n + 1, Len(s))

\* The array append leaves behind: the same one while there is room, else one of
\* twice the size, and the loop goes on with the old one.
State == [inits |-> inits, capacity |-> capacity, view |-> view]

AddInitialized(st, h) ==
  LET full == Len(st.inits) = st.capacity
  IN  [inits    |-> Sorted(st.inits, h),
       capacity |-> IF ~full THEN st.capacity
                    ELSE IF st.capacity = 0 THEN 1 ELSE 2 * st.capacity,
       view     |-> IF full /\ st.view.shared
                    THEN [st.view EXCEPT !.shared = FALSE, !.array = st.inits]
                    ELSE st.view]

\* What a hook registers, one call after the other.
AddEach(st, hooks) ==
  LET after[k \in 0 .. Len(hooks)] ==
        IF k = 0 THEN st ELSE AddInitialized(after[k - 1], hooks[k])
  IN  after[Len(hooks)]

Becomes(st) ==
  /\ inits' = st.inits /\ capacity' = st.capacity /\ view' = st.view

\* The init functions of the packages, in an order the linker chooses.
Register(h) ==
  /\ Alive /\ phase = "init"
  /\ h \notin ToSet(inits)
  /\ Becomes(AddInitialized(State, h))
  /\ UNCHANGED <<setting, pos, exits, phase, signals, osSignal, exiting, ran,
                 exited, ending>>

\* An exit hook comes from an init function or from a hook.
AddExited(h) ==
  /\ Alive /\ phase \in {"init", "hooks"}
  /\ h \notin ToSet(exits)
  /\ exits' = Append(exits, h)
  /\ UNCHANGED <<setting, inits, capacity, view, pos, phase, signals, osSignal,
                 exiting, ran, exited, ending>>

-----------------------------------------------------------------------------
(* main.                                                                   *)

InitLogger ==
  /\ Alive /\ phase = "init"
  /\ ToSet(inits) = Hooks
  /\ phase' = "logger"
  /\ UNCHANGED <<setting, inits, capacity, view, pos, exits, signals, osSignal,
                 exiting, ran, exited, ending>>

\* Without a configuration that can be read and parsed the process is at its end.
InitEnviron ==
  /\ Alive /\ phase = "logger"
  /\ \/ phase' = "environ" /\ UNCHANGED ending
     \/ phase' = "left" /\ ending' = "fatal"
  /\ UNCHANGED <<setting, inits, capacity, view, pos, exits, signals, osSignal,
                 exiting, ran, exited>>

Initialized ==
  /\ Alive /\ phase = "environ"
  /\ phase' = "hooks"
  /\ view' = [length |-> Len(inits), shared |-> TRUE, array |-> <<>>]
  /\ UNCHANGED <<setting, inits, capacity, pos, exits, signals, osSignal,
                 exiting, ran, exited, ending>>

Current == IF view.shared THEN inits[pos + 1] ELSE view.array[pos + 1]

\* One turn of the loop, with all that the hook registers.
RunHook ==
  /\ Alive /\ phase = "hooks" /\ pos < view.length
  /\ ran' = Append(ran, Current)
  /\ pos' = pos + 1
  /\ Becomes(AddEach(State, registers[Current]))
  /\ UNCHANGED <<setting, exits, phase, signals, osSignal, exiting, exited,
                 ending>>

Notify ==
  /\ Alive /\ phase = "hooks" /\ pos = view.length
  /\ phase' = "notified"
  /\ UNCHANGED <<setting, inits, capacity, view, pos, exits, signals, osSignal,
                 exiting, ran, exited, ending>>

\* --models lists and returns, and the process ends with main.  A listener that
\* cannot be opened panics.
Listen ==
  /\ Alive /\ phase = "notified"
  /\ \/ ~modelView /\ phase' = "serving" /\ UNCHANGED ending
     \/ ~modelView /\ phase' = "left" /\ ending' = "panic"
     \/ modelView /\ phase' = "left" /\ ending' = "returned"
  /\ UNCHANGED <<setting, inits, capacity, view, pos, exits, signals, osSignal,
                 exiting, ran, exited>>

MainStep == InitLogger \/ InitEnviron \/ Initialized \/ RunHook \/ Notify \/ Listen

-----------------------------------------------------------------------------
(* Signals.                                                                *)

Notified == phase \in {"notified", "serving"}

\* Before signal.Notify a signal kills; after it, one is kept for the goroutine
\* and the others are dropped.
Signal ==
  /\ Alive /\ signals < MaxSignals
  /\ signals' = signals + 1
  /\ IF Notified THEN osSignal' = 1 /\ UNCHANGED ending
                 ELSE ending' = "killed" /\ UNCHANGED osSignal
  /\ UNCHANGED <<setting, inits, capacity, view, pos, exits, phase, exiting,
                 ran, exited>>

\* MUTANT of TakeSignal: every signal starts the exit hooks again.
TakeEverySignal ==
  /\ Alive /\ Notified /\ osSignal = 1
  /\ osSignal' = 0
  /\ exiting' = 0
  /\ UNCHANGED <<setting, inits, capacity, view, pos, exits, phase, signals,
                 ran, exited, ending>>

TakeSignal ==
  /\ Alive /\ Notified /\ osSignal = 1 /\ exiting = -1
  /\ osSignal' = 0
  /\ exiting' = 0
  /\ UNCHANGED <<setting, inits, capacity, view, pos, exits, phase, signals,
                 ran, exited, ending>>

RunExit ==
  /\ Alive /\ exiting \in 0 .. (Len(exits) - 1)
  /\ exited' = Append(exited, exits[exiting + 1])
  /\ exiting' = exiting + 1
  /\ UNCHANGED <<setting, inits, capacity, view, pos, exits, phase, signals,
                 osSignal, ran, ending>>

\* MUTANT of Exit: the goroutine ends, the process does not.
ExitGoroutine ==
  /\ Alive /\ exiting = Len(exits)
  /\ exiting' = -2
  /\ UNCHANGED <<setting, inits, capacity, view, pos, exits, phase, signals,
                 osSignal, ran, exited, ending>>

Exit ==
  /\ Alive /\ exiting = Len(exits)
  /\ ending' = "exit"
  /\ UNCHANGED <<setting, inits, capacity, view, pos, exits, phase, signals,
                 osSignal, exiting, ran, exited>>

ExitStep == TakeSignal \/ RunExit \/ Exit

Next ==
  \/ \E h \in Hooks : Register(h)
  \/ \E h \in ExitHooks : AddExited(h)
  \/ MainStep
  \/ Signal
  \/ ExitStep

Spec == Init /\ [][Next]_vars

\* main and the goroutine run when they can; the hooks come back.
FairSpec == Spec /\ WF_vars(MainStep) /\ WF_vars(ExitStep)

-----------------------------------------------------------------------------
(* Properties.                                                             *)

\* Hooks run in the order of their priorities, each at most once and none left
\* out, in whatever order the packages registered them; only a hook that
\* registers another can upset this (initialized.go:28-38).
HooksRunInOrder ==
  (\A k \in DOMAIN ran : registers[ran[k]] = <<>>) =>
    /\ \A j, k \in DOMAIN ran :
          j < k => ran[j] # ran[k] /\ Priority[ran[j]] <= Priority[ran[k]]
    /\ \A j \in DOMAIN ran, h \in Hooks \ ToSet(ran) :
          Priority[ran[j]] <= Priority[h]
    /\ phase \in {"notified", "serving"} => ToSet(ran) = Hooks

\* A hook that registers hooks of a later priority than its own never runs
\* twice, nor do the others: what it moves is behind the loop's position.
LaterHooksDoNotRepeat ==
  (\A h \in AllHooks : \A k \in DOMAIN registers[h] :
      Priority[registers[h][k]] >= Priority[h])
  => \A j, k \in DOMAIN ran : j # k => ran[j] # ran[k]

\* Signals that repeat do not run an exit hook twice, nor cut the hooks short
\* (initialized.go:40-48).
ExitHooksRunOnce ==
  /\ \A j, k \in DOMAIN exited : j # k => exited[j] # exited[k]
  /\ ending = "exit" => exited = exits

\* A signal that finds the process initialized ends it.
SignalEnds == osSignal = 1 ~> ~Alive
=============================================================================
