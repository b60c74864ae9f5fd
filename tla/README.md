# Verification of xllm-go/g

TLA+ models of the Go library and server `github.com/xllm-go/g`, checked with TLC,
with theorems proved by TLAPS. The program adapts chat models to one HTTP interface:
packages register *relays* under model ids, the server routes a completion to one,
and what the relay streams passes through a chain of interceptors to the client.

## 1. The system

| Part | Source | State it keeps | Operations | Model |
|---|---|---|---|---|
| abort context | `internal/v1/abort.go` | channel `done`, `err`, the flag `loop`, channel `ch` | `newAbort`, its poller and watcher, `cancel`, `Done`, `Err` | `AbortContext` |
| interceptor chain | `interceptor/*.go` | a cache per matcher, `think` and `once` | `scan`, `nextToken`, `execute`, the handlers, `ExecuteInterceptors` | `Interceptors` |
| delivery | `model/ctx.go`, `model/response.go` | the relay's channel, the bytes written | `StreamWriter`, `write`, `waitChannel`, `Cancel` | `Delivery` |
| stream pipelines | `stream/*.go` | a buffered channel per stage | sources, `Map`, `FlatMap`, `Filter`, `Distinct`, terminals | `Stream` |
| routing | `internal/v1/v1.go`, `container.go`, `builder.go`, `sdk.go` | the container, the map `panics` | `Put`, `Support`, `Relay`, `OnError`, two middlewares, `execute` | `Routing` |
| lifecycle | `env/*.go`, `internal/cobra.go` | `inits`, `exits`, the signal channel | `AddInitialized`, `AddExited`, `Initialized`, `Run` | `Lifecycle` |
| tokenizer | `tokenizer/*.go` | lexer position, current and next token | `Parse`, attributes, `Str` | `Tokenizer` |
| deep copy | `kit/deepcopy.go` | none | `Copy` (`Record.Clone`) | `DeepCopy` |
| robot | `internal/robot/robot.go` | a mutex, the `err` a goroutine shares with `runApp` | `WaitEvent`, `Hook`; `Run` is left out | `Robot` |
| types, templates, logger | `model/model.go`, `model/lambda.go`, `model/jinja.go`, `logger/` | data only | accessors | no |

How they meet: `cobra.Run` reads the configuration, runs the hooks (one of them fills
the list of configured interceptors, the relays register others that call `Put`) and
starts the server. `completions` creates an abort context and a chain of interceptors
for the request and calls the relay `Support` finds. The relay works in a goroutine of
its own: it hands each chunk to `ExecuteInterceptors`, which may send a tool call or
reasoning on the relay's channel and cancel the context; on the other side of the
channel `StreamWriter` or `waitChannel` answers the client. `stream` is used by the
other packages wherever lists are processed.

What is hard: the close protocol of `done`, an unbuffered channel that is sent on
before it is closed, by several goroutines without a lock; the hand-over of held-back
text between matchers, with chunks cut anywhere; readers that leave a channel before
its sender does; goroutine pipelines that are closed stage by stage, or abandoned; a
slice that is sorted while a loop runs over it; an unlocked map keyed by contexts that
a pool gives out again; a parser that reads ahead and goes back; a copy of values that
may lead back to themselves; an application that is started and not waited for. The
hazards, each at its line and with the properties that would notice, are in
`PROJECT.json`.

## 2. Modules

| Module | What it is |
|---|---|
| `CancelContext` | abstract: a context is open, then done once with an error that stays |
| `AbortContext` | the goroutines of `newAbort`, one action per step between two points where another goroutine may come in |
| `Interceptors` | strings as sequences of symbols, the matchers and handlers as functions, one action: a call of `ExecuteInterceptors` |
| `InterceptorsProofs` | six theorems about it |
| `ListResult` | abstract: a reader gets the elements of a list in order, then the end |
| `Stream` | a pipeline of any number of stages, one action per channel operation |
| `StreamProofs` | five theorems about it |
| `Delivery`, `DeliveryProofs` | relay, channel and reader, and four theorems |
| `Routing` | the requests of the server, their contexts and the map `panics` |
| `ServerProofs` | eleven theorems, seven about `AbortContext` and four about `Routing` |
| `Lifecycle` | the process from its init functions to its end |
| `Tokenizer` | lexer and parser as functions, their loops as rounds, one action: a call of `Parse` |
| `TokenizerProofs` | two theorems about it |
| `DeepCopy` | a memory of nodes, one action per call of `copyRecursive` or turn of its loop over a map |
| `CopyProofs` | three theorems about it |
| `Robot` | the callers of `WaitEvent` and the event hook |
| `ProcessProofs` | five theorems, three about `Lifecycle` and two about `Robot` |
| `ListLemmas` | least numbers, recursive functions, flattened sequences and their members, for the proofs |
| `MC*` | values for TLC |

A definition marked `MUTANT of X` is never used by a specification. It is what `X`
would be with a plausible error in the code; put in the place of `X` it makes the
property named for it in `PROJECT.json` fail.

### AbortContext

`pc[a]` is where a cancel or the watcher is (`check` before the `select`, `toSend`
and `parked` before and in the send, `setErr`, `close`); the poller and the listeners
have counters of their own. A receive is one operation, `Receive`, whoever does it:
it passes if the channel is closed, or releases one sender that is parked. `err` is
read without a lock, so `ReadErr` may answer half of a value (`Torn`) while another one
is being stored. A panic of a cancel is left to its caller; one of the watcher ends the
process, and `Next` with it.

`background` is chosen at the start: the parent is one that never ends, as fiber's is,
or one that may. What is claimed for the first is proved and checked for it alone.

### Interceptors

`alphabet` is chosen at the start: the symbols of this stream, and with them how long it
may be, so that one run covers streams of reasoning, streams of tool calls, and streams
in which both are opened. A tag is two symbols, the `<` all of them share and a letter;
indices and slices are those of the code with 2 for the length of each tag. Slices carry
their bounds check: `InRange` false is a Go panic. An entry whose `match` is empty hits
at once and forgets what it has cached (`symbol.go:15-18`, `114`), so what is said about
lost text excludes it. An entry with `think_reason` reports reasoning too
(`ctor.go:91-94`), so what is said about the built-in matcher for reasoning asks that no
configured one has hit. A call behind reasoning that the stream never closes is cut as
if it began with its tag, when the stream ends, and it begins with the tag of the
reasoning; `CallIsEnclosed` therefore asks that no reasoning was opened. A configured
rule is a literal pattern and the text its first match is replaced by (`Replace`), which
may be empty, or text that was never in the input, or malformed: then the regexp library
answers an error and the handler hands the content on as it is, or reports empty
reasoning (`ctor.go:91-99`). That only matchers which make text can put out what did not
come in is what `EmittedInOrder` says; `Erases` tells the others. The chain is evaluated
as a recursive function `w[i]`, the work after `i` matchers. `hits`, `cuts` and `input`
are history.

### Stream

`image[i][v]`, chosen at the start from `Pipelines`, is what stage `i` sends for `v`; a
stage in `DistinctAt` is a `Filter` with a `Distinct` or `DistinctBy` predicate of its
own. `Map`, `MapPair` and `Filter` are images with at most one element. All channels
have the capacity of the source. `callers`, the sinks that drain this pipeline, is
chosen at the start from `Callers` and never changes, so that one run covers each
terminal alone, two together, and none. `ImplementsList` maps the pipeline to
`ListResult` for whichever sink is alone. What the list is, is said by `ListOp` and
`ListOf`, recursive functions of the operations and the source; `Due` applies the same
operations to what is in flight.

### Tokenizer

A text is a sequence of symbols, a token a kind and a stretch of the text, so that what
an element was read from is known (`first`, `last`: history). The loops are `Rounds` of
`ReadRound` (`eachTokenOf`, with the token at which a run of kinds fails left behind as
in the code), `CloseRound` (the label of `parseElem`, with the count that begins at -1),
`AttributeRound` and `ParseRound`. How many rounds there are goes by the length of the
text, and none of them is ever short: every round takes a symbol or is the last. `LoopsEnd`
proves that of all but the attributes, where a round that takes nothing changes nothing.
The parser keeps its two tokens from one `Parse` to the next. `TextIsKept` says
what comes out in terms of the text alone: the stray blank that doubles a `<`, the rune
0 that ends everything and the second `Parse` that answers nothing are exactly the
exceptions. `NestingIsRight` and `MissedHasCause` are claimed for what the parser can
see (`Visible`, `Counted`), which leaves out a closing tag directly behind another tag.

### DeepCopy

A node is a variable, a boxed value, or a part with an inside; a place in it is a node
or a value without one. `MCDeepCopy` builds every memory of up to three nodes and keeps
those a Go program can build (`WellFormed`: one owner for each part, no address of what
a map or an interface holds, one type for the elements of a slice, keys that can be
compared). Of those rules `HeapAssumption` and `KeyAssumption` name the ones the theorems
need, and one bound: a key with an inside is a pointer or a struct of scalars. One scalar,
`NaN`, is not equal to itself. A map may have it as a key more than once, and no lookup
finds it, nor a struct that holds it (`NotItself`): `MapIndex` answers no value, and asking
that for its type panics (`KeyIsLost`). Calls wait in `todo`
as on the stack; `MaxDepth` is its limit, more than any value without a cycle needs
(`DepthAssumption`). The order of a map's entries is open. `IsCopy` compares two places
down to a depth by a recursive function of the depth, whose values are functions of the
pairs of places there are; as deep as there are nodes is all the way down.

### Robot

`late` are the callers whose context is done, which may happen at any point from the
call on. `excused` is history: a look missed a running application, or one came up
behind the second look. `RunComesBack` is the goroutine's write to the `err` of the
`runApp` that started it, taken as a step between that function's own steps;
the write is left out where `err` is overwritten before anybody reads it. Nothing
sends to `chanToken`, so the branch that receives from it cannot be taken. `RobotInit`,
`RobotNext` and `RobotSpec` have names of their own because one module proves about
`Robot` and `Lifecycle`.

### Delivery

The relay is not in the repository. It is taken as the package is made for: it takes up
pieces of the answer, does what the interceptors make of each (`Work`), closes its
channel when it is through, and looks at its context between two pieces if `heeds`;
`heeds` and `streaming` (which of the two readers it is) are chosen at the start.
`Cancel` is a single step here: `LoneCancelHasReceiver` of `AbortContext` is why a
cancel that is alone does not block. JSON is left out; a body is known by its kind and
its piece.

### Routing

Each access to `panics` is two steps, `Enter` and `Leave`, and an access in between,
one of the two a write, either ends the process (the runtime saw it) or may come to
nothing (it did not). Reads and deletes of an empty map return before the runtime
looks for others. `OnErrorLate` is a relay that streams: its goroutine still holds the
fiber context after the handler has returned. `OnError` is called at most once in a
call of the relay (`armed`). `succeeded` is history: the calls of a request that came back
without an error, by their number.

### Lifecycle

`inits` is a Go slice with the capacity `append` gives it (doubling), and the loop of
`Initialized` holds a view of it: the same array while it has room, a copy of the old
one after it has grown. `AddEach` is the calls of `AddInitialized` a hook makes, one
after the other; each closure it registers is a value of its own, so no two hooks
register the same one (`HookAssumption`). Which hooks register others (`registers`) and
whether the process lists its models (`modelView`) are chosen at the start. Up to 12
elements `slices.SortFunc` is an insertion sort and stable, which `HookAssumption` asks
for as well.

## 3. Runs

| Run | Shows | Bounds |
|---|---|---|
| `abort_context` | types; panics need two racing closers; no spurious wake-up; a lone cancel has a receiver; refines `CancelContext` and final answers when the parent never ends; both goroutines end after a lone cancel or a disconnection that is listened for | 2 cancels, 1 listener, one disconnection, a parent that ends or never does |
| `abort_unheard` | violated: see section 6 | no cancel, 1 listener |
| `streams` | the first reasoning block and a call that begins a chunk are exact; until a configured matcher makes text the output can be read off the input; nothing lost, doubled or overtaken before a hit; the end mark is removed; when slices panic | 6 symbols out of 4 (reasoning; both openings), 5 out of 5 (calls), chunks of up to 2, 3 built-in and 4 configured matchers: one erases, one inserts, one fails, one reports reasoning |
| `miss_swallows` | violated: see section 6 | |
| `stream` | each terminal alone implements `ListResult`, two share the result; nothing blocks without FlatMap; pipelines end | 3 elements, up to 3 stages, a FlatMap that makes 3 of 1, or none |
| `delivery` | the wire follows the relay, with failing writes; nothing after a call; the single answer; both sides end, or why not | 4 pieces of 7 kinds, capacity 2 |
| `lifecycle` | order of hooks, re-entrant registration, signals, exit hooks | 3 hooks, 2 late ones in 3 ways, 2 exit hooks, 2 signals |
| `routing_panics` | a panic calls its own function | 3 requests, 2 contexts, symmetric |
| `routing_offers` | routing is a function when ids are not shared; retries are spent exactly, and none after a success; requests end | 2 requests, 5 offers, retries 2, 0 and -1 |
| `tokenizer` | nothing lost or doubled; which closing tag ends an element; which elements are missed; attributes | 5 tags, 4 pieces of any kind, lists of up to 3 attributes; a second `Parse` |
| `deep_copy` | the copy is equal and shares nothing; it fails on a cycle, a nil key or a key that is not equal to itself, and only then | 3 nodes, 2 fields, elements or entries |
| `robot` | when a second application is started; every call comes back | 2 callers, or 1 and the hook; 2 events |

Why the bounds are enough to be worth anything. Two cancels and the watcher are three
closers, one more than a race takes. Six symbols hold an opening tag, text, a closing
tag and what follows, or a second block, in every cut; five hold a call with an
argument. A FlatMap that makes six of three overflows channels of three. Three requests
on two contexts make a context be used again while another request is running. The
arrays behind three hooks and two late ones grow at 1, 2 and 4, so that late hooks meet
both a full array and one with room. Four pieces, some of which make three bodies, fill
a channel of two several times. Five tags hold two elements in one another and a tag
that closes none; four pieces put every odd symbol between, before and behind tags.
Three nodes hold a cycle through a pointer, a slice or a map, two keys that become one,
two NaN in one map, and a value with two ways to it. Two callers of the robot are one
that leaves an application behind and one that meets it.

Deadlock is not checked where the system may stop: requests are over, a stream has
ended, a pipeline is drained, a closer is blocked for good (which the liveness
properties are about).

### Fairness

Goroutines that can run do run: weak fairness of each goroutine's own steps, nothing
else. In `AbortContext` nobody has to call cancel, listen or disconnect; in `Stream`
each stage and sink is a goroutine; in `Delivery` the relay and the reader; in
`Robot` each caller, whose library calls, sleeps and timer come back; in
`Lifecycle` main and the goroutine that waits for a signal, whose hooks are taken to
come back; in `Routing` each request once it is accepted, with relays that come back.
Signals, disconnections and arrivals are never fair.

## 4. Proofs

Every safety property and action property the runs check is proved for all values of the
constants, except four of `Tokenizer` (section 5). What the theorems rest on are the
assumptions on the constants (`ActorsAssumption`, `StreamAssumption`,
`PipelineAssumption`, `AnswerAssumption`, `OfferAssumption`, `HookAssumption`,
`RobotAssumption`, `CrowdAssumption`, `HeapAssumption`, `KeyAssumption`,
`DepthAssumption`, `TextsAssumption`, `LettersAssumption`), which TLC evaluates in every
run of the modules. Bounds such as `MaxInput` stay in the guards, but may be any number.

None of the properties is inductive as it stands. What is added to them:

**ServerProofs** is about `AbortContext` with any cancels and listeners, and `Routing`
with any number of requests. `AbortContext`: `TypeCorrect`, `DoneHasError`,
`PanicsAreRaces`, `WakeupsAreHonest`, `LoneCancelIsReceived`, `FiberContextRefines` and
`FiberAnswersAreFinal`, the last two about a parent that never ends (`background`).
`IInv` adds to the types: a closer beyond its check is one of `racers`; if the channel
is closed, somebody has got through `close` or only one closer was there; a closer that
is panicking found it closed; the error is stored before the close. With a parent that
never ends nobody is in `setParentErr`, so the only error is `Canceled`, and a second
store writes the value that is there already. That is why no answer is torn and the
refinement holds. `Routing`: `RoutingTypeCorrect`, `OnlyTheirOwn`, `RetriesSpent`,
`Stable`. What `Support` has found fits the container, which no longer changes while
requests are served; the calls made and the retries left are the retries there were, and
a call that succeeded is the last of them; while no accesses to the map have met, an
entry stands under the context of the request that made it, which still has that context
or has left a stream behind.

**InterceptorsProofs** is about every configuration and every way to cut a stream. The
chain is a function `f`, `f[i]` the work after matcher `i`, and the facts are proved
matcher by matcher along it. `TextComesOutInOrder` and `NothingIsLost`: what was sent,
followed by the caches from the last one to the first, embeds in the input until a
matcher hits that makes text (`Unmade`), and is the input until anything hits; a matcher
turns its cache and the text in hand into less of the same, in the same order
(`StreamInv`). `Reach`, the greedy search the property is stated with, finds every
embedding. `EndMarkStaysOut`: behind the matcher of the mark no text in hand holds a
whole mark, whatever is cached in front of it (`CleanStream`). `PanicsAreExplained` and
`ReasoningIsSentWhole`: until the first reasoning block is through, the first two caches
are the end of the input, `think` is the length of the first one, and what has been
reported is the reasoning that cache holds (`ThinkInv`); a slice out of range is then
traced back to where its tags stand in the input. `CallsAreSentWhole`: as long as no
reasoning is opened and calls begin chunks, the cache of the tool calls is empty or
begins with the mark, because the scanner before it reads the same `<` and lets go of it
at the same symbol (`CallInv`).

**StreamProofs** is about every source, pipeline and set of sinks. `NoSendBlocks` is a
balance: what the sender of a channel has still to send, what the channel holds and what
was taken from it is at most what that sender was given, and that is at most the size of
the source; a stage without FlatMap sends at most one element for each it receives, so
there is always room. `TypeCorrect` and `ClosedChannelsAreDrained` need no such
argument and hold with FlatMap. `PipelineIsTheList` is the refinement of `ListResult`:
what is in flight, with the operations it has still before it, is a list (`Due`) that no
step changes but a sink's receive, which takes its head; so what was taken and what is
due are the list that the operations make of the source. That one element more behind a
list makes one more application is proved of `ListOp` by induction over the list, and
over the stages. `SinksDivideTheList` counts: for each value, what the sinks have of it
and what is due of it are as many as the list has.

**DeliveryProofs**: `TypeCorrect`, `ClientFollows`, `ResponseIsWhole`, `CallIsLast`. What
is in the channel and in the reader's hand are the last bodies sent, in their order
(`Ordered`); the wire is the frames of those before them, or a prefix of the frames at
which a write failed; what is collected is their text, as long as no call was among
them. A relay that heeds its context and has sent a call has canceled or is about to.

**ProcessProofs** is about any hooks and any number of callers of the robot. `Lifecycle`:
`ExitsRunOnce`, `LaterRunOnce`, `HooksInOrder`. As long as what a hook registers does not
come before the hook itself, the array of the loop stays in order without doubles and
begins with the hooks that ran, whether the slice has left that array or not: an
insertion behind the loop's position changes nothing it has passed. `Robot`:
`MutualExclusion`, that a caller holds the mutex if and only if it is between its lock and
its return, and `SecondAppExplained`. Until a look misses, an application comes late or
the hook begins, a caller that sleeps for the application it has asked for has seen that
none runs, and holds the mutex.

**CopyProofs** proves `OwnCorrect`, `OutcomeCorrect` and `EqualCorrect`: the three
properties of `DeepCopy` for every memory, whatever leads where. The base is that what
waits in `todo` is in order, the innermost first, that what it writes to fits, and that
the places of a copy lead to copies made later (`BaseInv`). On that rest

- `CopyIsOwn`: no node is held twice, by a copy or by an entry whose `set` still waits
  (`Unshared`);
- `OutcomeHasCause`: each copy is of one node, and each entry in work for one entry of a
  map; `Traced` says so of two functions that grow with the memory. A call at a depth has
  as many nodes of the value above it, each of which leads down to it (`Below`); as
  `MaxDepth` is more than there are, a full stack means that one leads back to itself.
  And if what still waits leads neither back to itself nor to a bad key, neither does the
  value (`AllGood(hold) => Good(1)`); an entry on its way to its map has a key that was
  found, so it is the only one with that key. When nothing waits, that is all there is to
  know;
- `CopyIsEqual`: a place of a copy holds the copy of the place it comes from, unless a call
  for it waits (`Settled`). When nothing waits, all do, and by induction over the depth
  they are copies down to any depth, for what a copy leads to lies behind it. The keys are
  counted by what the copies tell apart of them (`KeyOf`).

**TokenizerProofs** proves `TextCorrect`, that is `TextIsKept`, for any texts and schemas,
and `LoopsEnd`. Two things are known of each token: it begins where the lexer was, but for
a blank in the place of a name, and its literal is what `Kept` says of the symbols up to
its end (`LexFacts`). The parser is always at a place of the text (`InPlace`): the current
token is what the lexer finds there, the next one what it finds behind that, the lexer at
the end of both. `nextToken` goes to a later place (`NextInPlace`), `seekToken` back to the
one it is given, wherever the lexer has got to (`SeekInPlace`). So what `eachTokenOf` and
the loop of `parseElem` read is beyond the place they began at, and what they give up is
taken back to it (`EachTokenFacts`, `CloseFacts`). An element then stands for the text from
its `<` to its `>`, a string for one token (`TakesFacts`), and at every round of `parse`
the elements are the text before the place of the parser (`Parsed`). That a stretch of text
that begins with `<` has the same literals alone as in its place is `LiteralsAreKept`. The
invariant of the specification is that a parser is new or at the end of its text; a second
call on one at the end changes nothing (`ParseAtEnd`).

`TypeCorrect` of the modules, `DoneHasError`, `MutualExclusion` and `LoopsEnd` are proved
and not among the runs' properties.

## 5. Only model-checked, and why

- Liveness under fairness (`GoroutinesEnd`, `PipelineEnds`, `BothEnd`, `SignalEnds`,
  `RequestsEnd`, `EveryCallReturns`): beyond the prover.
- The two properties of section 6 that fail: there is nothing to prove.
- `NodeIsEnclosed`, `NestingIsRight`, `MissedHasCause` and `AttributesAreRead` of
  `Tokenizer`. They compare what the parser counts in tokens with what stands in the text;
  that takes a correspondence of the places of tags and of tokens, which the proofs above
  do not need, and for the attributes one more invariant for each of their readers.

## 6. Where code and comments part

- `abort_unheard`: `abort.go:19` promises a context that listens for the client's
  disconnection; if nobody looks at it, the watcher blocks on its send and the context
  stays open.
- `miss_swallows`: `symbol.go:24` promises all content back when nothing hits; the
  symbols held back when the stream ends stay in the cache.

Two smaller ones are modelled as the code does them, without a run of their own:
`abort.go:31` says that a cancel which can receive from `done` finds the context closed
already, but it may have taken the token another closer sends before it stores and
closes (`WakeupIsHonest` says how far that goes); and `ctor.go:17` says that a hit ends
the chain, but the loop at `ctor.go:204` stops only for a matcher that waits
(`RunChain`).

## 7. Not modelled

The contents of JSON, logging, the fiber framework beyond its pool and its middleware
order, how a configuration is found and fetched, `Put` while the server listens, what
regular expressions match beyond a literal pattern, and a configured regex that is not of
the form `"..." : "..."`, for which `NewInterceptors` panics before there is a chain
(`ctor.go:81`). Of the tokenizer: schemas that are
functions, `Int` and `Boolean` (two calls of `strconv`), and how elements are printed.
Of the deep copy: what a `DeepCopy` method does. Of the robot: the proxy of `Run`, which
prints what passes, and what mouse and keys do to the desktop. A set of a `Distinct`
predicate that is used for two pipelines. The request and response types are JSON shapes
and accessors; templates, logger and error helpers keep no state.
`isClosed` is taken to be right about the socket; it answers no on a connection that has
unread bytes or is no `syscall.Conn`, which makes a disconnection that was never noticed
of it, and that is among the behaviours.

## 8. Plan

Written so far: `AbortContext`, `Interceptors`, `Stream`, `Delivery`, `Lifecycle`,
`Routing`, `Tokenizer`, `DeepCopy`, `Robot`, and proofs of each. Next:

1. `Tokenizer`: `NodeIsEnclosed`, from the places the tokens of a tag stand at.
2. The refinement of `Delivery` to an abstract transcript.
3. `Completion`: `Interceptors`, `Delivery` and `AbortContext` in one request, with the
   cancel that the chain calls while the relay sends.
4. In `Stream`, a set that two `Distinct` stages share.
