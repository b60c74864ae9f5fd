------------------------------ MODULE Routing ------------------------------
(***************************************************************************)
(* The requests of the server: internal/v1/v1.go and container.go, with    *)
(* the retries of builder.go.                                              *)
(*                                                                         *)
(* Put fills the container while the packages start.  Then every request   *)
(* runs on a goroutine of its own, with a fiber.Ctx of fiber's pool, and   *)
(* passes the recover and the delete middleware.  A relay may register     *)
(* what is to be called when it panics; panics is a plain Go map with no   *)
(* lock, so each access to it takes two steps here, and two of them may    *)
(* meet.                                                                   *)
(***************************************************************************)
EXTENDS Integers, FiniteSets

CONSTANTS
  Requests,   \* requests that arrive
  Slots,      \* the fiber.Ctx values of the pool
  Models,     \* model ids
  Offers,     \* what the packages register, see OfferType
  Nothing,    \* no slot, no offer, no request
  Late,       \* a streaming relay registers after its handler returned
  Heedful     \* relays call OnError at all

Types == {"relay", "image"}

\* retry is 0 for Relay, which does not retry.
OfferType ==
  [typed : Types, mod : SUBSET Models, relay : STRING, retry : Int]

ASSUME OfferAssumption ==
  /\ Offers \subseteq OfferType
  /\ \A o \in Offers : o.typed = "relay" => o.retry = 0
  /\ Nothing \notin Requests \cup Slots \cup Offers
  /\ {Late, Heedful} \subseteq BOOLEAN

VARIABLES
  container,  \* the offers put into rm and im
  listening,  \* fiber has been started
  at,         \* at[r]: where the goroutine of the request is
  slot,       \* slot[r]: its fiber.Ctx
  ask,        \* ask[r]: the type of its path and the model in its body
  relay,      \* relay[r]: what Support found
  retry,      \* retry[r]: what is left of the retries
  panics,     \* the map, as the set of its entries
  raced,      \* requests whose access to the map met another
  fatal,      \* the runtime has ended the process
  armed,      \* requests that have called OnError in this call of the relay
  result,     \* result[r]: how the request was answered
  tries,      \* history: tries[r] calls of the relay
  succeeded,  \* history: succeeded[r]: the numbers of the calls that returned nil
  answerer    \* history: answerer[r]: who registered what r's panic called

routingVars ==
  <<container, listening, at, slot, ask, relay, retry, panics, armed, raced, fatal, result,
    tries, succeeded, answerer>>

Storing  == {"store", "storeLate"}
Deleting == {"delete", "recoverDelete"}
Reading  == {"look"}
Accesses == Storing \cup Deleting \cup Reading

Active(r) == at[r] \notin {"new", "done", "gone", "storeLate"}

RoutingInit ==
  /\ container = {} /\ listening = FALSE
  /\ at = [r \in Requests |-> "new"]
  /\ slot = [r \in Requests |-> Nothing]
  /\ ask = [r \in Requests |-> [typed |-> "relay", model |-> Nothing]]
  /\ relay = [r \in Requests |-> Nothing]
  /\ retry = [r \in Requests |-> 0]
  /\ panics = {} /\ armed = {} /\ raced = {} /\ fatal = FALSE
  /\ result = [r \in Requests |-> "none"]
  /\ tries = [r \in Requests |-> 0]
  /\ succeeded = [r \in Requests |-> {}]
  /\ answerer = [r \in Requests |-> Nothing]

Go(r, from, to) == ~fatal /\ at[r] = from /\ at' = [at EXCEPT ![r] = to]

Answer(r, how) == result' = [result EXCEPT ![r] = how]

-----------------------------------------------------------------------------
(* The container.                                                          *)

\* Put ignores an offer with no models.
Put(o) ==
  /\ ~listening /\ o.mod # {}
  /\ container' = container \cup {o}
  /\ UNCHANGED <<listening, at, slot, ask, relay, retry, panics, armed, raced, fatal,
                 result, tries, succeeded, answerer>>

StartListening ==
  /\ ~listening
  /\ listening' = TRUE
  /\ UNCHANGED <<container, at, slot, ask, relay, retry, panics, armed, raced, fatal,
                 result, tries, succeeded, answerer>>

\* MUTANT of Found: looks in both maps.
FoundAnywhere(typed, model) == {o \in container : model \in o.mod}

\* Go ranges over a map in any order: Support takes one of these.
Found(typed, model) == {o \in container : o.typed = typed /\ model \in o.mod}

-----------------------------------------------------------------------------
(* A request.                                                              *)

\* fiber gives it a context no other request is using; the body may not parse.
Begin(r) ==
  /\ listening
  /\ \E s \in Slots, typed \in Types, model \in Models :
        /\ \A q \in Requests : Active(q) => slot[q] # s
        /\ slot' = [slot EXCEPT ![r] = s]
        /\ ask' = [ask EXCEPT ![r] = [typed |-> typed, model |-> model]]
  /\ \/ Go(r, "new", "bound") /\ UNCHANGED result
     \/ Go(r, "new", "returned") /\ Answer(r, "invalid")
  /\ UNCHANGED <<container, listening, relay, retry, panics, armed, raced, fatal, tries,
                 succeeded, answerer>>

\* Support and Relay; the retries of an offer below zero count as none.
Support(r) ==
  LET found == Found(ask[r].typed, ask[r].model)
  IN  /\ \/ found = {} /\ Go(r, "bound", "returned") /\ Answer(r, "notFound")
            /\ UNCHANGED <<relay, retry>>
         \/ \E o \in found :
              /\ Go(r, "bound", "call") /\ UNCHANGED result
              /\ relay' = [relay EXCEPT ![r] = o]
              /\ retry' = [retry EXCEPT ![r] = IF o.retry < 0 THEN 0 ELSE o.retry]
      /\ UNCHANGED <<container, listening, slot, ask, panics, armed, raced, fatal,
                     tries, succeeded, answerer>>

\* MUTANT of Failed: tests what is left after it has counted.
FailedShort(r) ==
  \/ retry[r] > 1 /\ Go(r, "call", "again") /\ UNCHANGED result
     /\ retry' = [retry EXCEPT ![r] = @ - 1]
  \/ retry[r] <= 1 /\ Go(r, "call", "returned") /\ Answer(r, "error")
     /\ UNCHANGED retry

\* The relay has returned an error: once more, or give up.
Failed(r) ==
  \/ retry[r] > 0 /\ Go(r, "call", "again") /\ UNCHANGED result
     /\ retry' = [retry EXCEPT ![r] = @ - 1]
  \/ retry[r] = 0 /\ Go(r, "call", "returned") /\ Answer(r, "error")
     /\ UNCHANGED retry

\* MUTANT of Succeeded: the error is not looked at, so a success is tried again.
SucceededGoesOn(r) ==
  \/ retry[r] > 0 /\ Go(r, "call", "again") /\ UNCHANGED result
     /\ retry' = [retry EXCEPT ![r] = @ - 1]
  \/ retry[r] = 0 /\ Go(r, "call", "returned") /\ Answer(r, "ok")
     /\ UNCHANGED retry

\* The relay has returned nil.
Succeeded(r) == Go(r, "call", "returned") /\ Answer(r, "ok") /\ UNCHANGED retry

\* The whole of one call of the relay but for OnError: it returns nil, it returns
\* an error, or it panics.  A panic is not tried again.
Call(r) ==
  /\ \/ /\ Succeeded(r)
        /\ succeeded' = [succeeded EXCEPT ![r] = @ \cup {tries[r] + 1}]
     \/ /\ \/ Failed(r)
           \/ Go(r, "call", "panicked") /\ Answer(r, "panic") /\ UNCHANGED retry
        /\ UNCHANGED succeeded
  /\ tries' = [tries EXCEPT ![r] = @ + 1]
  /\ UNCHANGED <<container, listening, slot, ask, relay, panics, armed, raced, fatal,
                 answerer>>

\* MUTANT of Again: looks at the retries that were counted already.
AgainIfLeft(r) ==
  /\ retry[r] > 0
  /\ Go(r, "again", "call")
  /\ armed' = armed \ {r}
  /\ UNCHANGED <<container, listening, slot, ask, relay, retry, panics, raced, fatal,
                 result, tries, succeeded, answerer>>

\* After the sleep.
Again(r) ==
  /\ Go(r, "again", "call")
  /\ armed' = armed \ {r}
  /\ UNCHANGED <<container, listening, slot, ask, relay, retry, panics, raced, fatal,
                 result, tries, succeeded, answerer>>

-----------------------------------------------------------------------------
(* The map.                                                                *)

\* An access that meets another, one of the two a write: the runtime sees it and
\* ends the process, or does not see it and the access may come to nothing.
Meets(r, access) ==
  \E q \in Requests \ {r} :
    /\ at[q] \in Accesses
    /\ {access, at[q]} \cap (Storing \cup Deleting) # {}

\* An empty map is left alone by a read and a delete, before they look for others.
Enter(r, from, access, after) ==
  \/ /\ access \notin Storing /\ panics = {}
     /\ Go(r, from, after)
     /\ UNCHANGED <<raced, fatal>>
  \/ /\ access \in Storing \/ panics # {}
     /\ Go(r, from, access)
     /\ \/ Meets(r, access) /\ fatal' = TRUE /\ UNCHANGED raced
        \/ Meets(r, access) /\ raced' = raced \cup {r} /\ UNCHANGED fatal
        \/ ~Meets(r, access) /\ UNCHANGED <<raced, fatal>>

Entries(s) == {e \in panics : e.slot = s}

Stored(r) == (panics \ Entries(slot[r])) \cup {[slot |-> slot[r], by |-> r]}

\* MUTANT of Deleted: delete is forgotten.
DeletedNot(r) == panics

Deleted(r) == panics \ Entries(slot[r])

Leave(r, access, after, changed) ==
  /\ Go(r, access, after)
  /\ \/ panics' = changed
     \/ r \in raced /\ UNCHANGED panics
  /\ UNCHANGED <<container, listening, slot, ask, relay, retry, armed, raced, fatal, result,
                 tries, succeeded>>

Reach(r, from, access, after) ==
  /\ Enter(r, from, access, after)
  /\ UNCHANGED <<container, listening, slot, ask, relay, retry, panics, result, tries,
                 succeeded, answerer>>

\* OnError, called by the relay once in a call.
OnError(r) ==
  /\ Heedful /\ r \notin armed /\ armed' = armed \cup {r}
  /\ Reach(r, "call", "store", "call")
OnErrorStored(r) == Leave(r, "store", "call", Stored(r)) /\ UNCHANGED answerer

\* The middleware that deletes when the handler has returned.
Finish(r) == Reach(r, "returned", "delete", "done") /\ UNCHANGED armed
FinishDeleted(r) == Leave(r, "delete", "done", Deleted(r)) /\ UNCHANGED answerer

\* A panic passes that middleware by; recover looks, deletes and calls.
Recover(r) == Reach(r, "panicked", "look", "done") /\ UNCHANGED armed

Looked(r) ==
  /\ \/ /\ Entries(slot[r]) # {}
        /\ \E e \in Entries(slot[r]) : answerer' = [answerer EXCEPT ![r] = e.by]
        /\ Enter(r, "look", "recoverDelete", "done")
     \/ /\ Entries(slot[r]) = {} \/ r \in raced
        /\ Go(r, "look", "done")
        /\ UNCHANGED <<answerer, raced, fatal>>
  /\ UNCHANGED <<container, listening, slot, ask, relay, retry, panics, armed, result, tries,
                 succeeded>>

RecoverDeleted(r) ==
  Leave(r, "recoverDelete", "done", Deleted(r)) /\ UNCHANGED answerer

\* The goroutine of a stream, which outlives the handler, still has the context.
OnErrorLate(r) ==
  /\ Late /\ result[r] = "ok" /\ ask[r].typed = "relay"
  /\ Reach(r, "done", "storeLate", "gone") /\ UNCHANGED armed
OnErrorLateStored(r) == Leave(r, "storeLate", "gone", Stored(r)) /\ UNCHANGED answerer

Serve(r) ==
  \/ Support(r) \/ Call(r) \/ Again(r)
  \/ OnErrorStored(r) \/ Finish(r) \/ FinishDeleted(r)
  \/ Recover(r) \/ Looked(r) \/ RecoverDeleted(r)

RoutingNext ==
  \/ \E o \in Offers : Put(o)
  \/ StartListening
  \/ \E r \in Requests :
        Begin(r) \/ Serve(r) \/ OnError(r) \/ OnErrorLate(r) \/ OnErrorLateStored(r)

RoutingSpec == RoutingInit /\ [][RoutingNext]_routingVars

\* Goroutines run; relays come back, and the sleep is over some time.
RoutingFairSpec == RoutingSpec /\ \A r \in Requests : WF_routingVars(Serve(r))

-----------------------------------------------------------------------------
(* Properties.                                                             *)

\* What a stream registers once its handler has returned.
Stray(q) == Late /\ at[q] = "gone" /\ result[q] = "ok"

\* Contexts come back from the pool, and their entries of the map with them: as
\* long as no accesses met, a panic calls what its own request registered, or
\* what a stream of the same context registered after its handler had returned,
\* and nothing else (v1.go:92-95, 106).
PanicsCallTheirOwn ==
  raced = {} => \A r \in Requests :
    LET q == answerer[r]
    IN  q \in {Nothing, r} \/ (Stray(q) /\ slot[q] = slot[r])

\* Two requests for one model and type get the same relay, or none both, unless
\* two offers of that type share the id: then the order of the map decides.
RoutingIsStable ==
  (\A o, p \in container : o.typed = p.typed /\ o.mod \cap p.mod # {} => o = p)
  => \A q, r \in Requests :
        /\ ask[q] = ask[r] /\ {result[q], result[r]} \cap {"none", "invalid"} = {}
        => relay[q] = relay[r]

\* execute gives up only after the first call and all of the retries, and stops
\* with the first call that succeeds: that call is the last one, and the request
\* is answered with what it returned and never with an error (builder.go:51-72).
RetriesAreSpent ==
  \A r \in Requests :
    LET most == 1 + (IF relay[r] = Nothing \/ relay[r].retry < 0 THEN 0 ELSE relay[r].retry)
    IN  /\ tries[r] <= most
        /\ result[r] = "error" => tries[r] = most
        /\ succeeded[r] \subseteq {tries[r]}
        /\ result[r] = "ok" <=> succeeded[r] # {}

\* Every request that is routed is answered, or the process dies.
RequestsEnd == \A r \in Requests : at[r] = "bound" ~> (at[r] = "done" \/ fatal)
=============================================================================
