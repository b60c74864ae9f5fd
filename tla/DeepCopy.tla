------------------------------ MODULE DeepCopy ------------------------------
(***************************************************************************)
(* kit.Copy (src/kit/deepcopy.go), which Record.Clone calls: the copy of a *)
(* value by reflection, over every small heap the value may live in.       *)
(*                                                                         *)
(* The memory is a sequence of nodes, one per variable, value in a box, or *)
(* part of something else; those of the caller come first, the copy's are  *)
(* behind them.  A node holds places: the number of a node, or a value     *)
(* that has no inside, which is Zero (nil, or the zero value of its type), *)
(* a scalar, NaN (the scalar that is not equal to itself), or NilIface (an *)
(* interface that is nil, as the key of a map).  A map holds its keys and  *)
(* values by turns; a key in an interface is held without it.              *)
(*                                                                         *)
(* Every step is a call of copyRecursive or a turn of the loop over a map; *)
(* what is still to be done waits in todo, the innermost first.  Go ends   *)
(* the program when its stack is full: MaxDepth stands for that limit.     *)
(***************************************************************************)
EXTENDS Integers, SequencesExt, FiniteSetsExt

CONSTANTS Heaps,      \* the memories a call may find, the value is in node 1
          MaxDepth    \* calls on the stack when the program ends

Zero     == 0
NilIface == -1
NaN      == -2
IsNode(place) == place > 0

Kinds == {"zero", "scalar", "ptr", "iface", "slice", "array", "copier", "struct", "map"}

\* A node has a kind, places, and the positions of unexported fields.
Nodes == [kind : Kinds \cup {"entry"}, kids : Seq(Int), hidden : SUBSET Nat]

\* The entries of a map, and the nodes another one leads to.
Entries(node) == {<<node.kids[2 * i - 1], node.kids[2 * i]>> : i \in 1 .. Len(node.kids) \div 2}
Inside(node)  == {p \in ToSet(node.kids) : IsNode(p)}

\* The nodes of a memory lead to nodes of it; what is zero has no inside, and only a
\* struct has unexported fields.
ASSUME HeapAssumption ==
    \A heap \in Heaps :
       /\ heap \in Seq(Nodes) /\ heap # <<>>
       /\ \A n \in DOMAIN heap :
             /\ heap[n].kind # "entry"
             /\ \A i \in DOMAIN heap[n].kids : heap[n].kids[i] <= Len(heap)
             /\ heap[n].kind = "zero" => heap[n].kids = <<>>
             /\ heap[n].hidden # {} => heap[n].kind = "struct"

\* A map has no key twice but NaN, which is another one each time.  Bound: a key that
\* has an inside is a pointer, or a struct of scalars.
ASSUME KeyAssumption ==
    \A heap \in Heaps : \A n \in DOMAIN heap : heap[n].kind = "map" =>
       /\ Len(heap[n].kids) % 2 = 0
       /\ \A e, f \in Entries(heap[n]) : e[1] = f[1] /\ e[1] # NaN => e = f
       /\ \A e \in Entries(heap[n]) : IsNode(e[1]) =>
             /\ heap[e[1]].kind \in {"ptr", "struct"}
             /\ heap[e[1]].kind = "struct" => Inside(heap[e[1]]) = {}

ASSUME DepthAssumption == MaxDepth \in Nat /\ \A heap \in Heaps : MaxDepth > Len(heap)

\* Kinds the switch has no case for, and values with a DeepCopy of their own
\* (external, it may keep what it likes).
AsTheyAre == {"array", "copier"}

VARIABLES given,    \* the memory the call found
          mem,      \* the memory now: the nodes given and the copied ones
          todo,     \* what is still to be done
          result    \* "copying", "done", "panicked" or "overflowed"

vars == <<given, mem, todo, result>>

Copied == Len(given) + 1   \* the node of the copy
----------------------------------------------------------------------------
\* The copy, one call a step.

Call(from, in, at, depth) ==
    [do |-> "copy", from |-> from, in |-> in, at |-> at, depth |-> depth]

\* MUTANT of HasCase: no case for slices.
HasCaseButSlice(node) == node.kind \notin AsTheyAre \cup {"slice"}

\* The switch knows what the kind holds.
HasCase(node) == node.kind \notin AsTheyAre

\* MUTANT of Followed: the loop over the fields ends at an unexported one.
FollowedUntilHidden(node) ==
    IF HasCase(node) THEN {i \in DOMAIN node.kids : \A j \in node.hidden : i < j} ELSE {}

\* The positions of a node that are copied on their own: the unexported
\* fields of a struct keep their zero.
Followed(node) ==
    IF HasCase(node) THEN DOMAIN node.kids \ node.hidden ELSE {}

\* What the new value holds before its parts are copied.
Blank(node) ==
    [node EXCEPT !.kids = IF ~HasCase(node) THEN node.kids
                          ELSE IF node.kind = "map" THEN <<>>
                          ELSE [i \in DOMAIN node.kids |-> Zero]]

\* The calls for the parts of the value.
Parts(node, new, depth) ==
    IF node.kind = "map"
    THEN <<[do |-> "range", over |-> Entries(node), in |-> new, depth |-> depth]>>
    ELSE FlattenSeq([i \in DOMAIN node.kids |->
            IF i \in Followed(node) THEN <<Call(node.kids[i], new, i, depth)>> ELSE <<>>])

\* Keys that are one key of a map: two structs are equal by what they hold.
SameKey(k1, k2) ==
    \/ k1 = k2
    \/ IsNode(k1) /\ IsNode(k2) /\ mem[k1] = mem[k2] /\ mem[k1].kind = "struct"

\* A key that is not equal to itself: looked up in its own map, it is not there
\* (external, the maps of Go).
NotItself(key) ==
    \/ key = NaN
    \/ IsNode(key) /\ mem[key].kind = "struct" /\ NaN \in ToSet(mem[key].kids)

\* MUTANT of KeyFails: a nil pointer is taken for no value, too.
KeyFailsOnNil(key) == key \in {NilIface, Zero}

\* SetMapIndex with the copy of a nil interface, which is no value.
KeyFails(key) == key = NilIface

\* SetMapIndex with a key and a value, as two places of the map.
WithEntry(kids, key, value) ==
    LET same == {i \in DOMAIN kids : i % 2 = 1 /\ SameKey(kids[i], key)}
    IN  IF same = {} THEN kids \o <<key, value>> ELSE [kids EXCEPT ![Max(same) + 1] = value]

\* Copy: a zero value is answered as it is, another one is followed.
Init ==
    /\ given \in Heaps
    /\ mem = given
    /\ todo = IF given[1].kind = "zero" THEN <<>> ELSE <<Call(1, 0, 0, 1)>>
    /\ result = "copying"

Does(what) == result = "copying" /\ todo # <<>> /\ Head(todo).do = what

Put(call, place) == IF call.in = 0 THEN mem ELSE [mem EXCEPT ![call.in].kids[call.at] = place]

\* A value that has no inside is set.
CopyPlain ==
    /\ Does("copy") /\ ~IsNode(Head(todo).from)
    /\ mem' = Put(Head(todo), Head(todo).from)
    /\ todo' = Tail(todo)
    /\ UNCHANGED <<given, result>>

\* A new value of the type, and the calls for what it holds.
CopyNode ==
    /\ Does("copy") /\ IsNode(Head(todo).from) /\ Head(todo).depth <= MaxDepth
    /\ LET call == Head(todo)
           node == mem[call.from]
           new  == Len(mem) + 1
       IN  /\ mem' = Append(Put(call, new), Blank(node))
           /\ todo' = Parts(node, new, call.depth + 1) \o Tail(todo)
    /\ UNCHANGED <<given, result>>

\* The next entry of a map, MapKeys answers them in any order: the value that
\* MapIndex finds is copied, then the key, into places of their own.
NextEntry ==
    /\ Does("range")
    /\ LET range == Head(todo)
           new   == Len(mem) + 1
       IN  \E entry \in range.over :
              /\ ~NotItself(entry[1])
              /\ mem' = Append(mem, [kind |-> "entry", kids |-> <<Zero, Zero>>, hidden |-> {}])
              /\ todo' = <<Call(entry[2], new, 2, range.depth), Call(entry[1], new, 1, range.depth),
                           [do |-> "set", entry |-> new, in |-> range.in],
                           [range EXCEPT !.over = @ \ {entry}]>> \o Tail(todo)
    /\ UNCHANGED <<given, result>>

\* MUTANT of KeyIsLost: the loop goes on with the next key.
KeyIsSkipped ==
    /\ Does("range")
    /\ \E entry \in Head(todo).over :
          /\ NotItself(entry[1])
          /\ todo' = [todo EXCEPT ![1].over = @ \ {entry}]
    /\ UNCHANGED <<given, mem, result>>

\* MapIndex finds nothing under the key and answers no Value, which has no Type.
KeyIsLost ==
    /\ Does("range")
    /\ \E entry \in Head(todo).over : NotItself(entry[1])
    /\ result' = "panicked"
    /\ UNCHANGED <<given, mem, todo>>

RangeEnds ==
    /\ Does("range") /\ Head(todo).over = {}
    /\ todo' = Tail(todo)
    /\ UNCHANGED <<given, mem, result>>

SetEntry ==
    /\ Does("set")
    /\ LET set   == Head(todo)
           entry == mem[set.entry].kids
       IN  IF KeyFails(entry[1])
           THEN result' = "panicked" /\ UNCHANGED <<mem, todo>>
           ELSE /\ mem' = [mem EXCEPT ![set.in].kids = WithEntry(@, entry[1], entry[2])]
                /\ todo' = Tail(todo)
                /\ UNCHANGED result
    /\ UNCHANGED given

StackFills ==
    /\ Does("copy") /\ IsNode(Head(todo).from) /\ Head(todo).depth > MaxDepth
    /\ result' = "overflowed"
    /\ UNCHANGED <<given, mem, todo>>

Answer ==
    /\ result = "copying" /\ todo = <<>>
    /\ result' = "done"
    /\ UNCHANGED <<given, mem, todo>>

Next ==
    CopyPlain \/ CopyNode \/ NextEntry \/ KeyIsLost \/ RangeEnds \/ SetEntry \/ StackFills \/ Answer

Spec == Init /\ [][Next]_vars
----------------------------------------------------------------------------
\* Properties.

\* The nodes that node m leads to by what is followed.
Edges(m) ==
    IF mem[m].kind \in AsTheyAre THEN {}
    ELSE {mem[m].kids[i] : i \in DOMAIN mem[m].kids \ mem[m].hidden} \cap DOMAIN mem

\* Nodes reached from n in one step or more.
Reached(n) ==
    LET reach[k \in 0 .. Len(mem)] ==
          IF k = 0 THEN Edges(n) ELSE reach[k - 1] \cup UNION {Edges(m) : m \in reach[k - 1]}
    IN  reach[Len(mem)]

\* A key as the keys of the copy tell it apart from others.
Image(key) ==
    IF IsNode(key) /\ mem[key].kind = "struct"
    THEN [mem[key] EXCEPT !.kids = [i \in DOMAIN @ |-> IF i \in mem[key].hidden THEN Zero ELSE @[i]]]
    ELSE [kind |-> "itself", kids |-> <<key>>, hidden |-> {}]

\* What holds of a copy q of p, if what they hold is alike.
CopyOf(p, q, alike) ==
    IF ~IsNode(p) THEN q = p
    ELSE /\ IsNode(q) /\ mem[q].kind = mem[p].kind
         /\ LET old == mem[p]
                new == mem[q]
            IN  IF old.kind = "map"
                THEN /\ \A f \in Entries(new) : \E e \in Entries(old) :
                           alike[<<e[1], f[1]>>] /\ alike[<<e[2], f[2]>>]
                     /\ \A e \in Entries(old) : \E f \in Entries(new) : alike[<<e[1], f[1]>>]
                     /\ Len(new.kids) = 2 * Cardinality({Image(e[1]) : e \in Entries(old)})
                ELSE /\ DOMAIN new.kids = DOMAIN old.kids
                     /\ \A i \in DOMAIN old.kids :
                           IF i \in old.hidden THEN new.kids[i] = Zero
                           ELSE IF old.kind \in AsTheyAre THEN new.kids[i] = old.kids[i]
                           ELSE alike[<<old.kids[i], new.kids[i]>>]

\* q is a copy of p all the way down, which is no further than there are nodes.
IsCopy(p, q) ==
    LET places == {p, q} \cup UNION {ToSet(mem[n].kids) : n \in DOMAIN mem}
        alike[d \in 0 .. Len(mem)] ==
          [pair \in places \X places |-> d > 0 /\ CopyOf(pair[1], pair[2], alike[d - 1])]
    IN  alike[Len(mem)][<<p, q>>]

\* INVARIANT.  What Copy answers equals what it was given, all the way down
\* (src/kit/deepcopy.go:83-115): the exported fields, the elements in their
\* order, what is nil, and every key with its value.  The unexported fields
\* are zero in the copy, and of the keys they tell apart one is left, with
\* the value of one of them.
CopyIsEqual ==
    result = "done" /\ given[1].kind # "zero" => IsCopy(1, Copied)

\* INVARIANT.  What has been given stays as it is, and nothing the copy leads
\* to is shared with it or twice in the copy (src/kit/deepcopy.go:61, 99, 108), but
\* for what an array or a value with a DeepCopy of its own holds: a change to
\* the copy of a Record cannot be seen in another one.
CopyIsOwn ==
    /\ SubSeq(mem, 1, Len(given)) = given
    /\ result = "done" /\ given[1].kind # "zero" =>
          LET own == {Copied} \cup Reached(Copied)
          IN  /\ own \cap 1 .. Len(given) = {}
              /\ \A n \in own : \A m, k \in {o \in own : mem[o].kind \notin AsTheyAre} :
                    n \in Inside(mem[m]) /\ n \in Inside(mem[k]) => m = k

\* INVARIANT.  Copy ends well unless the value leads back to itself by what
\* is followed, which ends the program (src/kit/deepcopy.go:62, 112), or a
\* map on the way has a key that is a nil interface (114), or one that is not
\* equal to itself, like a NaN (110, 111): both panic.
OutcomeHasCause ==
    LET followed == {1} \cup Reached(1)
        endless  == \E n \in followed : n \in Reached(n)
        badKey   == \E n \in followed : mem[n].kind = "map" /\
                       \E e \in Entries(mem[n]) : e[1] = NilIface \/ NotItself(e[1])
    IN  /\ result = "done" => ~endless /\ ~badKey
        /\ result = "overflowed" => endless
        /\ result = "panicked" => badKey
=============================================================================
