----------------------------- MODULE CopyProofs -----------------------------
(***************************************************************************)
(* Proofs about DeepCopy: what the answer shares, how a call ends, and     *)
(* that the answer is equal to what was given.                             *)
(***************************************************************************)
EXTENDS DeepCopy, ListLemmas, FiniteSetTheorems, FunctionTheorems

Given  == 1 .. Len(given)
Copies == Len(given) + 1 .. Len(mem)

\* What may wait in todo.
Calls  == [do : {"copy"}, from : Int, in : Nat, at : Nat, depth : Nat]
Ranges == [do : {"range"}, over : SUBSET (Int \X Int), in : Nat, depth : Nat]
Sets   == [do : {"set"}, entry : Nat, in : Nat]
Items  == Calls \cup Ranges \cup Sets

Waiting == ToSet(todo)
Now     == Head(todo)

TypeOK ==
    /\ given \in Heaps
    /\ mem \in Seq(Nodes)
    /\ todo \in Seq(Items)
    /\ result \in {"copying", "done", "panicked", "overflowed"}
    /\ Len(given) <= Len(mem)
    /\ \A n \in Given : mem[n] = given[n]

-----------------------------------------------------------------------------
(* What waits, and the places of the copies, fit the memory.               *)

CallFits(c) ==
    /\ c.from <= Len(given)
    /\ c.in = 0 => Len(mem) = Len(given)
    /\ c.in # 0 => /\ c.in \in Copies
                   /\ mem[c.in].kind \notin AsTheyAre \cup {"map"}
                   /\ c.at \in 1 .. Len(mem[c.in].kids)

RangeFits(r) ==
    /\ r.in \in Copies /\ mem[r.in].kind = "map"
    /\ \A e \in r.over : e[1] <= Len(given) /\ e[2] <= Len(given)

SetFits(s) ==
    /\ s.in \in Copies /\ mem[s.in].kind = "map"
    /\ s.entry \in Copies /\ mem[s.entry].kind = "entry"
    /\ s.in < s.entry

ItemsFit ==
    /\ \A c \in Waiting \cap Calls  : CallFits(c)
    /\ \A r \in Waiting \cap Ranges : RangeFits(r)
    /\ \A s \in Waiting \cap Sets   : SetFits(s)

\* The copy that an item works on.
Tag(item) == IF item.do = "set" THEN item.entry ELSE item.in

\* What was found last is done first; a copy may have several calls, but nothing
\* behind its range or its set.
Before(a, b) == Tag(b) < Tag(a) \/ (Tag(b) = Tag(a) /\ a.do = "copy")

InOrder(items) == \A i, j \in DOMAIN items : i < j => Before(items[i], items[j])

\* A copy leads to later copies, which are not entries on their way to a map.
PlaceFits(q, place) ==
    IsNode(place) => place \in Copies /\ place > q /\ mem[place].kind # "entry"

PlacesFit(q) == \A i \in 1 .. Len(mem[q].kids) : PlaceFits(q, mem[q].kids[i])

CopyFits(q) ==
    /\ mem[q].kind = "entry" => Len(mem[q].kids) = 2
    /\ mem[q].kind = "map" => Len(mem[q].kids) % 2 = 0
    /\ mem[q].kind \notin AsTheyAre => PlacesFit(q)

CopiesFit == \A q \in Copies : CopyFits(q)

Started ==
    /\ Len(mem) = Len(given) =>
          \/ todo = <<Call(1, 0, 0, 1)>>
          \/ todo = <<>> /\ given[1].kind = "zero"
    /\ Len(mem) > Len(given) => mem[Copied].kind # "entry"

BaseInv == TypeOK /\ ItemsFit /\ InOrder(todo) /\ CopiesFit /\ Started

-----------------------------------------------------------------------------
(* What a step does to the memory, place by place.                         *)

\* The nodes of m1 are those of m2, but that one place may have been put.
Puts(m1, m2, in, at, place) ==
    \A n \in 1 .. Len(m1) :
       /\ n # in => m2[n] = m1[n]
       /\ m2[n].kind = m1[n].kind /\ m2[n].hidden = m1[n].hidden
       /\ Len(m2[n].kids) = Len(m1[n].kids)
       /\ \A i \in 1 .. Len(m1[n].kids) :
             m2[n].kids[i] = IF n = in /\ i = at THEN place ELSE m1[n].kids[i]

LEMMA NodesFacts ==
  ASSUME NEW node \in Nodes
  PROVE  /\ node.kind \in Kinds \cup {"entry"} /\ node.kids \in Seq(Int)
         /\ node.hidden \in SUBSET Nat /\ Len(node.kids) \in Nat
         /\ DOMAIN node.kids = 1 .. Len(node.kids)
         /\ \A i \in 1 .. Len(node.kids) : node.kids[i] \in Int
BY LenProperties, ElementOfSeq DEF Nodes

LEMMA NodeEqual ==
  ASSUME NEW a \in Nodes, NEW b \in Nodes, a.kind = b.kind, a.kids = b.kids, a.hidden = b.hidden
  PROVE  a = b
BY DEF Nodes

PutAt(m, in, at, place) == [m EXCEPT ![in].kids[at] = place]

LEMMA PutFacts ==
  ASSUME NEW m \in Seq(Nodes), NEW in \in 1 .. Len(m), NEW at \in 1 .. Len(m[in].kids),
         NEW place \in Int
  PROVE  /\ PutAt(m, in, at, place) \in Seq(Nodes) /\ Len(PutAt(m, in, at, place)) = Len(m)
         /\ Puts(m, PutAt(m, in, at, place), in, at, place)
<1> DEFINE n    == PutAt(m, in, at, place)
           ks   == [m[in].kids EXCEPT ![at] = place]
           node == [m[in] EXCEPT !.kids = ks]
<1>1. m[in] \in Nodes /\ DOMAIN m = 1 .. Len(m) /\ Len(m) \in Nat
  BY ElementOfSeq, LenProperties
<1>2. m[in].kids \in Seq(Int)
  BY <1>1, NodesFacts
<1>3. ks \in Seq(Int) /\ Len(ks) = Len(m[in].kids)
      /\ \A i \in 1 .. Len(m[in].kids) : ks[i] = IF i = at THEN place ELSE m[in].kids[i]
  BY <1>2, ExceptSeq, LenProperties
<1> HIDE DEF ks
<1>4. node \in Nodes /\ node.kids = ks /\ node.kind = m[in].kind /\ node.hidden = m[in].hidden
  BY <1>1, <1>3 DEF Nodes
<1>5. n = [m EXCEPT ![in] = node]
  BY DEF ks, PutAt
<1> HIDE DEF node, n
<1>6. n \in Seq(Nodes) /\ Len(n) = Len(m)
      /\ \A k \in 1 .. Len(m) : n[k] = IF k = in THEN node ELSE m[k]
  BY <1>1, <1>4, <1>5, ExceptSeq
<1>7. ASSUME NEW k \in 1 .. Len(m)
      PROVE  /\ k # in => n[k] = m[k]
             /\ n[k].kind = m[k].kind /\ n[k].hidden = m[k].hidden
             /\ Len(n[k].kids) = Len(m[k].kids)
             /\ \A i \in 1 .. Len(m[k].kids) :
                   n[k].kids[i] = IF k = in /\ i = at THEN place ELSE m[k].kids[i]
  <2>1. CASE k = in
    BY <1>3, <1>4, <1>6, <2>1
  <2>2. CASE k # in
    BY <1>6, <2>2
  <2> QED
    BY <2>1, <2>2
<1> QED
  BY <1>6, <1>7 DEF Puts, n

LEMMA PutsNothing ==
  ASSUME NEW m
  PROVE  Puts(m, m, 0, 0, 0)
BY DEF Puts

LEMMA BlankFacts ==
  ASSUME NEW node \in Nodes
  PROVE  /\ Blank(node) \in Nodes
         /\ Blank(node).kind = node.kind /\ Blank(node).hidden = node.hidden
         /\ node.kind \in AsTheyAre => Blank(node).kids = node.kids
         /\ node.kind = "map" => Len(Blank(node).kids) = 0
         /\ node.kind \notin AsTheyAre \cup {"map"} =>
               /\ Len(Blank(node).kids) = Len(node.kids)
               /\ \A i \in 1 .. Len(node.kids) : Blank(node).kids[i] = Zero
<1> DEFINE zeros == [i \in DOMAIN node.kids |-> Zero]
           ks == IF ~HasCase(node) THEN node.kids ELSE IF node.kind = "map" THEN <<>> ELSE zeros
<1>1. node.kids \in Seq(Int) /\ Len(node.kids) \in Nat /\ DOMAIN node.kids = 1 .. Len(node.kids)
  BY NodesFacts
<1>2. zeros \in Seq(Int) /\ Len(zeros) = Len(node.kids) /\ \A i \in 1 .. Len(node.kids) : zeros[i] = Zero
  BY <1>1, IsASeq DEF Zero
<1>3. <<>> \in Seq(Int) /\ Len(<<>>) = 0
  OBVIOUS
<1> HIDE DEF zeros
<1>4. ks \in Seq(Int)
  BY <1>1, <1>2, <1>3
<1>5. Blank(node) = [node EXCEPT !.kids = ks]
  BY DEF Blank, zeros
<1> HIDE DEF ks
<1>6. Blank(node) \in Nodes /\ Blank(node).kids = ks
      /\ Blank(node).kind = node.kind /\ Blank(node).hidden = node.hidden
  BY <1>4, <1>5 DEF Nodes
<1> QED
  BY <1>2, <1>3, <1>6 DEF ks, HasCase, AsTheyAre

LEMMA CallType ==
  ASSUME NEW from \in Int, NEW in \in Nat, NEW at \in Nat, NEW depth \in Nat
  PROVE  Call(from, in, at, depth) \in Calls
BY DEF Call, Calls

LEMMA Half ==
  ASSUME NEW n \in Nat
  PROVE  n \div 2 \in Nat /\ \A i \in 1 .. n \div 2 : i \in Nat /\ 2 * i - 1 \in 1 .. n /\ 2 * i \in 1 .. n
OBVIOUS

LEMMA PartsOfMap ==
  ASSUME NEW node \in Nodes, node.kind = "map", NEW new \in Nat, NEW depth \in Nat
  PROVE  LET range == [do |-> "range", over |-> Entries(node), in |-> new, depth |-> depth]
         IN  Parts(node, new, depth) = <<range>> /\ Entries(node) \in SUBSET (Int \X Int)
<1>1. /\ Len(node.kids) \in Nat
      /\ \A i \in 1 .. Len(node.kids) : node.kids[i] \in Int
  BY NodesFacts
<1>2. ASSUME NEW i \in 1 .. Len(node.kids) \div 2
      PROVE  <<node.kids[2 * i - 1], node.kids[2 * i]>> \in Int \X Int
  BY <1>1, Half
<1>3. Entries(node) \in SUBSET (Int \X Int)
  BY <1>2 DEF Entries
<1> QED
  BY <1>3 DEF Parts

LEMMA PartsOfOthers ==
  ASSUME NEW node \in Nodes, node.kind # "map", NEW new \in Nat, NEW depth \in Nat
  PROVE  /\ Parts(node, new, depth) \in Seq(Calls)
         /\ ToSet(Parts(node, new, depth)) =
               {Call(node.kids[i], new, i, depth) : i \in Followed(node)}
<1> DEFINE C(i) == Call(node.kids[i], new, i, depth)
           each == [i \in DOMAIN node.kids |-> IF i \in Followed(node) THEN <<C(i)>> ELSE <<>>]
           D == DOMAIN node.kids
<1>1. /\ Len(node.kids) \in Nat /\ D = 1 .. Len(node.kids)
      /\ \A i \in D : node.kids[i] \in Int
  BY NodesFacts
<1>2. Followed(node) \subseteq D
  BY DEF Followed
<1>3. ASSUME NEW i \in D
      PROVE  C(i) \in Calls
  BY <1>1, CallType
<1> HIDE DEF C
<1>4. ASSUME NEW i \in D
      PROVE  each[i] \in Seq(Calls) /\ ToSet(each[i]) = IF i \in Followed(node) THEN {C(i)} ELSE {}
  BY <1>3 DEF ToSet
<1>5. each \in Seq(Seq(Calls)) /\ DOMAIN each = D
  <2>1. each = [i \in 1 .. Len(node.kids) |-> each[i]] /\ DOMAIN each = D
    BY <1>1
  <2> HIDE DEF each
  <2>2. \A i \in 1 .. Len(node.kids) : each[i] \in Seq(Calls)
    BY <1>1, <1>4
  <2>3. [i \in 1 .. Len(node.kids) |-> each[i]] \in Seq(Seq(Calls))
    BY <1>1, <2>2, IsASeq
  <2> QED
    BY <2>1, <2>3
<1>6. Parts(node, new, depth) = FlattenSeq(each)
  BY DEF Parts, C
<1> HIDE DEF each, D
<1>7. ToSet(FlattenSeq(each)) = UNION {ToSet(each[i]) : i \in D}
  BY <1>5, FlattenMembers
<1>8. UNION {ToSet(each[i]) : i \in D} = {C(i) : i \in Followed(node)}
  BY <1>2, <1>4
<1>9. FlattenSeq(each) \in Seq(Calls)
  BY <1>5, FlattenType
<1> QED
  BY <1>6, <1>7, <1>8, <1>9 DEF C

-----------------------------------------------------------------------------
(* The order of what waits.                                                *)

LEMMA ItemKinds ==
  ASSUME NEW item \in Items
  PROVE  /\ item.do = "copy"  <=> item \in Calls
         /\ item.do = "range" <=> item \in Ranges
         /\ item.do = "set"   <=> item \in Sets
         /\ item.do \in {"copy", "range", "set"}
         /\ Tag(item) \in Nat
BY DEF Items, Calls, Ranges, Sets, Tag

LEMMA HeadFacts ==
  ASSUME todo \in Seq(Items), InOrder(todo), todo # <<>>
  PROVE  /\ Now \in Items /\ Now \in Waiting
         /\ Tail(todo) \in Seq(Items) /\ InOrder(Tail(todo))
         /\ Waiting = {Now} \cup ToSet(Tail(todo))
         /\ \A item \in ToSet(Tail(todo)) : item \in Items /\ Before(Now, item)
<1>1. /\ Len(todo) \in Nat \ {0} /\ DOMAIN todo = 1 .. Len(todo) /\ Now = todo[1]
      /\ Tail(todo) \in Seq(Items) /\ DOMAIN Tail(todo) = 1 .. Len(todo) - 1
      /\ \A i \in 1 .. Len(todo) - 1 : Tail(todo)[i] = todo[i + 1]
  BY LenProperties, EmptySeq, HeadTailProperties DEF Now
<1>2. Waiting = {Now} \cup ToSet(Tail(todo)) /\ Now \in Items
  BY MembersOfTail, HeadTailProperties DEF Waiting, Now
<1>3. ASSUME NEW item \in ToSet(Tail(todo))
      PROVE  item \in Items /\ Before(Now, item)
  <2>1. PICK i \in 1 .. Len(todo) - 1 : item = todo[i + 1]
    BY <1>1 DEF ToSet
  <2>2. i + 1 \in DOMAIN todo /\ 1 \in DOMAIN todo /\ 1 < i + 1
    BY <1>1
  <2>3. todo[i + 1] \in Items
    BY <1>1, <2>2, ElementOfSeq
  <2> QED
    BY <1>1, <2>1, <2>2, <2>3 DEF InOrder
<1>4. InOrder(Tail(todo))
  <2> SUFFICES ASSUME NEW i \in DOMAIN Tail(todo), NEW j \in DOMAIN Tail(todo), i < j
               PROVE  Before(Tail(todo)[i], Tail(todo)[j])
    BY DEF InOrder
  <2>1. i + 1 \in DOMAIN todo /\ j + 1 \in DOMAIN todo /\ i + 1 < j + 1
    BY <1>1
  <2>2. Before(todo[i + 1], todo[j + 1])
    BY <2>1 DEF InOrder
  <2> QED
    BY <1>1, <2>2
<1> QED
  BY <1>1, <1>2, <1>3, <1>4

LEMMA InOrderConcat ==
  ASSUME NEW s \in Seq(Items), NEW t \in Seq(Items), InOrder(s), InOrder(t),
         \A a \in ToSet(s), b \in ToSet(t) : Before(a, b)
  PROVE  InOrder(s \o t)
<1>1. /\ DOMAIN s = 1 .. Len(s) /\ DOMAIN t = 1 .. Len(t) /\ Len(s) \in Nat /\ Len(t) \in Nat
      /\ DOMAIN (s \o t) = 1 .. Len(s) + Len(t)
      /\ \A i \in 1 .. Len(s) + Len(t) :
            (s \o t)[i] = IF i <= Len(s) THEN s[i] ELSE t[i - Len(s)]
  BY LenProperties, ConcatProperties
<1> SUFFICES ASSUME NEW i \in 1 .. Len(s) + Len(t), NEW j \in 1 .. Len(s) + Len(t), i < j
             PROVE  Before((s \o t)[i], (s \o t)[j])
  BY <1>1 DEF InOrder
<1>2. CASE j <= Len(s)
  <2>1. i \in DOMAIN s /\ j \in DOMAIN s /\ (s \o t)[i] = s[i] /\ (s \o t)[j] = s[j]
    BY <1>1, <1>2
  <2> QED
    BY <2>1 DEF InOrder
<1>3. CASE i > Len(s)
  <2>1. /\ i - Len(s) \in DOMAIN t /\ j - Len(s) \in DOMAIN t /\ i - Len(s) < j - Len(s)
        /\ (s \o t)[i] = t[i - Len(s)] /\ (s \o t)[j] = t[j - Len(s)]
    BY <1>1, <1>3
  <2> QED
    BY <2>1 DEF InOrder
<1>4. CASE i <= Len(s) /\ j > Len(s)
  <2>1. /\ i \in DOMAIN s /\ j - Len(s) \in DOMAIN t
        /\ (s \o t)[i] = s[i] /\ (s \o t)[j] = t[j - Len(s)]
    BY <1>1, <1>4
  <2>2. s[i] \in ToSet(s) /\ t[j - Len(s)] \in ToSet(t)
    BY <2>1 DEF ToSet
  <2> QED
    BY <2>1, <2>2
<1> QED
  BY <1>1, <1>2, <1>3, <1>4

-----------------------------------------------------------------------------
(* What the steps do, part by part.                                        *)

\* A node of the caller is where it was, a copy holds what its kind says.
LEMMA MemoryFacts ==
  ASSUME TypeOK
  PROVE  /\ Len(given) \in Nat \ {0} /\ Len(mem) \in Nat /\ Len(given) <= Len(mem)
         /\ \A n \in 1 .. Len(mem) : mem[n] \in Nodes /\ Len(mem[n].kids) \in Nat
         /\ \A n \in Given : /\ n \in 1 .. Len(mem) /\ mem[n] = given[n]
                             /\ given[n] \in Nodes /\ given[n].kind # "entry"
                             /\ Len(given[n].kids) \in Nat
                             /\ \A i \in 1 .. Len(given[n].kids) :
                                   given[n].kids[i] \in Int /\ given[n].kids[i] <= Len(given)
         /\ 1 \in Given
<1>1. given \in Seq(Nodes) /\ given # <<>> /\ mem \in Seq(Nodes)
  BY HeapAssumption DEF TypeOK
<1>2. Len(given) \in Nat \ {0} /\ Len(mem) \in Nat /\ Len(given) <= Len(mem)
      /\ DOMAIN given = 1 .. Len(given)
  BY <1>1, LenProperties, EmptySeq DEF TypeOK
<1>3. ASSUME NEW n \in 1 .. Len(mem)
      PROVE  mem[n] \in Nodes /\ Len(mem[n].kids) \in Nat
  BY <1>1, ElementOfSeq, NodesFacts
<1>4. ASSUME NEW n \in Given
      PROVE  /\ n \in 1 .. Len(mem) /\ mem[n] = given[n]
             /\ given[n] \in Nodes /\ given[n].kind # "entry"
             /\ Len(given[n].kids) \in Nat
             /\ \A i \in 1 .. Len(given[n].kids) :
                   given[n].kids[i] \in Int /\ given[n].kids[i] <= Len(given)
  <2>1. n \in 1 .. Len(mem) /\ mem[n] = given[n] /\ given[n] \in Nodes
    BY <1>1, <1>2, ElementOfSeq DEF TypeOK, Given
  <2>2. /\ Len(given[n].kids) \in Nat /\ DOMAIN given[n].kids = 1 .. Len(given[n].kids)
        /\ \A i \in 1 .. Len(given[n].kids) : given[n].kids[i] \in Int
    BY <2>1, NodesFacts
  <2>3. /\ given[n].kind # "entry"
        /\ \A i \in DOMAIN given[n].kids : given[n].kids[i] <= Len(given)
    BY <1>2, HeapAssumption DEF TypeOK, Given
  <2> QED
    BY <2>1, <2>2, <2>3
<1>5. 1 \in Given
  BY <1>2 DEF Given
<1> QED
  BY <1>2, <1>3, <1>4, <1>5

LEMMA PlainFacts ==
  ASSUME BaseInv, CopyPlain
  PROVE  /\ result = "copying" /\ result' = result /\ given' = given
         /\ todo # <<>> /\ Now \in Calls /\ ~IsNode(Now.from) /\ CallFits(Now)
         /\ mem' \in Seq(Nodes) /\ Len(mem') = Len(mem)
         /\ Puts(mem, mem', Now.in, Now.at, Now.from)
         /\ todo' = Tail(todo)
<1>1. /\ result = "copying" /\ result' = result /\ given' = given
      /\ todo # <<>> /\ ~IsNode(Now.from) /\ Now.do = "copy"
      /\ mem' = Put(Now, Now.from) /\ todo' = Tail(todo)
  BY DEF CopyPlain, Does, Now
<1>2. Now \in Calls /\ CallFits(Now)
  BY <1>1, HeadFacts, ItemKinds DEF BaseInv, TypeOK, ItemsFit
<1>3. mem' \in Seq(Nodes) /\ Len(mem') = Len(mem) /\ Puts(mem, mem', Now.in, Now.at, Now.from)
  <2>1. CASE Now.in = 0
    <3>1. mem' = mem /\ mem \in Seq(Nodes)
      BY <1>1, <2>1 DEF Put, BaseInv, TypeOK
    <3>2. Puts(mem, mem', Now.in, Now.at, Now.from)
      BY <2>1, <3>1 DEF Puts
    <3> QED
      BY <3>1, <3>2
  <2>2. CASE Now.in # 0
    <3>1. mem' = PutAt(mem, Now.in, Now.at, Now.from)
      BY <1>1, <2>2 DEF Put, PutAt
    <3>2. mem \in Seq(Nodes) /\ Now.from \in Int /\ Now.in \in 1 .. Len(mem)
          /\ Now.at \in 1 .. Len(mem[Now.in].kids)
      BY <1>2, <2>2, MemoryFacts DEF BaseInv, TypeOK, CallFits, Copies, Calls
    <3> QED
      BY <3>1, <3>2, PutFacts
  <2> QED
    BY <2>1, <2>2
<1> QED
  BY <1>1, <1>2, <1>3

LEMMA NodeFacts ==
  ASSUME BaseInv, CopyNode
  PROVE  /\ result = "copying" /\ result' = result /\ given' = given
         /\ todo # <<>> /\ Now \in Calls /\ Now.from \in Given /\ CallFits(Now)
         /\ mem' \in Seq(Nodes) /\ Len(mem') = Len(mem) + 1
         /\ Puts(mem, mem', Now.in, Now.at, Len(mem) + 1)
         /\ mem'[Len(mem) + 1] = Blank(given[Now.from])
         /\ todo' = Parts(given[Now.from], Len(mem) + 1, Now.depth + 1) \o Tail(todo)
<1> DEFINE new == Len(mem) + 1
           put == Put(Now, new)
<1>1. /\ result = "copying" /\ result' = result /\ given' = given
      /\ todo # <<>> /\ IsNode(Now.from) /\ Now.do = "copy"
      /\ mem' = Append(put, Blank(mem[Now.from]))
      /\ todo' = Parts(mem[Now.from], new, Now.depth + 1) \o Tail(todo)
  BY DEF CopyNode, Does, Now
<1>2. Now \in Calls /\ CallFits(Now)
  BY <1>1, HeadFacts, ItemKinds DEF BaseInv, TypeOK, ItemsFit
<1>3. Now.from \in Given
  BY <1>1, <1>2, MemoryFacts DEF BaseInv, CallFits, Calls, IsNode, Given
<1>4. mem[Now.from] = given[Now.from] /\ Blank(given[Now.from]) \in Nodes
  BY <1>3, MemoryFacts, BlankFacts DEF BaseInv
<1>5. put \in Seq(Nodes) /\ Len(put) = Len(mem) /\ Puts(mem, put, Now.in, Now.at, new)
  <2>1. CASE Now.in = 0
    <3>1. put = mem /\ mem \in Seq(Nodes)
      BY <2>1 DEF Put, BaseInv, TypeOK
    <3>2. Puts(mem, mem, Now.in, Now.at, new)
      BY <2>1 DEF Puts
    <3> QED
      BY <3>1, <3>2
  <2>2. CASE Now.in # 0
    <3>1. put = PutAt(mem, Now.in, Now.at, new)
      BY <2>2 DEF Put, PutAt
    <3>2. mem \in Seq(Nodes) /\ new \in Int /\ Now.in \in 1 .. Len(mem)
          /\ Now.at \in 1 .. Len(mem[Now.in].kids)
      BY <1>2, <2>2, MemoryFacts DEF BaseInv, TypeOK, CallFits, Copies
    <3> HIDE DEF put, new
    <3> QED
      BY <3>1, <3>2, PutFacts
  <2> QED
    BY <2>1, <2>2
<1> HIDE DEF put
<1>6. /\ mem' \in Seq(Nodes) /\ Len(mem') = Len(mem) + 1
      /\ mem'[new] = Blank(given[Now.from])
      /\ \A n \in 1 .. Len(mem) : mem'[n] = put[n]
  BY <1>1, <1>4, <1>5, AppendProperties, MemoryFacts DEF BaseInv
<1>7. Puts(mem, mem', Now.in, Now.at, new)
  BY <1>5, <1>6 DEF Puts
<1> QED
  BY <1>1, <1>2, <1>3, <1>4, <1>6, <1>7

\* The node an entry gets, and the items for it.
\* A key of the caller's that is not equal to itself.
Lost(key) ==
    \/ key = NaN
    \/ IsNode(key) /\ given[key].kind = "struct" /\ NaN \in ToSet(given[key].kids)

LEMMA LostFacts ==
  ASSUME TypeOK, NEW key \in Int, key <= Len(given)
  PROVE  NotItself(key) <=> Lost(key)
<1>1. IsNode(key) => key \in Given
  BY MemoryFacts DEF IsNode, Given
<1>2. IsNode(key) => mem[key] = given[key]
  BY <1>1 DEF TypeOK
<1> QED
  BY <1>2 DEF NotItself, Lost

EntryNode == [kind |-> "entry", kids |-> <<Zero, Zero>>, hidden |-> {}]

EntryItems(range, entry, new) ==
    <<Call(entry[2], new, 2, range.depth), Call(entry[1], new, 1, range.depth),
      [do |-> "set", entry |-> new, in |-> range.in],
      [do |-> "range", over |-> range.over \ {entry}, in |-> range.in, depth |-> range.depth]>>

LEMMA EntryFacts ==
  ASSUME BaseInv, NextEntry
  PROVE  /\ result = "copying" /\ result' = result /\ given' = given
         /\ todo # <<>> /\ Now \in Ranges /\ RangeFits(Now)
         /\ mem' \in Seq(Nodes) /\ Len(mem') = Len(mem) + 1
         /\ \A n \in 1 .. Len(mem) : mem'[n] = mem[n]
         /\ mem'[Len(mem) + 1] = EntryNode
         /\ \E entry \in Now.over :
               ~Lost(entry[1]) /\ todo' = EntryItems(Now, entry, Len(mem) + 1) \o Tail(todo)
<1>1. /\ result = "copying" /\ result' = result /\ given' = given
      /\ todo # <<>> /\ Now.do = "range"
      /\ mem' = Append(mem, EntryNode)
  BY DEF NextEntry, Does, Now, EntryNode
<1>2. Now \in Ranges /\ RangeFits(Now)
  BY <1>1, HeadFacts, ItemKinds DEF BaseInv, TypeOK, ItemsFit
<1>3. EntryNode \in Nodes
  BY DEF EntryNode, Nodes, Zero
<1>4. mem \in Seq(Nodes) /\ Len(mem) \in Nat
  BY MemoryFacts DEF BaseInv, TypeOK
<1>5. PICK entry \in Now.over : ~NotItself(entry[1]) /\
        todo' = <<Call(entry[2], Len(mem) + 1, 2, Now.depth), Call(entry[1], Len(mem) + 1, 1, Now.depth),
                  [do |-> "set", entry |-> Len(mem) + 1, in |-> Now.in],
                  [Now EXCEPT !.over = @ \ {entry}]>> \o Tail(todo)
  BY DEF NextEntry, Now
<1>6. [Now EXCEPT !.over = @ \ {entry}] =
        [do |-> "range", over |-> Now.over \ {entry}, in |-> Now.in, depth |-> Now.depth]
  BY <1>2 DEF Ranges
<1>7. todo' = EntryItems(Now, entry, Len(mem) + 1) \o Tail(todo)
  BY <1>5, <1>6 DEF EntryItems
<1>8. /\ mem' \in Seq(Nodes) /\ Len(mem') = Len(mem) + 1
      /\ \A n \in 1 .. Len(mem) : mem'[n] = mem[n]
      /\ mem'[Len(mem) + 1] = EntryNode
  BY <1>1, <1>3, <1>4, AppendProperties
<1>9. ~Lost(entry[1])
  <2>1. entry[1] \in Int /\ entry[1] <= Len(given)
    BY <1>2 DEF Ranges, RangeFits
  <2> QED
    BY <1>5, <2>1, LostFacts DEF BaseInv
<1> QED
  BY <1>1, <1>2, <1>7, <1>8, <1>9

\* A key is not found, which ends the call.
LEMMA LostHead ==
  ASSUME BaseInv, KeyIsLost
  PROVE  /\ UNCHANGED <<given, mem, todo>> /\ result = "copying" /\ result' = "panicked"
         /\ Now \in Waiting \cap Ranges /\ \E entry \in Now.over : Lost(entry[1])
<1>1. /\ UNCHANGED <<given, mem, todo>> /\ result = "copying" /\ result' = "panicked"
      /\ todo # <<>> /\ Now.do = "range"
  BY DEF KeyIsLost, Does, Now
<1>2. Now \in Ranges /\ Now \in Waiting /\ RangeFits(Now)
  BY <1>1, HeadFacts, ItemKinds DEF BaseInv, TypeOK, ItemsFit
<1>3. PICK entry \in Now.over : NotItself(entry[1])
  BY DEF KeyIsLost, Now
<1>4. entry[1] \in Int /\ entry[1] <= Len(given)
  BY <1>2 DEF Ranges, RangeFits
<1>5. Lost(entry[1])
  BY <1>3, <1>4, LostFacts DEF BaseInv
<1> QED
  BY <1>1, <1>2, <1>5

\* The keys and values of a map with an entry more, and with another value.
Adds(old, new, key, value) ==
    /\ Len(new) = Len(old) + 2
    /\ \A i \in 1 .. Len(old) : new[i] = old[i]
    /\ new[Len(old) + 1] = key /\ new[Len(old) + 2] = value

Replaces(old, new, j, value) ==
    /\ Len(new) = Len(old)
    /\ \A i \in 1 .. Len(old) : new[i] = IF i = j + 1 THEN value ELSE old[i]

LEMMA LastOfSome ==
  ASSUME NEW n \in Nat, NEW T \in SUBSET (1 .. n), T # {}
  PROVE  Max(T) \in T
<1> DEFINE U == {n - i : i \in T}
<1>1. U \in SUBSET Nat /\ U # {}
  <2>1. \A i \in T : n - i \in Nat
    OBVIOUS
  <2> QED
    BY <2>1
<1>2. PICK u \in U : \A w \in U : u <= w
  BY <1>1, LeastNumber
<1>3. PICK i \in T : u = n - i
  BY <1>2
<1>4. ASSUME NEW j \in T
      PROVE  i >= j
  <2>1. u <= n - j
    BY <1>2
  <2> QED
    BY <1>3, <2>1
<1>5. \E m \in T : \A j \in T : m >= j
  BY <1>4
<1> QED
  BY <1>5 DEF Max

LEMMA WithEntryFacts ==
  ASSUME NEW kids \in Seq(Int), Len(kids) % 2 = 0, NEW key \in Int, NEW value \in Int
  PROVE  /\ WithEntry(kids, key, value) \in Seq(Int)
         /\ \/ /\ \A i \in 1 .. Len(kids) : i % 2 = 1 => ~SameKey(kids[i], key)
               /\ Adds(kids, WithEntry(kids, key, value), key, value)
            \/ \E j \in 1 .. Len(kids) : /\ j % 2 = 1 /\ SameKey(kids[j], key)
                                         /\ Replaces(kids, WithEntry(kids, key, value), j, value)
<1> DEFINE same == {i \in DOMAIN kids : i % 2 = 1 /\ SameKey(kids[i], key)}
<1>1. Len(kids) \in Nat /\ DOMAIN kids = 1 .. Len(kids)
  BY LenProperties
<1>2. CASE same = {}
  <2>1. WithEntry(kids, key, value) = kids \o <<key, value>>
    BY <1>2 DEF WithEntry
  <2>2. kids \o <<key, value>> \in Seq(Int) /\ Adds(kids, kids \o <<key, value>>, key, value)
    BY <1>1, ConcatProperties DEF Adds
  <2>3. \A i \in 1 .. Len(kids) : i % 2 = 1 => ~SameKey(kids[i], key)
    BY <1>1, <1>2
  <2> QED
    BY <2>1, <2>2, <2>3
<1>3. CASE same # {}
  <2> DEFINE j == Max(same)
  <2>1. j \in same
    BY <1>1, <1>3, LastOfSome
  <2>2. WithEntry(kids, key, value) = [kids EXCEPT ![j + 1] = value]
    BY <1>3 DEF WithEntry
  <2>3. j \in 1 .. Len(kids) /\ j % 2 = 1 /\ SameKey(kids[j], key)
    BY <1>1, <2>1
  <2> HIDE DEF j
  <2>4. j + 1 \in 1 .. Len(kids)
    BY <1>1, <2>3
  <2>5. [kids EXCEPT ![j + 1] = value] \in Seq(Int)
        /\ Replaces(kids, [kids EXCEPT ![j + 1] = value], j, value)
    BY <2>4, ExceptSeq DEF Replaces
  <2> QED
    BY <2>2, <2>3, <2>5
<1> QED
  BY <1>2, <1>3

\* The key and the value that are to be put into a map.
NewKey   == mem[Now.entry].kids[1]
NewValue == mem[Now.entry].kids[2]

LEMMA SetHead ==
  ASSUME BaseInv, SetEntry
  PROVE  /\ result = "copying" /\ given' = given
         /\ todo # <<>> /\ Now \in Sets /\ SetFits(Now)
         /\ NewKey \in Int /\ NewValue \in Int /\ Len(mem[Now.entry].kids) = 2
         /\ mem[Now.in].kids \in Seq(Int) /\ Len(mem[Now.in].kids) % 2 = 0
<1>1. result = "copying" /\ given' = given /\ todo # <<>> /\ Now.do = "set"
  BY DEF SetEntry, Does, Now
<1>2. Now \in Sets /\ SetFits(Now)
  BY <1>1, HeadFacts, ItemKinds DEF BaseInv, TypeOK, ItemsFit
<1>3. /\ mem[Now.entry] \in Nodes /\ mem[Now.entry].kind = "entry" /\ CopyFits(Now.entry)
      /\ mem[Now.in] \in Nodes /\ mem[Now.in].kind = "map" /\ CopyFits(Now.in)
  BY <1>2, MemoryFacts DEF BaseInv, SetFits, CopiesFit, Copies
<1>4. mem[Now.in].kids \in Seq(Int) /\ Len(mem[Now.in].kids) % 2 = 0
  BY <1>3, NodesFacts DEF CopyFits
<1>5. Len(mem[Now.entry].kids) = 2
  BY <1>3 DEF CopyFits
<1>6. NewKey \in Int /\ NewValue \in Int
  BY <1>3, <1>5, NodesFacts DEF NewKey, NewValue
<1> QED
  BY <1>1, <1>2, <1>4, <1>5, <1>6

LEMMA PanicFacts ==
  ASSUME BaseInv, SetEntry, result' # result
  PROVE  result' = "panicked" /\ NewKey = NilIface /\ mem' = mem /\ todo' = todo
<1>1. NewKey = NilIface \/ result' = result
  BY DEF SetEntry, KeyFails, NewKey, Now
<1> QED
  BY <1>1 DEF SetEntry, KeyFails, NewKey, Now

LEMMA SetFacts ==
  ASSUME BaseInv, SetEntry, result' = result
  PROVE  /\ NewKey # NilIface /\ todo' = Tail(todo)
         /\ mem' \in Seq(Nodes) /\ Len(mem') = Len(mem)
         /\ \A n \in 1 .. Len(mem) : n # Now.in => mem'[n] = mem[n]
         /\ mem'[Now.in].kind = "map" /\ mem'[Now.in].hidden = mem[Now.in].hidden
         /\ \/ /\ \A i \in 1 .. Len(mem[Now.in].kids) : i % 2 = 1 => ~SameKey(mem[Now.in].kids[i], NewKey)
               /\ Adds(mem[Now.in].kids, mem'[Now.in].kids, NewKey, NewValue)
            \/ \E j \in 1 .. Len(mem[Now.in].kids) :
                  /\ j % 2 = 1 /\ SameKey(mem[Now.in].kids[j], NewKey)
                  /\ Replaces(mem[Now.in].kids, mem'[Now.in].kids, j, NewValue)
<1> DEFINE ks == WithEntry(mem[Now.in].kids, NewKey, NewValue)
           node == [mem[Now.in] EXCEPT !.kids = ks]
<1>1. NewKey # NilIface /\ todo' = Tail(todo)
  <2>1. result = "copying" /\ "copying" # "panicked"
    BY SetHead
  <2> QED
    BY <2>1 DEF SetEntry, KeyFails, NewKey, Now
<1>2. mem' = [mem EXCEPT ![Now.in] = node]
  <2>1. mem' = [mem EXCEPT ![Now.in].kids = WithEntry(@, NewKey, NewValue)]
    BY <1>1 DEF SetEntry, KeyFails, NewKey, NewValue, Now
  <2> QED
    BY <2>1
<1>3. /\ mem \in Seq(Nodes) /\ Now.in \in 1 .. Len(mem) /\ mem[Now.in] \in Nodes
      /\ mem[Now.in].kind = "map" /\ Len(mem) \in Nat
  <2>1. SetFits(Now)
    BY SetHead
  <2>2. TypeOK
    BY DEF BaseInv
  <2>3. /\ Len(mem) \in Nat /\ Len(given) \in Nat
        /\ \A n \in 1 .. Len(mem) : mem[n] \in Nodes /\ Len(mem[n].kids) \in Nat
    BY <2>2, MemoryFacts
  <2>4. Now.in \in 1 .. Len(mem) /\ mem[Now.in].kind = "map"
    BY <2>1, <2>3 DEF SetFits, Copies
  <2> QED
    BY <2>2, <2>3, <2>4 DEF TypeOK
<1>4. /\ ks \in Seq(Int)
      /\ \/ /\ \A i \in 1 .. Len(mem[Now.in].kids) : i % 2 = 1 => ~SameKey(mem[Now.in].kids[i], NewKey)
            /\ Adds(mem[Now.in].kids, ks, NewKey, NewValue)
         \/ \E j \in 1 .. Len(mem[Now.in].kids) :
               /\ j % 2 = 1 /\ SameKey(mem[Now.in].kids[j], NewKey)
               /\ Replaces(mem[Now.in].kids, ks, j, NewValue)
  BY SetHead, WithEntryFacts
<1> HIDE DEF ks
<1>5. node \in Nodes /\ node.kids = ks /\ node.kind = "map" /\ node.hidden = mem[Now.in].hidden
  BY <1>3, <1>4 DEF Nodes
<1> HIDE DEF node
<1>6. /\ mem' \in Seq(Nodes) /\ Len(mem') = Len(mem)
      /\ \A n \in 1 .. Len(mem) : mem'[n] = IF n = Now.in THEN node ELSE mem[n]
  BY <1>2, <1>3, <1>5, ExceptSeq
<1> QED
  BY <1>1, <1>3, <1>4, <1>5, <1>6

-----------------------------------------------------------------------------
(* What waits after a step.                                                *)

LEMMA TagFits ==
  ASSUME BaseInv, NEW item \in Waiting
  PROVE  item \in Items /\ Tag(item) <= Len(mem)
<1>1. item \in Items
  BY ElementOfSeq, LenProperties DEF BaseInv, TypeOK, Waiting, ToSet
<1>2. CASE item \in Calls
  <2>1. CallFits(item) /\ Tag(item) = item.in
    BY <1>1, <1>2, ItemKinds DEF BaseInv, ItemsFit, Tag
  <2> QED
    BY <1>1, <2>1, MemoryFacts DEF BaseInv, CallFits, Copies
<1>3. CASE item \in Ranges
  <2>1. RangeFits(item) /\ Tag(item) = item.in
    BY <1>1, <1>3, ItemKinds DEF BaseInv, ItemsFit, Tag
  <2> QED
    BY <1>1, <2>1, MemoryFacts DEF BaseInv, RangeFits, Copies
<1>4. CASE item \in Sets
  <2>1. SetFits(item) /\ Tag(item) = item.entry
    BY <1>1, <1>4, ItemKinds DEF BaseInv, ItemsFit, Tag
  <2> QED
    BY <1>1, <2>1, MemoryFacts DEF BaseInv, SetFits, Copies
<1> QED
  BY <1>1, <1>2, <1>3, <1>4 DEF Items

LEMMA TodoAfterNode ==
  ASSUME BaseInv, todo # <<>>, NEW node \in Nodes, NEW depth \in Nat,
         todo' = Parts(node, Len(mem) + 1, depth) \o Tail(todo)
  PROVE  /\ todo' \in Seq(Items) /\ InOrder(todo')
         /\ Waiting' = ToSet(Parts(node, Len(mem) + 1, depth)) \cup ToSet(Tail(todo))
<1> DEFINE new == Len(mem) + 1
           P == Parts(node, new, depth)
<1>1. /\ Tail(todo) \in Seq(Items) /\ InOrder(Tail(todo))
      /\ \A item \in ToSet(Tail(todo)) : item \in Waiting
  BY HeadFacts DEF BaseInv, TypeOK
<1>2. new \in Nat
  BY MemoryFacts DEF BaseInv
<1>3. /\ P \in Seq(Items) /\ InOrder(P)
      /\ \A a \in ToSet(P) : Tag(a) = new
  <2>1. CASE node.kind = "map"
    <3> DEFINE range == [do |-> "range", over |-> Entries(node), in |-> new, depth |-> depth]
    <3>1. P = <<range>> /\ range \in Ranges
      BY <1>2, <2>1, PartsOfMap DEF Ranges
    <3>2. range \in Items /\ Tag(range) = new
      BY <3>1 DEF Items, Tag
    <3> HIDE DEF range, P
    <3>3. P \in Seq(Items) /\ DOMAIN P = {1} /\ ToSet(P) = {range}
      BY <3>1, <3>2 DEF ToSet
    <3> QED
      BY <3>2, <3>3 DEF InOrder
  <2>2. CASE node.kind # "map"
    <3>1. P \in Seq(Calls) /\ ToSet(P) = {Call(node.kids[i], new, i, depth) : i \in Followed(node)}
      BY <1>2, <2>2, PartsOfOthers
    <3>2. \A a \in ToSet(P) : a.do = "copy" /\ Tag(a) = new
      BY <3>1 DEF Call, Tag
    <3>3. \A i \in DOMAIN P : P[i] \in ToSet(P)
      BY DEF ToSet
    <3> HIDE DEF P
    <3>4. P \in Seq(Items)
      BY <3>1, SeqMonotonic DEF Items
    <3>5. \A i, j \in DOMAIN P : Before(P[i], P[j])
      BY <3>2, <3>3 DEF Before
    <3> QED
      BY <3>2, <3>4, <3>5 DEF InOrder
  <2> QED
    BY <2>1, <2>2
<1>4. ASSUME NEW a \in ToSet(P), NEW b \in ToSet(Tail(todo))
      PROVE  Before(a, b)
  <2>1. Tag(a) = new /\ b \in Items /\ Tag(b) <= Len(mem)
    BY <1>1, <1>3, TagFits
  <2>2. Tag(b) \in Nat /\ Len(mem) \in Nat
    BY <2>1, ItemKinds, MemoryFacts DEF BaseInv
  <2> QED
    BY <2>1, <2>2 DEF Before
<1> HIDE DEF P
<1> DEFINE t == Tail(todo)
<1> HIDE DEF t
<1>5. P \o t \in Seq(Items) /\ InOrder(P \o t) /\ ToSet(P \o t) = ToSet(P) \cup ToSet(t)
  <2>1. t \in Seq(Items) /\ InOrder(t) /\ \A a \in ToSet(P), b \in ToSet(t) : Before(a, b)
    BY <1>1, <1>4 DEF t
  <2> QED
    BY <1>3, <2>1, InOrderConcat, MembersOfConcat, ConcatProperties
<1> QED
  BY <1>5 DEF P, t, Waiting

LEMMA TodoAfterEntry ==
  ASSUME BaseInv, todo # <<>>, Now \in Ranges, RangeFits(Now), NEW entry \in Now.over,
         todo' = EntryItems(Now, entry, Len(mem) + 1) \o Tail(todo)
  PROVE  /\ todo' \in Seq(Items) /\ InOrder(todo')
         /\ Waiting' = {Call(entry[2], Len(mem) + 1, 2, Now.depth), Call(entry[1], Len(mem) + 1, 1, Now.depth),
                        [do |-> "set", entry |-> Len(mem) + 1, in |-> Now.in],
                        [do |-> "range", over |-> Now.over \ {entry}, in |-> Now.in, depth |-> Now.depth]}
                       \cup ToSet(Tail(todo))
<1> DEFINE new == Len(mem) + 1
           c2  == Call(entry[2], new, 2, Now.depth)
           c1  == Call(entry[1], new, 1, Now.depth)
           set == [do |-> "set", entry |-> new, in |-> Now.in]
           range == [do |-> "range", over |-> Now.over \ {entry}, in |-> Now.in, depth |-> Now.depth]
           P == EntryItems(Now, entry, new)
           t == Tail(todo)
<1>1. /\ t \in Seq(Items) /\ InOrder(t)
      /\ \A item \in ToSet(t) : item \in Items /\ Before(Now, item)
  BY HeadFacts DEF BaseInv, TypeOK
<1>2. new \in Nat /\ Now.in \in Nat /\ Now.in < new
  BY MemoryFacts DEF BaseInv, RangeFits, Copies
<1>3. entry[1] \in Int /\ entry[2] \in Int /\ Now.depth \in Nat
  BY DEF Ranges
<1>4. c2 \in Calls /\ c1 \in Calls /\ set \in Sets /\ range \in Ranges
  BY <1>2, <1>3, CallType DEF Sets, Ranges
<1>5. /\ c2.do = "copy" /\ Tag(c2) = new /\ c1.do = "copy" /\ Tag(c1) = new
      /\ Tag(set) = new /\ Tag(range) = Now.in
  BY DEF Tag, Call
<1>6. P = <<c2, c1, set, range>>
  BY DEF EntryItems
<1>7. c2 \in Items /\ c1 \in Items /\ set \in Items /\ range \in Items
  BY <1>4 DEF Items
<1> HIDE DEF c2, c1, set, range, P
<1>8. P \in Seq(Items) /\ DOMAIN P = 1 .. 4 /\ ToSet(P) = {c2, c1, set, range}
  BY <1>6, <1>7 DEF ToSet
<1>9. InOrder(P)
  <2>1. Before(c2, c1) /\ Before(c2, set) /\ Before(c1, set)
        /\ Before(c2, range) /\ Before(c1, range) /\ Before(set, range)
    BY <1>2, <1>5 DEF Before
  <2> SUFFICES ASSUME NEW i \in 1 .. 4, NEW j \in 1 .. 4, i < j
               PROVE  Before(P[i], P[j])
    BY <1>8 DEF InOrder
  <2> QED
    BY <1>6, <2>1
<1>10. ASSUME NEW a \in ToSet(P), NEW b \in ToSet(t)
       PROVE  Before(a, b)
  <2>1. Before(Now, b) /\ Tag(b) \in Nat /\ Tag(Now) = Now.in /\ Now.do = "range"
    BY <1>1, ItemKinds DEF Items, Tag, Ranges
  <2>2. Tag(b) < Now.in
    BY <2>1 DEF Before
  <2>3. Tag(a) \in {new, Now.in}
    BY <1>5, <1>8
  <2> QED
    BY <1>2, <2>1, <2>2, <2>3 DEF Before
<1> HIDE DEF t
<1>11. P \o t \in Seq(Items) /\ InOrder(P \o t) /\ ToSet(P \o t) = ToSet(P) \cup ToSet(t)
  BY ONLY <1>1, <1>8, <1>9, <1>10, InOrderConcat, MembersOfConcat, ConcatProperties
<1> QED
  BY <1>8, <1>11 DEF P, t, Waiting, c2, c1, set, range

-----------------------------------------------------------------------------
(* What waits and the copies go on fitting the memory.                     *)

\* A node keeps its kind, and its places unless it is a map.
Keeps(n) ==
    /\ mem'[n].kind = mem[n].kind
    /\ mem[n].kind # "map" => Len(mem'[n].kids) = Len(mem[n].kids)

LEMMA NoRootBehind ==
  ASSUME BaseInv, todo # <<>>, NEW c \in ToSet(Tail(todo)), c \in Calls
  PROVE  c.in # 0
<1> SUFFICES ASSUME c.in = 0 PROVE FALSE
  OBVIOUS
<1>1. c \in Waiting
  BY HeadFacts DEF BaseInv, TypeOK
<1>2. Len(mem) = Len(given)
  BY <1>1 DEF BaseInv, ItemsFit, CallFits
<1>3. todo = <<Call(1, 0, 0, 1)>>
  BY <1>2 DEF BaseInv, Started
<1>4. Tail(todo) = <<>>
  BY <1>3
<1> QED
  BY <1>4 DEF ToSet

LEMMA ItemsStay ==
  ASSUME BaseInv, todo # <<>>, given' = given, Len(mem) <= Len(mem'), Len(mem') \in Nat,
         \A n \in 1 .. Len(mem) : Keeps(n)
  PROVE  /\ \A c \in ToSet(Tail(todo)) \cap Calls  : CallFits(c)'
         /\ \A r \in ToSet(Tail(todo)) \cap Ranges : RangeFits(r)'
         /\ \A s \in ToSet(Tail(todo)) \cap Sets   : SetFits(s)'
<1>1. \A item \in ToSet(Tail(todo)) : item \in Waiting
  BY HeadFacts DEF BaseInv, TypeOK
<1>2. Len(given) \in Nat /\ Len(mem) \in Nat
  BY MemoryFacts DEF BaseInv
<1>3. \A q \in Copies : q \in Copies' /\ q \in 1 .. Len(mem)
  BY <1>2 DEF Copies
<1>4. ASSUME NEW c \in ToSet(Tail(todo)) \cap Calls
      PROVE  CallFits(c)'
  <2>1. CallFits(c) /\ c.in # 0
    BY <1>1, NoRootBehind DEF BaseInv, ItemsFit
  <2>2. c.in \in Copies /\ Keeps(c.in)
    BY <1>3, <2>1 DEF CallFits
  <2> QED
    BY <1>3, <2>1, <2>2 DEF CallFits, Keeps
<1>5. ASSUME NEW r \in ToSet(Tail(todo)) \cap Ranges
      PROVE  RangeFits(r)'
  <2>1. RangeFits(r)
    BY <1>1 DEF BaseInv, ItemsFit
  <2> QED
    BY <1>3, <2>1 DEF RangeFits, Keeps
<1>6. ASSUME NEW s \in ToSet(Tail(todo)) \cap Sets
      PROVE  SetFits(s)'
  <2>1. SetFits(s)
    BY <1>1 DEF BaseInv, ItemsFit
  <2> QED
    BY <1>3, <2>1 DEF SetFits, Keeps
<1> QED
  BY <1>4, <1>5, <1>6

\* PlaceFits of the memory after the step.
WillFit(q, place) ==
    IsNode(place) => place \in Copies' /\ place > q /\ mem'[place].kind # "entry"

\* A place that fits goes on to do so, whatever is copied.
LEMMA PlaceStays ==
  ASSUME BaseInv, given' = given, Len(mem) <= Len(mem'), Len(mem') \in Nat,
         \A n \in 1 .. Len(mem) : Keeps(n), NEW q \in Copies, NEW place, PlaceFits(q, place)
  PROVE  WillFit(q, place)
<1>1. Len(given) \in Nat /\ Len(mem) \in Nat
  BY MemoryFacts DEF BaseInv
<1>2. IsNode(place) => place \in Copies' /\ mem'[place].kind # "entry"
  BY <1>1 DEF PlaceFits, Copies, Keeps
<1> QED
  BY <1>2 DEF PlaceFits, WillFit

LEMMA PutsKeep ==
  ASSUME NEW in, NEW at, NEW place, Puts(mem, mem', in, at, place)
  PROVE  \A n \in 1 .. Len(mem) : Keeps(n)
BY DEF Puts, Keeps

LEMMA CopiesAfterPut ==
  ASSUME BaseInv, given' = given, Len(mem) <= Len(mem'), Len(mem') \in Nat,
         NEW c \in Calls, NEW place \in Int, Puts(mem, mem', c.in, c.at, place),
         c.in # 0 => WillFit(c.in, place)
  PROVE  \A q \in Copies : CopyFits(q)'
<1> SUFFICES ASSUME NEW q \in Copies PROVE CopyFits(q)'
  OBVIOUS
<1>1. Len(given) \in Nat /\ Len(mem) \in Nat /\ q \in 1 .. Len(mem)
  BY MemoryFacts DEF BaseInv, Copies
<1>2. \A n \in 1 .. Len(mem) : Keeps(n)
  BY PutsKeep
<1>3. CopyFits(q)
  BY DEF BaseInv, CopiesFit
<1>4. /\ mem'[q].kind = mem[q].kind /\ Len(mem'[q].kids) = Len(mem[q].kids)
      /\ \A i \in 1 .. Len(mem[q].kids) :
            mem'[q].kids[i] = IF q = c.in /\ i = c.at THEN place ELSE mem[q].kids[i]
  BY <1>1 DEF Puts
<1>5. ASSUME mem[q].kind \notin AsTheyAre, NEW i \in 1 .. Len(mem[q].kids)
      PROVE  WillFit(q, mem'[q].kids[i])
  <2>1. CASE q = c.in /\ i = c.at
    <3>1. c.in # 0
      BY <1>1, <2>1 DEF Copies
    <3> QED
      BY <1>4, <2>1, <3>1
  <2>2. CASE ~(q = c.in /\ i = c.at)
    <3>1. PlaceFits(q, mem[q].kids[i])
      BY <1>3, <1>5 DEF CopyFits, PlacesFit
    <3>2. WillFit(q, mem[q].kids[i])
      BY <1>1, <1>2, <3>1, PlaceStays
    <3> QED
      BY <1>4, <2>2, <3>2
  <2> QED
    BY <2>1, <2>2
<1> QED
  BY <1>3, <1>4, <1>5 DEF CopyFits, PlacesFit, PlaceFits, WillFit

-----------------------------------------------------------------------------
(* The steps keep all of it.                                               *)

LEMMA InitBase ==
  ASSUME Init
  PROVE  BaseInv
<1>1. /\ given \in Heaps /\ given \in Seq(Nodes) /\ given # <<>> /\ mem = given
      /\ result = "copying"
  BY HeapAssumption DEF Init
<1>2. Len(given) \in Nat \ {0} /\ DOMAIN given = 1 .. Len(given)
  BY <1>1, LenProperties, EmptySeq
<1> DEFINE c == Call(1, 0, 0, 1)
<1>3. c \in Calls /\ c \in Items /\ c.from = 1 /\ c.in = 0
  BY DEF Call, Calls, Items
<1>4. todo = <<c>> \/ (todo = <<>> /\ given[1].kind = "zero")
  BY DEF Init
<1> HIDE DEF c
<1>5. todo \in Seq(Items) /\ Waiting \subseteq {c} /\ InOrder(todo)
  <2>1. CASE todo = <<c>>
    <3>1. todo \in Seq(Items) /\ DOMAIN todo = {1} /\ todo[1] = c
      BY <1>3, <2>1
    <3> QED
      BY <3>1 DEF Waiting, ToSet, InOrder
  <2>2. CASE todo = <<>>
    <3>1. todo \in Seq(Items) /\ DOMAIN todo = {}
      BY <2>2
    <3> QED
      BY <3>1 DEF Waiting, ToSet, InOrder
  <2> QED
    BY <1>4, <2>1, <2>2
<1>6. TypeOK
  BY <1>1, <1>2, <1>5 DEF TypeOK, Given
<1>7. ItemsFit
  <2>1. c \notin Ranges /\ c \notin Sets
    BY <1>3, ItemKinds DEF Calls
  <2>2. CallFits(c)
    BY <1>1, <1>2, <1>3 DEF CallFits
  <2> QED
    BY <1>5, <2>1, <2>2 DEF ItemsFit
<1>8. CopiesFit
  BY <1>1, <1>2 DEF CopiesFit, Copies
<1>9. Started
  BY <1>1, <1>2, <1>4 DEF Started, c
<1> QED
  BY <1>5, <1>6, <1>7, <1>8, <1>9 DEF BaseInv

\* When anything but the first call is at the head, there is a copy.
LEMMA HasStarted ==
  ASSUME BaseInv, todo # <<>>, Now # Call(1, 0, 0, 1)
  PROVE  Len(mem) > Len(given) /\ Copied \in Copies /\ mem[Copied].kind # "entry"
<1>1. Len(mem) # Len(given)
  BY DEF BaseInv, Started, Now
<1>2. Len(mem) > Len(given)
  BY <1>1, MemoryFacts DEF BaseInv
<1> QED
  BY <1>2, MemoryFacts DEF BaseInv, Started, Copied, Copies

LEMMA TypeAfter ==
  ASSUME BaseInv, given' = given, mem' \in Seq(Nodes), todo' \in Seq(Items),
         result' \in {"copying", "done", "panicked", "overflowed"}, Len(mem) <= Len(mem'),
         \A n \in 1 .. Len(mem) : n \notin Copies => mem'[n] = mem[n]
  PROVE  TypeOK'
<1>1. Len(mem') \in Nat /\ Len(mem) \in Nat /\ Len(given) \in Nat /\ Len(given) <= Len(mem)
  BY LenProperties, MemoryFacts DEF BaseInv
<1>2. \A n \in Given : mem'[n] = given[n]
  <2> SUFFICES ASSUME NEW n \in Given PROVE mem'[n] = given[n]
    OBVIOUS
  <2>1. n \in 1 .. Len(mem) /\ n \notin Copies /\ mem[n] = given[n]
    BY <1>1, MemoryFacts DEF BaseInv, Given, Copies
  <2> QED
    BY <2>1
<1>3. given' \in Heaps
  BY DEF BaseInv, TypeOK
<1> QED
  BY <1>1, <1>2, <1>3 DEF TypeOK, Given

LEMMA PlainBase ==
  ASSUME BaseInv, CopyPlain
  PROVE  BaseInv'
<1>1. /\ result = "copying" /\ result' = result /\ given' = given
      /\ todo # <<>> /\ Now \in Calls /\ ~IsNode(Now.from) /\ CallFits(Now)
      /\ mem' \in Seq(Nodes) /\ Len(mem') = Len(mem)
      /\ Puts(mem, mem', Now.in, Now.at, Now.from)
      /\ todo' = Tail(todo)
  BY PlainFacts
<1>2. Len(mem) > Len(given) /\ Copied \in Copies /\ mem[Copied].kind # "entry"
  <2>1. Now # Call(1, 0, 0, 1)
    BY <1>1 DEF Call, IsNode
  <2> QED
    BY <1>1, <2>1, HasStarted
<1>3. Len(given) \in Nat /\ Len(mem) \in Nat /\ \A n \in 1 .. Len(mem) : Keeps(n)
  BY <1>1, PutsKeep, MemoryFacts DEF BaseInv
<1>4. /\ todo' \in Seq(Items) /\ InOrder(todo') /\ Waiting' = ToSet(Tail(todo))
  BY <1>1, HeadFacts DEF BaseInv, TypeOK, Waiting
<1>5. TypeOK'
  <2>1. \A n \in 1 .. Len(mem) : n \notin Copies => mem'[n] = mem[n]
    <3>1. Now.in = 0 \/ Now.in \in Copies
      BY <1>1 DEF CallFits
    <3> QED
      BY <1>1, <1>3, <3>1 DEF Puts
  <2> QED
    BY <1>1, <1>3, <1>4, <2>1, TypeAfter
<1>6. ItemsFit'
  BY <1>1, <1>3, <1>4, ItemsStay DEF ItemsFit
<1>7. CopiesFit'
  <2>1. WillFit(Now.in, Now.from)
    BY <1>1 DEF WillFit
  <2>2. Now.from \in Int
    BY <1>1 DEF Calls
  <2>3. \A q \in Copies : CopyFits(q)'
    BY <1>1, <1>3, <2>1, <2>2, CopiesAfterPut
  <2> QED
    BY <1>1, <2>3 DEF CopiesFit, Copies
<1>8. Started'
  BY <1>1, <1>2, <1>3 DEF Started, Keeps, Copied, Copies
<1> QED
  BY <1>4, <1>5, <1>6, <1>7, <1>8 DEF BaseInv

LEMMA NodeBase ==
  ASSUME BaseInv, CopyNode
  PROVE  BaseInv'
<1> DEFINE new  == Len(mem) + 1
           node == given[Now.from]
           P    == Parts(node, new, Now.depth + 1)
<1>1. /\ result = "copying" /\ result' = result /\ given' = given
      /\ todo # <<>> /\ Now \in Calls /\ Now.from \in Given /\ CallFits(Now)
      /\ mem' \in Seq(Nodes) /\ Len(mem') = new
      /\ Puts(mem, mem', Now.in, Now.at, new)
      /\ mem'[new] = Blank(node)
      /\ todo' = P \o Tail(todo)
  BY NodeFacts
<1>2. /\ Len(given) \in Nat /\ Len(mem) \in Nat /\ Len(given) <= Len(mem)
      /\ \A n \in 1 .. Len(mem) : Keeps(n)
  BY <1>1, PutsKeep, MemoryFacts DEF BaseInv
<1>3. /\ node \in Nodes /\ node.kind # "entry" /\ Len(node.kids) \in Nat
      /\ \A i \in 1 .. Len(node.kids) : node.kids[i] \in Int /\ node.kids[i] <= Len(given)
  BY <1>1, MemoryFacts DEF BaseInv
<1>4. Now.depth + 1 \in Nat
  BY <1>1 DEF Calls
<1>5. todo' \in Seq(Items) /\ InOrder(todo') /\ Waiting' = ToSet(P) \cup ToSet(Tail(todo))
  BY <1>1, <1>3, <1>4, TodoAfterNode
<1>6. /\ Copies' = Copies \cup {new} /\ new \notin Copies /\ new \in Nat
      /\ \A q \in Copies : q \in 1 .. Len(mem)
  BY <1>1, <1>2 DEF Copies
<1>7. TypeOK'
  <2>1. \A n \in 1 .. Len(mem) : n \notin Copies => mem'[n] = mem[n]
    <3>1. Now.in = 0 \/ Now.in \in Copies
      BY <1>1 DEF CallFits
    <3> QED
      BY <1>1, <1>2, <3>1 DEF Puts
  <2> HIDE DEF P
  <2> QED
    BY <1>1, <1>2, <1>5, <2>1, TypeAfter
<1>8. ItemsFit'
  <2>1. /\ \A c \in ToSet(Tail(todo)) \cap Calls  : CallFits(c)'
        /\ \A r \in ToSet(Tail(todo)) \cap Ranges : RangeFits(r)'
        /\ \A s \in ToSet(Tail(todo)) \cap Sets   : SetFits(s)'
    BY <1>1, <1>2, ItemsStay
  <2>2. /\ \A c \in ToSet(P) \cap Calls  : CallFits(c)'
        /\ \A r \in ToSet(P) \cap Ranges : RangeFits(r)'
        /\ \A s \in ToSet(P) \cap Sets   : SetFits(s)'
    <3>1. CASE node.kind = "map"
      <4> DEFINE range == [do |-> "range", over |-> Entries(node), in |-> new, depth |-> Now.depth + 1]
      <4>1. P = <<range>> /\ Entries(node) \in SUBSET (Int \X Int)
        BY <1>3, <1>4, <1>6, <3>1, PartsOfMap
      <4>2. range \in Ranges /\ range \notin Calls /\ range \notin Sets
        BY <1>4, <1>6, <4>1 DEF Ranges, Calls, Sets
      <4>3. ToSet(P) = {range}
        BY <4>1 DEF ToSet
      <4>4. \A e \in Entries(node) : e[1] <= Len(given) /\ e[2] <= Len(given)
        <5> SUFFICES ASSUME NEW e \in Entries(node)
                     PROVE  e[1] <= Len(given) /\ e[2] <= Len(given)
          OBVIOUS
        <5>1. PICK i \in 1 .. Len(node.kids) \div 2 : e = <<node.kids[2 * i - 1], node.kids[2 * i]>>
          BY DEF Entries
        <5>2. node.kids[2 * i - 1] <= Len(given) /\ node.kids[2 * i] <= Len(given)
          BY <1>3, Half
        <5> QED
          BY <5>1, <5>2
      <4>5. ASSUME NEW r, r = range
            PROVE  RangeFits(r)'
        <5>1. mem'[new].kind = "map" /\ new \in Copies'
          BY <1>1, <1>3, <1>6, <3>1, BlankFacts
        <5>2. r.in = new /\ r.over = Entries(node)
          BY <4>5
        <5> QED
          BY <1>1, <4>4, <5>1, <5>2 DEF RangeFits
      <4> HIDE DEF range, P
      <4> QED
        BY <4>2, <4>3, <4>5
    <3>2. CASE node.kind # "map"
      <4>1. P \in Seq(Calls) /\ ToSet(P) = {Call(node.kids[i], new, i, Now.depth + 1) : i \in Followed(node)}
        BY <1>3, <1>4, <1>6, <3>2, PartsOfOthers
      <4>2. ASSUME NEW i \in Followed(node)
            PROVE  \A c : c = Call(node.kids[i], new, i, Now.depth + 1) =>
                      c \in Calls /\ c \notin Ranges /\ c \notin Sets /\ CallFits(c)'
        <5>1. node.kind \notin AsTheyAre \cup {"map"} /\ i \in 1 .. Len(node.kids)
          <6>1. DOMAIN node.kids = 1 .. Len(node.kids)
            BY <1>3, NodesFacts
          <6> QED
            BY <3>2, <6>1 DEF Followed, HasCase
        <5>2. mem'[new].kind = node.kind /\ Len(mem'[new].kids) = Len(node.kids)
          BY <1>1, <1>3, <5>1, BlankFacts
        <5> SUFFICES ASSUME NEW c, c = Call(node.kids[i], new, i, Now.depth + 1)
                     PROVE  c \in Calls /\ c \notin Ranges /\ c \notin Sets /\ CallFits(c)'
          OBVIOUS
        <5>3. /\ c.from = node.kids[i] /\ c.in = new /\ c.at = i /\ c.do = "copy"
              /\ c \in Calls
          <6>1. node.kids[i] \in Int /\ new \in Nat /\ i \in Nat /\ Now.depth + 1 \in Nat
            BY <1>3, <1>4, <1>6, <5>1
          <6> HIDE DEF node, new, P
          <6> QED
            BY <6>1, CallType DEF Call
        <5>4. c \notin Ranges /\ c \notin Sets
          BY <5>3 DEF Ranges, Sets
        <5>5. CallFits(c)'
          <6>1. given' = given /\ node.kids[i] <= Len(given)
            BY <1>1, <1>3, <5>1
          <6>2. new # 0 /\ new \in Copies'
            BY <1>2, <1>6
          <6>3. mem'[new].kind \notin AsTheyAre \cup {"map"} /\ i \in 1 .. Len(mem'[new].kids)
            BY <5>1, <5>2
          <6> HIDE DEF node, new, P
          <6> QED
            BY ONLY <5>3, <6>1, <6>2, <6>3 DEF CallFits
        <5> QED
          BY <5>3, <5>4, <5>5
      <4> HIDE DEF P
      <4> QED
        BY <4>1, <4>2
    <3> QED
      BY <3>1, <3>2
  <2> HIDE DEF P
  <2> QED
    BY <1>5, <2>1, <2>2 DEF ItemsFit
<1>9. CopiesFit'
  <2>1. WillFit(Now.in, new) \/ Now.in = 0
    <3>1. mem'[new].kind # "entry"
      BY <1>1, <1>3, BlankFacts
    <3> QED
      BY <1>1, <1>2, <1>6, <3>1 DEF WillFit, CallFits
  <2>2. \A q \in Copies : CopyFits(q)'
    <3>1. Len(mem) <= new /\ new \in Int /\ new \in Nat
      BY <1>2
    <3>2. given' = given /\ Len(mem') = new /\ Now \in Calls /\ Puts(mem, mem', Now.in, Now.at, new)
      BY <1>1
    <3> HIDE DEF P, new, node
    <3> QED
      BY <2>1, <3>1, <3>2, CopiesAfterPut
  <2>3. ASSUME NEW q, q = new
        PROVE  CopyFits(q)'
    <3>1. /\ mem'[new].kind = node.kind
          /\ node.kind = "map" => Len(mem'[new].kids) = 0
          /\ node.kind \notin AsTheyAre \cup {"map"} =>
                /\ Len(mem'[new].kids) = Len(node.kids)
                /\ \A i \in 1 .. Len(node.kids) : mem'[new].kids[i] = Zero
      BY <1>1, <1>3, BlankFacts
    <3>2. mem'[new].kind \notin AsTheyAre => \A i \in 1 .. Len(mem'[new].kids) : ~IsNode(mem'[new].kids[i])
      BY <1>2, <1>3, <3>1 DEF IsNode, Zero
    <3> HIDE DEF node, P, new
    <3>3. mem'[q].kind = "map" => Len(mem'[q].kids) % 2 = 0
      <4>1. mem'[q].kind = "map" => Len(mem'[q].kids) = 0
        BY <2>3, <3>1
      <4>2. 0 % 2 = 0
        OBVIOUS
      <4> QED
        BY <4>1, <4>2
    <3>4. mem'[q].kind # "entry"
      BY <1>3, <2>3, <3>1
    <3> QED
      BY <2>3, <3>2, <3>3, <3>4 DEF CopyFits, PlacesFit, PlaceFits
  <2> QED
    BY <1>6, <2>2, <2>3 DEF CopiesFit
<1>10. Started'
  <2>1. Len(mem') > Len(given)
    BY <1>1, <1>2
  <2>2. mem'[Copied].kind # "entry"
    <3>1. CASE Len(mem) = Len(given)
      BY <1>1, <1>3, <3>1, BlankFacts DEF Copied
    <3>2. CASE Len(mem) # Len(given)
      <4>1. Copied \in 1 .. Len(mem) /\ mem[Copied].kind # "entry"
        BY <1>2, <3>2 DEF BaseInv, Started, Copied
      <4> QED
        BY <1>2, <4>1 DEF Keeps
    <3> QED
      BY <3>1, <3>2
  <2> QED
    BY <1>1, <1>2, <2>1, <2>2 DEF Started, Copied
<1> HIDE DEF P
<1> QED
  BY <1>5, <1>7, <1>8, <1>9, <1>10 DEF BaseInv

LEMMA TwoMore ==
  ASSUME NEW n \in Nat, n % 2 = 0
  PROVE  (n + 2) % 2 = 0
OBVIOUS

LEMMA EntryBase ==
  ASSUME BaseInv, NextEntry
  PROVE  BaseInv'
<1> DEFINE new == Len(mem) + 1
<1>1. /\ result = "copying" /\ result' = result /\ given' = given
      /\ todo # <<>> /\ Now \in Ranges /\ RangeFits(Now)
      /\ mem' \in Seq(Nodes) /\ Len(mem') = new
      /\ \A n \in 1 .. Len(mem) : mem'[n] = mem[n]
      /\ mem'[new] = EntryNode
  BY EntryFacts
<1>2. PICK entry \in Now.over : todo' = EntryItems(Now, entry, new) \o Tail(todo)
  BY EntryFacts
<1>3. /\ Len(given) \in Nat /\ Len(mem) \in Nat /\ Len(given) <= Len(mem)
      /\ \A n \in 1 .. Len(mem) : Keeps(n)
  BY <1>1, MemoryFacts DEF BaseInv, Keeps
<1> DEFINE c2 == Call(entry[2], new, 2, Now.depth)
           c1 == Call(entry[1], new, 1, Now.depth)
           set == [do |-> "set", entry |-> new, in |-> Now.in]
           range == [do |-> "range", over |-> Now.over \ {entry}, in |-> Now.in, depth |-> Now.depth]
<1>4. /\ todo' \in Seq(Items) /\ InOrder(todo')
      /\ Waiting' = {c2, c1, set, range} \cup ToSet(Tail(todo))
  BY <1>1, <1>2, TodoAfterEntry
<1>5. /\ Copies' = Copies \cup {new} /\ new \notin Copies /\ new \in Nat
      /\ Now.in \in Copies /\ Now.in < new /\ mem[Now.in].kind = "map"
      /\ \A q \in Copies : q \in 1 .. Len(mem)
  BY <1>1, <1>3 DEF Copies, RangeFits
<1>6. mem'[new].kind = "entry" /\ Len(mem'[new].kids) = 2 /\ \A i \in 1 .. 2 : mem'[new].kids[i] = Zero
  BY <1>1 DEF EntryNode
<1>7. /\ entry[1] \in Int /\ entry[2] \in Int /\ Now.depth \in Nat
      /\ entry[1] <= Len(given) /\ entry[2] <= Len(given)
  BY <1>1 DEF Ranges, RangeFits
<1>8. TypeOK'
  BY <1>1, <1>3, <1>4, TypeAfter
<1>9. ItemsFit'
  <2>1. /\ \A c \in ToSet(Tail(todo)) \cap Calls  : CallFits(c)'
        /\ \A r \in ToSet(Tail(todo)) \cap Ranges : RangeFits(r)'
        /\ \A s \in ToSet(Tail(todo)) \cap Sets   : SetFits(s)'
    BY <1>1, <1>3, ItemsStay
  <2>2. \A c : c \in {c2, c1} => c \notin Ranges /\ c \notin Sets /\ CallFits(c)'
    <3> SUFFICES ASSUME NEW c, c \in {c2, c1} PROVE c \notin Ranges /\ c \notin Sets /\ CallFits(c)'
      OBVIOUS
    <3>1. c.do = "copy" /\ c.in = new /\ c.at \in 1 .. 2 /\ c.from \in Int /\ c.from <= Len(given)
      BY <1>7 DEF Call
    <3>2. CallFits(c)'
      BY <1>1, <1>3, <1>5, <1>6, <3>1 DEF CallFits, AsTheyAre
    <3> QED
      BY <3>1, <3>2 DEF Ranges, Sets
  <2>3. \A s : s = set => s \notin Ranges /\ s \notin Calls /\ SetFits(s)'
    <3> SUFFICES ASSUME NEW s, s = set PROVE s \notin Ranges /\ s \notin Calls /\ SetFits(s)'
      OBVIOUS
    <3>1. s.do = "set" /\ s.entry = new /\ s.in = Now.in
      OBVIOUS
    <3>2. SetFits(s)'
      BY <1>1, <1>3, <1>5, <1>6, <3>1 DEF SetFits, Keeps
    <3> QED
      BY <3>1, <3>2 DEF Ranges, Calls
  <2>4. \A r : r = range => r \notin Sets /\ r \notin Calls /\ RangeFits(r)'
    <3> SUFFICES ASSUME NEW r, r = range PROVE r \notin Sets /\ r \notin Calls /\ RangeFits(r)'
      OBVIOUS
    <3>1. r.do = "range" /\ r.over = Now.over \ {entry} /\ r.in = Now.in
      OBVIOUS
    <3>2. RangeFits(r)'
      BY <1>1, <1>3, <1>5, <3>1 DEF RangeFits, Keeps
    <3> QED
      BY <3>1, <3>2 DEF Sets, Calls
  <2> HIDE DEF c2, c1, set, range
  <2> QED
    BY <1>4, <2>1, <2>2, <2>3, <2>4 DEF ItemsFit
<1>10. CopiesFit'
  <2>1. \A q \in Copies : CopyFits(q)'
    <3> SUFFICES ASSUME NEW q \in Copies PROVE CopyFits(q)'
      OBVIOUS
    <3>1. CopyFits(q) /\ mem'[q] = mem[q]
      BY <1>1, <1>5 DEF BaseInv, CopiesFit
    <3>2. ASSUME mem[q].kind \notin AsTheyAre, NEW i \in 1 .. Len(mem[q].kids)
          PROVE  WillFit(q, mem[q].kids[i])
      <4>1. PlaceFits(q, mem[q].kids[i])
        BY <3>1, <3>2 DEF CopyFits, PlacesFit
      <4> QED
        BY <1>1, <1>3, <4>1, PlaceStays
    <3> QED
      BY <3>1, <3>2 DEF CopyFits, PlacesFit, PlaceFits, WillFit
  <2>2. ASSUME NEW q, q = new
        PROVE  CopyFits(q)'
    <3>1. \A i \in 1 .. 2 : ~IsNode(mem'[q].kids[i])
      BY <1>6, <2>2 DEF IsNode, Zero
    <3>2. mem'[q].kind = "entry" /\ Len(mem'[q].kids) = 2
      BY <1>6, <2>2
    <3> HIDE DEF new
    <3> QED
      BY <3>1, <3>2 DEF CopyFits, PlacesFit, PlaceFits
  <2> QED
    BY <1>5, <2>1, <2>2 DEF CopiesFit
<1>11. Started'
  <2>1. Now # Call(1, 0, 0, 1)
    BY <1>1 DEF Call, Ranges
  <2>2. Len(mem) > Len(given) /\ Copied \in Copies /\ mem[Copied].kind # "entry"
    BY <1>1, <2>1, HasStarted
  <2> QED
    BY <1>1, <1>3, <1>5, <2>2 DEF Started, Keeps, Copied
<1> QED
  BY <1>4, <1>8, <1>9, <1>10, <1>11 DEF BaseInv

LEMMA RangeEndsBase ==
  ASSUME BaseInv, RangeEnds
  PROVE  BaseInv'
<1>1. /\ todo # <<>> /\ Now.do = "range" /\ todo' = Tail(todo)
      /\ given' = given /\ mem' = mem /\ result' = result
  BY DEF RangeEnds, Does, Now
<1>2. Now \in Items /\ Now # Call(1, 0, 0, 1)
  BY <1>1, HeadFacts DEF BaseInv, TypeOK, Call
<1>3. Len(mem) > Len(given) /\ mem[Copied].kind # "entry"
  BY <1>1, <1>2, HasStarted
<1>4. /\ todo' \in Seq(Items) /\ InOrder(todo') /\ Waiting' = ToSet(Tail(todo))
  BY <1>1, HeadFacts DEF BaseInv, TypeOK, Waiting
<1>5. Len(mem) \in Nat /\ Len(given) \in Nat /\ \A n \in 1 .. Len(mem) : Keeps(n)
  BY <1>1, MemoryFacts DEF BaseInv, Keeps
<1>6. TypeOK'
  BY <1>1, <1>4 DEF BaseInv, TypeOK, Given
<1>7. ItemsFit'
  BY <1>1, <1>4, <1>5, ItemsStay DEF ItemsFit
<1>8. CopiesFit'
  BY <1>1 DEF BaseInv, CopiesFit, CopyFits, PlacesFit, PlaceFits, Copies
<1>9. Started'
  BY <1>1, <1>3, <1>5 DEF Started, Copied
<1> QED
  BY <1>4, <1>6, <1>7, <1>8, <1>9 DEF BaseInv

LEMMA SetBase ==
  ASSUME BaseInv, SetEntry, result' = result
  PROVE  BaseInv'
<1>1. /\ result = "copying" /\ given' = given
      /\ todo # <<>> /\ Now \in Sets /\ SetFits(Now)
      /\ NewKey \in Int /\ NewValue \in Int /\ Len(mem[Now.entry].kids) = 2
      /\ mem[Now.in].kids \in Seq(Int) /\ Len(mem[Now.in].kids) % 2 = 0
  BY SetHead
<1>2. /\ NewKey # NilIface /\ todo' = Tail(todo)
      /\ mem' \in Seq(Nodes) /\ Len(mem') = Len(mem)
      /\ \A n \in 1 .. Len(mem) : n # Now.in => mem'[n] = mem[n]
      /\ mem'[Now.in].kind = "map" /\ mem'[Now.in].hidden = mem[Now.in].hidden
  BY SetFacts
<1> DEFINE old == mem[Now.in].kids
           kids == mem'[Now.in].kids
<1>3. \/ Adds(old, kids, NewKey, NewValue)
      \/ \E j \in 1 .. Len(old) : j % 2 = 1 /\ Replaces(old, kids, j, NewValue)
  BY SetFacts
<1>4. /\ Len(given) \in Nat /\ Len(mem) \in Nat /\ Len(old) \in Nat
      /\ Now.in \in Copies /\ Now.entry \in Copies /\ Now.in < Now.entry
      /\ mem[Now.in].kind = "map" /\ mem[Now.entry].kind = "entry"
      /\ \A q \in Copies : q \in 1 .. Len(mem)
  BY <1>1, MemoryFacts, LenProperties DEF BaseInv, SetFits, Copies
<1>5. \A n \in 1 .. Len(mem) : Keeps(n)
  BY <1>2, <1>4 DEF Keeps
<1>6. /\ todo' \in Seq(Items) /\ InOrder(todo') /\ Waiting' = ToSet(Tail(todo))
  BY <1>1, <1>2, HeadFacts DEF BaseInv, TypeOK, Waiting
<1>7. TypeOK'
  BY <1>1, <1>2, <1>4, <1>6, TypeAfter
<1>8. ItemsFit'
  BY <1>1, <1>2, <1>4, <1>5, <1>6, ItemsStay DEF ItemsFit
<1>9. CopiesFit'
  <2>1. Copies' = Copies
    BY <1>1, <1>2 DEF Copies
  <2>2. \A q \in Copies : \A place : PlaceFits(q, place) => WillFit(q, place)
    BY <1>1, <1>2, <1>4, <1>5, PlaceStays
  <2>3. ASSUME NEW q \in Copies, q # Now.in
        PROVE  CopyFits(q)'
    <3>1. CopyFits(q) /\ mem'[q] = mem[q]
      BY <1>2, <1>4, <2>3 DEF BaseInv, CopiesFit
    <3> QED
      BY <2>2, <3>1 DEF CopyFits, PlacesFit, PlaceFits, WillFit
  <2>4. ASSUME NEW q \in Copies, q = Now.in
        PROVE  CopyFits(q)'
    <3>1. \A i \in 1 .. Len(old) : WillFit(q, old[i])
      BY <1>4, <2>2, <2>4 DEF BaseInv, CopiesFit, CopyFits, PlacesFit, AsTheyAre
    <3>2. WillFit(q, NewKey) /\ WillFit(q, NewValue)
      <4>1. PlaceFits(Now.entry, NewKey) /\ PlaceFits(Now.entry, NewValue)
        <5>1. \A i \in 1 .. Len(mem[Now.entry].kids) : PlaceFits(Now.entry, mem[Now.entry].kids[i])
          BY <1>4 DEF BaseInv, CopiesFit, CopyFits, PlacesFit, AsTheyAre
        <5>2. 1 \in 1 .. Len(mem[Now.entry].kids) /\ 2 \in 1 .. Len(mem[Now.entry].kids)
          BY <1>1
        <5> QED
          BY <5>1, <5>2 DEF NewKey, NewValue
      <4>2. PlaceFits(q, NewKey) /\ PlaceFits(q, NewValue)
        BY <1>1, <1>4, <2>4, <4>1 DEF PlaceFits, Copies
      <4> QED
        BY <2>2, <4>2
    <3>3. Len(kids) % 2 = 0 /\ \A i \in 1 .. Len(kids) : WillFit(q, kids[i])
      <4> HIDE DEF old, kids
      <4>1. CASE Adds(old, kids, NewKey, NewValue)
        <5>1. Len(kids) = Len(old) + 2
          BY <4>1 DEF Adds
        <5>2. Len(kids) % 2 = 0
          <6>1. Len(old) % 2 = 0 /\ Len(old) \in Nat
            BY <1>1, <1>4 DEF old
          <6> QED
            BY <5>1, <6>1, TwoMore
        <5>3. ASSUME NEW i \in 1 .. Len(kids)
              PROVE  WillFit(q, kids[i])
          <6>1. i \in 1 .. Len(old) \/ i = Len(old) + 1 \/ i = Len(old) + 2
            BY <1>4, <5>1
          <6> QED
            BY <3>1, <3>2, <4>1, <6>1 DEF Adds
        <5> QED
          BY <5>2, <5>3
      <4>2. CASE \E j \in 1 .. Len(old) : j % 2 = 1 /\ Replaces(old, kids, j, NewValue)
        BY <1>1, <3>1, <3>2, <4>2 DEF Replaces, old
      <4> QED
        BY <1>3, <4>1, <4>2
    <3> QED
      BY <1>2, <2>4, <3>3 DEF CopyFits, PlacesFit, PlaceFits, WillFit
  <2> QED
    BY <2>1, <2>3, <2>4 DEF CopiesFit
<1>10. Started'
  <2>1. Now # Call(1, 0, 0, 1)
    BY <1>1 DEF Call, Sets
  <2>2. Len(mem) > Len(given) /\ Copied \in Copies /\ mem[Copied].kind # "entry"
    BY <1>1, <2>1, HasStarted
  <2> QED
    BY <1>1, <1>2, <1>4, <1>5, <2>2 DEF Started, Keeps, Copied
<1> QED
  BY <1>6, <1>7, <1>8, <1>9, <1>10 DEF BaseInv

\* The steps that end the call, and those that do nothing.
LEMMA EndBase ==
  ASSUME BaseInv, UNCHANGED <<given, mem, todo>>,
         result' \in {"copying", "done", "panicked", "overflowed"}
  PROVE  BaseInv'
<1>1. given' = given /\ mem' = mem /\ todo' = todo
  OBVIOUS
<1>2. TypeOK'
  BY <1>1 DEF BaseInv, TypeOK, Given
<1>3. ItemsFit'
  BY <1>1 DEF BaseInv, ItemsFit, CallFits, RangeFits, SetFits, Waiting, Copies
<1>4. CopiesFit'
  BY <1>1 DEF BaseInv, CopiesFit, CopyFits, PlacesFit, PlaceFits, Copies
<1>5. Started' /\ InOrder(todo')
  BY <1>1 DEF BaseInv, Started, Copied
<1> QED
  BY <1>2, <1>3, <1>4, <1>5 DEF BaseInv

LEMMA NextBase ==
  ASSUME BaseInv, [Next]_vars
  PROVE  BaseInv'
<1>1. CASE CopyPlain
  BY <1>1, PlainBase
<1>2. CASE CopyNode
  BY <1>2, NodeBase
<1>3. CASE NextEntry
  BY <1>3, EntryBase
<1>4. CASE RangeEnds
  BY <1>4, RangeEndsBase
<1>5. CASE SetEntry
  <2>1. CASE result' = result
    BY <1>5, <2>1, SetBase
  <2>2. CASE result' # result
    <3>1. UNCHANGED <<given, mem, todo>> /\ result' = "panicked"
      BY <1>5, <2>2, PanicFacts, SetHead
    <3> QED
      BY <3>1, EndBase
  <2> QED
    BY <2>1, <2>2
<1>6. CASE StackFills
  BY <1>6, EndBase DEF StackFills
<1>7. CASE Answer
  BY <1>7, EndBase DEF Answer
<1>8. CASE UNCHANGED vars
  BY <1>8, EndBase DEF vars, BaseInv, TypeOK
<1>9. CASE KeyIsLost
  BY <1>9, LostHead, EndBase
<1> QED
  BY <1>1, <1>2, <1>3, <1>4, <1>5, <1>6, <1>7, <1>8, <1>9 DEF Next

-----------------------------------------------------------------------------
(* Nothing is held twice.                                                  *)

\* The places of a copy that may go on: those of an entry count as long as it
\* is not in its map.
Live(q) ==
    /\ q \in Copies /\ mem[q].kind \notin AsTheyAre
    /\ mem[q].kind = "entry" => \E s \in Waiting \cap Sets : s.entry = q

Holds(q, p) == IsNode(p) /\ \E i \in 1 .. Len(mem[q].kids) : mem[q].kids[i] = p

Unshared == \A m, k, p : Live(m) /\ Live(k) /\ Holds(m, p) /\ Holds(k, p) => m = k

LEMMA HeldIsCopy ==
  ASSUME BaseInv, NEW q, NEW p, Live(q), Holds(q, p)
  PROVE  p \in Copies /\ p > q /\ mem[p].kind # "entry"
BY DEF BaseInv, Live, Holds, CopiesFit, CopyFits, PlacesFit, PlaceFits

\* Only the node at work gets a node to hold, a new one.
LEMMA UnsharedAfter ==
  ASSUME BaseInv, Unshared, NEW in,
         \A m, p : Live(m)' /\ Holds(m, p)' =>
                      (Live(m) /\ Holds(m, p)) \/ (m = in /\ p = Len(mem) + 1)
  PROVE  Unshared'
<1> SUFFICES ASSUME NEW m, NEW k, NEW p, Live(m)', Live(k)', Holds(m, p)', Holds(k, p)'
             PROVE  m = k
  BY DEF Unshared
<1>1. Len(mem) \in Nat
  BY MemoryFacts DEF BaseInv
<1>2. \A q : Live(q) /\ Holds(q, p) => p # Len(mem) + 1
  BY <1>1, HeldIsCopy DEF Copies
<1>3. \/ Live(m) /\ Holds(m, p)
      \/ m = in /\ p = Len(mem) + 1
  OBVIOUS
<1>4. \/ Live(k) /\ Holds(k, p)
      \/ k = in /\ p = Len(mem) + 1
  OBVIOUS
<1> QED
  BY <1>2, <1>3, <1>4 DEF Unshared

\* What is still live was so, if no set has come.
LEMMA LiveBefore ==
  ASSUME BaseInv, given' = given, Len(mem) \in Nat, \A n \in 1 .. Len(mem) : Keeps(n),
         Waiting' \cap Sets \subseteq Waiting, NEW q \in Copies, Live(q)'
  PROVE  Live(q)
<1>1. q \in 1 .. Len(mem)
  BY MemoryFacts DEF BaseInv, Copies
<1>2. mem'[q].kind = mem[q].kind
  BY <1>1 DEF Keeps
<1> QED
  BY <1>2 DEF Live

LEMMA InitUnshared ==
  ASSUME Init
  PROVE  Unshared
<1>1. Copies = {}
  BY InitBase, MemoryFacts DEF Init, Copies, BaseInv
<1> QED
  BY <1>1 DEF Unshared, Live

LEMMA PlainUnshared ==
  ASSUME BaseInv, Unshared, CopyPlain
  PROVE  Unshared'
<1>1. /\ given' = given /\ todo # <<>> /\ ~IsNode(Now.from)
      /\ Len(mem') = Len(mem) /\ Puts(mem, mem', Now.in, Now.at, Now.from)
      /\ todo' = Tail(todo)
  BY PlainFacts
<1>2. Len(mem) \in Nat /\ Len(given) \in Nat /\ \A n \in 1 .. Len(mem) : Keeps(n)
  BY <1>1, PutsKeep, MemoryFacts DEF BaseInv
<1>3. Waiting' \subseteq Waiting
  BY <1>1, HeadFacts DEF BaseInv, TypeOK, Waiting
<1>4. ASSUME NEW m, NEW p, Live(m)', Holds(m, p)'
      PROVE  Live(m) /\ Holds(m, p)
  <2>1. m \in Copies /\ m \in 1 .. Len(mem)
    BY <1>1, <1>2, <1>4 DEF Live, Copies
  <2>2. Live(m)
    BY <1>1, <1>2, <1>3, <1>4, <2>1, LiveBefore
  <2>3. PICK i \in 1 .. Len(mem'[m].kids) : mem'[m].kids[i] = p /\ IsNode(p)
    BY <1>4 DEF Holds
  <2>4. i \in 1 .. Len(mem[m].kids) /\ mem[m].kids[i] = p
    <3>1. /\ Len(mem'[m].kids) = Len(mem[m].kids)
          /\ \A j \in 1 .. Len(mem[m].kids) :
               mem'[m].kids[j] = IF m = Now.in /\ j = Now.at THEN Now.from ELSE mem[m].kids[j]
      BY ONLY <1>1, <2>1 DEF Puts
    <3>2. Now.from # p
      BY <1>1, <2>3
    <3> QED
      BY ONLY <2>3, <3>1, <3>2
  <2> QED
    BY <2>2, <2>3, <2>4 DEF Holds
<1> QED
  BY <1>4, UnsharedAfter

LEMMA NodeUnshared ==
  ASSUME BaseInv, Unshared, CopyNode
  PROVE  Unshared'
<1> DEFINE new  == Len(mem) + 1
           node == given[Now.from]
           P    == Parts(node, new, Now.depth + 1)
<1>1. /\ given' = given /\ todo # <<>> /\ Now \in Calls /\ Now.from \in Given
      /\ Len(mem') = new /\ Puts(mem, mem', Now.in, Now.at, new)
      /\ mem'[new] = Blank(node) /\ todo' = P \o Tail(todo)
  BY NodeFacts
<1>2. /\ Len(mem) \in Nat /\ Len(given) \in Nat /\ Len(given) <= Len(mem)
      /\ node \in Nodes /\ node.kind # "entry" /\ Len(node.kids) \in Nat
      /\ \A n \in 1 .. Len(mem) : Keeps(n)
  BY <1>1, PutsKeep, MemoryFacts DEF BaseInv
<1>3. Now.depth + 1 \in Nat /\ new \in Nat
  BY <1>1, <1>2 DEF Calls
<1>4. Waiting' = ToSet(P) \cup ToSet(Tail(todo)) /\ ToSet(Tail(todo)) \subseteq Waiting
  BY <1>1, <1>2, <1>3, TodoAfterNode, HeadFacts DEF BaseInv, TypeOK
<1>5. ToSet(P) \cap Sets = {}
  <2>1. CASE node.kind = "map"
    <3>1. \A item \in ToSet(P) : item.do = "range"
      BY <1>2, <1>3, <2>1, PartsOfMap DEF ToSet
    <3> QED
      BY <3>1 DEF Sets
  <2>2. CASE node.kind # "map"
    <3>1. P \in Seq(Calls)
      BY <1>2, <1>3, <2>2, PartsOfOthers
    <3> HIDE DEF P
    <3>2. \A item \in ToSet(P) : item \in Calls
      BY <3>1, ElementOfSeq, LenProperties DEF ToSet
    <3> QED
      BY <3>2 DEF Sets, Calls
  <2> QED
    BY <2>1, <2>2
<1> HIDE DEF P
<1>6. ASSUME NEW m, NEW p, Live(m)', Holds(m, p)'
      PROVE  (Live(m) /\ Holds(m, p)) \/ (m = Now.in /\ p = new)
  <2>1. PICK i \in 1 .. Len(mem'[m].kids) : mem'[m].kids[i] = p /\ IsNode(p)
    BY <1>6 DEF Holds
  <2>2. CASE m \in Copies
    <3>1. m \in 1 .. Len(mem)
      BY <1>2, <2>2 DEF Copies
    <3>2. Live(m)
      BY <1>1, <1>2, <1>4, <1>5, <1>6, <2>2, LiveBefore
    <3>3. i \in 1 .. Len(mem[m].kids) /\ (mem[m].kids[i] = p \/ (m = Now.in /\ p = new))
      BY <1>1, <2>1, <3>1 DEF Puts
    <3> QED
      BY <2>1, <3>2, <3>3 DEF Holds
  <2>3. CASE m \notin Copies
    <3>1. m = new
      BY <1>1, <1>2, <1>6, <2>3 DEF Live, Copies
    <3>2. node.kind \notin AsTheyAre /\ mem'[m].kids = Blank(node).kids
      BY <1>1, <1>2, <1>6, <3>1, BlankFacts DEF Live
    <3>3. \A j \in 1 .. Len(Blank(node).kids) : Blank(node).kids[j] = Zero
      BY <1>2, <3>2, BlankFacts
    <3> QED
      BY <2>1, <3>2, <3>3 DEF IsNode, Zero
  <2> QED
    BY <2>2, <2>3
<1> QED
  BY <1>6, UnsharedAfter

LEMMA EntryUnshared ==
  ASSUME BaseInv, Unshared, NextEntry
  PROVE  Unshared'
<1> DEFINE new == Len(mem) + 1
<1>1. /\ given' = given /\ todo # <<>> /\ Now \in Ranges /\ RangeFits(Now)
      /\ Len(mem') = new /\ mem'[new] = EntryNode
      /\ \A n \in 1 .. Len(mem) : mem'[n] = mem[n]
  BY EntryFacts
<1>2. PICK entry \in Now.over : todo' = EntryItems(Now, entry, new) \o Tail(todo)
  BY EntryFacts
<1>3. Len(mem) \in Nat /\ Len(given) \in Nat /\ Len(given) <= Len(mem)
  BY MemoryFacts DEF BaseInv
<1>4. /\ Waiting' = {Call(entry[2], new, 2, Now.depth), Call(entry[1], new, 1, Now.depth),
                     [do |-> "set", entry |-> new, in |-> Now.in],
                     [do |-> "range", over |-> Now.over \ {entry}, in |-> Now.in, depth |-> Now.depth]}
                    \cup ToSet(Tail(todo))
      /\ ToSet(Tail(todo)) \subseteq Waiting
  BY <1>1, <1>2, TodoAfterEntry, HeadFacts DEF BaseInv, TypeOK
<1>5. \A s \in Waiting' \cap Sets : s \in Waiting \/ s.entry = new
  <2> SUFFICES ASSUME NEW s \in Waiting' \cap Sets, s \notin Waiting
               PROVE  s.entry = new
    OBVIOUS
  <2>1. s.do = "set"
    BY DEF Sets
  <2> QED
    BY <1>4, <2>1 DEF Call
<1>6. ASSUME NEW m, NEW p, Live(m)', Holds(m, p)'
      PROVE  Live(m) /\ Holds(m, p)
  <2>1. PICK i \in 1 .. Len(mem'[m].kids) : mem'[m].kids[i] = p /\ IsNode(p)
    BY <1>6 DEF Holds
  <2>2. m # new
    BY <1>1, <2>1 DEF EntryNode, IsNode, Zero
  <2>3. m \in Copies /\ m \in 1 .. Len(mem) /\ mem'[m] = mem[m]
    BY <1>1, <1>3, <1>6, <2>2 DEF Live, Copies
  <2>4. Live(m)
    BY <1>5, <1>6, <2>2, <2>3 DEF Live
  <2> QED
    BY <2>1, <2>3, <2>4 DEF Holds
<1> QED
  BY <1>6, UnsharedAfter

LEMMA SetUnshared ==
  ASSUME BaseInv, Unshared, SetEntry, result' = result
  PROVE  Unshared'
<1>1. /\ given' = given /\ todo # <<>> /\ Now \in Sets /\ SetFits(Now)
      /\ NewKey \in Int /\ NewValue \in Int /\ Len(mem[Now.entry].kids) = 2
      /\ mem[Now.in].kids \in Seq(Int)
  BY SetHead
<1>2. /\ todo' = Tail(todo) /\ Len(mem') = Len(mem)
      /\ \A n \in 1 .. Len(mem) : n # Now.in => mem'[n] = mem[n]
      /\ mem'[Now.in].kind = "map"
  BY SetFacts
<1> DEFINE old == mem[Now.in].kids
           kids == mem'[Now.in].kids
<1>3. \/ Adds(old, kids, NewKey, NewValue)
      \/ \E j \in 1 .. Len(old) : j % 2 = 1 /\ Replaces(old, kids, j, NewValue)
  BY SetFacts
<1>4. /\ Len(given) \in Nat /\ Len(mem) \in Nat /\ Len(old) \in Nat
      /\ Now.in \in Copies /\ Now.entry \in Copies /\ Now.in < Now.entry
      /\ mem[Now.in].kind = "map" /\ mem[Now.entry].kind = "entry"
      /\ \A q \in Copies : q \in 1 .. Len(mem)
  BY <1>1, MemoryFacts, LenProperties DEF BaseInv, SetFits, Copies
<1>5. /\ Now \in Waiting /\ Waiting' = ToSet(Tail(todo)) /\ Waiting' \subseteq Waiting
      /\ \A item \in Waiting' : item \in Items /\ Before(Now, item)
  BY <1>1, <1>2, HeadFacts DEF BaseInv, TypeOK, Waiting
<1>6. \A s \in Waiting' \cap Sets : s.entry # Now.entry
  <2> SUFFICES ASSUME NEW s \in Waiting' \cap Sets PROVE s.entry # Now.entry
    OBVIOUS
  <2>1. /\ Before(Now, s) /\ Tag(s) = s.entry /\ Tag(Now) = Now.entry /\ Now.do # "copy"
        /\ s.entry \in Nat /\ Now.entry \in Nat
    BY <1>1, <1>5 DEF Tag, Sets
  <2> QED
    BY <2>1 DEF Before
<1>7. ASSUME NEW m, NEW p, Live(m)', Holds(m, p)'
      PROVE  /\ Live(m) /\ m # Now.entry
             /\ Holds(m, p) \/ (m = Now.in /\ Holds(Now.entry, p))
  <2>1. m \in Copies /\ m \in 1 .. Len(mem)
    BY <1>1, <1>2, <1>4, <1>7 DEF Live, Copies
  <2>2. Live(m)
    BY <1>2, <1>4, <1>5, <1>7, <2>1 DEF Live, AsTheyAre
  <2>3. m # Now.entry
    BY <1>2, <1>4, <1>6, <1>7 DEF Live
  <2>4. PICK i \in 1 .. Len(mem'[m].kids) : mem'[m].kids[i] = p /\ IsNode(p)
    BY <1>7 DEF Holds
  <2>5. CASE m # Now.in
    BY <1>2, <2>1, <2>2, <2>3, <2>4, <2>5 DEF Holds
  <2>6. CASE m = Now.in
    <3>1. i \in 1 .. Len(kids) /\ kids[i] = p
      BY <2>4, <2>6
    <3>2. (\E j \in 1 .. Len(old) : old[j] = p) \/ p \in {NewKey, NewValue}
      <4> HIDE DEF old, kids
      <4>1. CASE Adds(old, kids, NewKey, NewValue)
        <5>1. i \in 1 .. Len(old) \/ i = Len(old) + 1 \/ i = Len(old) + 2
          <6> DEFINE n == Len(old)
          <6>1. n \in Nat /\ i \in 1 .. n + 2
            BY ONLY <1>4, <3>1, <4>1 DEF Adds
          <6> HIDE DEF n
          <6>2. i \in 1 .. n \/ i = n + 1 \/ i = n + 2
            BY ONLY <6>1
          <6> QED
            BY ONLY <6>2 DEF n
        <5> QED
          BY <3>1, <4>1, <5>1 DEF Adds
      <4>2. CASE \E j \in 1 .. Len(old) : j % 2 = 1 /\ Replaces(old, kids, j, NewValue)
        BY <3>1, <4>2 DEF Replaces
      <4> QED
        BY <1>3, <4>1, <4>2
    <3>3. 1 \in 1 .. Len(mem[Now.entry].kids) /\ 2 \in 1 .. Len(mem[Now.entry].kids)
      BY <1>1
    <3>4. p \in {NewKey, NewValue} => Holds(Now.entry, p)
      BY <2>4, <3>3 DEF Holds, NewKey, NewValue
    <3>5. (\E j \in 1 .. Len(old) : old[j] = p) => Holds(m, p)
      BY <2>4, <2>6 DEF Holds
    <3> QED
      BY <2>2, <2>3, <2>6, <3>2, <3>4, <3>5
  <2> QED
    BY <2>5, <2>6
<1>8. Live(Now.entry)
  BY <1>1, <1>4, <1>5 DEF Live, AsTheyAre
<1> SUFFICES ASSUME NEW m, NEW k, NEW p, Live(m)', Live(k)', Holds(m, p)', Holds(k, p)'
             PROVE  m = k
  BY DEF Unshared
<1>9. /\ Holds(m, p) \/ (m = Now.in /\ Holds(Now.entry, p))
      /\ Holds(k, p) \/ (k = Now.in /\ Holds(Now.entry, p))
  BY <1>7
<1>10. Live(m) /\ Live(k) /\ m # Now.entry /\ k # Now.entry
  BY <1>7
<1> QED
  BY <1>8, <1>9, <1>10 DEF Unshared

LEMMA NextUnshared ==
  ASSUME BaseInv, Unshared, [Next]_vars
  PROVE  Unshared'
<1>1. CASE CopyPlain
  BY <1>1, PlainUnshared
<1>2. CASE CopyNode
  BY <1>2, NodeUnshared
<1>3. CASE NextEntry
  BY <1>3, EntryUnshared
<1>4. ASSUME given' = given, mem' = mem, Waiting' \subseteq Waiting
      PROVE  Unshared'
  <2>1. ASSUME NEW q, Live(q)' PROVE Live(q)
    BY <1>4, <2>1 DEF Live, Copies
  <2>2. ASSUME NEW q, NEW p PROVE Holds(q, p)' <=> Holds(q, p)
    BY <1>4 DEF Holds, IsNode
  <2> QED
    BY <2>1, <2>2 DEF Unshared
<1>5. CASE RangeEnds
  <2>1. given' = given /\ mem' = mem /\ todo # <<>> /\ todo' = Tail(todo)
    BY <1>5 DEF RangeEnds, Does
  <2>2. Waiting' \subseteq Waiting
    BY <2>1, HeadFacts DEF BaseInv, TypeOK, Waiting
  <2> QED
    BY <1>4, <2>1, <2>2
<1>6. CASE SetEntry
  <2>1. CASE result' = result
    BY <1>6, <2>1, SetUnshared
  <2>2. CASE result' # result
    BY <1>4, <1>6, <2>2, PanicFacts, SetHead DEF Waiting
  <2> QED
    BY <2>1, <2>2
<1>7. CASE StackFills
  BY <1>4, <1>7 DEF StackFills, Waiting
<1>8. CASE Answer
  BY <1>4, <1>8 DEF Answer, Waiting
<1>9. CASE UNCHANGED vars
  BY <1>4, <1>9 DEF vars, Waiting
<1>10. CASE KeyIsLost
  BY <1>4, <1>10, LostHead DEF Waiting
<1> QED
  BY <1>1, <1>2, <1>3, <1>5, <1>6, <1>7, <1>8, <1>9, <1>10 DEF Next

-----------------------------------------------------------------------------
(* What is reached is the least set that holds where a node leads to and   *)
(* where its own members lead to.                                          *)

Closed(S) == \A m \in S : Edges(m) \subseteq S

Reaching(reach, n) ==
    reach = [k \in 0 .. Len(mem) |->
               IF k = 0 THEN Edges(n) ELSE reach[k - 1] \cup UNION {Edges(m) : m \in reach[k - 1]}]

LEMMA ReachingValue ==
  ASSUME NEW n, NEW g, Reaching(g, n)
  PROVE  \E f : Reaching(f, n) /\ Reached(n) = f[Len(mem)]
BY DEF Reached, Reaching

LEMMA EdgesType ==
  ASSUME TypeOK, NEW n
  PROVE  Edges(n) \in SUBSET (1 .. Len(mem))
BY LenProperties DEF TypeOK, Edges

LEMMA ReachingExists ==
  ASSUME TypeOK, NEW n
  PROVE  \E f \in [0 .. Len(mem) -> SUBSET (1 .. Len(mem))] : Reaching(f, n)
<1> DEFINE N == Len(mem)
           V == SUBSET (1 .. N)
           g == [p \in (1 .. N) \X V |-> p[2] \cup UNION {Edges(m) : m \in p[2]}]
<1>1. N \in Nat
  BY MemoryFacts
<1>2. Edges(n) \in V /\ \A m : Edges(m) \in V
  BY EdgesType
<1>3. g \in [(1 .. N) \X V -> V]
  BY <1>2
<1> HIDE DEF N
<1>4. PICK f \in [0 .. N -> V] : Follows(f, N, Edges(n), g)
  <2> HIDE DEF g, V
  <2> QED
    BY <1>1, <1>2, <1>3, Recursion
<1>5. ASSUME NEW k \in 0 .. N
      PROVE  f[k] = IF k = 0 THEN Edges(n) ELSE f[k - 1] \cup UNION {Edges(m) : m \in f[k - 1]}
  <2>1. CASE k = 0
    BY <1>4, <2>1 DEF Follows
  <2>2. CASE k # 0
    <3>1. k \in 1 .. N /\ k - 1 \in 0 .. N
      BY <1>1, <2>2
    <3>2. f[k] = g[<<k, f[k - 1]>>]
      <4> HIDE DEF g, V
      <4> QED
        BY <1>4, <3>1 DEF Follows
    <3>3. f[k - 1] \in V
      BY <3>1
    <3> QED
      BY <2>2, <3>1, <3>2, <3>3
  <2> QED
    BY <2>1, <2>2
<1>6. Reaching(f, n)
  BY <1>5 DEF Reaching, N
<1> QED
  BY <1>6 DEF N

LEMMA ReachedFacts ==
  ASSUME TypeOK, NEW n
  PROVE  /\ Reached(n) \subseteq 1 .. Len(mem)
         /\ Edges(n) \subseteq Reached(n)
         /\ Closed(Reached(n))
         /\ \A S : Edges(n) \subseteq S /\ Closed(S) => Reached(n) \subseteq S
<1> DEFINE N == Len(mem)
<1>1. PICK f : Reaching(f, n) /\ Reached(n) = f[N]
  BY ReachingExists, ReachingValue
<1>2. N \in Nat
  BY MemoryFacts
<1>3. \A m : Edges(m) \subseteq 1 .. N
  BY EdgesType
<1>4. f[0] = Edges(n)
  BY <1>1, <1>2 DEF Reaching
<1>5. ASSUME NEW k \in 0 .. N, k < N
      PROVE  f[k + 1] = f[k] \cup UNION {Edges(m) : m \in f[k]}
  <2>1. k + 1 \in 0 .. N /\ k + 1 # 0 /\ (k + 1) - 1 = k
    BY <1>2, <1>5
  <2>2. f[k + 1] = f[(k + 1) - 1] \cup UNION {Edges(m) : m \in f[(k + 1) - 1]}
    BY <1>1, <2>1 DEF Reaching
  <2> QED
    BY <2>1, <2>2
<1> HIDE DEF N
<1> DEFINE A == {k \in 0 .. N : Edges(n) \subseteq f[k] /\ f[k] \subseteq 1 .. N}
<1>6. 0 .. N \subseteq A
  <2>1. 0 <= N => 0 \in A
    BY <1>2, <1>3, <1>4
  <2>2. \A k \in 0 .. N : k \in A /\ k < N => k + 1 \in A
    BY <1>2, <1>3, <1>5
  <2> HIDE DEF A
  <2> QED
    BY <1>2, <2>1, <2>2, InductionUpTo
<1>7. ASSUME NEW S, Edges(n) \subseteq S, Closed(S)
      PROVE  f[N] \subseteq S
  <2> DEFINE B == {k \in 0 .. N : f[k] \subseteq S}
  <2>1. 0 <= N => 0 \in B
    BY <1>2, <1>4, <1>7
  <2>2. \A k \in 0 .. N : k \in B /\ k < N => k + 1 \in B
    BY <1>2, <1>5, <1>7 DEF Closed
  <2>3. 0 .. N \subseteq B
    <3> HIDE DEF B
    <3> QED
      BY <1>2, <2>1, <2>2, InductionUpTo
  <2> QED
    BY <1>2, <2>3
<1>8. Closed(f[N])
  <2> DEFINE C == {k \in 0 .. N : Closed(f[k]) \/ Cardinality(f[k]) >= k}
  <2>1. IsFiniteSet(1 .. N) /\ Cardinality(1 .. N) = N
    BY <1>2, FS_Interval
  <2>2. \A k \in 0 .. N : IsFiniteSet(f[k]) /\ f[k] \subseteq 1 .. N /\ Cardinality(f[k]) \in Nat
    BY <1>6, <2>1, FS_Subset, FS_CardinalityType
  <2>3. 0 <= N => 0 \in C
    BY <1>2, <2>2
  <2>4. ASSUME NEW k \in 0 .. N, k \in C, k < N
        PROVE  k + 1 \in C
    <3>1. k + 1 \in 0 .. N
      BY <1>2, <2>4
    <3>2. CASE Closed(f[k])
      <4>1. f[k + 1] = f[k]
        BY <1>5, <2>4, <3>2 DEF Closed
      <4> QED
        BY <3>1, <3>2, <4>1
    <3>3. CASE ~Closed(f[k])
      <4>1. f[k] \subseteq f[k + 1] /\ f[k] # f[k + 1]
        BY <1>5, <2>4, <3>3 DEF Closed
      <4>2. Cardinality(f[k]) < Cardinality(f[k + 1])
        BY <2>2, <3>1, <4>1, FS_Subset
      <4>3. Cardinality(f[k]) >= k
        BY <2>4, <3>3
      <4> QED
        BY <2>2, <3>1, <4>2, <4>3
    <3> QED
      BY <3>2, <3>3
  <2>5. 0 .. N \subseteq C
    <3> HIDE DEF C
    <3> QED
      BY <1>2, <2>3, <2>4, InductionUpTo
  <2>6. N \in 0 .. N
    BY <1>2
  <2>7. CASE Cardinality(f[N]) >= N
    <3>1. f[N] = 1 .. N
      BY <1>2, <2>1, <2>2, <2>6, <2>7, FS_Subset
    <3> QED
      BY <1>3, <3>1 DEF Closed
  <2> QED
    BY <2>5, <2>6, <2>7
<1>9. Edges(n) \subseteq f[N] /\ f[N] \subseteq 1 .. N
  BY <1>2, <1>6
<1> QED
  BY <1>1, <1>7, <1>8, <1>9 DEF N

-----------------------------------------------------------------------------
(* What the answer shares.                                                 *)

OwnInv == BaseInv /\ Unshared /\ (result = "done" => todo = <<>>)

LEMMA GivenStays ==
  ASSUME TypeOK
  PROVE  SubSeq(mem, 1, Len(given)) = given
<1> DEFINE N == Len(given)
           s == SubSeq(mem, 1, N)
<1>1. given \in Seq(Nodes) /\ mem \in Seq(Nodes) /\ N \in Nat \ {0} /\ Len(mem) \in Nat /\ N <= Len(mem)
  BY MemoryFacts, HeapAssumption DEF TypeOK
<1>2. s \in Seq(Nodes) /\ Len(s) = N /\ \A i \in 1 .. N : s[i] = mem[i]
  <2> HIDE DEF N
  <2>1. 1 \in 1 .. Len(mem) + 1 /\ N \in 1 - 1 .. Len(mem)
    BY <1>1
  <2>2. /\ SubSeq(mem, 1, N) \in Seq(Nodes)
        /\ Len(SubSeq(mem, 1, N)) = IF 1 <= N THEN N - 1 + 1 ELSE 0
        /\ \A i \in 1 .. N - 1 + 1 : SubSeq(mem, 1, N)[i] = mem[1 + i - 1]
    BY <1>1, <2>1, SubSeqProperties
  <2> QED
    BY <1>1, <2>2
<1>3. \A i \in 1 .. N : s[i] = given[i]
  BY <1>2 DEF TypeOK, Given
<1> HIDE DEF s
<1>4. s = given
  BY <1>1, <1>2, <1>3, SeqEqual
<1> QED
  BY <1>4 DEF s

\* The copy leads to copies, but to no entry.
LEMMA LeadsToCopies ==
  ASSUME BaseInv, NEW n \in Copies, mem[n].kind # "entry"
  PROVE  Reached(n) \subseteq {q \in Copies : mem[q].kind # "entry"}
<1> DEFINE S == {q \in Copies : mem[q].kind # "entry"}
<1>1. ASSUME NEW m \in S
      PROVE  Edges(m) \subseteq S
  <2>1. CASE mem[m].kind \in AsTheyAre
    BY <2>1 DEF Edges
  <2>2. CASE mem[m].kind \notin AsTheyAre
    <3> SUFFICES ASSUME NEW p \in Edges(m) PROVE p \in S
      OBVIOUS
    <3>1. mem[m] \in Nodes /\ mem \in Seq(Nodes)
      BY MemoryFacts DEF BaseInv, TypeOK, Copies
    <3>2. PICK i \in 1 .. Len(mem[m].kids) : p = mem[m].kids[i] /\ p \in 1 .. Len(mem)
      BY <2>2, <3>1, NodesFacts, LenProperties DEF Edges
    <3>3. PlaceFits(m, p)
      BY <2>2, <3>2 DEF BaseInv, CopiesFit, CopyFits, PlacesFit
    <3> QED
      BY <3>2, <3>3, MemoryFacts DEF PlaceFits, IsNode, BaseInv
  <2> QED
    BY <2>1, <2>2
<1>2. Edges(n) \subseteq S
  BY <1>1
<1>3. Closed(S)
  BY <1>1 DEF Closed
<1> HIDE DEF S
<1>4. Reached(n) \subseteq S
  BY <1>2, <1>3, ReachedFacts DEF BaseInv
<1> QED
  BY <1>4 DEF S

LEMMA OwnInvIsOwn ==
  ASSUME OwnInv
  PROVE  CopyIsOwn
<1>1. SubSeq(mem, 1, Len(given)) = given
  BY GivenStays DEF OwnInv, BaseInv
<1> SUFFICES ASSUME result = "done", given[1].kind # "zero"
             PROVE  LET own == {Copied} \cup Reached(Copied)
                    IN  /\ own \cap 1 .. Len(given) = {}
                        /\ \A n \in own : \A m, k \in {o \in own : mem[o].kind \notin AsTheyAre} :
                              n \in Inside(mem[m]) /\ n \in Inside(mem[k]) => m = k
  BY <1>1 DEF CopyIsOwn
<1> DEFINE own == {Copied} \cup Reached(Copied)
<1>2. Len(given) \in Nat /\ Len(mem) \in Nat /\ Len(given) <= Len(mem)
  BY MemoryFacts DEF OwnInv, BaseInv
<1>3. Copied \in Copies /\ mem[Copied].kind # "entry"
  <2>1. todo = <<>> /\ <<>> # <<Call(1, 0, 0, 1)>>
    BY DEF OwnInv
  <2>2. Len(mem) # Len(given)
    BY <2>1 DEF OwnInv, BaseInv, Started
  <2> QED
    BY <1>2, <2>2 DEF OwnInv, BaseInv, Started, Copied, Copies
<1>4. own \subseteq {q \in Copies : mem[q].kind # "entry"}
  BY <1>3, LeadsToCopies DEF OwnInv
<1> HIDE DEF own
<1>5. own \cap 1 .. Len(given) = {}
  BY <1>2, <1>4 DEF Copies
<1>6. ASSUME NEW m \in own, mem[m].kind \notin AsTheyAre, NEW n, n \in Inside(mem[m])
      PROVE  Live(m) /\ Holds(m, n)
  <2>1. m \in Copies /\ mem[m].kind # "entry"
    BY <1>4
  <2>2. mem[m] \in Nodes
    BY <2>1, MemoryFacts DEF OwnInv, BaseInv, Copies
  <2>3. n \in ToSet(mem[m].kids) /\ IsNode(n)
    BY <1>6 DEF Inside
  <2>4. \E i \in 1 .. Len(mem[m].kids) : mem[m].kids[i] = n
    BY <2>2, <2>3, NodesFacts DEF ToSet
  <2> QED
    BY <1>6, <2>1, <2>3, <2>4 DEF Live, Holds
<1>7. \A n \in own : \A m, k \in {o \in own : mem[o].kind \notin AsTheyAre} :
         n \in Inside(mem[m]) /\ n \in Inside(mem[k]) => m = k
  BY <1>6 DEF OwnInv, Unshared
<1> QED
  BY <1>5, <1>7 DEF own

LEMMA OwnInvHolds ==
  Spec => []OwnInv
<1>1. Init => OwnInv
  BY InitBase, InitUnshared DEF OwnInv, Init
<1>2. OwnInv /\ [Next]_vars => OwnInv'
  <2> SUFFICES ASSUME OwnInv, [Next]_vars PROVE OwnInv'
    OBVIOUS
  <2>1. BaseInv' /\ Unshared'
    BY NextBase, NextUnshared DEF OwnInv
  <2>2. result' = "done" => todo' = <<>>
    <3>1. CASE Answer
      BY <3>1 DEF Answer
    <3>2. CASE UNCHANGED vars
      BY <3>2 DEF vars, OwnInv
    <3>3. CASE SetEntry
      <4>1. result = "copying" /\ "copying" # "done" /\ "panicked" # "done"
        BY <3>3 DEF SetEntry, Does
      <4> QED
        BY <3>3, <4>1 DEF SetEntry
    <3>4. CASE CopyPlain \/ CopyNode \/ NextEntry \/ RangeEnds \/ StackFills
      BY <3>4 DEF CopyPlain, CopyNode, NextEntry, RangeEnds, StackFills, Does
    <3>5. CASE KeyIsLost
      BY <3>5 DEF KeyIsLost
    <3> QED
      BY <3>1, <3>2, <3>3, <3>4, <3>5 DEF Next
  <2> QED
    BY <2>1, <2>2 DEF OwnInv
<1> QED
  BY <1>1, <1>2, PTL DEF Spec

\* What has been given stays as it is, and what Copy answers shares nothing with it, and
\* holds nothing twice (src/kit/deepcopy.go:61, 99, 108), whatever the value is.  An
\* entry holds its key and its value only as long as its map does not.
THEOREM OwnCorrect == Spec => []CopyIsOwn
<1>1. OwnInv => CopyIsOwn
  BY OwnInvIsOwn
<1> QED
  BY <1>1, OwnInvHolds, PTL

-----------------------------------------------------------------------------
(* The nodes that the given ones lead to.                                  *)

\* What is followed from a given node, and the least set that goes on with it.
Onward(n) ==
    IF given[n].kind \in AsTheyAre THEN {}
    ELSE {given[n].kids[i] : i \in DOMAIN given[n].kids \ given[n].hidden} \cap Given

ClosedDown(S) == \A m \in S : Onward(m) \subseteq S

Down(n) == {p \in Given : \A S \in SUBSET Given : Onward(n) \subseteq S /\ ClosedDown(S) => p \in S}

Top == {1} \cup Down(1)

\* A key that a map cannot be copied with.
BadKey(key) == key = NilIface \/ Lost(key)

HasBadKey(n) == given[n].kind = "map" /\ \E e \in Entries(given[n]) : BadKey(e[1])

Endless == \E n \in Top : n \in Down(n)
SomeBadKey  == \E n \in Top : HasBadKey(n)

\* Nothing from n on leads back to itself or has a bad key.
Good(n) == \A m \in {n} \cup Down(n) : m \notin Down(m) /\ ~HasBadKey(m)

\* Node n is d - 1 steps from the first one, unless there is no end to the steps.
Below(n, d) ==
    /\ n \in Top
    /\ Endless \/ \E A \in SUBSET Given : Cardinality(A) = d - 1 /\ \A a \in A : a \in Top /\ n \in Down(a)

-----------------------------------------------------------------------------
(* What the copies are copies of: org[q] is the node that q is a copy of,  *)
(* hold[x] the key and the value that entry x is for.                      *)

Cut(node) == [node EXCEPT !.kids = [i \in DOMAIN node.kids |-> IF i \in node.hidden THEN Zero ELSE node.kids[i]]]

CallsInto(q) == {c \in Waiting \cap Calls : c.in = q}

\* A struct whose fields are all plain, with all that is to be copied of p.
Twin(p, k) ==
    /\ k \in Copies /\ CallsInto(k) = {} /\ mem[k] = Cut(given[p])
    /\ given[p].kind = "struct" /\ Inside(given[p]) = {}

\* Place k is the copy of place p.
Stands(org, p, k) ==
    IF IsNode(p) THEN k \in Copies /\ mem[k].kind # "entry" /\ (org[k] = p \/ Twin(p, k)) ELSE k = p

KeyStands(org, p, k) ==
    IF IsNode(p) /\ given[p].kind = "struct" THEN Twin(p, k) ELSE Stands(org, p, k)

\* Place i of q is the copy of p, or will be.
Settled(org, p, q, i) == Stands(org, p, mem[q].kids[i]) \/ \E c \in CallsInto(q) : c.at = i

FieldsTraced(org, q) ==
    LET node == given[org[q]]
    IN  /\ Len(mem[q].kids) = Len(node.kids)
        /\ \A i \in 1 .. Len(node.kids) :
              IF i \in node.hidden THEN mem[q].kids[i] = Zero ELSE Settled(org, node.kids[i], q, i)

KeyOf(p) ==
    IF IsNode(p) /\ given[p].kind = "struct" THEN Cut(given[p])
    ELSE [kind |-> "itself", kids |-> <<p>>, hidden |-> {}]

KeyPlaces(q) == {j \in 1 .. Len(mem[q].kids) : j % 2 = 1}

\* The entries of q are those of D, but for keys that have become one.
MapTraced(org, q, D) ==
    /\ \A j \in KeyPlaces(q) : \E e \in D : KeyStands(org, e[1], mem[q].kids[j])
                                              /\ Stands(org, e[2], mem[q].kids[j + 1])
    /\ \A e \in D : \E j \in KeyPlaces(q) : KeyStands(org, e[1], mem[q].kids[j])
    /\ Len(mem[q].kids) = 2 * Cardinality({KeyOf(e[1]) : e \in D})

\* The entries that map q has not got yet.
Open(hold, q) ==
    {e \in Int \X Int : \/ \E r \in Waiting \cap Ranges : r.in = q /\ e \in r.over
                        \/ \E s \in Waiting \cap Sets : s.in = q /\ e = hold[s.entry]}

CopyTraced(org, hold, q) ==
    /\ org[q] \in Top /\ mem[q].kind = given[org[q]].kind /\ mem[q].hidden = given[org[q]].hidden
    /\ mem[q].kind \in AsTheyAre => mem[q].kids = given[org[q]].kids
    /\ mem[q].kind = "map" => MapTraced(org, q, Entries(given[org[q]]) \ Open(hold, q))
    /\ mem[q].kind \notin AsTheyAre \cup {"map"} => FieldsTraced(org, q)

CallTraced(org, hold, c) ==
    /\ IsNode(c.from) => Below(c.from, c.depth)
    /\ c.in = 0 => c.from = 1
    /\ c.in # 0 => IF mem[c.in].kind = "entry" THEN c.from = hold[c.in][c.at]
                   ELSE c.from = given[org[c.in]].kids[c.at] /\ c.at \notin given[org[c.in]].hidden

RangeTraced(org, r) ==
    /\ r.over \subseteq Entries(given[org[r.in]])
    /\ Below(org[r.in], r.depth - 1)

SetTraced(org, hold, s) ==
    /\ hold[s.entry] \in Entries(given[org[s.in]])
    /\ \A i \in 1 .. 2 : Settled(org, hold[s.entry][i], s.entry, i)
    /\ hold[s.entry][1] # NaN
    /\ \A r \in Waiting \cap Ranges : r.in = s.in => hold[s.entry] \notin r.over
    /\ \A t \in Waiting \cap Sets : t.in = s.in => t = s

\* If all that waits is good, so is the whole value.
GoodPlace(p) == IsNode(p) => Good(p)

AllGood(hold) ==
    /\ \A c \in Waiting \cap Calls : GoodPlace(c.from)
    /\ \A r \in Waiting \cap Ranges : \A e \in r.over : ~BadKey(e[1]) /\ GoodPlace(e[1]) /\ GoodPlace(e[2])
    /\ \A s \in Waiting \cap Sets : hold[s.entry][1] # NilIface

Traced(org, hold) ==
    /\ org \in [Nat -> Int] /\ hold \in [Nat -> Int \X Int]
    /\ \A q \in Copies : mem[q].kind # "entry" => CopyTraced(org, hold, q)
    /\ \A c \in Waiting \cap Calls  : CallTraced(org, hold, c)
    /\ \A r \in Waiting \cap Ranges : RangeTraced(org, r)
    /\ \A s \in Waiting \cap Sets   : SetTraced(org, hold, s)
    /\ Len(mem) > Len(given) => org[Copied] = 1
    /\ AllGood(hold) => Good(1)

CopyInv ==
    /\ OwnInv
    /\ \E org, hold : Traced(org, hold)
    /\ result = "overflowed" => Endless
    /\ result = "panicked" => SomeBadKey

-----------------------------------------------------------------------------
(* Where the given nodes lead to.                                          *)

LEMMA DownFacts ==
  ASSUME NEW n
  PROVE  /\ Onward(n) \subseteq Given /\ Down(n) \subseteq Given
         /\ Onward(n) \subseteq Down(n) /\ ClosedDown(Down(n))
         /\ \A S \in SUBSET Given : Onward(n) \subseteq S /\ ClosedDown(S) => Down(n) \subseteq S
         /\ \A p \in Down(n) : Down(p) \subseteq Down(n)
<1>1. \A m : Onward(m) \subseteq Given
  BY DEF Onward
<1>2. Down(n) \subseteq Given
  BY DEF Down
<1>3. Onward(n) \subseteq Down(n)
  BY <1>1 DEF Down
<1>4. \A S \in SUBSET Given : Onward(n) \subseteq S /\ ClosedDown(S) => Down(n) \subseteq S
  BY DEF Down
<1>5. ClosedDown(Down(n))
  <2> SUFFICES ASSUME NEW m \in Down(n), NEW p \in Onward(m) PROVE p \in Down(n)
    BY DEF ClosedDown
  <2> SUFFICES ASSUME NEW S \in SUBSET Given, Onward(n) \subseteq S, ClosedDown(S) PROVE p \in S
    BY <1>1 DEF Down
  <2> QED
    BY DEF Down, ClosedDown
<1>6. ASSUME NEW p \in Down(n)
      PROVE  Down(p) \subseteq Down(n)
  <2>1. Onward(p) \subseteq Down(n)
    BY <1>5 DEF ClosedDown
  <2> QED
    BY <1>2, <1>5, <2>1 DEF Down
<1> QED
  BY <1>1, <1>2, <1>3, <1>4, <1>5, <1>6

\* The first of the steps.
LEMMA DownFirst ==
  ASSUME NEW n, NEW p \in Down(n)
  PROVE  p \in Onward(n) \/ \E m \in Onward(n) : p \in Down(m)
<1> DEFINE S == Onward(n) \cup UNION {Down(m) : m \in Onward(n)}
<1>1. S \in SUBSET Given
  BY DownFacts
<1>2. ASSUME NEW m \in S
      PROVE  Onward(m) \subseteq S
  <2>1. CASE m \in Onward(n)
    BY <2>1, DownFacts
  <2>2. CASE \E k \in Onward(n) : m \in Down(k)
    BY <2>2, DownFacts DEF ClosedDown
  <2> QED
    BY <2>1, <2>2
<1>3. Onward(n) \subseteq S /\ ClosedDown(S)
  BY <1>2 DEF ClosedDown
<1> HIDE DEF S
<1>4. Down(n) \subseteq S
  BY <1>1, <1>3, DownFacts
<1> QED
  BY <1>4 DEF S

LEMMA GoodAbove ==
  ASSUME NEW n, ~HasBadKey(n), \A m \in Onward(n) : Good(m)
  PROVE  Good(n)
<1>1. ASSUME NEW p \in Down(n)
      PROVE  p \notin Down(p) /\ ~HasBadKey(p)
  BY <1>1, DownFirst DEF Good
<1>2. n \notin Down(n)
  <2> SUFFICES ASSUME n \in Down(n) PROVE FALSE
    OBVIOUS
  <2> QED
    BY <1>1
<1> QED
  BY <1>1, <1>2 DEF Good

LEMMA GoodIsGood ==
  ASSUME Good(1)
  PROVE  ~Endless /\ ~SomeBadKey
BY DEF Good, Endless, SomeBadKey, Top

LEMMA TopFacts ==
  ASSUME TypeOK
  PROVE  /\ Top \subseteq Given
         /\ \A n \in Top : Onward(n) \subseteq Top
<1>1. Top \subseteq Given
  BY MemoryFacts, DownFacts DEF Top
<1>2. \A n \in Top : Onward(n) \subseteq Top
  BY DownFacts DEF Top, ClosedDown
<1> QED
  BY <1>1, <1>2

LEMMA BelowFirst ==
  ASSUME TypeOK
  PROVE  Below(1, 1)
<1>1. Cardinality({}) = 1 - 1
  BY FS_EmptySet
<1>2. {} \in SUBSET Given
  OBVIOUS
<1> QED
  BY <1>1, <1>2 DEF Below, Top

LEMMA BelowNext ==
  ASSUME TypeOK, NEW d \in Int, NEW n, Below(n, d), NEW p \in Onward(n)
  PROVE  Below(p, d + 1)
<1>1. n \in Top /\ p \in Top /\ n \in Given
  BY TopFacts DEF Below
<1> SUFFICES ASSUME ~Endless
             PROVE  \E A \in SUBSET Given : Cardinality(A) = (d + 1) - 1 /\ \A a \in A : a \in Top /\ p \in Down(a)
  BY <1>1 DEF Below
<1>2. PICK A \in SUBSET Given : Cardinality(A) = d - 1 /\ \A a \in A : a \in Top /\ n \in Down(a)
  BY DEF Below
<1>3. n \notin Down(n)
  BY <1>1 DEF Endless
<1>4. n \notin A
  BY <1>2, <1>3
<1>5. IsFiniteSet(A)
  <2>1. IsFiniteSet(Given)
    BY FS_Interval, MemoryFacts DEF Given
  <2> QED
    BY <2>1, FS_Subset
<1>6. Cardinality(A \cup {n}) = (d + 1) - 1
  BY <1>2, <1>4, <1>5, FS_AddElement
<1>7. \A a \in A \cup {n} : a \in Top /\ p \in Down(a)
  BY <1>1, <1>2, DownFacts DEF ClosedDown
<1> QED
  BY <1>1, <1>6, <1>7

\* There are no more steps than nodes.
LEMMA BelowBound ==
  ASSUME TypeOK, NEW d \in Nat, NEW n, Below(n, d), d > MaxDepth
  PROVE  Endless
<1> SUFFICES ASSUME ~Endless PROVE FALSE
  OBVIOUS
<1>1. n \in Top /\ n \in Given
  BY TopFacts DEF Below
<1>2. PICK A \in SUBSET Given : Cardinality(A) = d - 1 /\ \A a \in A : a \in Top /\ n \in Down(a)
  BY DEF Below
<1>3. Len(given) \in Nat /\ MaxDepth \in Nat /\ MaxDepth > Len(given)
  BY MemoryFacts, DepthAssumption DEF TypeOK
<1>4. IsFiniteSet(Given) /\ Cardinality(Given) = Len(given)
  <2> DEFINE N == Len(given)
  <2>1. N \in Nat /\ 1 \in Int
    BY <1>3
  <2> HIDE DEF N
  <2>2. IsFiniteSet(1 .. N) /\ Cardinality(1 .. N) = IF 1 > N THEN 0 ELSE N - 1 + 1
    BY <2>1, FS_Interval
  <2> QED
    BY <2>1, <2>2 DEF Given, N
<1>5. Cardinality(A) <= Len(given)
  BY <1>4, FS_Subset
<1> QED
  BY <1>2, <1>3, <1>5

\* What the properties say of the memory, it says of the given nodes.
LEMMA ReachedIsDown ==
  ASSUME TypeOK, NEW n \in Given
  PROVE  Reached(n) = Down(n)
<1>1. ASSUME NEW m \in Given
      PROVE  Edges(m) = Onward(m)
  <2>1. /\ mem[m] = given[m] /\ given[m] \in Nodes /\ Len(given) \in Nat /\ Len(mem) \in Nat
        /\ Len(given) <= Len(mem) /\ DOMAIN given[m].kids = 1 .. Len(given[m].kids)
        /\ \A i \in 1 .. Len(given[m].kids) : given[m].kids[i] \in Int /\ given[m].kids[i] <= Len(given)
        /\ DOMAIN mem = 1 .. Len(mem)
    BY MemoryFacts, NodesFacts, LenProperties DEF TypeOK
  <2>2. \A i \in 1 .. Len(given[m].kids) : given[m].kids[i] \in 1 .. Len(mem) <=> given[m].kids[i] \in Given
    BY <2>1 DEF Given
  <2> QED
    BY <2>1, <2>2 DEF Edges, Onward
<1>2. Down(n) \subseteq Given /\ Onward(n) \subseteq Down(n) /\ ClosedDown(Down(n))
  BY DownFacts
<1>3. Reached(n) \subseteq Down(n)
  <2>1. Edges(n) \subseteq Down(n) /\ Closed(Down(n))
    BY <1>1, <1>2 DEF Closed, ClosedDown
  <2> QED
    BY <2>1, ReachedFacts
<1>4. Down(n) \subseteq Reached(n)
  <2> DEFINE S == Reached(n)
  <2>1. S \subseteq Down(n) /\ S \in SUBSET Given
    BY <1>2, <1>3
  <2>2. Onward(n) \subseteq S /\ Closed(S)
    BY <1>1, ReachedFacts
  <2> HIDE DEF S
  <2>3. ClosedDown(S)
    BY <1>1, <2>1, <2>2 DEF Closed, ClosedDown
  <2>4. Down(n) \subseteq S
    BY <2>1, <2>2, <2>3, DownFacts
  <2> QED
    BY <2>4 DEF S
<1> QED
  BY <1>3, <1>4

-----------------------------------------------------------------------------
(* The entries of the maps.                                                *)

LEMMA OddPlaces ==
  ASSUME NEW n \in Nat, n % 2 = 0
  PROVE  /\ \A j \in 1 .. n : j % 2 = 1 => j + 1 \in 1 .. n /\ \E i \in 1 .. n \div 2 : j = 2 * i - 1 /\ j + 1 = 2 * i
         /\ \A i \in 1 .. n \div 2 : 2 * i - 1 \in 1 .. n /\ (2 * i - 1) % 2 = 1 /\ (2 * i - 1) + 1 = 2 * i
<1>1. ASSUME NEW j \in 1 .. n, j % 2 = 1
      PROVE  j + 1 \in 1 .. n /\ \E i \in 1 .. n \div 2 : j = 2 * i - 1 /\ j + 1 = 2 * i
  <2>1. j + 1 \in 1 .. n
    BY <1>1
  <2> DEFINE i == (j + 1) \div 2
  <2>2. i \in 1 .. n \div 2 /\ j = 2 * i - 1
    BY <1>1, <2>1
  <2> QED
    BY <2>1, <2>2
<1>2. ASSUME NEW i \in 1 .. n \div 2
      PROVE  2 * i - 1 \in 1 .. n /\ (2 * i - 1) % 2 = 1 /\ (2 * i - 1) + 1 = 2 * i
  BY <1>2
<1> QED
  BY <1>1, <1>2

LEMMA EntriesFacts ==
  ASSUME NEW node \in Nodes, Len(node.kids) % 2 = 0
  PROVE  /\ \A j \in 1 .. Len(node.kids) : j % 2 = 1 =>
               /\ j + 1 \in 1 .. Len(node.kids)
               /\ <<node.kids[j], node.kids[j + 1]>> \in Entries(node)
         /\ \A e \in Entries(node) : \E j \in 1 .. Len(node.kids) :
               j % 2 = 1 /\ j + 1 \in 1 .. Len(node.kids) /\ e = <<node.kids[j], node.kids[j + 1]>>
<1>1. Len(node.kids) \in Nat
  BY NodesFacts
<1> DEFINE n == Len(node.kids)
<1> HIDE DEF n
<1>2. /\ \A j \in 1 .. n : j % 2 = 1 => j + 1 \in 1 .. n /\ \E i \in 1 .. n \div 2 : j = 2 * i - 1 /\ j + 1 = 2 * i
      /\ \A i \in 1 .. n \div 2 : 2 * i - 1 \in 1 .. n /\ (2 * i - 1) % 2 = 1 /\ (2 * i - 1) + 1 = 2 * i
  BY <1>1, OddPlaces DEF n
<1>3. ASSUME NEW j \in 1 .. n, j % 2 = 1
      PROVE  j + 1 \in 1 .. n /\ <<node.kids[j], node.kids[j + 1]>> \in Entries(node)
  <2>1. PICK i \in 1 .. n \div 2 : j = 2 * i - 1 /\ j + 1 = 2 * i
    BY <1>2, <1>3
  <2>2. <<node.kids[j], node.kids[j + 1]>> = <<node.kids[2 * i - 1], node.kids[2 * i]>>
    BY <2>1
  <2> QED
    BY <1>2, <1>3, <2>2 DEF Entries, n
<1>4. ASSUME NEW e \in Entries(node)
      PROVE  \E j \in 1 .. n : j % 2 = 1 /\ j + 1 \in 1 .. n /\ e = <<node.kids[j], node.kids[j + 1]>>
  <2>1. PICK i \in 1 .. n \div 2 : e = <<node.kids[2 * i - 1], node.kids[2 * i]>>
    BY DEF Entries, n
  <2> DEFINE j == 2 * i - 1
  <2>2. j \in 1 .. n /\ j % 2 = 1 /\ j + 1 = 2 * i
    BY <1>2
  <2>3. e = <<node.kids[j], node.kids[j + 1]>>
    BY <2>1, <2>2
  <2> HIDE DEF j
  <2> QED
    BY <1>2, <2>2, <2>3
<1> QED
  BY <1>3, <1>4 DEF n

\* A map of the caller.
LEMMA MapFacts ==
  ASSUME TypeOK, NEW n \in Given, given[n].kind = "map"
  PROVE  /\ \A e \in Entries(given[n]) :
               /\ e \in Int \X Int
               /\ e[1] <= Len(given) /\ e[2] <= Len(given)
               /\ IsNode(e[1]) => e[1] \in Onward(n)
               /\ IsNode(e[2]) => e[2] \in Onward(n)
               /\ IsNode(e[1]) /\ given[e[1]].kind = "struct" => Inside(given[e[1]]) = {}
         /\ \A e, f \in Entries(given[n]) : e[1] = f[1] /\ e[1] # NaN => e = f
         /\ \A p \in Onward(n) : \E e \in Entries(given[n]) : p \in {e[1], e[2]}
<1>1. /\ given[n] \in Nodes /\ Len(given[n].kids) \in Nat
      /\ DOMAIN given[n].kids = 1 .. Len(given[n].kids)
      /\ \A i \in 1 .. Len(given[n].kids) : given[n].kids[i] \in Int /\ given[n].kids[i] <= Len(given)
  BY MemoryFacts, NodesFacts
<1>2. given \in Heaps /\ n \in DOMAIN given /\ given \in Seq(Nodes) /\ Len(given) \in Nat
  BY HeapAssumption, LenProperties DEF TypeOK, Given
<1>3. /\ Len(given[n].kids) % 2 = 0
      /\ \A e, f \in Entries(given[n]) : e[1] = f[1] /\ e[1] # NaN => e = f
      /\ \A e \in Entries(given[n]) : IsNode(e[1]) /\ given[e[1]].kind = "struct" =>
            Inside(given[e[1]]) = {}
  BY <1>2, KeyAssumption
<1>4. given[n].hidden = {}
  BY <1>2, HeapAssumption
<1>5. ASSUME NEW i \in 1 .. Len(given[n].kids), IsNode(given[n].kids[i])
      PROVE  given[n].kids[i] \in Onward(n)
  <2>1. given[n].kids[i] \in Given
    BY <1>1, <1>2, <1>5 DEF Given, IsNode
  <2> QED
    BY <1>1, <1>4, <2>1 DEF Onward, AsTheyAre
<1>6. ASSUME NEW e \in Entries(given[n])
      PROVE  /\ e \in Int \X Int
             /\ e[1] <= Len(given) /\ e[2] <= Len(given)
             /\ IsNode(e[1]) => e[1] \in Onward(n)
             /\ IsNode(e[2]) => e[2] \in Onward(n)
  <2>1. PICK j \in 1 .. Len(given[n].kids) :
          j % 2 = 1 /\ j + 1 \in 1 .. Len(given[n].kids) /\ e = <<given[n].kids[j], given[n].kids[j + 1]>>
    BY <1>1, <1>3, EntriesFacts
  <2>2. e[1] = given[n].kids[j] /\ e[2] = given[n].kids[j + 1]
    BY <2>1
  <2> QED
    BY <1>1, <1>5, <2>1, <2>2
<1>7. ASSUME NEW p \in Onward(n)
      PROVE  \E e \in Entries(given[n]) : p \in {e[1], e[2]}
  <2>1. PICK i \in 1 .. Len(given[n].kids) : p = given[n].kids[i]
    BY <1>1 DEF Onward
  <2>2. CASE i % 2 = 1
    <3>1. <<given[n].kids[i], given[n].kids[i + 1]>> \in Entries(given[n])
      BY <1>1, <1>3, <2>2, EntriesFacts
    <3> QED
      BY <2>1, <3>1
  <2>3. CASE i % 2 # 1
    <3> DEFINE j == i - 1
    <3>1. j \in 1 .. Len(given[n].kids) /\ j % 2 = 1 /\ j + 1 = i
      BY <1>1, <2>3
    <3> HIDE DEF j
    <3>2. <<given[n].kids[j], given[n].kids[j + 1]>> \in Entries(given[n])
      BY <1>1, <1>3, <3>1, EntriesFacts
    <3> QED
      BY <2>1, <3>1, <3>2
  <2> QED
    BY <2>2, <2>3
<1> QED
  BY <1>3, <1>6, <1>7

-----------------------------------------------------------------------------
(* What has been copied goes on being a copy.                              *)

\* What a step leaves of the nodes: one of them has a place put, or is a map.
Touches(in, at, place) ==
    \A n \in 1 .. Len(mem) :
       /\ n # in => mem'[n] = mem[n]
       /\ mem'[n].kind = mem[n].kind /\ mem'[n].hidden = mem[n].hidden
       /\ mem[n].kind # "map" =>
             /\ Len(mem'[n].kids) = Len(mem[n].kids)
             /\ \A i \in 1 .. Len(mem[n].kids) :
                   mem'[n].kids[i] = IF n = in /\ i = at THEN place ELSE mem[n].kids[i]

\* A step that puts one place at most, for a call that waited, or sets an entry of a
\* map, and leaves the other calls or has new ones for a new node.
PutStep(org, org2, in, at, place) ==
    /\ given' = given /\ Len(mem) <= Len(mem') /\ Len(mem') \in Nat
    /\ Touches(in, at, place)
    /\ \A q \in Copies : org2[q] = org[q]
    /\ \A c \in Waiting \cap Calls : c \in Waiting' \/ (c.in = in /\ c.at = at)
    /\ \A c \in Waiting' \cap Calls : c \in Waiting \/ c.in \notin Copies
    /\ in \in Copies => mem[in].kind \notin AsTheyAre /\ (CallsInto(in) # {} \/ mem[in].kind = "map")

LEMMA PutsTouch ==
  ASSUME NEW in, NEW at, NEW place, Puts(mem, mem', in, at, place)
  PROVE  Touches(in, at, place)
BY DEF Puts, Touches

LEMMA TwinStays ==
  ASSUME BaseInv, NEW org, NEW org2, NEW in, NEW at, NEW place, PutStep(org, org2, in, at, place),
         NEW p, NEW k, Twin(p, k)
  PROVE  Twin(p, k)'
<1>1. /\ k \in Copies /\ CallsInto(k) = {} /\ mem[k] = Cut(given[p])
      /\ given[p].kind = "struct" /\ Inside(given[p]) = {}
  BY DEF Twin
<1>2. Len(given) \in Nat /\ Len(mem) \in Nat /\ given' = given
  BY MemoryFacts DEF BaseInv, PutStep
<1>3. k \in Copies' /\ k \in 1 .. Len(mem)
  BY <1>1, <1>2 DEF Copies, PutStep
<1>4. k # in
  <2>1. mem[k] \in Nodes
    BY <1>3, MemoryFacts DEF BaseInv
  <2>2. "kind" \in DOMAIN mem[k] /\ DOMAIN mem[k] = DOMAIN given[p]
    BY <1>1, <2>1 DEF Nodes, Cut
  <2>3. mem[k].kind = "struct"
    BY <1>1, <2>2 DEF Cut
  <2> QED
    BY <1>1, <2>3 DEF PutStep
<1>5. mem'[k] = mem[k]
  BY <1>3, <1>4 DEF PutStep, Touches
<1>6. CallsInto(k)' = {}
  BY <1>1 DEF PutStep, CallsInto
<1> QED
  BY <1>1, <1>2, <1>3, <1>5, <1>6 DEF Twin, Cut, Inside

LEMMA StandsStays ==
  ASSUME BaseInv, NEW org, NEW org2, NEW in, NEW at, NEW place, PutStep(org, org2, in, at, place),
         NEW p, NEW k, Stands(org, p, k)
  PROVE  Stands(org2, p, k)'
<1>1. CASE ~IsNode(p)
  BY <1>1 DEF Stands
<1>2. CASE IsNode(p)
  <2>1. k \in Copies /\ mem[k].kind # "entry" /\ (org[k] = p \/ Twin(p, k))
    BY <1>2 DEF Stands
  <2>2. k \in Copies' /\ k \in 1 .. Len(mem)
    BY <2>1, MemoryFacts DEF Copies, PutStep, BaseInv
  <2>3. mem'[k].kind # "entry"
    BY <2>1, <2>2 DEF PutStep, Touches
  <2>4. org2[k] = p \/ Twin(p, k)'
    BY <2>1, TwinStays DEF PutStep
  <2> QED
    BY <1>2, <2>2, <2>3, <2>4 DEF Stands
<1> QED
  BY <1>1, <1>2

LEMMA KeyStandsStays ==
  ASSUME BaseInv, NEW org, NEW org2, NEW in, NEW at, NEW place, PutStep(org, org2, in, at, place),
         NEW p, NEW k, KeyStands(org, p, k)
  PROVE  KeyStands(org2, p, k)'
<1>1. given' = given
  BY DEF PutStep
<1>2. CASE IsNode(p) /\ given[p].kind = "struct"
  <2>1. Twin(p, k)'
    BY <1>2, TwinStays DEF KeyStands
  <2> QED
    BY <1>1, <1>2, <2>1 DEF KeyStands
<1>3. CASE ~(IsNode(p) /\ given[p].kind = "struct")
  <2>1. Stands(org2, p, k)'
    BY <1>3, StandsStays DEF KeyStands
  <2> QED
    BY <1>1, <1>3, <2>1 DEF KeyStands
<1> QED
  BY <1>2, <1>3

LEMMA SettledStays ==
  ASSUME BaseInv, NEW org, NEW org2, NEW in, NEW at, NEW place, PutStep(org, org2, in, at, place),
         NEW q \in Copies, mem[q].kind # "map", NEW i \in 1 .. Len(mem[q].kids), NEW p, Settled(org, p, q, i),
         q = in /\ i = at => Stands(org2, p, place)'
  PROVE  Settled(org2, p, q, i)'
<1>1. q \in 1 .. Len(mem)
  BY MemoryFacts DEF Copies, BaseInv
<1>2. mem'[q].kids[i] = IF q = in /\ i = at THEN place ELSE mem[q].kids[i]
  BY <1>1 DEF PutStep, Touches
<1>3. CASE q = in /\ i = at
  BY <1>2, <1>3 DEF Settled
<1>4. CASE ~(q = in /\ i = at)
  <2>1. mem'[q].kids[i] = mem[q].kids[i]
    BY <1>2, <1>4
  <2>2. CASE Stands(org, p, mem[q].kids[i])
    <3>1. \A k : k = mem[q].kids[i] => Stands(org2, p, k)'
      BY <2>2, StandsStays
    <3> QED
      BY <2>1, <3>1 DEF Settled
  <2>3. CASE \E c \in CallsInto(q) : c.at = i
    <3>1. PICK c \in Waiting \cap Calls : c.in = q /\ c.at = i
      BY <2>3 DEF CallsInto
    <3>2. c \in Waiting'
      BY <1>4, <3>1 DEF PutStep
    <3> QED
      BY <3>1, <3>2 DEF Settled, CallsInto
  <2> QED
    BY <2>2, <2>3 DEF Settled
<1> QED
  BY <1>3, <1>4

LEMMA MapStays ==
  ASSUME BaseInv, NEW org, NEW org2, NEW in, NEW at, NEW place, PutStep(org, org2, in, at, place),
         NEW q \in Copies, q # in, NEW D, MapTraced(org, q, D),
         \A e \in D : KeyOf(e[1])' = KeyOf(e[1])
  PROVE  MapTraced(org2, q, D)'
<1>1. q \in 1 .. Len(mem)
  BY MemoryFacts DEF Copies, BaseInv, PutStep
<1>2. mem'[q] = mem[q]
  BY <1>1 DEF PutStep, Touches
<1>3. KeyPlaces(q)' = KeyPlaces(q)
  BY <1>2 DEF KeyPlaces
<1>4. \A j \in KeyPlaces(q) : \E e \in D : KeyStands(org2, e[1], mem[q].kids[j])'
                                           /\ Stands(org2, e[2], mem[q].kids[j + 1])'
  <2> SUFFICES ASSUME NEW j \in KeyPlaces(q)
               PROVE  \E e \in D : KeyStands(org2, e[1], mem[q].kids[j])'
                                   /\ Stands(org2, e[2], mem[q].kids[j + 1])'
    OBVIOUS
  <2>1. PICK e \in D : KeyStands(org, e[1], mem[q].kids[j]) /\ Stands(org, e[2], mem[q].kids[j + 1])
    BY DEF MapTraced
  <2>2. \A p, k : KeyStands(org, p, k) => KeyStands(org2, p, k)'
    BY KeyStandsStays
  <2>3. \A p, k : Stands(org, p, k) => Stands(org2, p, k)'
    BY StandsStays
  <2>4. PICK k, v : k = mem[q].kids[j] /\ v = mem[q].kids[j + 1]
    OBVIOUS
  <2>5. mem'[q].kids[j] = k /\ mem'[q].kids[j + 1] = v
    BY <1>2, <2>4
  <2>6. KeyStands(org2, e[1], k)' /\ Stands(org2, e[2], v)'
    BY <2>1, <2>2, <2>3, <2>4
  <2> QED
    BY <2>5, <2>6
<1>5. \A e \in D : \E j \in KeyPlaces(q) : KeyStands(org2, e[1], mem[q].kids[j])'
  <2> SUFFICES ASSUME NEW e \in D
               PROVE  \E j \in KeyPlaces(q) : KeyStands(org2, e[1], mem[q].kids[j])'
    OBVIOUS
  <2>1. PICK j \in KeyPlaces(q) : KeyStands(org, e[1], mem[q].kids[j])
    BY DEF MapTraced
  <2>2. PICK k : k = mem[q].kids[j]
    OBVIOUS
  <2>3. KeyStands(org2, e[1], k)'
    BY <2>1, <2>2, KeyStandsStays
  <2> QED
    BY <1>2, <2>2, <2>3
<1>6. {KeyOf(e[1])' : e \in D} = {KeyOf(e[1]) : e \in D}
  OBVIOUS
<1> QED
  BY <1>2, <1>3, <1>4, <1>5, <1>6 DEF MapTraced

LEMMA KeyOfStays ==
  ASSUME given' = given, NEW p
  PROVE  KeyOf(p)' = KeyOf(p)
BY DEF KeyOf, Cut

\* The node that a copy has been made of is none of those that wait.
LEMMA OrgFacts ==
  ASSUME BaseInv, NEW org, NEW hold, Traced(org, hold), NEW q \in Copies, mem[q].kind # "entry"
  PROVE  /\ CopyTraced(org, hold, q)
         /\ org[q] \in Top /\ org[q] \in Given /\ given[org[q]] \in Nodes
         /\ mem[q].kind = given[org[q]].kind /\ mem[q].hidden = given[org[q]].hidden
         /\ Len(given[org[q]].kids) \in Nat
         /\ \A i \in 1 .. Len(given[org[q]].kids) :
               given[org[q]].kids[i] \in Int /\ given[org[q]].kids[i] <= Len(given)
<1>1. CopyTraced(org, hold, q)
  BY DEF Traced
<1>2. org[q] \in Top /\ org[q] \in Given
  BY <1>1, TopFacts DEF CopyTraced, BaseInv
<1> QED
  BY <1>1, <1>2, MemoryFacts DEF CopyTraced, BaseInv

LEMMA CopyStays ==
  ASSUME BaseInv, NEW org, NEW hold, NEW org2, NEW hold2, Traced(org, hold),
         NEW in, NEW at, NEW place, PutStep(org, org2, in, at, place),
         NEW q \in Copies, mem[q].kind # "entry",
         mem[q].kind = "map" => q # in /\ Open(hold2, q)' = Open(hold, q),
         \A p : q = in /\ at \notin given[org[in]].hidden /\ p = given[org[in]].kids[at]
                => Stands(org2, p, place)',
         q = in => at \notin given[org[in]].hidden
  PROVE  CopyTraced(org2, hold2, q)'
<1> DEFINE node == given[org[q]]
<1>1. /\ CopyTraced(org, hold, q) /\ org[q] \in Top /\ org[q] \in Given /\ node \in Nodes
      /\ mem[q].kind = node.kind /\ mem[q].hidden = node.hidden
  BY OrgFacts
<1>2. given' = given /\ org2[q] = org[q] /\ q \in 1 .. Len(mem)
  BY MemoryFacts DEF PutStep, BaseInv, Copies
<1>3. /\ mem'[q].kind = mem[q].kind /\ mem'[q].hidden = mem[q].hidden
      /\ q # in => mem'[q] = mem[q]
      /\ mem[q].kind # "map" =>
            /\ Len(mem'[q].kids) = Len(mem[q].kids)
            /\ \A i \in 1 .. Len(mem[q].kids) :
                  mem'[q].kids[i] = IF q = in /\ i = at THEN place ELSE mem[q].kids[i]
  BY <1>2 DEF PutStep, Touches
<1>4. Top' = Top
  BY <1>2 DEF Top, Down, Onward, ClosedDown, Given
<1>5. mem[q].kind \in AsTheyAre => mem'[q].kids = given'[org2[q]].kids
  BY <1>1, <1>2, <1>3 DEF PutStep, CopyTraced
<1>6. ASSUME mem[q].kind = "map"
      PROVE  MapTraced(org2, q, Entries(given[org2[q]]) \ Open(hold2, q))'
  <2> PICK D : D = Entries(node) \ Open(hold, q)
    OBVIOUS
  <2>1. MapTraced(org, q, D)
    BY <1>1, <1>6 DEF CopyTraced
  <2>2. \A e \in D : KeyOf(e[1])' = KeyOf(e[1])
    BY <1>2, KeyOfStays
  <2>3. MapTraced(org2, q, D)'
    BY <1>6, <2>1, <2>2, MapStays
  <2>4. (Entries(given[org2[q]]) \ Open(hold2, q))' = D
    BY <1>2, <1>6 DEF Entries
  <2> QED
    BY <2>3, <2>4
<1>7. ASSUME mem[q].kind \notin AsTheyAre \cup {"map"}
      PROVE  FieldsTraced(org2, q)'
  <2>1. /\ Len(mem[q].kids) = Len(node.kids)
        /\ \A i \in 1 .. Len(node.kids) :
              IF i \in node.hidden THEN mem[q].kids[i] = Zero ELSE Settled(org, node.kids[i], q, i)
    BY <1>1, <1>7 DEF CopyTraced, FieldsTraced
  <2>2. ASSUME NEW i \in 1 .. Len(node.kids), i \in node.hidden
        PROVE  mem'[q].kids[i] = Zero
    <3>1. ~(q = in /\ i = at)
      BY <2>2
    <3> QED
      BY <1>3, <2>1, <2>2, <3>1
  <2>3. ASSUME NEW i \in 1 .. Len(node.kids), i \notin node.hidden
        PROVE  Settled(org2, node.kids[i], q, i)'
    <3>1. PICK p : p = node.kids[i]
      OBVIOUS
    <3>2. Settled(org, p, q, i) /\ i \in 1 .. Len(mem[q].kids)
      BY <2>1, <2>3, <3>1
    <3>3. q = in /\ i = at => Stands(org2, p, place)'
      BY <2>3, <3>1
    <3>4. Settled(org2, p, q, i)'
      BY <1>7, <3>2, <3>3, SettledStays
    <3>5. given'[org[q]].kids[i] = p
      BY <1>2, <3>1
    <3> QED
      BY <3>4, <3>5
  <2> QED
    BY <1>2, <1>3, <2>1, <2>2, <2>3 DEF FieldsTraced
<1> QED
  BY <1>1, <1>2, <1>3, <1>4, <1>5, <1>6, <1>7 DEF CopyTraced

-----------------------------------------------------------------------------
(* What waits goes on being for what it was for.                           *)

LEMMA SameGiven ==
  ASSUME given' = given
  PROVE  /\ Top' = Top /\ Endless' = Endless /\ SomeBadKey' = SomeBadKey
         /\ \A p : Good(p)' = Good(p) /\ GoodPlace(p)' = GoodPlace(p) /\ BadKey(p)' = BadKey(p)
         /\ \A n, d : Below(n, d)' = Below(n, d)
<1>1. \A n : Onward(n)' = Onward(n) /\ HasBadKey(n)' = HasBadKey(n)
  BY DEF Onward, HasBadKey, BadKey, Lost, Given, Entries
<1>2. \A n : Down(n)' = Down(n)
  BY DEF Down, Onward, ClosedDown, Given
<1>3. Top' = Top
  BY <1>2 DEF Top
<1>4. Endless' = Endless /\ SomeBadKey' = SomeBadKey
  BY <1>1, <1>2, <1>3 DEF Endless, SomeBadKey
<1>5. \A p : Good(p)' = Good(p)
  BY <1>1, <1>2 DEF Good
<1>6. \A p : GoodPlace(p)' = GoodPlace(p) /\ BadKey(p)' = BadKey(p)
  BY <1>5 DEF GoodPlace, BadKey, Lost
<1>7. \A n, d : Below(n, d)' = Below(n, d)
  BY <1>2, <1>3, <1>4 DEF Below, Given
<1> QED
  BY <1>3, <1>4, <1>5, <1>6, <1>7

LEMMA OpenStays ==
  ASSUME NEW hold, NEW hold2, NEW q,
         \A r : r \in Waiting' \cap Ranges /\ r.in = q <=> r \in Waiting \cap Ranges /\ r.in = q,
         \A s : s \in Waiting' \cap Sets /\ s.in = q <=> s \in Waiting \cap Sets /\ s.in = q,
         \A s \in Waiting \cap Sets : s.in = q => hold2[s.entry] = hold[s.entry]
  PROVE  Open(hold2, q)' = Open(hold, q)
BY DEF Open

\* The place is a copy of what the call was for.
Fills(org2, in, at, place) ==
    in \in Copies /\ mem[in].kind # "map" =>
       \E c \in CallsInto(in) : c.at = at /\ Stands(org2, c.from, place)'

\* No range and no set of a copy but those that were there, or are for what is left of
\* a range.
Leaves ==
    /\ \A r \in Waiting' \cap Ranges :
          r.in \notin Copies \/ \E r1 \in Waiting \cap Ranges : r1.in = r.in /\ r.over \subseteq r1.over
    /\ \A t \in Waiting' \cap Sets : t \in Waiting \/ \A s \in ToSet(Tail(todo)) \cap Sets : s.in # t.in

LEMMA RestStays ==
  ASSUME BaseInv, todo # <<>>, NEW org, NEW hold, NEW org2, NEW hold2, Traced(org, hold),
         NEW in, NEW at, NEW place, PutStep(org, org2, in, at, place),
         Fills(org2, in, at, place), Leaves, \A q \in Copies : hold2[q] = hold[q]
  PROVE  /\ \A c \in ToSet(Tail(todo)) \cap Calls  : CallTraced(org2, hold2, c)'
         /\ \A r \in ToSet(Tail(todo)) \cap Ranges : RangeTraced(org2, r)'
         /\ \A s \in ToSet(Tail(todo)) \cap Sets   : SetTraced(org2, hold2, s)'
<1>1. \A item \in ToSet(Tail(todo)) : item \in Waiting
  BY HeadFacts DEF BaseInv, TypeOK
<1>2. given' = given /\ \A q \in Copies : org2[q] = org[q] /\ q \in 1 .. Len(mem)
  BY MemoryFacts DEF BaseInv, PutStep, Copies
<1>3. \A n, d : Below(n, d)' = Below(n, d)
  BY <1>2, SameGiven
<1>4. \A q \in Copies : mem'[q].kind = mem[q].kind
  BY <1>2 DEF PutStep, Touches
<1>5. ASSUME NEW c \in ToSet(Tail(todo)) \cap Calls
      PROVE  CallTraced(org2, hold2, c)'
  <2>1. CallFits(c) /\ c.in # 0 /\ CallTraced(org, hold, c)
    BY <1>1, NoRootBehind DEF BaseInv, ItemsFit, Traced
  <2>2. c.in \in Copies
    BY <2>1 DEF CallFits
  <2> QED
    BY <1>2, <1>3, <1>4, <2>1, <2>2 DEF CallTraced
<1>6. ASSUME NEW r \in ToSet(Tail(todo)) \cap Ranges
      PROVE  RangeTraced(org2, r)'
  <2>1. RangeFits(r) /\ RangeTraced(org, r)
    BY <1>1 DEF BaseInv, ItemsFit, Traced
  <2>2. r.in \in Copies
    BY <2>1 DEF RangeFits
  <2>3. org2[r.in] = org[r.in] /\ r.over \subseteq Entries(given'[org[r.in]])
    BY <1>2, <2>1, <2>2 DEF RangeTraced
  <2>4. Below(org[r.in], r.depth - 1)'
    BY <1>3, <2>1 DEF RangeTraced
  <2> QED
    BY <2>3, <2>4 DEF RangeTraced
<1>7. ASSUME NEW s \in ToSet(Tail(todo)) \cap Sets
      PROVE  SetTraced(org2, hold2, s)'
  <2>1. SetFits(s) /\ SetTraced(org, hold, s)
    BY <1>1 DEF BaseInv, ItemsFit, Traced
  <2>2. s.in \in Copies /\ s.entry \in Copies /\ mem[s.entry].kind = "entry"
    BY <2>1 DEF SetFits
  <2>3. hold2[s.entry] \in Entries(given'[org2[s.in]])
    BY <1>2, <2>1, <2>2 DEF SetTraced
  <2>4. ASSUME NEW i \in 1 .. 2
        PROVE  Settled(org2, hold2[s.entry][i], s.entry, i)'
    <3>1. PICK q : q = s.entry
      OBVIOUS
    <3>2. PICK p : p = hold[q][i]
      OBVIOUS
    <3>3. Settled(org, p, q, i)
      BY <2>1, <3>1, <3>2 DEF SetTraced
    <3>4. i \in 1 .. Len(mem[q].kids)
      BY <2>2, <3>1 DEF BaseInv, CopiesFit, CopyFits
    <3>5. ASSUME q = in, i = at
          PROVE  Stands(org2, p, place)'
      <4>1. PICK c \in CallsInto(in) : c.at = at /\ Stands(org2, c.from, place)'
        BY <2>2, <3>1, <3>5 DEF Fills
      <4>2. c \in Waiting \cap Calls /\ c.in = q
        BY <3>5, <4>1 DEF CallsInto
      <4>3. CallTraced(org, hold, c)
        BY <4>2 DEF Traced
      <4>5. c.in # 0
        BY <2>2, <3>1, <4>2, MemoryFacts DEF BaseInv, Copies
      <4>4. c.from = p
        BY <2>2, <3>1, <3>2, <3>5, <4>1, <4>2, <4>3, <4>5 DEF CallTraced
      <4> QED
        BY <4>1, <4>4
    <3>6. Settled(org2, p, q, i)'
      BY <2>2, <3>1, <3>3, <3>4, <3>5, SettledStays
    <3> QED
      BY <2>2, <3>1, <3>2, <3>6
  <2>5. ASSUME NEW r \in Waiting' \cap Ranges, r.in = s.in
        PROVE  hold2[s.entry] \notin r.over
    <3>1. PICK r1 \in Waiting \cap Ranges : r1.in = r.in /\ r.over \subseteq r1.over
      BY <2>2, <2>5 DEF Leaves
    <3> QED
      BY <2>1, <2>2, <2>5, <3>1 DEF SetTraced
  <2>6. ASSUME NEW t \in Waiting' \cap Sets, t.in = s.in
        PROVE  t = s
    <3>1. t \in Waiting
      BY <2>6 DEF Leaves
    <3> QED
      BY <2>1, <2>6, <3>1 DEF SetTraced
  <2>7. hold2[s.entry][1] # NaN
    BY <2>1, <2>2 DEF SetTraced
  <2> QED
    BY <2>3, <2>4, <2>5, <2>6, <2>7 DEF SetTraced
<1> QED
  BY <1>5, <1>6, <1>7

LEMMA CopiesStay ==
  ASSUME BaseInv, NEW org, NEW hold, NEW org2, NEW hold2, Traced(org, hold),
         NEW in, NEW at, NEW place, PutStep(org, org2, in, at, place),
         Fills(org2, in, at, place),
         NEW q \in Copies, mem[q].kind # "entry",
         mem[q].kind = "map" => q # in /\ Open(hold2, q)' = Open(hold, q)
  PROVE  CopyTraced(org2, hold2, q)'
<1>1. ASSUME q = in
      PROVE  /\ at \notin given[org[in]].hidden
             /\ \A p : p = given[org[in]].kids[at] => Stands(org2, p, place)'
  <2>1. PICK c \in CallsInto(in) : c.at = at /\ Stands(org2, c.from, place)'
    BY <1>1 DEF Fills
  <2>2. c \in Waiting \cap Calls /\ c.in = q
    BY <1>1, <2>1 DEF CallsInto
  <2>3. CallTraced(org, hold, c) /\ c.in # 0
    BY <2>2, MemoryFacts DEF Traced, BaseInv, Copies
  <2>4. c.from = given[org[in]].kids[at] /\ at \notin given[org[in]].hidden
    BY <1>1, <2>1, <2>2, <2>3 DEF CallTraced
  <2> QED
    BY <2>1, <2>4
<1> QED
  BY <1>1, CopyStays

-----------------------------------------------------------------------------
(* The steps keep the copies traced.                                       *)

LEMMA InitTraced ==
  ASSUME Init, BaseInv
  PROVE  \E org, hold : Traced(org, hold)
<1> DEFINE org  == [n \in Nat |-> 0]
           hold == [n \in Nat |-> <<0, 0>>]
           c    == Call(1, 0, 0, 1)
<1>1. org \in [Nat -> Int] /\ hold \in [Nat -> Int \X Int]
  OBVIOUS
<1>2. Len(mem) = Len(given) /\ Len(mem) \in Nat /\ Copies = {}
  BY MemoryFacts DEF Init, BaseInv, Copies
<1>3. c.do = "copy" /\ c.in = 0 /\ c.from = 1 /\ c.depth = 1 /\ c \in Calls
  BY DEF Call, Calls
<1>4. c \notin Ranges /\ c \notin Sets
  BY <1>3 DEF Ranges, Sets
<1>5. CASE given[1].kind = "zero"
  <2>1. Waiting = {}
    BY <1>5 DEF Init, Waiting, ToSet
  <2>2. Good(1)
    <3>1. given \in Heaps /\ 1 \in DOMAIN given
      BY HeapAssumption, LenProperties, MemoryFacts DEF BaseInv, TypeOK, Given
    <3>2. given[1].kids = <<>>
      BY <1>5, <3>1, HeapAssumption
    <3>3. Onward(1) = {}
      BY <3>2 DEF Onward
    <3>4. ~HasBadKey(1)
      BY <1>5 DEF HasBadKey
    <3> QED
      BY <3>3, <3>4, GoodAbove
  <2> HIDE DEF org, hold, c
  <2>3. /\ \A i \in Waiting : FALSE
        /\ ~(Len(mem) > Len(given))
    BY <1>2, <2>1
  <2>4. Traced(org, hold)
    BY <1>1, <1>2, <2>2, <2>3 DEF Traced
  <2> QED
    BY <2>4
<1>6. CASE given[1].kind # "zero"
  <2>1. Waiting = {c}
    <3>1. todo = <<c>>
      BY <1>6 DEF Init
    <3>2. DOMAIN todo = {1} /\ todo[1] = c
      BY <3>1
    <3> QED
      BY <3>2 DEF Waiting, ToSet
  <2> HIDE DEF org, hold, c
  <2>2. CallTraced(org, hold, c)
    BY <1>3, BelowFirst DEF CallTraced, BaseInv
  <2>3. AllGood(hold) => Good(1)
    BY <1>3, <2>1 DEF AllGood, GoodPlace, IsNode
  <2>4. Traced(org, hold)
    BY <1>1, <1>2, <1>4, <2>1, <2>2, <2>3 DEF Traced
  <2> QED
    BY <2>4
<1> QED
  BY <1>5, <1>6

LEMMA PlainTraced ==
  ASSUME BaseInv, CopyPlain, NEW org, NEW hold, Traced(org, hold)
  PROVE  Traced(org, hold)'
<1>1. /\ given' = given /\ todo # <<>> /\ Now \in Calls /\ ~IsNode(Now.from) /\ CallFits(Now)
      /\ Len(mem') = Len(mem) /\ Puts(mem, mem', Now.in, Now.at, Now.from)
      /\ todo' = Tail(todo)
  BY PlainFacts
<1>2. /\ Waiting' = ToSet(Tail(todo)) /\ Waiting = {Now} \cup ToSet(Tail(todo))
  BY <1>1, HeadFacts DEF BaseInv, TypeOK, Waiting
<1>3. Len(mem) \in Nat /\ Len(given) \in Nat /\ Copies' = Copies
  BY <1>1, MemoryFacts DEF BaseInv, Copies
<1>4. PICK in, at, from : in = Now.in /\ at = Now.at /\ from = Now.from
  OBVIOUS
<1>5. Now \notin Ranges /\ Now \notin Sets
  BY <1>1 DEF Calls, Ranges, Sets
<1>6. PutStep(org, org, in, at, from)
  <2>1. Touches(in, at, from)
    BY <1>1, <1>4, PutsTouch
  <2>2. in \in Copies => mem[in].kind \notin AsTheyAre /\ (CallsInto(in) # {} \/ mem[in].kind = "map")
    <3>1. Now \in CallsInto(in)
      BY <1>1, <1>2, <1>4 DEF CallsInto
    <3>2. in \in Copies => in # 0
      BY <1>3 DEF Copies
    <3> QED
      BY <1>1, <1>4, <3>1, <3>2 DEF CallFits
  <2>3. \A c \in Waiting \cap Calls : c \in Waiting' \/ (c.in = in /\ c.at = at)
    BY <1>2, <1>4
  <2> QED
    BY <1>1, <1>2, <1>3, <2>1, <2>2, <2>3 DEF PutStep
<1>7. Fills(org, in, at, from)
  <2>1. Now \in CallsInto(in)
    BY <1>1, <1>2, <1>4 DEF CallsInto
  <2>2. Stands(org, from, from)'
    BY <1>1, <1>4 DEF Stands
  <2> QED
    BY <1>4, <2>1, <2>2 DEF Fills
<1>8. Leaves
  BY <1>2 DEF Leaves
<1>9. /\ \A c \in Waiting' \cap Calls  : CallTraced(org, hold, c)'
      /\ \A r \in Waiting' \cap Ranges : RangeTraced(org, r)'
      /\ \A s \in Waiting' \cap Sets   : SetTraced(org, hold, s)'
  BY <1>1, <1>2, <1>6, <1>7, <1>8, RestStays
<1>10. ASSUME NEW q \in Copies', mem'[q].kind # "entry"
       PROVE  CopyTraced(org, hold, q)'
  <2>1. q \in Copies /\ q \in 1 .. Len(mem)
    BY <1>3 DEF Copies
  <2>2. mem[q].kind # "entry"
    BY <1>6, <1>10, <2>1 DEF PutStep, Touches
  <2>3. Open(hold, q)' = Open(hold, q)
    BY <1>2, <1>5, OpenStays
  <2>4. mem[q].kind = "map" => q # in
    <3>1. q = in => in # 0
      BY <1>3, <2>1 DEF Copies
    <3> QED
      BY <1>1, <1>4, <3>1 DEF CallFits
  <2> QED
    BY <1>6, <1>7, <2>1, <2>2, <2>3, <2>4, CopiesStay
<1>11. AllGood(hold)' => Good(1)'
  <2> SUFFICES ASSUME AllGood(hold)' PROVE Good(1)'
    OBVIOUS
  <2>1. \A p : Good(p)' = Good(p) /\ GoodPlace(p)' = GoodPlace(p) /\ BadKey(p)' = BadKey(p)
    BY <1>1, SameGiven
  <2>2. GoodPlace(Now.from)
    BY <1>1 DEF GoodPlace
  <2>3. AllGood(hold)
    BY <1>2, <1>5, <2>1, <2>2 DEF AllGood
  <2>4. Good(1)
    BY <2>3 DEF Traced
  <2> QED
    BY <2>1, <2>4
<1>12. (Len(mem) > Len(given) => org[Copied] = 1)'
  <2>1. (Len(mem) > Len(given))' = (Len(mem) > Len(given)) /\ Copied' = Copied
    BY <1>1 DEF Copied
  <2> QED
    BY <2>1 DEF Traced
<1> QED
  BY <1>9, <1>10, <1>11, <1>12 DEF Traced

LEMMA EndTraced ==
  ASSUME BaseInv, UNCHANGED <<given, mem, todo>>, NEW org, NEW hold, Traced(org, hold)
  PROVE  Traced(org, hold)'
<1>1. given' = given /\ mem' = mem /\ todo' = todo /\ Copies' = Copies /\ Waiting' = Waiting
  BY DEF Copies, Waiting
<1>2. /\ \A p : Good(p)' = Good(p) /\ GoodPlace(p)' = GoodPlace(p) /\ BadKey(p)' = BadKey(p)
      /\ \A n, d : Below(n, d)' = Below(n, d)
  BY <1>1, SameGiven
<1>3. 0 \notin Copies /\ Len(mem) \in Nat
  BY MemoryFacts DEF BaseInv, Copies
<1>11. PICK in : in = 0
  OBVIOUS
<1>4. PutStep(org, org, in, in, in) /\ Fills(org, in, in, in)
  <2>1. Touches(in, in, in)
    BY <1>1, <1>11 DEF Touches
  <2> QED
    BY <1>1, <1>3, <1>11, <2>1 DEF PutStep, Fills
<1>5. ASSUME NEW q \in Copies, mem[q].kind # "entry"
      PROVE  CopyTraced(org, hold, q)'
  <2>1. Open(hold, q)' = Open(hold, q)
    BY <1>1 DEF Open
  <2> QED
    BY <1>3, <1>4, <1>5, <1>11, <2>1, CopiesStay
<1>6. \A c : CallTraced(org, hold, c)' = CallTraced(org, hold, c)
  BY <1>1, <1>2 DEF CallTraced
<1>7. \A r : RangeTraced(org, r)' = RangeTraced(org, r)
  BY <1>1, <1>2 DEF RangeTraced
<1>8. ASSUME NEW s \in Waiting \cap Sets
      PROVE  SetTraced(org, hold, s)'
  <2>1. PICK q : q = s.entry
    OBVIOUS
  <2>2. q \in Copies /\ mem[q].kind = "entry" /\ Len(mem[q].kids) = 2 /\ SetTraced(org, hold, s)
    BY <2>1 DEF BaseInv, ItemsFit, SetFits, CopiesFit, CopyFits, Traced
  <2>3. ASSUME NEW i \in 1 .. 2
        PROVE  Settled(org, hold[s.entry][i], s.entry, i)'
    <3>1. PICK p : p = hold[q][i]
      OBVIOUS
    <3>2. Settled(org, p, q, i) /\ i \in 1 .. Len(mem[q].kids) /\ q # 0
      BY <1>3, <2>1, <2>2, <3>1 DEF SetTraced
    <3>4. mem[q].kind # "map" /\ q # in
      BY <1>11, <2>2, <3>2
    <3>3. Settled(org, p, q, i)'
      BY <1>4, <2>2, <3>2, <3>4, SettledStays
    <3> QED
      BY <2>1, <3>1, <3>3
  <2> QED
    BY <1>1, <2>2, <2>3 DEF SetTraced
<1>9. AllGood(hold)' = AllGood(hold)
  BY <1>1, <1>2 DEF AllGood
<1>10. Copied' = Copied
  BY <1>1 DEF Copied
<1> QED
  BY <1>1, <1>2, <1>5, <1>6, <1>7, <1>8, <1>9, <1>10 DEF Traced

LEMMA RangeEndsTraced ==
  ASSUME BaseInv, RangeEnds, NEW org, NEW hold, Traced(org, hold)
  PROVE  Traced(org, hold)'
<1>1. /\ todo # <<>> /\ Now.do = "range" /\ Now.over = {} /\ todo' = Tail(todo)
      /\ given' = given /\ mem' = mem /\ result' = result
  BY DEF RangeEnds, Does, Now
<1>2. /\ Waiting' = ToSet(Tail(todo)) /\ Waiting = {Now} \cup ToSet(Tail(todo))
      /\ Now \in Items
  BY <1>1, HeadFacts DEF BaseInv, TypeOK, Waiting
<1>3. Len(mem) \in Nat /\ Len(given) \in Nat /\ Copies' = Copies
  BY <1>1, MemoryFacts DEF BaseInv, Copies
<1>4. Now \in Ranges /\ Now \notin Calls /\ Now \notin Sets
  BY <1>1, <1>2, ItemKinds DEF Calls, Sets
<1>5. 0 \notin Copies
  BY <1>3 DEF Copies
<1>6. PutStep(org, org, 0, 0, 0)
  <2>1. Touches(0, 0, 0)
    BY <1>1 DEF Touches
  <2> QED
    BY <1>1, <1>2, <1>3, <1>4, <1>5, <2>1 DEF PutStep
<1>7. Fills(org, 0, 0, 0)
  BY <1>5 DEF Fills
<1>8. Leaves
  BY <1>2 DEF Leaves
<1>9. /\ \A c \in Waiting' \cap Calls  : CallTraced(org, hold, c)'
      /\ \A r \in Waiting' \cap Ranges : RangeTraced(org, r)'
      /\ \A s \in Waiting' \cap Sets   : SetTraced(org, hold, s)'
  BY <1>1, <1>2, <1>6, <1>7, <1>8, RestStays
<1>10. ASSUME NEW q
       PROVE  Open(hold, q)' = Open(hold, q)
  BY <1>1, <1>2, <1>4 DEF Open
<1>11. ASSUME NEW q \in Copies', mem'[q].kind # "entry"
       PROVE  CopyTraced(org, hold, q)'
  <2>1. q \in Copies /\ mem[q].kind # "entry"
    BY <1>1, <1>3, <1>11
  <2> QED
    BY <1>5, <1>6, <1>7, <1>10, <2>1, CopiesStay
<1>12. AllGood(hold)' => Good(1)'
  <2> SUFFICES ASSUME AllGood(hold)' PROVE Good(1)'
    OBVIOUS
  <2>1. \A p : Good(p)' = Good(p) /\ GoodPlace(p)' = GoodPlace(p) /\ BadKey(p)' = BadKey(p)
    BY <1>1, SameGiven
  <2>2. AllGood(hold)
    BY <1>1, <1>2, <1>4, <2>1 DEF AllGood
  <2>3. Good(1)
    BY <2>2 DEF Traced
  <2> QED
    BY <2>1, <2>3
<1>13. (Len(mem) > Len(given) => org[Copied] = 1)'
  BY <1>1 DEF Traced, Copied
<1> QED
  BY <1>9, <1>11, <1>12, <1>13 DEF Traced

\* The items for the parts of a new copy.
PartsAre(P, node, new, depth) ==
    /\ \A item \in P : item.in = new /\ item \notin Sets
    /\ node.kind = "map" => \E r \in Ranges :
          P = {r} /\ r \notin Calls /\ r.in = new /\ r.depth = depth /\ r.over = Entries(node)
    /\ node.kind # "map" =>
          /\ \A c \in P : /\ c \in Calls /\ c \notin Ranges /\ c.at \in Followed(node)
                          /\ c.from = node.kids[c.at] /\ c.depth = depth
          /\ \A i \in Followed(node) : \E c \in P : c.at = i

LEMMA PartsFacts ==
  ASSUME NEW node \in Nodes, NEW new \in Nat, NEW depth \in Nat, NEW P,
         P = ToSet(Parts(node, new, depth))
  PROVE  PartsAre(P, node, new, depth)
<1>1. CASE node.kind = "map"
  <2> DEFINE r == [do |-> "range", over |-> Entries(node), in |-> new, depth |-> depth]
  <2>1. Parts(node, new, depth) = <<r>> /\ Entries(node) \in SUBSET (Int \X Int)
    BY <1>1, PartsOfMap
  <2>2. r \in Ranges /\ r \notin Calls /\ r \notin Sets /\ r.in = new /\ r.depth = depth /\ r.over = Entries(node)
    BY <2>1 DEF Ranges, Calls, Sets
  <2> HIDE DEF r
  <2>3. P = {r}
    BY <2>1 DEF ToSet
  <2> QED
    BY <1>1, <2>2, <2>3 DEF PartsAre
<1>2. CASE node.kind # "map"
  <2>1. P = {Call(node.kids[i], new, i, depth) : i \in Followed(node)}
    BY <1>2, PartsOfOthers
  <2>2. ASSUME NEW i \in Followed(node)
        PROVE  \A c : c = Call(node.kids[i], new, i, depth) =>
                  /\ c \in Calls /\ c \notin Ranges /\ c \notin Sets
                  /\ c.in = new /\ c.at = i /\ c.from = node.kids[i] /\ c.depth = depth
    <3>1. i \in 1 .. Len(node.kids)
      BY NodesFacts DEF Followed
    <3>2. node.kids[i] \in Int /\ i \in Nat
      BY <3>1, NodesFacts
    <3> SUFFICES ASSUME NEW c, c = Call(node.kids[i], new, i, depth)
                 PROVE  /\ c \in Calls /\ c \notin Ranges /\ c \notin Sets
                        /\ c.in = new /\ c.at = i /\ c.from = node.kids[i] /\ c.depth = depth
      OBVIOUS
    <3>3. c \in Calls
      BY <3>2, CallType
    <3> QED
      BY <3>3 DEF Call, Calls, Ranges, Sets
  <2> QED
    BY <1>2, <2>1, <2>2 DEF PartsAre
<1> QED
  BY <1>1, <1>2

LEMMA NewNode ==
  ASSUME BaseInv, CopyNode, NEW new, new = Len(mem) + 1, NEW from, from = Now.from,
         NEW node, node = given[from], NEW depth, depth = Now.depth
  PROVE  /\ given' = given /\ todo # <<>> /\ new \in Nat \ {0} /\ new \notin Copies
         /\ Copies' = Copies \cup {new} /\ Len(mem') = new
         /\ from \in Given /\ IsNode(from) /\ depth \in Nat
         /\ node \in Nodes /\ node.kind # "entry" /\ Len(node.kids) \in Nat
         /\ DOMAIN node.kids = 1 .. Len(node.kids)
         /\ mem'[new].kind = node.kind /\ mem'[new].hidden = node.hidden
         /\ node.kind \in AsTheyAre => mem'[new].kids = node.kids
         /\ node.kind = "map" => Len(mem'[new].kids) = 0
         /\ node.kind \notin AsTheyAre \cup {"map"} =>
               /\ Len(mem'[new].kids) = Len(node.kids)
               /\ \A i \in 1 .. Len(node.kids) : mem'[new].kids[i] = Zero
         /\ Waiting' = ToSet(Parts(node, new, depth + 1)) \cup ToSet(Tail(todo))
         /\ Waiting = {Now} \cup ToSet(Tail(todo))
         /\ Now \in Calls /\ Now \notin Ranges /\ Now \notin Sets /\ CallFits(Now)
         /\ Puts(mem, mem', Now.in, Now.at, new)
<1>1. /\ given' = given /\ todo # <<>> /\ Now \in Calls /\ from \in Given /\ CallFits(Now)
      /\ Len(mem') = new /\ Puts(mem, mem', Now.in, Now.at, new)
      /\ mem'[new] = Blank(node)
      /\ todo' = Parts(node, new, depth + 1) \o Tail(todo)
  BY NodeFacts
<1>2. Len(given) \in Nat /\ Len(mem) \in Nat /\ Len(given) <= Len(mem)
  BY MemoryFacts DEF BaseInv
<1>3. /\ new \in Nat \ {0} /\ new \notin Copies /\ Copies' = Copies \cup {new}
      /\ IsNode(from)
  BY <1>1, <1>2 DEF Copies, IsNode, Given
<1>4. /\ node \in Nodes /\ node.kind # "entry" /\ Len(node.kids) \in Nat
      /\ DOMAIN node.kids = 1 .. Len(node.kids)
  BY <1>1, MemoryFacts, NodesFacts DEF BaseInv
<1>5. depth \in Nat /\ depth + 1 \in Nat /\ Now \notin Ranges /\ Now \notin Sets
  BY <1>1 DEF Calls, Ranges, Sets
<1>6. Waiting' = ToSet(Parts(node, new, depth + 1)) \cup ToSet(Tail(todo))
  BY <1>1, <1>4, <1>5, TodoAfterNode
<1>7. Waiting = {Now} \cup ToSet(Tail(todo))
  BY <1>1, HeadFacts DEF BaseInv, TypeOK
<1> QED
  BY <1>1, <1>3, <1>4, <1>5, <1>6, <1>7, BlankFacts

LEMMA NodePut ==
  ASSUME BaseInv, CopyNode, NEW new, new = Len(mem) + 1,
         NEW org, NEW org2, org2[new] = Now.from, \A q \in Copies : org2[q] = org[q],
         NEW in, in = Now.in, NEW at, at = Now.at
  PROVE  /\ PutStep(org, org2, in, at, new) /\ Fills(org2, in, at, new) /\ Leaves
         /\ \A q \in Copies : q # new /\ (mem[q].kind = "map" => q # in)
<1> PICK from, node, depth : from = Now.from /\ node = given[from] /\ depth = Now.depth
  OBVIOUS
<1> PICK P : P = ToSet(Parts(node, new, depth + 1))
  OBVIOUS
<1>1. /\ given' = given /\ todo # <<>> /\ new \in Nat \ {0} /\ new \notin Copies
      /\ Copies' = Copies \cup {new} /\ Len(mem') = new
      /\ from \in Given /\ IsNode(from) /\ depth \in Nat /\ node \in Nodes
      /\ mem'[new].kind = node.kind /\ node.kind # "entry"
      /\ Waiting' = P \cup ToSet(Tail(todo)) /\ Waiting = {Now} \cup ToSet(Tail(todo))
      /\ Now \in Calls /\ CallFits(Now) /\ Puts(mem, mem', in, at, new)
  BY NewNode
<1>2. \A item \in P : item.in = new /\ item \notin Sets
  BY <1>1, PartsFacts DEF PartsAre
<1>3. /\ Len(mem) \in Nat /\ Len(mem) <= Len(mem') /\ Len(given) \in Nat
      /\ \A q \in Copies : q \in Nat /\ q # new /\ q # 0
  <2>1. Len(mem) \in Nat /\ Len(given) \in Nat
    BY MemoryFacts DEF BaseInv
  <2>2. \A q \in Copies : q \in Nat /\ q # 0
    BY <2>1 DEF Copies
  <2> QED
    BY <1>1, <2>1, <2>2
<1>6. Now \in CallsInto(in)
  BY <1>1 DEF CallsInto
<1>7. \A q \in Copies : mem[q].kind = "map" => q # in
  BY <1>1, <1>3 DEF CallFits
<1>8. PutStep(org, org2, in, at, new)
  <2>1. Touches(in, at, new)
    BY <1>1, PutsTouch
  <2>2. in \in Copies => mem[in].kind \notin AsTheyAre /\ (CallsInto(in) # {} \/ mem[in].kind = "map")
    BY <1>1, <1>3, <1>6 DEF CallFits
  <2>3. /\ \A c \in Waiting \cap Calls : c \in Waiting' \/ (c.in = in /\ c.at = at)
        /\ \A c \in Waiting' \cap Calls : c \in Waiting \/ c.in \notin Copies
    BY <1>1, <1>2
  <2>4. Len(mem') \in Nat
    BY <1>1
  <2> QED
    BY <1>1, <1>3, <2>1, <2>2, <2>3, <2>4 DEF PutStep
<1>9. Fills(org2, in, at, new)
  <2>1. Stands(org2, from, new)'
    BY <1>1 DEF Stands
  <2> QED
    BY <1>6, <2>1 DEF Fills
<1>10. Leaves
  BY <1>1, <1>2 DEF Leaves
<1> QED
  BY <1>3, <1>7, <1>8, <1>9, <1>10

\* The new copy, and the items for its parts.
LEMMA NewIsTraced ==
  ASSUME BaseInv, CopyNode, NEW new, new = Len(mem) + 1, NEW from, from = Now.from,
         NEW org, NEW hold, Traced(org, hold), NEW org2, org2[new] = from,
         NEW P, P = ToSet(Parts(given[from], new, Now.depth + 1))
  PROVE  /\ CopyTraced(org2, hold, new)'
         /\ \A c \in P \cap Calls  : CallTraced(org2, hold, c)'
         /\ \A r \in P \cap Ranges : RangeTraced(org2, r)'
         /\ AllGood(hold)' => Good(from)
<1> PICK node, depth : node = given[from] /\ depth = Now.depth
  OBVIOUS
<1>1. /\ given' = given /\ new \in Nat \ {0}
      /\ Copies' = Copies \cup {new}
      /\ from \in Given /\ IsNode(from) /\ depth \in Nat
      /\ node \in Nodes /\ node.kind # "entry" /\ Len(node.kids) \in Nat
      /\ DOMAIN node.kids = 1 .. Len(node.kids)
      /\ mem'[new].kind = node.kind /\ mem'[new].hidden = node.hidden
      /\ node.kind \in AsTheyAre => mem'[new].kids = node.kids
      /\ node.kind = "map" => Len(mem'[new].kids) = 0
      /\ node.kind \notin AsTheyAre \cup {"map"} =>
            /\ Len(mem'[new].kids) = Len(node.kids)
            /\ \A i \in 1 .. Len(node.kids) : mem'[new].kids[i] = Zero
      /\ Waiting' = P \cup ToSet(Tail(todo))
      /\ Now \in Calls /\ Now \in Waiting
  BY NewNode
<1>2. depth + 1 \in Nat
  BY <1>1
<1>3. /\ \A item \in P : item.in = new /\ item \notin Sets
      /\ node.kind = "map" => \E r \in Ranges :
            P = {r} /\ r \notin Calls /\ r.in = new /\ r.depth = depth + 1 /\ r.over = Entries(node)
      /\ node.kind # "map" =>
            /\ \A c \in P : /\ c \in Calls /\ c \notin Ranges /\ c.at \in Followed(node)
                            /\ c.from = node.kids[c.at] /\ c.depth = depth + 1
            /\ \A i \in Followed(node) : \E c \in P : c.at = i
  <2>1. P = ToSet(Parts(node, new, depth + 1))
    OBVIOUS
  <2> PICK more : more = depth + 1
    OBVIOUS
  <2>2. P = ToSet(Parts(node, new, more)) /\ more \in Nat
    BY <1>2, <2>1
  <2>3. PartsAre(P, node, new, more)
    BY <1>1, <2>2, PartsFacts
  <2> QED
    BY <2>3 DEF PartsAre
<1>4. Below(from, depth)
  <2>1. CallTraced(org, hold, Now)
    BY <1>1 DEF Traced
  <2> QED
    BY <1>1, <2>1 DEF CallTraced
<1>5. \A n, d : Below(n, d)' = Below(n, d)
  BY <1>1, SameGiven
<1>6. /\ \A p : Good(p)' = Good(p) /\ GoodPlace(p)' = GoodPlace(p) /\ BadKey(p)' = BadKey(p)
      /\ Top' = Top
  BY <1>1, SameGiven
<1>7. \A i \in Followed(node) : /\ i \in 1 .. Len(node.kids) /\ i \notin node.hidden
                                /\ IsNode(node.kids[i]) => node.kids[i] \in Onward(from)
  <2> SUFFICES ASSUME NEW i \in Followed(node)
               PROVE  /\ i \in 1 .. Len(node.kids) /\ i \notin node.hidden
                      /\ IsNode(node.kids[i]) => node.kids[i] \in Onward(from)
    OBVIOUS
  <2>1. i \in 1 .. Len(node.kids) /\ i \notin node.hidden /\ node.kind \notin AsTheyAre
    BY <1>1 DEF Followed, HasCase
  <2>2. node.kids[i] \in Int /\ node.kids[i] <= Len(given)
    BY <1>1, <2>1, MemoryFacts DEF BaseInv
  <2>3. IsNode(node.kids[i]) => node.kids[i] \in Given
    BY <2>2, MemoryFacts DEF BaseInv, IsNode, Given
  <2> QED
    BY <1>1, <2>1, <2>3 DEF Onward
<1>8. ASSUME NEW c \in P \cap Calls
      PROVE  CallTraced(org2, hold, c)'
  <2>1. /\ c.at \in Followed(node) /\ c.from = node.kids[c.at] /\ c.depth = depth + 1
        /\ c.in = new /\ new # 0 /\ mem'[c.in].kind # "entry"
    BY <1>1, <1>3, <1>8
  <2>2. IsNode(c.from) => Below(c.from, c.depth)
    BY <1>1, <1>4, <1>7, <2>1, BelowNext DEF BaseInv
  <2>3. c.from = given'[org2[c.in]].kids[c.at] /\ c.at \notin given'[org2[c.in]].hidden
    BY <1>1, <1>7, <2>1
  <2> QED
    BY <1>5, <2>1, <2>2, <2>3 DEF CallTraced
<1>9. ASSUME NEW r \in P \cap Ranges
      PROVE  RangeTraced(org2, r)'
  <2>1. r.over = Entries(node) /\ r.in = new /\ r.depth - 1 = depth
    BY <1>1, <1>3, <1>9
  <2>2. r.over \subseteq Entries(given'[org2[r.in]])
    BY <1>1, <2>1
  <2>3. Below(from, depth)'
    BY <1>4, <1>5
  <2> QED
    BY <2>1, <2>2, <2>3 DEF RangeTraced
<1>10. CopyTraced(org2, hold, new)'
  <2>1. org2[new] \in Top' /\ given'[org2[new]] = node
    BY <1>1, <1>4, <1>6 DEF Below
  <2>2. ASSUME node.kind = "map"
        PROVE  MapTraced(org2, new, Entries(given[org2[new]]) \ Open(hold, new))'
    <3>1. PICK r \in Ranges : P = {r} /\ r.in = new /\ r.over = Entries(node)
      BY <1>3, <2>2
    <3>2. Entries(node) \subseteq Open(hold, new)'
      <4>1. \A e \in r.over : e \in Int \X Int
        BY DEF Ranges
      <4> QED
        BY <1>1, <3>1, <4>1 DEF Open
    <3>3. (Entries(given[org2[new]]) \ Open(hold, new))' = {}
      BY <2>1, <3>2
    <3>4. Len(mem'[new].kids) = 0 /\ KeyPlaces(new)' = {}
      BY <1>1, <2>2 DEF KeyPlaces
    <3>5. ASSUME NEW D, D = {}
          PROVE  MapTraced(org2, new, D)'
      <4>1. {KeyOf(e[1])' : e \in D} = {}
        BY <3>5
      <4>2. Cardinality({}) = 0
        BY FS_EmptySet
      <4>3. Len(mem'[new].kids) = 2 * Cardinality({})
        BY <3>4, <4>2
      <4>4. Len(mem'[new].kids) = 2 * Cardinality({KeyOf(e[1])' : e \in D})
        BY <4>1, <4>3, Zenon
      <4> QED
        BY <3>4, <3>5, <4>4 DEF MapTraced
    <3> QED
      BY <3>3, <3>5
  <2>3. ASSUME node.kind \notin AsTheyAre \cup {"map"}
        PROVE  FieldsTraced(org2, new)'
    <3>1. ASSUME NEW i \in 1 .. Len(node.kids), i \notin node.hidden
          PROVE  Settled(org2, node.kids[i], new, i)'
      <4>1. i \in Followed(node)
        BY <1>1, <2>3, <3>1 DEF Followed, HasCase
      <4>2. PICK c \in P : c \in Calls /\ c.in = new /\ c.at = i
        BY <1>3, <2>3, <4>1
      <4>3. c \in CallsInto(new)'
        BY <1>1, <4>2 DEF CallsInto
      <4> QED
        BY <4>2, <4>3 DEF Settled
    <3>2. /\ Len(mem'[new].kids) = Len(node.kids)
          /\ \A i \in 1 .. Len(node.kids) : i \in node.hidden => mem'[new].kids[i] = Zero
      BY <1>1, <2>3
    <3> QED
      BY <2>1, <3>1, <3>2 DEF FieldsTraced
  <2> QED
    BY <1>1, <2>1, <2>2, <2>3 DEF CopyTraced
<1>11. ASSUME AllGood(hold)'
       PROVE  Good(from)
  <2>1. CASE node.kind = "map"
    <3>1. PICK r \in Ranges : P = {r} /\ r.over = Entries(node)
      BY <1>3, <2>1
    <3>2. r \in Waiting' \cap Ranges
      BY <1>1, <3>1
    <3>3. \A e \in Entries(node) : ~BadKey(e[1]) /\ GoodPlace(e[1]) /\ GoodPlace(e[2])
      BY <1>6, <1>11, <3>1, <3>2 DEF AllGood
    <3>4. ~HasBadKey(from)
      BY <1>1, <3>3 DEF HasBadKey
    <3>5. ASSUME NEW m \in Onward(from)
          PROVE  Good(m)
      <4>1. \E e \in Entries(node) : m \in {e[1], e[2]}
        BY <1>1, <2>1, MapFacts DEF BaseInv
      <4>2. IsNode(m)
        BY DownFacts, MemoryFacts DEF Given, IsNode, BaseInv
      <4> QED
        BY <3>3, <4>1, <4>2 DEF GoodPlace
    <3> QED
      BY <3>4, <3>5, GoodAbove
  <2>2. CASE node.kind # "map"
    <3>1. ~HasBadKey(from)
      BY <2>2 DEF HasBadKey
    <3>2. ASSUME NEW m \in Onward(from)
          PROVE  Good(m)
      <4>1. PICK i \in Followed(node) : m = node.kids[i]
        BY DEF Onward, Followed, HasCase
      <4>2. PICK c \in P : c \in Calls /\ c.from = m
        BY <1>3, <2>2, <4>1
      <4>3. GoodPlace(m)
        BY <1>1, <1>6, <1>11, <4>2 DEF AllGood
      <4>4. IsNode(m)
        BY DownFacts, MemoryFacts DEF Given, IsNode, BaseInv
      <4> QED
        BY <4>3, <4>4 DEF GoodPlace
    <3> QED
      BY <3>1, <3>2, GoodAbove
  <2> QED
    BY <2>1, <2>2
<1> QED
  BY <1>8, <1>9, <1>10, <1>11

LEMMA NodeTraced ==
  ASSUME BaseInv, CopyNode, NEW org, NEW hold, Traced(org, hold)
  PROVE  \E org2 : Traced(org2, hold)'
<1> PICK new, from, in, at : new = Len(mem) + 1 /\ from = Now.from /\ in = Now.in /\ at = Now.at
  OBVIOUS
<1> PICK P : P = ToSet(Parts(given[from], new, Now.depth + 1))
  OBVIOUS
<1>1. org \in [Nat -> Int] /\ hold \in [Nat -> Int \X Int]
  BY DEF Traced
<1>3. /\ given' = given /\ todo # <<>> /\ Copies' = Copies \cup {new} /\ Len(mem') = new
      /\ Waiting' = P \cup ToSet(Tail(todo)) /\ Waiting = {Now} \cup ToSet(Tail(todo))
      /\ Now \in Calls /\ Now \notin Ranges /\ Now \notin Sets /\ from \in Given
      /\ given[from] \in Nodes /\ Now.depth + 1 \in Nat /\ new \in Nat
  BY NewNode
<1>11. PICK org2 \in [Nat -> Int] : org2[new] = from /\ \A q \in Copies : org2[q] = org[q]
  <2> DEFINE o == [org EXCEPT ![new] = from]
  <2>1. from \in Int /\ new \in Nat /\ Len(mem) \in Nat /\ Len(given) \in Nat
    BY <1>3, MemoryFacts DEF BaseInv, Given
  <2>2. \A q \in Copies : q \in Nat /\ q # new
    BY <2>1 DEF Copies
  <2>3. o \in [Nat -> Int] /\ o[new] = from /\ \A q \in Copies : o[q] = org[q]
    BY <1>1, <2>1, <2>2
  <2> HIDE DEF o
  <2> QED
    BY <2>3
<1>2. /\ PutStep(org, org2, in, at, new) /\ Fills(org2, in, at, new) /\ Leaves
      /\ org2 \in [Nat -> Int] /\ org2[new] = from
      /\ \A q \in Copies : org2[q] = org[q] /\ q # new /\ (mem[q].kind = "map" => q # in)
  <2>1. /\ PutStep(org, org2, in, at, new) /\ Fills(org2, in, at, new) /\ Leaves
        /\ \A q \in Copies : q # new /\ (mem[q].kind = "map" => q # in)
    <3>1. org2[new] = Now.from /\ new = Len(mem) + 1 /\ in = Now.in /\ at = Now.at
      BY <1>11
    <3>2. \A q \in Copies : org2[q] = org[q]
      BY <1>11
    <3>3. BaseInv /\ CopyNode
      OBVIOUS
    <3> HIDE DEF Now, Copies
    <3> QED
      BY ONLY <3>1, <3>2, <3>3, NodePut
  <2> QED
    BY <1>11, <2>1
<1>4. \A item \in P : item.in = new /\ item \notin Sets
  BY <1>3, PartsFacts DEF PartsAre
<1>5. /\ CopyTraced(org2, hold, new)'
      /\ \A c \in P \cap Calls  : CallTraced(org2, hold, c)'
      /\ \A r \in P \cap Ranges : RangeTraced(org2, r)'
      /\ AllGood(hold)' => Good(from)
  BY <1>2, NewIsTraced
<1>6. /\ \A c \in ToSet(Tail(todo)) \cap Calls  : CallTraced(org2, hold, c)'
      /\ \A r \in ToSet(Tail(todo)) \cap Ranges : RangeTraced(org2, r)'
      /\ \A s \in ToSet(Tail(todo)) \cap Sets   : SetTraced(org2, hold, s)'
  BY <1>2, <1>3, RestStays
<1>7. ASSUME NEW q \in Copies, mem'[q].kind # "entry"
      PROVE  CopyTraced(org2, hold, q)'
  <2>1. q \in 1 .. Len(mem)
    BY MemoryFacts DEF BaseInv, Copies
  <2>2. mem[q].kind # "entry"
    BY <1>2, <1>7, <2>1 DEF PutStep, Touches
  <2>3. Open(hold, q)' = Open(hold, q)
    BY <1>2, <1>3, <1>4, OpenStays
  <2> QED
    BY <1>2, <2>2, <2>3, CopiesStay
<1>8. AllGood(hold)' => Good(1)'
  <2> SUFFICES ASSUME AllGood(hold)' PROVE Good(1)'
    OBVIOUS
  <2>1. \A p : Good(p)' = Good(p) /\ GoodPlace(p)' = GoodPlace(p) /\ BadKey(p)' = BadKey(p)
    BY <1>3, SameGiven
  <2>2. GoodPlace(Now.from)
    BY <1>5 DEF GoodPlace
  <2>3. AllGood(hold)
    BY <1>3, <2>1, <2>2 DEF AllGood
  <2>4. Good(1)
    BY <2>3 DEF Traced
  <2> QED
    BY <2>1, <2>4
<1>9. org2[Copied] = 1 /\ Copied' = Copied
  <2>1. Len(mem) \in Nat /\ Len(given) \in Nat /\ Len(given) <= Len(mem) /\ Copied' = Copied
    BY <1>3, MemoryFacts DEF BaseInv, Copied
  <2>2. CASE Len(mem) = Len(given)
    <3>1. todo = <<Call(1, 0, 0, 1)>>
      BY <1>3, <2>2 DEF BaseInv, Started
    <3>2. from = 1
      BY <3>1 DEF Now, Call
    <3> QED
      BY <1>2, <2>1, <2>2, <3>2 DEF Copied
  <2>3. CASE Len(mem) # Len(given)
    <3>1. Copied \in Copies /\ Len(mem) > Len(given)
      BY <2>1, <2>3 DEF Copied, Copies
    <3> QED
      BY <1>2, <2>1, <3>1 DEF Traced
  <2> QED
    BY <2>1, <2>2, <2>3
<1>10. Traced(org2, hold)'
  <2>1. \A q \in Copies' : mem'[q].kind # "entry" => CopyTraced(org2, hold, q)'
    BY <1>3, <1>5, <1>7
  <2>2. /\ \A c \in Waiting' \cap Calls  : CallTraced(org2, hold, c)'
        /\ \A r \in Waiting' \cap Ranges : RangeTraced(org2, r)'
        /\ \A s \in Waiting' \cap Sets   : SetTraced(org2, hold, s)'
    BY <1>3, <1>4, <1>5, <1>6
  <2> QED
    BY <1>1, <1>2, <1>8, <1>9, <2>1, <2>2 DEF Traced
<1> QED
  BY <1>10

\* What waits after the next entry of a map has been found, and what waits behind it.
LEMMA NewEntry ==
  ASSUME BaseInv, NextEntry, NEW new, new = Len(mem) + 1, NEW q, q = Now.in, NEW depth, depth = Now.depth
  PROVE  /\ given' = given /\ todo # <<>> /\ new \in Nat \ {0} /\ new \notin Copies
         /\ Copies' = Copies \cup {new} /\ Len(mem') = new
         /\ \A n \in 1 .. Len(mem) : mem'[n] = mem[n]
         /\ mem'[new].kind = "entry"
         /\ q \in Copies /\ mem[q].kind = "map" /\ depth \in Nat
         /\ Now \in Ranges /\ Now \notin Calls /\ Now \notin Sets
         /\ Waiting = {Now} \cup ToSet(Tail(todo))
         /\ \A r \in ToSet(Tail(todo)) \cap Ranges : r.in # q
         /\ \A s \in ToSet(Tail(todo)) \cap Sets : s.in # q /\ s.entry \in Copies
         /\ \E entry \in Now.over, c1 \in Calls, c2 \in Calls, s \in Sets, r \in Ranges :
               /\ ~Lost(entry[1])
               /\ Waiting' = {c1, c2, s, r} \cup ToSet(Tail(todo))
               /\ c1.from = entry[1] /\ c1.in = new /\ c1.at = 1 /\ c1.depth = depth
               /\ c2.from = entry[2] /\ c2.in = new /\ c2.at = 2 /\ c2.depth = depth
               /\ s.entry = new /\ s.in = q
               /\ r.over = Now.over \ {entry} /\ r.in = q /\ r.depth = depth
<1>1. /\ given' = given /\ todo # <<>> /\ Now \in Ranges /\ RangeFits(Now)
      /\ Len(mem') = new /\ \A n \in 1 .. Len(mem) : mem'[n] = mem[n]
      /\ mem'[new] = EntryNode
      /\ \E entry \in Now.over : ~Lost(entry[1]) /\ todo' = EntryItems(Now, entry, new) \o Tail(todo)
  BY EntryFacts
<1>2. /\ Len(mem) \in Nat /\ Len(given) \in Nat /\ Len(given) <= Len(mem)
  BY MemoryFacts DEF BaseInv
<1>3. /\ new \in Nat \ {0} /\ new \notin Copies /\ Copies' = Copies \cup {new}
  BY <1>1, <1>2 DEF Copies
<1>4. /\ q \in Copies /\ mem[q].kind = "map" /\ depth \in Nat /\ Now.do = "range"
      /\ Now \notin Calls /\ Now \notin Sets /\ mem'[new].kind = "entry"
  BY <1>1 DEF RangeFits, Ranges, Calls, Sets, EntryNode
<1>5. /\ Waiting = {Now} \cup ToSet(Tail(todo))
      /\ \A item \in ToSet(Tail(todo)) : item \in Items /\ item \in Waiting /\ Before(Now, item)
  BY <1>1, HeadFacts DEF BaseInv, TypeOK
<1>6. \A item \in ToSet(Tail(todo)) : Tag(item) < q
  BY <1>4, <1>5 DEF Before, Tag
<1>7. ASSUME NEW r \in ToSet(Tail(todo)) \cap Ranges
      PROVE  r.in # q
  <2>1. Tag(r) = r.in /\ r.in \in Nat
    BY <1>7 DEF Tag, Ranges
  <2> QED
    BY <1>6, <2>1
<1>8. ASSUME NEW s \in ToSet(Tail(todo)) \cap Sets
      PROVE  s.in # q /\ s.entry \in Copies
  <2>1. Tag(s) = s.entry /\ s.entry \in Nat /\ s.in \in Nat
    BY <1>8 DEF Tag, Sets
  <2>2. s.in < s.entry /\ s.entry \in Copies
    BY <1>5, <1>8 DEF BaseInv, ItemsFit, SetFits
  <2>3. q \in Nat
    BY <1>2, <1>4 DEF Copies
  <2> QED
    BY <1>6, <2>1, <2>2, <2>3
<1>9. PICK entry \in Now.over : ~Lost(entry[1]) /\ todo' = EntryItems(Now, entry, new) \o Tail(todo)
  BY <1>1
<1> DEFINE c2 == Call(entry[2], new, 2, depth)
           c1 == Call(entry[1], new, 1, depth)
           s  == [do |-> "set", entry |-> new, in |-> q]
           r  == [do |-> "range", over |-> Now.over \ {entry}, in |-> q, depth |-> depth]
<1>10. Waiting' = {c1, c2, s, r} \cup ToSet(Tail(todo))
  <2>1. Waiting' = {c2, c1, s, r} \cup ToSet(Tail(todo))
    BY <1>1, <1>9, TodoAfterEntry
  <2> QED
    BY <2>1
<1>11. /\ c1 \in Calls /\ c1.from = entry[1] /\ c1.in = new /\ c1.at = 1 /\ c1.depth = depth
       /\ c2 \in Calls /\ c2.from = entry[2] /\ c2.in = new /\ c2.at = 2 /\ c2.depth = depth
  <2>1. entry[1] \in Int /\ entry[2] \in Int
    BY <1>1 DEF Ranges
  <2>2. c1 \in Calls /\ c2 \in Calls
    BY <1>3, <1>4, <2>1, CallType
  <2> QED
    BY <2>2 DEF Call
<1>12. /\ s \in Sets /\ s.entry = new /\ s.in = q
       /\ r \in Ranges /\ r.over = Now.over \ {entry} /\ r.in = q /\ r.depth = depth
  <2>1. q \in Nat
    BY <1>1 DEF Ranges
  <2> QED
    BY <1>1, <1>3, <1>4, <2>1 DEF Sets, Ranges
<1> HIDE DEF c1, c2, s, r
<1>13. \E e \in Now.over, d1 \in Calls, d2 \in Calls, t \in Sets, u \in Ranges :
          /\ ~Lost(e[1])
          /\ Waiting' = {d1, d2, t, u} \cup ToSet(Tail(todo))
          /\ d1.from = e[1] /\ d1.in = new /\ d1.at = 1 /\ d1.depth = depth
          /\ d2.from = e[2] /\ d2.in = new /\ d2.at = 2 /\ d2.depth = depth
          /\ t.entry = new /\ t.in = q
          /\ u.over = Now.over \ {e} /\ u.in = q /\ u.depth = depth
  BY <1>9, <1>10, <1>11, <1>12
<1> QED
  BY <1>1, <1>3, <1>4, <1>5, <1>7, <1>8, <1>13

LEMMA EntryTraced ==
  ASSUME BaseInv, NextEntry, NEW org, NEW hold, Traced(org, hold)
  PROVE  \E hold2 : Traced(org, hold2)'
<1> PICK new, q, depth, T : new = Len(mem) + 1 /\ q = Now.in /\ depth = Now.depth /\ T = ToSet(Tail(todo))
  OBVIOUS
<1>1. /\ given' = given /\ todo # <<>> /\ new \in Nat \ {0} /\ new \notin Copies
      /\ Copies' = Copies \cup {new} /\ Len(mem') = new
      /\ \A n \in 1 .. Len(mem) : mem'[n] = mem[n]
      /\ mem'[new].kind = "entry"
      /\ q \in Copies /\ mem[q].kind = "map" /\ depth \in Nat
      /\ Now \in Ranges /\ Now \notin Calls /\ Now \notin Sets
      /\ Waiting = {Now} \cup T
      /\ \A r \in T \cap Ranges : r.in # q
      /\ \A s \in T \cap Sets : s.in # q /\ s.entry \in Copies
  BY NewEntry
<1>2. PICK entry \in Now.over, c1 \in Calls, c2 \in Calls, s \in Sets, r \in Ranges :
         /\ ~Lost(entry[1])
         /\ Waiting' = {c1, c2, s, r} \cup T
         /\ c1.from = entry[1] /\ c1.in = new /\ c1.at = 1 /\ c1.depth = depth
         /\ c2.from = entry[2] /\ c2.in = new /\ c2.at = 2 /\ c2.depth = depth
         /\ s.entry = new /\ s.in = q
         /\ r.over = Now.over \ {entry} /\ r.in = q /\ r.depth = depth
  BY NewEntry
<1>3. /\ c1 \notin Ranges /\ c1 \notin Sets /\ c2 \notin Ranges /\ c2 \notin Sets
      /\ s \notin Calls /\ s \notin Ranges /\ r \notin Calls /\ r \notin Sets
  BY DEF Calls, Ranges, Sets
<1>4. /\ Len(mem) \in Nat /\ Len(given) \in Nat /\ Len(given) <= Len(mem) /\ 0 \notin Copies
      /\ \A k \in Copies : k \in 1 .. Len(mem) /\ k # new
  BY <1>1, MemoryFacts DEF BaseInv, Copies
<1>5. RangeTraced(org, Now) /\ org[q] \in Given /\ given[org[q]].kind = "map" /\ org[q] \in Top
  <2>1. mem[q].kind # "entry"
    BY <1>1
  <2>2. Now \in Waiting \cap Ranges
    BY <1>1
  <2>3. RangeTraced(org, Now)
    BY <2>2 DEF Traced
  <2> QED
    BY <1>1, <2>1, <2>3, OrgFacts
<1>6. entry \in Entries(given[org[q]]) /\ Below(org[q], depth - 1)
  BY <1>5 DEF RangeTraced
<1>7. \A i \in 1 .. 2 : IsNode(entry[i]) => Below(entry[i], depth)
  <2>1. entry \in Int \X Int /\ (IsNode(entry[1]) => entry[1] \in Onward(org[q]))
        /\ (IsNode(entry[2]) => entry[2] \in Onward(org[q]))
    BY <1>5, <1>6, MapFacts DEF BaseInv
  <2>2. depth - 1 \in Int /\ depth - 1 + 1 = depth
    BY <1>1
  <2>3. \A p \in Onward(org[q]) : Below(p, depth)
    <3>1. \A p \in Onward(org[q]) : Below(p, depth - 1 + 1)
      BY <1>6, <2>2, BelowNext DEF BaseInv
    <3> QED
      BY <2>2, <3>1
  <2> QED
    BY <2>1, <2>3
<1>8. PICK hold2 \in [Nat -> Int \X Int] : hold2[new] = entry /\ \A k \in Copies : hold2[k] = hold[k]
  <2> DEFINE h == [hold EXCEPT ![new] = entry]
  <2>1. hold \in [Nat -> Int \X Int] /\ entry \in Int \X Int
    BY <1>5, <1>6, MapFacts DEF BaseInv, Traced
  <2>2. \A k \in Copies : k \in Nat /\ k # new
    BY <1>4
  <2>3. h \in [Nat -> Int \X Int] /\ h[new] = entry /\ \A k \in Copies : h[k] = hold[k]
    BY <1>1, <2>1, <2>2
  <2> HIDE DEF h
  <2> QED
    BY <2>3
<1>9. PutStep(org, org, 0, 0, 0) /\ Fills(org, 0, 0, 0)
  <2>1. Touches(0, 0, 0)
    <3>1. \A n \in 1 .. Len(mem) : n # 0
      OBVIOUS
    <3> QED
      BY <1>1, <3>1 DEF Touches
  <2>2. \A c \in Waiting' \cap Calls : c \in Waiting \/ c.in \notin Copies
    <3> SUFFICES ASSUME NEW call \in Waiting' \cap Calls
                 PROVE  call \in Waiting \/ call.in \notin Copies
      OBVIOUS
    <3>1. call = c1 \/ call = c2 \/ call \in T
      BY <1>2, <1>3
    <3>2. c1.in \notin Copies /\ c2.in \notin Copies
      BY <1>2, <1>4
    <3>3. T \subseteq Waiting
      BY <1>1
    <3> QED
      BY ONLY <3>1, <3>2, <3>3
  <2>3. \A c \in Waiting \cap Calls : c \in Waiting'
    BY <1>1, <1>2
  <2>4. Len(mem) <= Len(mem') /\ Len(mem') \in Nat
    BY <1>1, <1>4
  <2> QED
    BY <1>1, <1>4, <2>1, <2>2, <2>3, <2>4 DEF PutStep, Fills
<1>10. Leaves
  <2>1. ASSUME NEW u \in Waiting' \cap Ranges
        PROVE  u.in \notin Copies \/ \E u1 \in Waiting \cap Ranges : u1.in = u.in /\ u.over \subseteq u1.over
    <3>1. u = r \/ u \in T
      BY <1>2, <1>3
    <3>2. CASE u = r
      BY <1>1, <1>2, <3>2
    <3>3. CASE u \in T
      BY <1>1, <3>3
    <3> QED
      BY <3>1, <3>2, <3>3
  <2>2. ASSUME NEW t \in Waiting' \cap Sets
        PROVE  t \in Waiting \/ \A u \in T \cap Sets : u.in # t.in
    <3>1. t = s \/ t \in T
      BY <1>2, <1>3
    <3> QED
      BY <1>1, <1>2, <3>1
  <2> QED
    BY <2>1, <2>2 DEF Leaves
<1>11. /\ \A c \in T \cap Calls  : CallTraced(org, hold2, c)'
       /\ \A u \in T \cap Ranges : RangeTraced(org, u)'
       /\ \A t \in T \cap Sets   : SetTraced(org, hold2, t)'
  <2>1. BaseInv /\ todo # <<>> /\ Traced(org, hold) /\ T = ToSet(Tail(todo))
    BY <1>1
  <2>2. \A k \in Copies : hold2[k] = hold[k]
    BY ONLY <1>8
  <2>3. /\ \A c \in ToSet(Tail(todo)) \cap Calls  : CallTraced(org, hold2, c)'
        /\ \A u \in ToSet(Tail(todo)) \cap Ranges : RangeTraced(org, u)'
        /\ \A t \in ToSet(Tail(todo)) \cap Sets   : SetTraced(org, hold2, t)'
    BY ONLY <1>9, <1>10, <2>1, <2>2, RestStays
  <2> QED
    BY ONLY <2>1, <2>3
<1>12. \A n, d : Below(n, d)' = Below(n, d)
  BY <1>1, SameGiven
<1>13. CallTraced(org, hold2, c1)' /\ CallTraced(org, hold2, c2)'
  BY <1>1, <1>2, <1>7, <1>8, <1>12 DEF CallTraced
<1>14. RangeTraced(org, r)'
  <2>1. r.over \subseteq Entries(given'[org[r.in]])
    BY <1>1, <1>2, <1>5 DEF RangeTraced
  <2>2. Below(org[r.in], r.depth - 1)'
    BY <1>2, <1>6, <1>12
  <2> QED
    BY <2>1, <2>2 DEF RangeTraced
<1>15. SetTraced(org, hold2, s)'
  <2>1. hold2[s.entry] \in Entries(given'[org[s.in]])
    BY <1>1, <1>2, <1>6, <1>8
  <2>2. ASSUME NEW i \in 1 .. 2
        PROVE  Settled(org, hold2[s.entry][i], s.entry, i)'
    <3>1. \E c \in {c1, c2} : c \in Calls /\ c.in = new /\ c.at = i /\ c \in Waiting'
      BY <1>2
    <3>2. \E c \in CallsInto(new)' : c.at = i
      BY <3>1 DEF CallsInto
    <3> QED
      BY <1>2, <3>2 DEF Settled
  <2>3. \A u \in Waiting' \cap Ranges : u.in = s.in => hold2[s.entry] \notin u.over
    BY <1>1, <1>2, <1>3, <1>8
  <2>4. \A t \in Waiting' \cap Sets : t.in = s.in => t = s
    BY <1>1, <1>2, <1>3
  <2>5. hold2[s.entry][1] # NaN
    BY <1>2, <1>8 DEF Lost
  <2> QED
    BY <2>1, <2>2, <2>3, <2>4, <2>5 DEF SetTraced
<1>16. ASSUME NEW k \in Copies
       PROVE  Open(hold2, k)' = Open(hold, k)
  <2>1. CASE k # q
    <3>1. \A u : u \in Waiting' \cap Ranges /\ u.in = k <=> u \in Waiting \cap Ranges /\ u.in = k
      BY <1>1, <1>2, <1>3, <2>1
    <3>2. \A t : t \in Waiting' \cap Sets /\ t.in = k <=> t \in Waiting \cap Sets /\ t.in = k
      BY <1>1, <1>2, <1>3, <2>1
    <3>3. \A t \in Waiting \cap Sets : hold2[t.entry] = hold[t.entry]
      BY <1>1, <1>8
    <3> QED
      BY <3>1, <3>2, <3>3, OpenStays
  <2>2. CASE k = q
    <3>1. \A e : e \in Open(hold, k) <=> e \in Int \X Int /\ e \in Now.over
      BY <1>1, <2>2 DEF Open
    <3>2. \A e : e \in Open(hold2, k)' <=> e \in Int \X Int /\ (e \in r.over \/ e = hold2[s.entry])
      <4>1. \A u : u \in Waiting' \cap Ranges /\ u.in = k <=> u = r
        BY <1>1, <1>2, <1>3, <2>2
      <4>2. \A t : t \in Waiting' \cap Sets /\ t.in = k <=> t = s
        BY <1>1, <1>2, <1>3, <2>2
      <4> QED
        BY <4>1, <4>2 DEF Open
    <3>3. hold2[s.entry] = entry
      BY <1>2, <1>8
    <3>4. \A e : e \in Now.over <=> e \in r.over \/ e = entry
      BY <1>2
    <3> QED
      BY <3>1, <3>2, <3>3, <3>4
  <2> QED
    BY <2>1, <2>2
<1>17. ASSUME NEW k \in Copies', mem'[k].kind # "entry"
       PROVE  CopyTraced(org, hold2, k)'
  <2>1. k \in Copies /\ mem[k].kind # "entry" /\ k # 0
    BY <1>1, <1>4, <1>17
  <2> QED
    BY <1>9, <1>16, <2>1, CopiesStay
<1>18. AllGood(hold2)' => Good(1)'
  <2> SUFFICES ASSUME AllGood(hold2)' PROVE Good(1)'
    OBVIOUS
  <2>1. \A p : Good(p)' = Good(p) /\ GoodPlace(p)' = GoodPlace(p) /\ BadKey(p)' = BadKey(p)
    BY <1>1, SameGiven
  <2>2. ~BadKey(entry[1]) /\ GoodPlace(entry[1]) /\ GoodPlace(entry[2])
    <3>1. c1 \in Waiting' \cap Calls /\ c2 \in Waiting' \cap Calls /\ s \in Waiting' \cap Sets
      BY <1>2
    <3>2. GoodPlace(c1.from) /\ GoodPlace(c2.from) /\ hold2[s.entry][1] # NilIface
      BY <2>1, <3>1 DEF AllGood
    <3> QED
      BY <1>2, <1>8, <3>2 DEF BadKey
  <2>3. \A e \in Now.over : ~BadKey(e[1]) /\ GoodPlace(e[1]) /\ GoodPlace(e[2])
    <3>1. r \in Waiting' \cap Ranges
      BY <1>2
    <3>2. \A e \in r.over : ~BadKey(e[1]) /\ GoodPlace(e[1]) /\ GoodPlace(e[2])
      BY <2>1, <3>1 DEF AllGood
    <3> QED
      BY <1>2, <2>2, <3>2
  <2>4. /\ \A c \in T \cap Calls : GoodPlace(c.from)
        /\ \A u \in T \cap Ranges : \A e \in u.over : ~BadKey(e[1]) /\ GoodPlace(e[1]) /\ GoodPlace(e[2])
        /\ \A t \in T \cap Sets : hold[t.entry][1] # NilIface
    <3>1. \A item \in T : item \in Waiting'
      BY <1>2
    <3> QED
      BY <1>1, <1>8, <2>1, <3>1 DEF AllGood
  <2>5. AllGood(hold)
    BY <1>1, <2>3, <2>4 DEF AllGood
  <2>6. Good(1)
    BY <2>5 DEF Traced
  <2> QED
    BY <2>1, <2>6
<1>19. (Len(mem) > Len(given) => org[Copied] = 1)'
  <2>1. Len(mem) > Len(given) /\ Copied' = Copied
    <3>1. Now # Call(1, 0, 0, 1)
      BY <1>1 DEF Call, Ranges
    <3> QED
      BY <1>1, <3>1, HasStarted DEF Copied
  <2> QED
    BY <2>1 DEF Traced
<1>20. Traced(org, hold2)'
  <2>1. /\ \A c \in Waiting' \cap Calls  : CallTraced(org, hold2, c)'
        /\ \A u \in Waiting' \cap Ranges : RangeTraced(org, u)'
        /\ \A t \in Waiting' \cap Sets   : SetTraced(org, hold2, t)'
    BY <1>2, <1>3, <1>11, <1>13, <1>14, <1>15
  <2> QED
    BY <1>8, <1>17, <1>18, <1>19, <2>1 DEF Traced
<1> QED
  BY <1>20

-----------------------------------------------------------------------------
(* An entry is put into its map.                                           *)

\* A key without calls of its own is a twin if it is a struct: its fields are plain.
LEMMA KeyIsTwin ==
  ASSUME BaseInv, NEW org, NEW hold, Traced(org, hold),
         NEW p \in Given, given[p].kind = "struct", Inside(given[p]) = {},
         NEW k, Stands(org, p, k), CallsInto(k) = {}
  PROVE  Twin(p, k)
<1>1. IsNode(p)
  BY MemoryFacts DEF BaseInv, Given, IsNode
<1>2. k \in Copies /\ mem[k].kind # "entry" /\ (org[k] = p \/ Twin(p, k))
  BY <1>1 DEF Stands
<1> SUFFICES ASSUME org[k] = p PROVE Twin(p, k)
  BY <1>2
<1>3. CopyTraced(org, hold, k) /\ mem[k].kind = "struct" /\ mem[k].hidden = given[p].hidden
  BY <1>2, OrgFacts
<1>4. /\ given[p] \in Nodes /\ mem[k] \in Nodes /\ Len(given[p].kids) \in Nat
      /\ DOMAIN given[p].kids = 1 .. Len(given[p].kids)
      /\ mem[k].kids \in Seq(Int) /\ given[p].kids \in Seq(Int)
  BY <1>2, MemoryFacts, NodesFacts DEF BaseInv, Copies
<1> DEFINE n == Len(given[p].kids)
           cut == [i \in DOMAIN given[p].kids |-> IF i \in given[p].hidden THEN Zero ELSE given[p].kids[i]]
<1>5. FieldsTraced(org, k)
  BY <1>3 DEF CopyTraced, AsTheyAre
<1>6. Len(mem[k].kids) = n /\ \A i \in 1 .. n : mem[k].kids[i] = cut[i]
  <2>1. Len(mem[k].kids) = n
    BY <1>5 DEF FieldsTraced
  <2>2. ASSUME NEW i \in 1 .. n, i \notin given[p].hidden
        PROVE  mem[k].kids[i] = given[p].kids[i]
    <3>1. Settled(org, given[p].kids[i], k, i)
      BY <1>5, <2>2 DEF FieldsTraced
    <3>2. Stands(org, given[p].kids[i], mem[k].kids[i])
      BY <3>1 DEF Settled
    <3>3. ~IsNode(given[p].kids[i])
      BY <1>4, <2>2 DEF Inside, ToSet
    <3> QED
      BY <3>2, <3>3 DEF Stands
  <2>3. ASSUME NEW i \in 1 .. n, i \in given[p].hidden
        PROVE  mem[k].kids[i] = Zero
    BY <1>5, <2>3 DEF FieldsTraced
  <2> QED
    BY <1>4, <2>1, <2>2, <2>3
<1>7. cut \in Seq(Int) /\ Len(cut) = n
  <2>1. \A i \in 1 .. n : given[p].kids[i] \in Int /\ Zero \in Int
    BY <1>4, NodesFacts DEF Zero
  <2> QED
    BY <1>4, <2>1, IsASeq
<1> HIDE DEF cut
<1>8. mem[k].kids = cut
  BY <1>4, <1>6, <1>7, SeqEqual
<1>9. Cut(given[p]) = [given[p] EXCEPT !.kids = cut]
  BY DEF Cut, cut
<1>10. Cut(given[p]) \in Nodes /\ Cut(given[p]).kids = cut /\ Cut(given[p]).kind = "struct"
       /\ Cut(given[p]).hidden = given[p].hidden
  BY <1>4, <1>7, <1>9 DEF Nodes
<1>11. mem[k] = Cut(given[p])
  BY <1>3, <1>4, <1>8, <1>10, NodeEqual
<1> QED
  BY <1>2, <1>11 DEF Twin

\* The entry at the head is complete.
LEMMA SetStands ==
  ASSUME BaseInv, SetEntry, NEW org, NEW hold, Traced(org, hold),
         NEW q, q = Now.in, NEW x, x = Now.entry, NEW e, e = hold[x]
  PROVE  /\ q \in Copies /\ mem[q].kind = "map" /\ x \in Copies /\ mem[x].kind = "entry" /\ q # x
         /\ org[q] \in Given /\ org[q] \in Top /\ given[org[q]].kind = "map"
         /\ e \in Entries(given[org[q]]) /\ e \in Int \X Int
         /\ e[1] <= Len(given) /\ e[2] <= Len(given)
         /\ KeyStands(org, e[1], NewKey) /\ Stands(org, e[2], NewValue)
         /\ (NewKey = NilIface <=> e[1] = NilIface) /\ e[1] # NaN
         /\ e \in Open(hold, q)
         /\ \A r \in Waiting \cap Ranges : r.in = q => e \notin r.over
         /\ \A t \in ToSet(Tail(todo)) \cap Sets : t.in # q
         /\ Waiting = {Now} \cup ToSet(Tail(todo)) /\ Now \in Sets /\ Now \notin Calls /\ Now \notin Ranges
<1>1. /\ todo # <<>> /\ Now \in Sets /\ SetFits(Now) /\ Len(mem[Now.entry].kids) = 2
  BY SetHead
<1>2. /\ Waiting = {Now} \cup ToSet(Tail(todo))
      /\ \A item \in ToSet(Tail(todo)) : item \in Items /\ Before(Now, item)
  BY <1>1, HeadFacts DEF BaseInv, TypeOK
<1>3. /\ Len(mem) \in Nat /\ Len(given) \in Nat /\ x \in Nat /\ Now.do = "set"
      /\ Now \notin Calls /\ Now \notin Ranges
  BY <1>1, MemoryFacts DEF BaseInv, Sets, Calls, Ranges
<1>4. q \in Copies /\ mem[q].kind = "map" /\ x \in Copies /\ mem[x].kind = "entry" /\ q < x
  BY <1>1 DEF SetFits
<1>5. org[q] \in Given /\ org[q] \in Top /\ given[org[q]].kind = "map"
  BY <1>4, OrgFacts
<1>6. \A item \in ToSet(Tail(todo)) : Tag(item) < x
  BY <1>2, <1>3 DEF Before, Tag
<1>7. SetTraced(org, hold, Now)
  BY <1>1, <1>2 DEF Traced
<1>8. /\ e \in Entries(given[org[q]]) /\ e[1] # NaN
      /\ \A i \in 1 .. 2 : Settled(org, e[i], x, i)
      /\ \A r \in Waiting \cap Ranges : r.in = q => e \notin r.over
      /\ \A t \in Waiting \cap Sets : t.in = q => t = Now
  BY <1>7 DEF SetTraced
<1>9. /\ e \in Int \X Int /\ e[1] <= Len(given) /\ e[2] <= Len(given)
      /\ IsNode(e[1]) /\ given[e[1]].kind = "struct" => Inside(given[e[1]]) = {}
  BY <1>5, <1>8, MapFacts DEF BaseInv
<1>10. ASSUME NEW k \in Int, k >= x
       PROVE  CallsInto(k) = {}
  <2> SUFFICES ASSUME NEW c \in Waiting \cap Calls, c.in = k PROVE FALSE
    BY DEF CallsInto
  <2>1. c \in ToSet(Tail(todo)) /\ Tag(c) = k
    BY <1>2, <1>3 DEF Tag, Calls
  <2> QED
    BY <1>3, <1>6, <1>10, <2>1
<1>11. Stands(org, e[1], NewKey) /\ Stands(org, e[2], NewValue)
  <2>1. CallsInto(x) = {}
    BY <1>3, <1>10
  <2> QED
    BY <1>8, <2>1 DEF Settled, NewKey, NewValue
<1>12. KeyStands(org, e[1], NewKey)
  <2>1. CASE IsNode(e[1]) /\ given[e[1]].kind = "struct"
    <3>1. e[1] \in Given
      BY <1>3, <1>9, <2>1 DEF IsNode, Given
    <3>2. NewKey \in Copies /\ IsNode(NewKey)
      BY <1>3, <1>11, <2>1 DEF Stands, Copies, IsNode
    <3>3. NewKey > x /\ NewKey \in Int
      <4>1. CopyFits(x) /\ 1 \in 1 .. Len(mem[x].kids)
        BY <1>1, <1>4 DEF BaseInv, CopiesFit
      <4>2. PlaceFits(x, NewKey)
        BY <1>4, <4>1 DEF CopyFits, PlacesFit, NewKey, AsTheyAre
      <4> QED
        BY <1>3, <3>2, <4>2 DEF PlaceFits, Copies
    <3>4. CallsInto(NewKey) = {}
      BY <1>3, <1>10, <3>3
    <3>5. Twin(e[1], NewKey)
      <4>1. PICK k : k = NewKey
        OBVIOUS
      <4>2. Twin(e[1], k)
        BY <1>9, <1>11, <2>1, <3>1, <3>4, <4>1, KeyIsTwin
      <4> QED
        BY <4>1, <4>2
    <3> QED
      BY <2>1, <3>5 DEF KeyStands
  <2>2. CASE ~(IsNode(e[1]) /\ given[e[1]].kind = "struct")
    BY <1>11, <2>2 DEF KeyStands
  <2> QED
    BY <2>1, <2>2
<1>13. NewKey = NilIface <=> e[1] = NilIface
  <2>1. CASE IsNode(e[1])
    <3>1. NewKey \in Copies
      BY <1>11, <2>1 DEF Stands
    <3> QED
      BY <1>3, <2>1, <3>1 DEF NilIface, IsNode, Copies
  <2>2. CASE ~IsNode(e[1])
    BY <1>11, <2>2 DEF Stands
  <2> QED
    BY <2>1, <2>2
<1>14. e \in Open(hold, q)
  BY <1>1, <1>2, <1>9 DEF Open
<1>15. \A t \in ToSet(Tail(todo)) \cap Sets : t.in # q
  <2> SUFFICES ASSUME NEW t \in ToSet(Tail(todo)) \cap Sets, t.in = q PROVE FALSE
    OBVIOUS
  <2>1. t = Now
    BY <1>2, <1>8
  <2>2. Tag(Now) < x /\ Tag(Now) = x
    BY <1>3, <1>6, <2>1 DEF Tag
  <2> QED
    BY <1>3, <2>2
<1>16. q # x
  BY <1>3, <1>4 DEF Copies
<1> QED
  BY <1>1, <1>2, <1>3, <1>4, <1>5, <1>8, <1>9, <1>11, <1>12, <1>13, <1>14, <1>15, <1>16

\* One key is another as their originals are, but for a node that is not a struct.
LEMMA KeysDiffer ==
  ASSUME TypeOK, NEW org, NEW p, NEW k, NEW r, NEW l, KeyStands(org, p, k), KeyStands(org, r, l),
         p # r, KeyOf(p) = KeyOf(r)
  PROVE  SameKey(k, l)
<1>1. CASE IsNode(p) /\ given[p].kind = "struct" /\ IsNode(r) /\ given[r].kind = "struct"
  <2>1. Twin(p, k) /\ Twin(r, l) /\ Cut(given[p]) = Cut(given[r])
    BY <1>1 DEF KeyStands, KeyOf
  <2>2. /\ k \in Copies /\ l \in Copies /\ mem[k] = mem[l]
        /\ mem[k] = Cut(given[p]) /\ given[p].kind = "struct"
    BY <2>1 DEF Twin
  <2>3. IsNode(k) /\ IsNode(l) /\ mem[k] \in Nodes
    BY <2>2, MemoryFacts DEF Copies, IsNode
  <2>4. "kind" \in DOMAIN mem[k] /\ DOMAIN mem[k] = DOMAIN given[p]
    BY <2>2, <2>3 DEF Nodes, Cut
  <2>5. mem[k].kind = "struct"
    BY <2>2, <2>4 DEF Cut
  <2> QED
    BY <2>2, <2>3, <2>5 DEF SameKey
<1>2. CASE ~(IsNode(p) /\ given[p].kind = "struct") /\ ~(IsNode(r) /\ given[r].kind = "struct")
  <2>1. <<p>> = <<r>>
    BY <1>2 DEF KeyOf
  <2> QED
    BY <2>1
<1>3. ASSUME NEW s, IsNode(s), given[s].kind = "struct", NEW v, ~(IsNode(v) /\ given[v].kind = "struct"),
             NEW c, KeyStands(org, s, c)
      PROVE  KeyOf(s) # KeyOf(v)
  <2>1. Twin(s, c)
    BY <1>3 DEF KeyStands
  <2>2. c \in Copies /\ mem[c] = Cut(given[s])
    BY <2>1 DEF Twin
  <2>3. mem[c] \in Nodes
    BY <2>2, MemoryFacts DEF Copies
  <2>4. "kind" \in DOMAIN mem[c] /\ DOMAIN mem[c] = DOMAIN given[s]
    BY <2>2, <2>3 DEF Nodes, Cut
  <2>5. KeyOf(s).kind = "struct"
    BY <1>3, <2>2, <2>4 DEF KeyOf, Cut
  <2>6. KeyOf(v).kind = "itself"
    BY <1>3 DEF KeyOf
  <2> QED
    BY <2>5, <2>6
<1> QED
  BY <1>1, <1>2, <1>3

LEMMA KeysMeet ==
  ASSUME BaseInv, NEW org, NEW hold, Traced(org, hold),
         NEW p, NEW k, NEW r, NEW l, KeyStands(org, p, k), KeyStands(org, r, l),
         SameKey(k, l), IsNode(k) => k # l
  PROVE  KeyOf(p) = KeyOf(r) /\ KeyStands(org, r, k)
<1>1. ASSUME NEW s, NEW c, KeyStands(org, s, c)
      PROVE  /\ IsNode(s) => IsNode(c) /\ c \in Copies
             /\ ~IsNode(s) => c = s
             /\ IsNode(s) /\ given[s].kind # "struct" => mem[c].kind # "struct"
  <2>1. IsNode(s) => c \in Copies
    BY <1>1 DEF KeyStands, Twin, Stands
  <2>2. c \in Copies => IsNode(c)
    BY MemoryFacts DEF BaseInv, Copies, IsNode
  <2>3. ~IsNode(s) => c = s
    BY <1>1 DEF KeyStands, Stands
  <2>4. ASSUME IsNode(s), given[s].kind # "struct"
        PROVE  mem[c].kind # "struct"
    <3>1. c \in Copies /\ mem[c].kind # "entry" /\ org[c] = s
      BY <1>1, <2>4 DEF KeyStands, Stands, Twin
    <3> QED
      BY <2>4, <3>1, OrgFacts
  <2> QED
    BY <2>1, <2>2, <2>3, <2>4
<1>2. CASE ~IsNode(k)
  <2>1. k = l
    BY <1>2 DEF SameKey
  <2>2. p = k /\ r = k
    BY <1>1, <1>2, <2>1
  <2> QED
    BY <2>1, <2>2
<1>3. CASE IsNode(k)
  <2>1. IsNode(l) /\ mem[k] = mem[l] /\ mem[k].kind = "struct"
    BY <1>3 DEF SameKey
  <2>2. IsNode(p) /\ IsNode(r) /\ given[p].kind = "struct" /\ given[r].kind = "struct"
    BY <1>1, <1>3, <2>1
  <2>3. Twin(p, k) /\ Twin(r, l)
    BY <2>2 DEF KeyStands
  <2>4. Cut(given[p]) = Cut(given[r]) /\ Twin(r, k)
    BY <2>1, <2>3 DEF Twin
  <2> QED
    BY <2>2, <2>4 DEF KeyOf, KeyStands
<1> QED
  BY <1>2, <1>3

LEMMA EntriesFinite ==
  ASSUME NEW node \in Nodes
  PROVE  IsFiniteSet(Entries(node))
<1> DEFINE n == Len(node.kids) \div 2
           f == [i \in 1 .. n |-> <<node.kids[2 * i - 1], node.kids[2 * i]>>]
<1>1. n \in Int
  BY NodesFacts, Half
<1> HIDE DEF n
<1>2. IsFiniteSet(1 .. n)
  BY <1>1, FS_Interval
<1>3. IsFiniteSet({f[i] : i \in 1 .. n})
  <2>1. f \in [1 .. n -> {f[i] : i \in 1 .. n}]
    OBVIOUS
  <2>2. f \in Surjection(1 .. n, {f[i] : i \in 1 .. n})
    BY <2>1, Fun_IsSurj
  <2> HIDE DEF f
  <2> QED
    BY <1>2, <2>2, FS_Surjection
<1>4. Entries(node) = {f[i] : i \in 1 .. n}
  BY DEF Entries, n
<1> QED
  BY <1>3, <1>4

KeysOf(K, D) == K = {KeyOf(d[1]) : d \in D}

\* There is one key more, or there is not.
LEMMA KeysCounted ==
  ASSUME NEW D, IsFiniteSet(D), NEW e, NEW K, KeysOf(K, D), NEW K2, KeysOf(K2, D \cup {e})
  PROVE  /\ Cardinality(K) \in Nat
         /\ KeyOf(e[1]) \in K => K2 = K
         /\ KeyOf(e[1]) \notin K => Cardinality(K2) = Cardinality(K) + 1
<1> DEFINE f == [d \in D |-> KeyOf(d[1])]
<1>1. IsFiniteSet(K)
  <2>1. f \in [D -> K] /\ \A k \in K : \E d \in D : f[d] = k
    BY DEF KeysOf
  <2>2. f \in Surjection(D, K)
    BY <2>1, Fun_IsSurj
  <2> HIDE DEF f
  <2> QED
    BY <2>2, FS_Surjection
<1>2. K2 = K \cup {KeyOf(e[1])}
  BY DEF KeysOf
<1>3. Cardinality(K) \in Nat
  BY <1>1, FS_CardinalityType
<1>4. KeyOf(e[1]) \notin K => Cardinality(K2) = Cardinality(K) + 1
  BY <1>1, <1>2, FS_AddElement
<1> QED
  BY <1>2, <1>3, <1>4

LEMMA TwoPlaces ==
  ASSUME NEW n \in Nat, n % 2 = 0, NEW m, m = n + 2
  PROVE  /\ n + 1 \in 1 .. m /\ (n + 1) % 2 = 1
         /\ \A j \in 1 .. m : j % 2 = 1 => j \in 1 .. n \/ j = n + 1
OBVIOUS

LEMMA OddApart ==
  ASSUME NEW i \in Nat, NEW j \in Nat, i % 2 = 1, j % 2 = 1
  PROVE  i # j + 1
OBVIOUS

LEMMA MapAfterSet ==
  ASSUME BaseInv, Unshared, SetEntry, result' = result, NEW org, NEW hold, Traced(org, hold),
         NEW q, q = Now.in, NEW e, e = hold[Now.entry], PutStep(org, org, q, 0, 0),
         NEW D, D = Entries(given[org[q]]) \ Open(hold, q)
  PROVE  MapTraced(org, q, D \cup {e})'
<1> PICK x, key, value, old, kids :
      x = Now.entry /\ key = NewKey /\ value = NewValue /\ old = mem[q].kids /\ kids = mem'[q].kids
  OBVIOUS
<1>1. /\ q \in Copies /\ mem[q].kind = "map" /\ x \in Copies /\ mem[x].kind = "entry" /\ q # x
      /\ org[q] \in Given /\ given[org[q]].kind = "map"
      /\ e \in Entries(given[org[q]]) /\ e \in Open(hold, q) /\ e[1] # NaN
      /\ KeyStands(org, e[1], key) /\ Stands(org, e[2], value)
      /\ Waiting = {Now} \cup ToSet(Tail(todo)) /\ Now \in Sets
  BY SetStands
<1>2. /\ \/ /\ \A i \in 1 .. Len(old) : i % 2 = 1 => ~SameKey(old[i], key)
            /\ Adds(old, kids, key, value)
         \/ \E j \in 1 .. Len(old) : j % 2 = 1 /\ SameKey(old[j], key) /\ Replaces(old, kids, j, value)
      /\ given' = given
  BY SetFacts, SetHead
<1>3. /\ Len(old) \in Nat /\ Len(old) % 2 = 0 /\ Len(mem[x].kids) = 2
  BY SetHead, LenProperties
<1>4. \A j \in 1 .. Len(old) : j % 2 = 1 => j + 1 \in 1 .. Len(old)
  BY <1>3, OddPlaces
<1>5. /\ \A p, k : KeyStands(org, p, k) => KeyStands(org, p, k)'
      /\ \A p, k : Stands(org, p, k) => Stands(org, p, k)'
  BY KeyStandsStays, StandsStays
<1>6. MapTraced(org, q, D)
  BY <1>1, OrgFacts DEF CopyTraced
<1>7. /\ \A j \in 1 .. Len(old) : j % 2 = 1 =>
            \E d \in D : KeyStands(org, d[1], old[j]) /\ Stands(org, d[2], old[j + 1])
      /\ \A d \in D : \E j \in 1 .. Len(old) : j % 2 = 1 /\ KeyStands(org, d[1], old[j])
      /\ Len(old) = 2 * Cardinality({KeyOf(d[1]) : d \in D})
  BY <1>6 DEF MapTraced, KeyPlaces
<1> PICK K, K2 : K = {KeyOf(d[1]) : d \in D} /\ K2 = {KeyOf(d[1]) : d \in D \cup {e}}
  OBVIOUS
<1>8. /\ Cardinality(K) \in Nat /\ Len(old) = 2 * Cardinality(K)
      /\ KeyOf(e[1]) \in K => K2 = K
      /\ KeyOf(e[1]) \notin K => Cardinality(K2) = Cardinality(K) + 1
  <2>1. IsFiniteSet(D)
    <3>1. given[org[q]] \in Nodes
      BY <1>1, MemoryFacts DEF BaseInv
    <3>2. IsFiniteSet(Entries(given[org[q]]))
      BY <3>1, EntriesFinite
    <3> QED
      BY <3>2, FS_Subset
  <2>2. /\ Cardinality(K) \in Nat
        /\ KeyOf(e[1]) \in K => K2 = K
        /\ KeyOf(e[1]) \notin K => Cardinality(K2) = Cardinality(K) + 1
    <3>1. KeysOf(K, D) /\ KeysOf(K2, D \cup {e})
      BY DEF KeysOf
    <3> QED
      BY <2>1, <3>1, KeysCounted
  <2>3. Len(old) = 2 * Cardinality(K)
    BY <1>7, Zenon
  <2> QED
    BY <2>2, <2>3
<1>9. e \notin D /\ \A d \in D : d[1] # e[1]
  <2>1. e \notin D
    BY <1>1
  <2>2. \A d \in D : d[1] = e[1] => d = e
    BY <1>1, MapFacts DEF BaseInv
  <2> QED
    BY <2>1, <2>2
<1> SUFFICES /\ \A j \in 1 .. Len(kids) : j % 2 = 1 =>
                   \E d \in D \cup {e} : KeyStands(org, d[1], kids[j])' /\ Stands(org, d[2], kids[j + 1])'
             /\ \A d \in D \cup {e} : \E j \in 1 .. Len(kids) : j % 2 = 1 /\ KeyStands(org, d[1], kids[j])'
             /\ Len(kids) = 2 * Cardinality(K2)
  <2>1. {KeyOf(d[1])' : d \in D \cup {e}} = K2
    <3>1. \A d : KeyOf(d[1])' = KeyOf(d[1])
      BY <1>2, KeyOfStays
    <3> QED
      BY <3>1
  <2> QED
    BY <2>1 DEF MapTraced, KeyPlaces
<1>10. CASE /\ \A i \in 1 .. Len(old) : i % 2 = 1 => ~SameKey(old[i], key)
            /\ Adds(old, kids, key, value)
  <2> DEFINE n == Len(old)
  <2>1. /\ Len(kids) = n + 2 /\ \A i \in 1 .. n : kids[i] = old[i]
        /\ kids[n + 1] = key /\ kids[n + 2] = value
    BY <1>10 DEF Adds
  <2>2. n + 1 \in 1 .. Len(kids) /\ (n + 1) % 2 = 1
    BY <1>3, <2>1, TwoPlaces
  <2>3. \A j \in 1 .. Len(kids) : j % 2 = 1 => j \in 1 .. n \/ j = n + 1
    BY <1>3, <2>1, TwoPlaces
  <2>4. ASSUME NEW j \in 1 .. Len(kids), j % 2 = 1
        PROVE  \E d \in D \cup {e} : KeyStands(org, d[1], kids[j])' /\ Stands(org, d[2], kids[j + 1])'
    <3>1. CASE j \in 1 .. n
      <4>1. PICK d \in D : KeyStands(org, d[1], old[j]) /\ Stands(org, d[2], old[j + 1])
        BY <1>7, <2>4, <3>1
      <4>2. kids[j] = old[j] /\ kids[j + 1] = old[j + 1]
        BY <1>4, <2>1, <2>4, <3>1
      <4>3. KeyStands(org, d[1], kids[j])' /\ Stands(org, d[2], kids[j + 1])'
        BY <1>5, <4>1, <4>2
      <4> QED
        BY <4>3
    <3>2. CASE j = n + 1
      <4>1. kids[j] = key /\ kids[j + 1] = value
        BY <1>3, <2>1, <3>2
      <4> QED
        BY <1>1, <1>5, <4>1
    <3> QED
      BY <2>3, <2>4, <3>1, <3>2
  <2>5. ASSUME NEW d \in D \cup {e}
        PROVE  \E j \in 1 .. Len(kids) : j % 2 = 1 /\ KeyStands(org, d[1], kids[j])'
    <3>1. CASE d \in D
      <4>1. PICK j \in 1 .. n : j % 2 = 1 /\ KeyStands(org, d[1], old[j])
        BY <1>7, <3>1
      <4>2. j \in 1 .. Len(kids) /\ kids[j] = old[j]
        BY <1>3, <2>1
      <4> QED
        BY <1>5, <4>1, <4>2
    <3>2. CASE d = e
      BY <1>1, <1>5, <2>1, <2>2, <3>2
    <3> QED
      BY <3>1, <3>2
  <2>6. KeyOf(e[1]) \notin K
    <3> SUFFICES ASSUME NEW d \in D, KeyOf(d[1]) = KeyOf(e[1]) PROVE FALSE
      OBVIOUS
    <3>1. PICK j \in 1 .. n : j % 2 = 1 /\ KeyStands(org, d[1], old[j])
      BY <1>7
    <3>2. SameKey(old[j], key)
      BY <1>1, <1>9, <3>1, KeysDiffer DEF BaseInv
    <3> QED
      BY <1>10, <3>1, <3>2
  <2>7. Len(kids) = 2 * Cardinality(K2)
    <3>1. Cardinality(K2) = Cardinality(K) + 1
      BY <1>8, <2>6
    <3>2. Len(kids) = n + 2 /\ n = 2 * Cardinality(K) /\ Cardinality(K) \in Nat
      BY <1>8, <2>1
    <3> HIDE DEF n
    <3> QED
      BY ONLY <3>1, <3>2
  <2> QED
    BY <2>4, <2>5, <2>7
<1>11. CASE \E j \in 1 .. Len(old) : j % 2 = 1 /\ SameKey(old[j], key) /\ Replaces(old, kids, j, value)
  <2>1. PICK j \in 1 .. Len(old) : j % 2 = 1 /\ SameKey(old[j], key) /\ Replaces(old, kids, j, value)
    BY <1>11
  <2>2. /\ Len(kids) = Len(old) /\ j + 1 \in 1 .. Len(old)
        /\ \A i \in 1 .. Len(old) : kids[i] = IF i = j + 1 THEN value ELSE old[i]
    BY <1>4, <2>1 DEF Replaces
  <2>3. \A i \in 1 .. Len(old) : i % 2 = 1 => kids[i] = old[i]
    <3> TAKE i \in 1 .. Len(old)
    <3> HAVE i % 2 = 1
    <3>1. i \in Nat /\ j \in Nat
      BY <1>3
    <3>2. i # j + 1
      BY <2>1, <3>1, OddApart
    <3> QED
      BY <2>2, <3>2
  <2>4. PICK d0 \in D : KeyStands(org, d0[1], old[j])
    BY <1>7, <2>1
  <2>5. IsNode(old[j]) => old[j] # key
    <3> SUFFICES ASSUME IsNode(old[j]), old[j] = key PROVE FALSE
      OBVIOUS
    <3>1. Live(q) /\ Live(x)
      BY <1>1 DEF Live, AsTheyAre
    <3>2. Holds(q, key)
      BY DEF Holds
    <3>3. Holds(x, key)
      <4>1. 1 \in 1 .. Len(mem[x].kids) /\ mem[x].kids[1] = key
        BY <1>3 DEF NewKey
      <4> QED
        BY <4>1 DEF Holds
    <3> QED
      BY <1>1, <3>1, <3>2, <3>3 DEF Unshared
  <2>6. KeyOf(d0[1]) = KeyOf(e[1]) /\ KeyStands(org, e[1], old[j])
    BY <1>1, <2>1, <2>4, <2>5, KeysMeet
  <2>7. ASSUME NEW i \in 1 .. Len(kids), i % 2 = 1
        PROVE  \E d \in D \cup {e} : KeyStands(org, d[1], kids[i])' /\ Stands(org, d[2], kids[i + 1])'
    <3>1. CASE i = j
      <4>1. kids[i] = old[j] /\ kids[i + 1] = value
        BY <2>1, <2>2, <2>3, <3>1
      <4> QED
        BY <1>1, <1>5, <2>6, <4>1
    <3>2. CASE i # j
      <4>1. i \in 1 .. Len(old) /\ i + 1 \in 1 .. Len(old) /\ i + 1 # j + 1
        <5>1. i \in 1 .. Len(old)
          BY <2>2, <2>7
        <5>2. i + 1 \in 1 .. Len(old)
          BY <1>4, <2>7, <5>1
        <5>3. i + 1 # j + 1
          BY <1>3, <3>2, <5>1
        <5> QED
          BY <5>1, <5>2, <5>3
      <4>2. kids[i] = old[i] /\ kids[i + 1] = old[i + 1]
        BY <2>2, <2>3, <2>7, <4>1
      <4>3. PICK d \in D : KeyStands(org, d[1], old[i]) /\ Stands(org, d[2], old[i + 1])
        BY <1>7, <2>7, <4>1
      <4> QED
        BY <1>5, <4>2, <4>3
    <3> QED
      BY <3>1, <3>2
  <2>8. ASSUME NEW d \in D \cup {e}
        PROVE  \E i \in 1 .. Len(kids) : i % 2 = 1 /\ KeyStands(org, d[1], kids[i])'
    <3>1. \E i \in 1 .. Len(old) : i % 2 = 1 /\ KeyStands(org, d[1], old[i])
      BY <1>7, <2>1, <2>6
    <3> QED
      BY <1>5, <2>2, <2>3, <3>1
  <2>9. KeyOf(e[1]) \in K
    BY <2>6
  <2> QED
    BY <1>8, <2>2, <2>7, <2>8, <2>9
<1> QED
  BY <1>2, <1>10, <1>11

LEMMA SetIsTraced ==
  ASSUME BaseInv, Unshared, SetEntry, result' = result, NEW org, NEW hold, Traced(org, hold)
  PROVE  Traced(org, hold)'
<1> PICK q, x, e : q = Now.in /\ x = Now.entry /\ e = hold[x]
  OBVIOUS
<1>1. /\ q \in Copies /\ mem[q].kind = "map" /\ x \in Copies /\ org[q] \in Given
      /\ e \in Entries(given[org[q]]) /\ e \in Int \X Int
      /\ (NewKey = NilIface <=> e[1] = NilIface) /\ e \in Open(hold, q)
      /\ \A r \in Waiting \cap Ranges : r.in = q => e \notin r.over
      /\ \A t \in ToSet(Tail(todo)) \cap Sets : t.in # q
      /\ Waiting = {Now} \cup ToSet(Tail(todo)) /\ Now \in Sets /\ Now \notin Calls /\ Now \notin Ranges
  BY SetStands
<1>2. /\ given' = given /\ todo # <<>> /\ todo' = Tail(todo) /\ Waiting' = ToSet(Tail(todo))
      /\ Len(mem') = Len(mem) /\ Copies' = Copies /\ NewKey # NilIface
      /\ \A n \in 1 .. Len(mem) : n # q => mem'[n] = mem[n]
      /\ mem'[q].kind = "map" /\ mem'[q].hidden = mem[q].hidden
  BY SetHead, SetFacts DEF Waiting, Copies
<1>3. Len(mem) \in Nat /\ Len(given) \in Nat /\ \A k \in Copies : k \in 1 .. Len(mem)
  BY MemoryFacts DEF BaseInv, Copies
<1>4. PutStep(org, org, q, 0, 0)
  <2>1. Touches(q, 0, 0)
    BY <1>1, <1>2 DEF Touches
  <2> QED
    BY <1>1, <1>2, <1>3, <2>1 DEF PutStep, AsTheyAre
<1>5. Fills(org, q, 0, 0) /\ Leaves
  BY <1>1, <1>2 DEF Fills, Leaves
<1>6. /\ \A c \in Waiting' \cap Calls  : CallTraced(org, hold, c)'
      /\ \A r \in Waiting' \cap Ranges : RangeTraced(org, r)'
      /\ \A s \in Waiting' \cap Sets   : SetTraced(org, hold, s)'
  BY <1>2, <1>4, <1>5, RestStays
<1>7. ASSUME NEW k \in Copies, k # q, mem'[k].kind # "entry"
      PROVE  CopyTraced(org, hold, k)'
  <2>1. mem[k].kind # "entry"
    BY <1>2, <1>3, <1>7
  <2>2. Open(hold, k)' = Open(hold, k)
    <3>1. \A s : s \in Waiting' \cap Sets /\ s.in = k <=> s \in Waiting \cap Sets /\ s.in = k
      BY <1>1, <1>2, <1>7
    <3>2. \A r : r \in Waiting' \cap Ranges /\ r.in = k <=> r \in Waiting \cap Ranges /\ r.in = k
      BY <1>1, <1>2
    <3> QED
      BY <3>1, <3>2, OpenStays
  <2> QED
    BY <1>4, <1>5, <1>7, <2>1, <2>2, CopiesStay
<1>8. CopyTraced(org, hold, q)'
  <2> PICK D : D = Entries(given[org[q]]) \ Open(hold, q)
    OBVIOUS
  <2>1. MapTraced(org, q, D \cup {e})'
    BY <1>4, MapAfterSet
  <2>2. Entries(given[org[q]]) \ Open(hold, q)' = D \cup {e}
    <3>1. \A d : d \in Open(hold, q)' <=> d \in Open(hold, q) /\ d # e
      <4>1. \A d : d \in Open(hold, q) <=> d \in Int \X Int /\ ((\E r \in Waiting \cap Ranges : r.in = q /\ d \in r.over) \/ d = e)
        BY <1>1 DEF Open
      <4>2. \A d : d \in Open(hold, q)' <=> d \in Int \X Int /\ \E r \in Waiting \cap Ranges : r.in = q /\ d \in r.over
        BY <1>1, <1>2 DEF Open
      <4> QED
        BY <1>1, <4>1, <4>2
    <3> HIDE DEF Entries
    <3> QED
      BY <1>1, <3>1
  <2>3. CopyTraced(org, hold, q)
    BY <1>1 DEF Traced
  <2>4. MapTraced(org, q, Entries(given[org[q]]) \ Open(hold, q))'
    <3>1. (Entries(given[org[q]]) \ Open(hold, q))' = D \cup {e}
      BY ONLY <1>2, <2>2 DEF Entries
    <3> HIDE DEF Entries
    <3> QED
      BY <2>1, <3>1 DEF MapTraced, KeyPlaces
  <2> QED
    BY <1>1, <1>2, <2>3, <2>4, SameGiven DEF CopyTraced, AsTheyAre
<1>9. AllGood(hold)' => Good(1)'
  <2> SUFFICES ASSUME AllGood(hold)' PROVE Good(1)'
    OBVIOUS
  <2>1. \A p : Good(p)' = Good(p) /\ GoodPlace(p)' = GoodPlace(p) /\ BadKey(p)' = BadKey(p)
    BY <1>2, SameGiven
  <2>2. hold[Now.entry][1] # NilIface
    BY <1>1, <1>2
  <2>3. AllGood(hold)
    BY <1>1, <1>2, <2>1, <2>2 DEF AllGood
  <2>4. Good(1)
    BY <2>3 DEF Traced
  <2> QED
    BY <2>1, <2>4
<1>10. (Len(mem) > Len(given) => org[Copied] = 1)'
  BY <1>2 DEF Traced, Copied
<1> QED
  BY <1>2, <1>6, <1>7, <1>8, <1>9, <1>10 DEF Traced

LEMMA NextTraced ==
  ASSUME BaseInv, Unshared, [Next]_vars, \E org, hold : Traced(org, hold)
  PROVE  (\E org, hold : Traced(org, hold))'
<1> PICK org, hold : Traced(org, hold)
  OBVIOUS
<1> SUFFICES \E org2, hold2 : Traced(org2, hold2)'
  OBVIOUS
<1>1. CASE CopyPlain
  BY <1>1, PlainTraced
<1>2. CASE CopyNode
  BY <1>2, NodeTraced
<1>3. CASE NextEntry
  BY <1>3, EntryTraced
<1>4. CASE RangeEnds
  BY <1>4, RangeEndsTraced
<1>5. CASE SetEntry
  <2>1. CASE result' = result
    BY <1>5, <2>1, SetIsTraced
  <2>2. CASE result' # result
    <3>1. UNCHANGED <<given, mem, todo>>
      BY <1>5, <2>2, PanicFacts, SetHead
    <3> QED
      BY <3>1, EndTraced
  <2> QED
    BY <2>1, <2>2
<1>6. CASE StackFills
  BY <1>6, EndTraced DEF StackFills
<1>7. CASE Answer
  BY <1>7, EndTraced DEF Answer
<1>8. CASE UNCHANGED vars
  BY <1>8, EndTraced DEF vars
<1>9. CASE KeyIsLost
  BY <1>9, LostHead, EndTraced
<1> QED
  BY <1>1, <1>2, <1>3, <1>4, <1>5, <1>6, <1>7, <1>8, <1>9 DEF Next

LEMMA PanicHasCause ==
  ASSUME BaseInv, SetEntry, result' # result, NEW org, NEW hold, Traced(org, hold)
  PROVE  SomeBadKey
<1> PICK q, x, e : q = Now.in /\ x = Now.entry /\ e = hold[x]
  OBVIOUS
<1>1. NewKey = NilIface
  BY PanicFacts
<1>2. org[q] \in Top /\ given[org[q]].kind = "map" /\ e \in Entries(given[org[q]]) /\ e[1] = NilIface
  BY <1>1, SetStands
<1> HIDE DEF Entries
<1> QED
  BY <1>2 DEF SomeBadKey, HasBadKey, BadKey

LEMMA LostHasCause ==
  ASSUME BaseInv, KeyIsLost, NEW org, NEW hold, Traced(org, hold)
  PROVE  SomeBadKey
<1>1. PICK r, e : r \in Waiting \cap Ranges /\ e \in r.over /\ Lost(e[1])
  BY LostHead
<1>2. r.in \in Copies /\ mem[r.in].kind = "map" /\ e \in Entries(given[org[r.in]])
  BY <1>1 DEF BaseInv, ItemsFit, RangeFits, Traced, RangeTraced
<1>3. org[r.in] \in Top /\ given[org[r.in]].kind = "map"
  BY <1>2 DEF Traced, CopyTraced
<1> HIDE DEF Entries
<1> QED
  BY <1>1, <1>2, <1>3 DEF SomeBadKey, HasBadKey, BadKey

LEMMA OverflowHasCause ==
  ASSUME BaseInv, StackFills, NEW org, NEW hold, Traced(org, hold)
  PROVE  Endless
<1>1. todo # <<>> /\ Now.do = "copy" /\ IsNode(Now.from) /\ Now.depth > MaxDepth
  BY DEF StackFills, Does, Now
<1>2. Now \in Items /\ Now \in Waiting
  BY <1>1, HeadFacts DEF BaseInv, TypeOK
<1>3. Now \in Calls /\ Now.depth \in Nat
  BY <1>1, <1>2, ItemKinds DEF Calls
<1>4. Below(Now.from, Now.depth)
  BY <1>1, <1>2, <1>3 DEF Traced, CallTraced
<1> QED
  BY <1>1, <1>3, <1>4, BelowBound DEF BaseInv

LEMMA CopyInvHolds ==
  Spec => []CopyInv
<1>1. Init => CopyInv
  BY InitBase, InitUnshared, InitTraced DEF OwnInv, CopyInv, Init
<1>2. OwnInv /\ OwnInv' /\ CopyInv /\ [Next]_vars => CopyInv'
  <2> SUFFICES ASSUME OwnInv, OwnInv', CopyInv, [Next]_vars PROVE CopyInv'
    OBVIOUS
  <2>1. (\E org, hold : Traced(org, hold))'
    BY NextTraced DEF CopyInv, OwnInv
  <2> PICK org, hold : Traced(org, hold)
    BY DEF CopyInv
  <2>2. /\ result' = "overflowed" => Endless
        /\ result' = "panicked" => SomeBadKey
    <3>1. CASE StackFills
      BY <3>1, OverflowHasCause DEF StackFills, OwnInv
    <3>2. CASE SetEntry
      <4>1. CASE result' = result
        BY <4>1 DEF CopyInv
      <4>2. CASE result' # result
        BY <3>2, <4>2, PanicFacts, PanicHasCause DEF OwnInv
      <4> QED
        BY <4>1, <4>2
    <3>3. CASE result' = result
      BY <3>3 DEF CopyInv
    <3>4. CASE Answer
      BY <3>4 DEF Answer
    <3>5. CASE KeyIsLost
      BY <3>5, LostHead, LostHasCause DEF OwnInv
    <3> QED
      BY <3>1, <3>2, <3>3, <3>4, <3>5 DEF Next, vars, CopyPlain, CopyNode, NextEntry, RangeEnds
  <2>3. Endless' = Endless /\ SomeBadKey' = SomeBadKey
    <3>1. given' = given
      BY DEF Next, vars, CopyPlain, CopyNode, NextEntry, KeyIsLost, RangeEnds, SetEntry, StackFills, Answer
    <3> QED
      BY <3>1, SameGiven
  <2> QED
    BY <2>1, <2>2, <2>3 DEF CopyInv
<1> QED
  BY <1>1, <1>2, OwnInvHolds, PTL DEF Spec

\* Copy overflows only what leads back to itself, panics only at a key that is a nil
\* interface or not equal to itself, and does one of them to each such value
\* (src/kit/deepcopy.go:62, 111, 112, 114), whatever the value.
THEOREM OutcomeCorrect == Spec => []OutcomeHasCause
<1>1. CopyInv => OutcomeHasCause
  <2> SUFFICES ASSUME CopyInv PROVE OutcomeHasCause
    OBVIOUS
  <2>1. /\ TypeOK /\ (result = "done" => todo = <<>>)
        /\ (result = "overflowed" => Endless) /\ (result = "panicked" => SomeBadKey)
    BY DEF CopyInv, OwnInv, BaseInv
  <2>2. result = "done" => ~Endless /\ ~SomeBadKey
    <3> SUFFICES ASSUME result = "done" PROVE ~Endless /\ ~SomeBadKey
      OBVIOUS
    <3> PICK org, hold : Traced(org, hold)
      BY DEF CopyInv
    <3>1. Waiting = {}
      BY <2>1 DEF Waiting, ToSet
    <3>2. AllGood(hold)
      BY <3>1 DEF AllGood
    <3>3. Good(1)
      BY <3>2 DEF Traced
    <3> QED
      BY <3>3, GoodIsGood
  <2> DEFINE followed == {1} \cup Reached(1)
             endless  == \E n \in followed : n \in Reached(n)
             badKey   == \E n \in followed : mem[n].kind = "map" /\
                            \E e \in Entries(mem[n]) : e[1] = NilIface \/ NotItself(e[1])
  <2>3. followed = Top /\ Top \subseteq Given /\ \A n \in Top : Reached(n) = Down(n)
    BY <2>1, MemoryFacts, TopFacts, ReachedIsDown DEF Top
  <2>4. \A n \in Top : mem[n] = given[n]
    BY <2>1, <2>3, MemoryFacts
  <2>5. endless <=> Endless
    BY <2>3 DEF Endless
  <2>6. badKey <=> SomeBadKey
    <3>1. ASSUME NEW n \in Top, given[n].kind = "map", NEW e \in Entries(given[n])
          PROVE  NotItself(e[1]) <=> Lost(e[1])
      BY <2>1, <2>3, <3>1, MapFacts, LostFacts
    <3> QED
      BY <2>3, <2>4, <3>1 DEF SomeBadKey, HasBadKey, BadKey
  <2> HIDE DEF followed
  <2>7. OutcomeHasCause <=> /\ result = "done" => ~endless /\ ~badKey
                            /\ result = "overflowed" => endless
                            /\ result = "panicked" => badKey
    BY DEF OutcomeHasCause, followed
  <2> QED
    BY <2>1, <2>2, <2>5, <2>6, <2>7
<1> QED
  BY <1>1, CopyInvHolds, PTL

-----------------------------------------------------------------------------
(* What the answer is equal to.                                            *)

\* The places that are compared.
Compared == {1, Copied} \cup UNION {ToSet(mem[n].kids) : n \in DOMAIN mem}

Likeness(alike) ==
    alike = [d \in 0 .. Len(mem) |->
               [pair \in Compared \X Compared |-> d > 0 /\ CopyOf(pair[1], pair[2], alike[d - 1])]]

LEMMA LikenessValue ==
  ASSUME NEW g, Likeness(g)
  PROVE  \E alike : Likeness(alike) /\ IsCopy(1, Copied) = alike[Len(mem)][<<1, Copied>>]
BY DEF IsCopy, Likeness, Compared

LEMMA ComparedFacts ==
  /\ 1 \in Compared /\ Copied \in Compared
  /\ \A n \in DOMAIN mem : \A i \in 1 .. Len(mem[n].kids) : mem[n].kids[i] \in Compared
<1>1. \A s : \A i \in 1 .. Len(s) : s[i] \in ToSet(s)
  BY DEF ToSet
<1>2. ASSUME NEW n \in DOMAIN mem
      PROVE  ToSet(mem[n].kids) \subseteq Compared
  BY DEF Compared
<1>3. 1 \in Compared /\ Copied \in Compared
  BY DEF Compared
<1>4. ASSUME NEW n \in DOMAIN mem, NEW i \in 1 .. Len(mem[n].kids)
      PROVE  mem[n].kids[i] \in Compared
  <2> HIDE DEF Compared
  <2>1. mem[n].kids[i] \in ToSet(mem[n].kids)
    BY <1>1, Zenon
  <2> QED
    BY <1>2, <2>1, Zenon
<1> QED
  BY <1>3, <1>4

\* alike knows what is equal, d steps down.
Knows(alike, d) ==
    \A a, b \in Compared : alike[d][<<a, b>>] <=> d > 0 /\ CopyOf(a, b, alike[d - 1])

LEMMA LikenessExists ==
  ASSUME TypeOK
  PROVE  \E alike : Likeness(alike)
<1> DEFINE N == Len(mem)
           V == [Compared \X Compared -> BOOLEAN]
           none == [pair \in Compared \X Compared |-> FALSE]
           g == [p \in (1 .. N) \X V |-> [pair \in Compared \X Compared |-> CopyOf(pair[1], pair[2], p[2])]]
<1>1. N \in Nat
  BY MemoryFacts
<1>2. none \in V
  OBVIOUS
<1>3. \A a, b, h : CopyOf(a, b, h) \in BOOLEAN
  <2> SUFFICES ASSUME NEW a, NEW b, NEW h PROVE CopyOf(a, b, h) \in BOOLEAN
    OBVIOUS
  <2>1. CASE IsNode(a)
    BY ONLY <2>1 DEF CopyOf
  <2>2. CASE ~ IsNode(a)
    BY ONLY <2>2 DEF CopyOf
  <2> QED
    BY <2>1, <2>2
<1>4. g \in [(1 .. N) \X V -> V]
  BY <1>3
<1> HIDE DEF N
<1>5. PICK f \in [0 .. N -> V] : Follows(f, N, none, g)
  <2> HIDE DEF none, g, V
  <2> QED
    BY <1>1, <1>2, <1>4, Recursion
<1>6. ASSUME NEW d \in 0 .. N
      PROVE  f[d] = [pair \in Compared \X Compared |-> d > 0 /\ CopyOf(pair[1], pair[2], f[d - 1])]
  <2>1. CASE d = 0
    <3>1. f[d] = none
      BY <1>5, <2>1 DEF Follows
    <3>2. ~(d > 0)
      BY <2>1
    <3> QED
      BY <3>1, <3>2, Zenon
  <2>2. CASE d # 0
    <3>1. d \in 1 .. N /\ d - 1 \in 0 .. N /\ d > 0
      BY <1>1, <2>2
    <3>2. f[d] = g[<<d, f[d - 1]>>]
      <4> HIDE DEF g, V, none
      <4> QED
        BY <1>5, <3>1 DEF Follows
    <3>3. f[d - 1] \in V
      BY <3>1
    <3>4. f[d] = [pair \in Compared \X Compared |-> CopyOf(pair[1], pair[2], f[d - 1])]
      BY <3>1, <3>2, <3>3
    <3> QED
      BY <1>3, <3>1, <3>4
  <2> QED
    BY <2>1, <2>2
<1>7. Likeness(f)
  BY <1>6 DEF Likeness, N
<1> QED
  BY <1>7

LEMMA LikenessKnows ==
  ASSUME TypeOK
  PROVE  \E alike : /\ \A d \in 0 .. Len(mem) : Knows(alike, d)
                    /\ IsCopy(1, Copied) = alike[Len(mem)][<<1, Copied>>]
<1>1. PICK f : Likeness(f) /\ IsCopy(1, Copied) = f[Len(mem)][<<1, Copied>>]
  BY LikenessExists, LikenessValue
<1>2. ASSUME NEW d \in 0 .. Len(mem)
      PROVE  Knows(f, d)
  <2>1. f[d] = [pair \in Compared \X Compared |-> d > 0 /\ CopyOf(pair[1], pair[2], f[d - 1])]
    BY <1>1 DEF Likeness
  <2> SUFFICES ASSUME NEW a \in Compared, NEW b \in Compared
               PROVE  f[d][<<a, b>>] <=> d > 0 /\ CopyOf(a, b, f[d - 1])
    BY DEF Knows
  <2> PICK pair : pair = <<a, b>>
    OBVIOUS
  <2>2. pair \in Compared \X Compared /\ pair[1] = a /\ pair[2] = b
    OBVIOUS
  <2>3. f[d][pair] = (d > 0 /\ CopyOf(a, b, f[d - 1]))
    BY <2>1, <2>2, Zenon
  <2> QED
    BY <2>3, Zenon
<1> QED
  BY <1>1, <1>2

\* What is copied from a place behind k is known to be equal.
AlikeBehind(org, k, alike) ==
    \A a, b \in Compared :
       a \in Int /\ a <= Len(given) /\ Stands(org, a, b) /\ (IsNode(a) => b > k) => alike[<<a, b>>]

\* The struct fields that have no inside.
LEMMA AlikeTwin ==
  ASSUME BaseInv, NEW org, NEW k \in Copies, NEW p \in Given, Twin(p, k),
         NEW alike, AlikeBehind(org, k, alike)
  PROVE  CopyOf(p, k, alike)
<1>1. /\ mem[p] = given[p] /\ given[p] \in Nodes /\ mem[k] \in Nodes /\ p \in DOMAIN mem /\ k \in DOMAIN mem
      /\ Len(given) \in Nat /\ IsNode(p) /\ IsNode(k)
  BY MemoryFacts, LenProperties DEF BaseInv, TypeOK, Copies, Given, IsNode
<1> PICK old, new : old = given[p].kids /\ new = mem[k].kids
  OBVIOUS
<1>2. /\ DOMAIN old = 1 .. Len(old) /\ old \in Seq(Int) /\ \A i \in 1 .. Len(old) : old[i] \in Int /\ old[i] <= Len(given)
  BY <1>1, NodesFacts, MemoryFacts DEF BaseInv
<1>3. /\ mem[k] = Cut(given[p]) /\ given[p].kind = "struct" /\ Inside(given[p]) = {}
  BY DEF Twin
<1>4. /\ mem[k].kind = given[p].kind /\ new = [i \in DOMAIN old |-> IF i \in given[p].hidden THEN Zero ELSE old[i]]
  BY <1>1, <1>3 DEF Cut, Nodes
<1>5. \A i \in 1 .. Len(old) : old[i] \in Compared /\ ~IsNode(old[i])
  <2>1. \A i \in 1 .. Len(old) : old[i] \in Compared
    BY <1>1, ComparedFacts
  <2>2. \A i \in 1 .. Len(old) : ~IsNode(old[i])
    BY <1>2, <1>3 DEF Inside, ToSet
  <2> QED
    BY <2>1, <2>2
<1>6. ASSUME NEW i \in DOMAIN old
      PROVE  IF i \in given[p].hidden THEN new[i] = Zero ELSE alike[<<old[i], new[i]>>]
  <2>1. CASE i \in given[p].hidden
    BY <1>4, <2>1
  <2>2. CASE i \notin given[p].hidden
    <3>1. new[i] = old[i]
      BY <1>4, <2>2
    <3>2. Stands(org, old[i], old[i])
      BY <1>2, <1>5 DEF Stands
    <3>3. old[i] \in Compared /\ old[i] \in Int /\ old[i] <= Len(given) /\ ~IsNode(old[i])
      BY <1>2, <1>5
    <3>4. alike[<<old[i], old[i]>>]
      BY <3>2, <3>3 DEF AlikeBehind
    <3> QED
      BY <2>2, <3>1, <3>4
  <2> QED
    BY <2>1, <2>2
<1>7. DOMAIN new = DOMAIN old
  BY <1>4
<1> QED
  BY <1>1, <1>3, <1>4, <1>6, <1>7 DEF CopyOf, AsTheyAre

\* Fields and elements, and what is kept as it is.
LEMMA AlikeFields ==
  ASSUME BaseInv, Waiting = {}, NEW org, NEW hold, Traced(org, hold),
         NEW k \in Copies, mem[k].kind # "entry", mem[k].kind # "map", NEW p, p = org[k],
         NEW alike, AlikeBehind(org, k, alike)
  PROVE  CopyOf(p, k, alike)
<1>1. /\ p \in Given /\ CopyTraced(org, hold, k) /\ given[p] \in Nodes
      /\ mem[k].kind = given[p].kind /\ mem[k].hidden = given[p].hidden
  BY OrgFacts
<1>2. /\ mem[p] = given[p] /\ mem[k] \in Nodes /\ p \in DOMAIN mem /\ k \in DOMAIN mem
      /\ Len(given) \in Nat /\ IsNode(p) /\ IsNode(k)
  BY <1>1, MemoryFacts, LenProperties DEF BaseInv, TypeOK, Copies, Given, IsNode
<1> PICK old, new : old = given[p].kids /\ new = mem[k].kids
  OBVIOUS
<1>3. /\ DOMAIN old = 1 .. Len(old) /\ \A i \in 1 .. Len(old) : old[i] \in Int /\ old[i] <= Len(given)
      /\ DOMAIN new = 1 .. Len(new)
  BY <1>1, <1>2, NodesFacts, MemoryFacts DEF BaseInv
<1>4. /\ \A i \in 1 .. Len(old) : old[i] \in Compared
      /\ \A i \in 1 .. Len(new) : new[i] \in Compared
  BY <1>2, ComparedFacts
<1>5. CASE mem[k].kind \in AsTheyAre
  <2>1. new = old
    BY <1>1, <1>5 DEF CopyTraced
  <2>2. given[p].hidden = {}
    <3>1. given \in Heaps /\ p \in DOMAIN given
      BY <1>1, HeapAssumption, LenProperties DEF BaseInv, TypeOK, Given
    <3> QED
      BY <1>1, <1>5, <3>1, HeapAssumption DEF AsTheyAre
  <2> QED
    BY <1>1, <1>2, <1>5, <2>1, <2>2 DEF CopyOf, AsTheyAre
<1>6. CASE mem[k].kind \notin AsTheyAre
  <2>1. /\ Len(new) = Len(old)
        /\ \A i \in 1 .. Len(old) :
              IF i \in given[p].hidden THEN new[i] = Zero ELSE Settled(org, old[i], k, i)
    BY <1>1, <1>6 DEF CopyTraced, FieldsTraced
  <2>2. \A i \in 1 .. Len(new) : PlaceFits(k, new[i])
    BY <1>6 DEF BaseInv, CopiesFit, CopyFits, PlacesFit
  <2>3. CallsInto(k) = {}
    BY DEF CallsInto
  <2>4. ASSUME NEW i \in DOMAIN old, i \notin given[p].hidden
        PROVE  alike[<<old[i], new[i]>>]
    <3>1. Stands(org, old[i], new[i])
      BY <1>3, <2>1, <2>3, <2>4 DEF Settled
    <3>2. IsNode(old[i]) => new[i] > k
      <4>1. IsNode(old[i]) => IsNode(new[i])
        BY <1>2, <3>1 DEF Stands, Copies, IsNode
      <4> QED
        BY <1>3, <2>1, <2>2, <4>1 DEF PlaceFits
    <3>3. old[i] \in Compared /\ new[i] \in Compared /\ old[i] \in Int /\ old[i] <= Len(given)
      BY <1>3, <1>4, <2>1
    <3> QED
      BY <3>1, <3>2, <3>3 DEF AlikeBehind
  <2>5. DOMAIN new = DOMAIN old
    BY <1>3, <2>1
  <2>6. \A i \in DOMAIN old : i \in given[p].hidden => new[i] = Zero
    BY <1>3, <2>1
  <2> QED
    BY <1>1, <1>2, <1>6, <2>4, <2>5, <2>6 DEF CopyOf, AsTheyAre
<1> QED
  BY <1>5, <1>6

LEMMA ImageIsKey ==
  ASSUME TypeOK, NEW p, IsNode(p) => p \in Given
  PROVE  Image(p) = KeyOf(p)
<1>1. CASE IsNode(p)
  <2>1. mem[p] = given[p]
    BY <1>1, MemoryFacts
  <2> QED
    BY <1>1, <2>1 DEF Image, KeyOf, Cut
<1>2. CASE ~IsNode(p)
  BY <1>2 DEF Image, KeyOf
<1> QED
  BY <1>1, <1>2

\* A map whose entries have all been set.
LEMMA AlikeMap ==
  ASSUME BaseInv, Waiting = {}, NEW org, NEW hold, Traced(org, hold),
         NEW k \in Copies, mem[k].kind = "map", NEW p, p = org[k],
         NEW alike, AlikeBehind(org, k, alike)
  PROVE  CopyOf(p, k, alike)
<1>1. /\ p \in Given /\ CopyTraced(org, hold, k) /\ given[p] \in Nodes /\ given[p].kind = "map"
  BY OrgFacts
<1>2. /\ mem[p] = given[p] /\ mem[k] \in Nodes /\ p \in DOMAIN mem /\ k \in DOMAIN mem
      /\ Len(given) \in Nat /\ IsNode(p) /\ IsNode(k)
  BY <1>1, MemoryFacts, LenProperties DEF BaseInv, TypeOK, Copies, Given, IsNode
<1> PICK D, new : D = Entries(given[p]) /\ new = mem[k].kids
  OBVIOUS
<1>3. /\ Len(new) % 2 = 0
      /\ \A i \in 1 .. Len(new) : PlaceFits(k, new[i]) /\ new[i] \in Compared
  BY <1>2, ComparedFacts DEF BaseInv, CopiesFit, CopyFits, PlacesFit, AsTheyAre
<1>4. \A e \in D : /\ e \in Int \X Int /\ e[1] <= Len(given) /\ e[2] <= Len(given)
                   /\ e[1] \in Compared /\ e[2] \in Compared
  <2>1. \A e \in D : e \in Int \X Int /\ e[1] <= Len(given) /\ e[2] <= Len(given)
    BY <1>1, MapFacts DEF BaseInv
  <2>2. Len(given[p].kids) % 2 = 0
    <3>1. given \in Heaps /\ p \in DOMAIN given
      BY <1>1, HeapAssumption, LenProperties DEF BaseInv, TypeOK, Given
    <3> QED
      BY <1>1, <3>1, KeyAssumption
  <2>3. ASSUME NEW e \in D
        PROVE  e[1] \in Compared /\ e[2] \in Compared
    <3>1. PICK j \in 1 .. Len(given[p].kids) :
            j % 2 = 1 /\ j + 1 \in 1 .. Len(given[p].kids) /\ e = <<given[p].kids[j], given[p].kids[j + 1]>>
      BY <1>1, <2>2, EntriesFacts
    <3>2. e[1] = given[p].kids[j] /\ e[2] = given[p].kids[j + 1]
      BY <3>1
    <3> QED
      BY <1>2, <3>1, <3>2, ComparedFacts
  <2> QED
    BY <2>1, <2>3
<1>5. MapTraced(org, k, D)
  <2>1. Open(hold, k) = {}
    BY DEF Open
  <2>2. Entries(given[p]) \ Open(hold, k) = D
    <3> HIDE DEF Entries
    <3> QED
      BY <2>1
  <2> QED
    BY <1>1, <1>2, <2>2 DEF CopyTraced
<1>6. /\ \A j \in 1 .. Len(new) : j % 2 = 1 =>
            \E e \in D : KeyStands(org, e[1], new[j]) /\ Stands(org, e[2], new[j + 1])
      /\ \A e \in D : \E j \in 1 .. Len(new) : j % 2 = 1 /\ KeyStands(org, e[1], new[j])
      /\ Len(new) = 2 * Cardinality({KeyOf(e[1]) : e \in D})
  BY <1>5 DEF MapTraced, KeyPlaces
<1>7. ASSUME NEW a \in Int, NEW b, a <= Len(given), KeyStands(org, a, b)
      PROVE  Stands(org, a, b)
  <2>1. CASE IsNode(a) /\ given[a].kind = "struct"
    <3>1. Twin(a, b) /\ b \in Copies
      BY <1>7, <2>1 DEF KeyStands, Twin
    <3>2. mem[b].kind = "struct"
      <4>1. mem[b] \in Nodes /\ mem[b].kind = Cut(given[a]).kind
        BY <3>1, MemoryFacts DEF BaseInv, Copies, Twin
      <4>2. a \in Given
        BY <1>2, <1>7, <2>1 DEF Given, IsNode
      <4> QED
        BY <2>1, <4>1, <4>2, MemoryFacts DEF Cut, BaseInv, Nodes
    <3> QED
      BY <2>1, <3>1, <3>2 DEF Stands
  <2>2. CASE ~(IsNode(a) /\ given[a].kind = "struct")
    BY <1>7, <2>2 DEF KeyStands
  <2> QED
    BY <2>1, <2>2
<1>8. ASSUME NEW a \in Compared, NEW j \in 1 .. Len(new), a \in Int, a <= Len(given), Stands(org, a, new[j])
      PROVE  alike[<<a, new[j]>>]
  <2>1. IsNode(a) => IsNode(new[j])
    BY <1>2, <1>8 DEF Stands, Copies, IsNode
  <2>2. IsNode(a) => new[j] > k
    BY <1>3, <2>1 DEF PlaceFits
  <2> QED
    BY <1>3, <1>8, <2>2 DEF AlikeBehind
<1>9. ASSUME NEW f \in Entries(mem[k])
      PROVE  \E e \in D : alike[<<e[1], f[1]>>] /\ alike[<<e[2], f[2]>>]
  <2>1. PICK j \in 1 .. Len(new) : j % 2 = 1 /\ j + 1 \in 1 .. Len(new) /\ f = <<new[j], new[j + 1]>>
    BY <1>2, <1>3, EntriesFacts
  <2>2. PICK e \in D : KeyStands(org, e[1], new[j]) /\ Stands(org, e[2], new[j + 1])
    BY <1>6, <2>1
  <2>3. f[1] = new[j] /\ f[2] = new[j + 1]
    BY <2>1
  <2>4. alike[<<e[1], new[j]>>] /\ alike[<<e[2], new[j + 1]>>]
    BY <1>4, <1>7, <1>8, <2>1, <2>2
  <2> QED
    BY <2>3, <2>4
<1>10. ASSUME NEW e \in D
       PROVE  \E f \in Entries(mem[k]) : alike[<<e[1], f[1]>>]
  <2>1. PICK j \in 1 .. Len(new) : j % 2 = 1 /\ KeyStands(org, e[1], new[j])
    BY <1>6
  <2>2. <<new[j], new[j + 1]>> \in Entries(mem[k])
    BY <1>2, <1>3, <2>1, EntriesFacts
  <2>3. alike[<<e[1], new[j]>>]
    BY <1>4, <1>7, <1>8, <2>1
  <2> PICK f : f = <<new[j], new[j + 1]>>
    OBVIOUS
  <2>4. f \in Entries(mem[k]) /\ f[1] = new[j]
    BY <2>2
  <2> QED
    BY <2>3, <2>4
<1>11. {KeyOf(e[1]) : e \in D} = {Image(e[1]) : e \in D}
  <2>1. \A e \in D : Image(e[1]) = KeyOf(e[1])
    BY <1>4, ImageIsKey DEF BaseInv, IsNode, Given
  <2> QED
    BY <2>1
<1>12. Len(new) = 2 * Cardinality({Image(e[1]) : e \in D})
  BY <1>6, <1>11, Zenon
<1> HIDE DEF Entries
<1> QED
  BY <1>1, <1>2, <1>9, <1>10, <1>12 DEF CopyOf

LEMMA CopyInvIsEqual ==
  ASSUME CopyInv
  PROVE  CopyIsEqual
<1> SUFFICES ASSUME result = "done", given[1].kind # "zero" PROVE IsCopy(1, Copied)
  BY DEF CopyIsEqual
<1>1. BaseInv /\ TypeOK /\ todo = <<>> /\ Waiting = {}
  BY DEF CopyInv, OwnInv, BaseInv, Waiting, ToSet
<1> PICK org, hold : Traced(org, hold)
  BY DEF CopyInv
<1>2. /\ Len(mem) \in Nat /\ Len(given) \in Nat \ {0} /\ 1 \in Given
      /\ Copied \in Copies /\ mem[Copied].kind # "entry" /\ org[Copied] = 1
  <2>1. Len(mem) # Len(given)
    BY <1>1 DEF BaseInv, Started
  <2>2. Len(mem) > Len(given)
    BY <1>1, <2>1, MemoryFacts
  <2> QED
    BY <1>1, <2>2, MemoryFacts DEF BaseInv, Started, Traced, Copies, Copied
<1> PICK alike : /\ \A d \in 0 .. Len(mem) : Knows(alike, d)
                 /\ IsCopy(1, Copied) = alike[Len(mem)][<<1, Copied>>]
  BY <1>1, LikenessKnows
\* What is behind k is known when Len(mem) - k steps are left.
<1> DEFINE Known(d) == \A a, b \in Compared :
                          a \in Int /\ a <= Len(given) /\ Stands(org, a, b) /\ d >= 1
                          /\ (IsNode(a) => b + d >= Len(mem) + 2) => alike[d][<<a, b>>]
           T == {d \in 0 .. Len(mem) : Known(d)}
<1>3. 0 \in T
  BY <1>2
<1>4. ASSUME NEW d \in 0 .. Len(mem), d \in T, d < Len(mem)
      PROVE  d + 1 \in T
  <2>1. d + 1 \in 0 .. Len(mem) /\ (d + 1) - 1 = d /\ d + 1 > 0
    BY <1>2, <1>4
  <2>2. Known(d)
    BY <1>4
  <2>3. ASSUME NEW a \in Compared, NEW b \in Compared, a \in Int, a <= Len(given), Stands(org, a, b),
               IsNode(a) => b + (d + 1) >= Len(mem) + 2
        PROVE  CopyOf(a, b, alike[d])
    <3>1. CASE ~IsNode(a)
      BY <2>3, <3>1 DEF CopyOf, Stands
    <3>2. CASE IsNode(a)
      <4>1. a \in Given /\ b \in Copies /\ mem[b].kind # "entry" /\ (org[b] = a \/ Twin(a, b))
        BY <1>2, <2>3, <3>2 DEF Stands, Given, IsNode
      <4>2. b \in Nat /\ b <= Len(mem) /\ b + (d + 1) >= Len(mem) + 2
        BY <1>2, <2>3, <3>2, <4>1 DEF Copies
      <4>3. d >= 1
        BY <1>2, <4>2
      <4>4. AlikeBehind(org, b, alike[d])
        <5> SUFFICES ASSUME NEW x \in Compared, NEW y \in Compared, x \in Int, x <= Len(given),
                            Stands(org, x, y), IsNode(x) => y > b
                     PROVE  alike[d][<<x, y>>]
          BY DEF AlikeBehind
        <5>1. IsNode(x) => y + d >= Len(mem) + 2
          <6>1. IsNode(x) => y \in Int
            BY <1>2 DEF Stands, Copies
          <6> QED
            BY <1>2, <4>2, <6>1
        <5> QED
          BY <2>2, <4>3, <5>1
      <4> PICK h : h = alike[d]
        OBVIOUS
      <4>5. AlikeBehind(org, b, h)
        BY <4>4
      <4>6. CopyOf(a, b, h)
        <5>1. CASE Twin(a, b)
          BY <1>1, <4>1, <4>5, <5>1, AlikeTwin
        <5>2. CASE org[b] = a /\ mem[b].kind = "map"
          BY <1>1, <4>1, <4>5, <5>2, AlikeMap
        <5>3. CASE org[b] = a /\ mem[b].kind # "map"
          BY <1>1, <4>1, <4>5, <5>3, AlikeFields
        <5> QED
          BY <4>1, <5>1, <5>2, <5>3
      <4> QED
        BY <4>6
    <3> QED
      BY <3>1, <3>2
  <2>4. Known(d + 1)
    <3> SUFFICES ASSUME NEW a \in Compared, NEW b \in Compared, a \in Int, a <= Len(given), Stands(org, a, b),
                        IsNode(a) => b + (d + 1) >= Len(mem) + 2
                 PROVE  alike[d + 1][<<a, b>>]
      OBVIOUS
    <3>1. CopyOf(a, b, alike[d])
      BY <2>3
    <3>2. Knows(alike, d + 1)
      BY <2>1
    <3> QED
      BY <2>1, <3>1, <3>2 DEF Knows
  <2> QED
    BY <2>1, <2>4
<1>5. Len(mem) \in T
  <2>1. 0 .. Len(mem) \subseteq T
    <3> HIDE DEF T
    <3> PICK N \in Nat : N = Len(mem)
      BY <1>2
    <3>1. 0 <= N => 0 \in T
      BY <1>3
    <3>2. \A d \in 0 .. N : d \in T /\ d < N => d + 1 \in T
      BY <1>4
    <3>3. 0 \in Int /\ N \in Int
      OBVIOUS
    <3>4. 0 .. N \subseteq T
      BY ONLY <3>1, <3>2, <3>3, InductionUpTo
    <3> QED
      BY <3>4
  <2> HIDE DEF T
  <2> QED
    BY <1>2, <2>1
<1>6. Known(Len(mem))
  BY <1>5
<1>7. Stands(org, 1, Copied)
  BY <1>2 DEF Stands, IsNode
<1>8. Len(mem) >= 1 /\ Copied + Len(mem) >= Len(mem) + 2
  BY <1>2 DEF Copied, Copies
<1>9. 1 \in Compared /\ Copied \in Compared
  BY ComparedFacts
<1>10. alike[Len(mem)][<<1, Copied>>]
  <2> PICK n, c : n = Len(mem) /\ c = Copied
    OBVIOUS
  <2> QED
    BY <1>2, <1>6, <1>7, <1>8, <1>9
<1> QED
  BY <1>10

\* What Copy answers equals what it was given, all the way down
\* (src/kit/deepcopy.go:83-115), whatever the value is, for maps that have no key with
\* something inside but what a pointer or an interface leads to.
THEOREM EqualCorrect == Spec => []CopyIsEqual
<1>1. CopyInv => CopyIsEqual
  BY CopyInvIsEqual
<1> QED
  BY <1>1, CopyInvHolds, PTL
=============================================================================
