----------------------------- MODULE MCDeepCopy -----------------------------
(* Every heap of up to three nodes that a Go program can build.            *)
EXTENDS DeepCopy

Owners  == {"struct", "array", "copier", "iface"}
Flat    == {Zero, -3}

Node(kind, kids, hidden) == [kind |-> kind, kids |-> kids, hidden |-> hidden]

\* What node n of a heap may be.  A part comes after what it is a part of, the
\* elements of a slice stand in a row.
NodesAt(n, size) ==
    LET part  == {-3} \cup n + 1 .. size
        any   == 2 .. size
        withNaN == IF n = 1 THEN {} ELSE {<<NaN>>, <<NaN, -3>>}
        few(s) == {<<>>} \cup {<<p>> : p \in s} \cup {<<p, q>> : p, q \in s}
    IN  {Node("zero", <<>>, {}), Node("scalar", <<>>, {})}
        \cup {Node("ptr", <<p>>, {}) : p \in any}
        \cup {Node("iface", <<p>>, {}) : p \in part}
        \cup {Node("slice", s, {}) : s \in {s \in few(any) : Len(s) = 2 => s[1] < s[2]}}
        \cup {Node(kind, s, {}) : kind \in {"array", "copier"}, s \in {<<p>> : p \in part}}
        \cup UNION {{Node("struct", s, h) : h \in SUBSET DOMAIN s} : s \in {<<Zero>>} \cup few(part) \cup withNaN}
        \cup {Node("map", <<>>, {})}
        \cup {Node("map", <<k, v>>, {}) : k \in {NilIface, NaN} \cup Flat \cup any, v \in Flat \cup any}
        \cup {Node("map", <<k[1], v, k[2], w>>, {}) :
                 k \in IF n > 1 THEN {}
                      ELSE {<<NilIface, -3>>, <<NaN, NaN>>, <<NaN, -3>>, <<-3, -4>>} \cup {<<p, q>> \in any \X any : p < q},
                 v \in Flat \cup any, w \in Flat \cup any}

KindOf(heap, place) ==
    IF IsNode(place) THEN heap[place].kind ELSE IF place = Zero THEN "zero" ELSE "scalar"

OneType(heap, places) == Cardinality({KindOf(heap, p) : p \in places} \ {"zero"}) <= 1

\* A part has one owner, except that two maps may be one table; what a map or
\* an interface holds has no address; elements, and the values of a map, have
\* one type; keys can be compared; an interface holds no interface; the value
\* itself is out of its interface.
WellFormed(heap) ==
    LET nodes     == DOMAIN heap
        of(kinds) == {n \in nodes : heap[n].kind \in kinds}
        kids(n)   == heap[n].kids
        inside(n) == Inside(heap[n])
        addressed == UNION {inside(n) : n \in of({"ptr", "slice"})}
        more(s)   == s \cup UNION {inside(n) : n \in s}
    IN  /\ heap[1].kind # "iface"
        /\ more(more({1})) = nodes
        /\ \A n \in of(Owners \cup {"map"}) : \A i, j \in DOMAIN kids(n) :
              i # j /\ kids(n)[i] = kids(n)[j] => ~IsNode(kids(n)[i])
        /\ \A m, n \in of(Owners \cup {"map"}) :
              m # n /\ inside(m) \cap inside(n) # {} =>
                 {heap[m].kind, heap[n].kind} = {"map"} /\ kids(m) = kids(n)
        /\ \A n \in of({"map", "iface"}) : inside(n) \cap addressed = {}
        /\ \A n \in of({"iface"}) : KindOf(heap, kids(n)[1]) \notin {"iface", "zero"}
        /\ \A n \in of({"slice"}) : OneType(heap, inside(n))
        /\ \A n \in of({"map"}) :
              /\ OneType(heap, {e[2] : e \in Entries(heap[n])})
              /\ \A e, f \in Entries(heap[n]) : e # f /\ IsNode(e[1]) /\ IsNode(f[1]) =>
                    e[1] # f[1] /\ (heap[e[1]].kind = "struct" => heap[e[1]] # heap[f[1]])
              /\ \A e \in Entries(heap[n]) : IsNode(e[1]) =>
                    /\ heap[e[1]].kind \in {"ptr", "struct"}
                    /\ heap[e[1]].kind = "struct" => inside(e[1]) = {}

WellFormedHeaps ==
    {heap \in {<<a>> : a \in NodesAt(1, 1)} : WellFormed(heap)}
    \cup {heap \in NodesAt(1, 2) \X NodesAt(2, 2) : WellFormed(heap)}
    \cup {heap \in NodesAt(1, 3) \X NodesAt(2, 3) \X NodesAt(3, 3) : WellFormed(heap)}

\* By this name TLC takes them for the constant, and makes them once.
SmallHeaps == WellFormedHeaps
=============================================================================
