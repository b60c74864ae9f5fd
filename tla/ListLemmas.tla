----------------------------- MODULE ListLemmas -----------------------------
(***************************************************************************)
(* Facts about numbers and sequences that the proofs of the components     *)
(* share: induction and recursion over the natural numbers, stated with    *)
(* sets and functions, and what follows for FlattenSeq.                    *)
(***************************************************************************)
EXTENDS Integers, SequencesExt, SequenceTheorems, WellFoundedInduction, TLAPS

-----------------------------------------------------------------------------
(* Numbers.                                                                *)

\* A nonempty set of natural numbers has a least element.
LEMMA LeastNumber ==
  ASSUME NEW T \in SUBSET Nat, T # {}
  PROVE  \E n \in T : \A m \in T : n <= m
<1> DEFINE Less == {p \in Nat \X Nat : p[1] < p[2]}
<1>1. IsWellFoundedOn(Less, Nat)
  BY NatLessThanWellFounded DEF OpToRel
<1> HIDE DEF Less
<1>2. PICK n \in T : \A m \in T : ~ (<<m, n>> \in Less)
  BY <1>1, WFMin
<1>3. \A m \in T : ~ (m < n)
  BY <1>2 DEF Less
<1> QED
  BY <1>3

\* A set that holds 0 and, with each number, the next one holds them all.
LEMMA Induction ==
  ASSUME NEW T, 0 \in T, \A n \in Nat : n \in T => n + 1 \in T
  PROVE  Nat \subseteq T
<1> SUFFICES ASSUME Nat \ T # {} PROVE FALSE
  OBVIOUS
<1>1. PICK n \in Nat \ T : \A m \in Nat \ T : n <= m
  BY LeastNumber
<1>2. n # 0 /\ n - 1 \in Nat
  OBVIOUS
<1>3. n - 1 \in T
  BY <1>1, <1>2
<1> QED
  BY <1>2, <1>3

\* The same up to a bound.
LEMMA InductionUpTo ==
  ASSUME NEW T, NEW a \in Int, NEW b \in Int, a <= b => a \in T,
         \A n \in a .. b : n \in T /\ n < b => n + 1 \in T
  PROVE  a .. b \subseteq T
<1> DEFINE U == {n \in Nat : a + n <= b => a + n \in T}
<1>1. 0 \in U
  OBVIOUS
<1>2. ASSUME NEW n \in Nat, n \in U
      PROVE  n + 1 \in U
  <2> SUFFICES ASSUME a + (n + 1) <= b PROVE a + (n + 1) \in T
    OBVIOUS
  <2>1. a + n \in a .. b /\ a + n < b /\ a + n \in T
    BY <1>2
  <2>2. (a + n) + 1 \in T
    BY <2>1
  <2> QED
    BY <2>2
<1> HIDE DEF U
<1>3. Nat \subseteq U
  BY <1>1, <1>2, Induction
<1>4. ASSUME NEW m \in a .. b
      PROVE  m \in T
  <2>1. m - a \in Nat /\ a + (m - a) = m
    OBVIOUS
  <2>2. m - a \in U
    BY <1>3, <2>1
  <2> QED
    BY <2>1, <2>2 DEF U
<1> QED
  BY <1>4

\* f starts with c and goes on from k - 1 to k as g says.
Follows(f, n, c, g) == f[0] = c /\ \A k \in 1 .. n : f[k] = g[<<k, f[k - 1]>>]

\* A function that is given by its first value and a step exists.
LEMMA Recursion ==
  ASSUME NEW V, NEW n \in Nat, NEW c \in V, NEW g \in [(1 .. n) \X V -> V]
  PROVE  \E f \in [0 .. n -> V] : Follows(f, n, c, g)
<1> DEFINE T == {m \in Nat : m <= n => \E f \in [0 .. m -> V] : Follows(f, m, c, g)}
<1>1. 0 \in T
  <2>1. [k \in 0 .. 0 |-> c] \in [0 .. 0 -> V] /\ Follows([k \in 0 .. 0 |-> c], 0, c, g)
    BY DEF Follows
  <2> QED
    BY <2>1
<1>2. ASSUME NEW m \in Nat, m \in T
      PROVE  m + 1 \in T
  <2> SUFFICES ASSUME m + 1 <= n
               PROVE  \E f \in [0 .. (m + 1) -> V] : Follows(f, m + 1, c, g)
    OBVIOUS
  <2>1. PICK f \in [0 .. m -> V] : Follows(f, m, c, g)
    BY <1>2
  <2> DEFINE h == [k \in 0 .. (m + 1) |->
                     IF k <= m THEN f[k] ELSE g[<<m + 1, f[m]>>]]
  <2>2. g[<<m + 1, f[m]>>] \in V
    OBVIOUS
  <2>3. h \in [0 .. (m + 1) -> V]
    BY <2>2
  <2>4. h[0] = c
    BY <2>1 DEF Follows
  <2>5. ASSUME NEW k \in 1 .. (m + 1)
        PROVE  h[k] = g[<<k, h[k - 1]>>]
    <3>1. CASE k <= m
      BY <2>1, <3>1 DEF Follows
    <3>2. CASE k = m + 1
      <4>1. k - 1 = m /\ ~ (k <= m) /\ k - 1 \in 0 .. (m + 1) /\ k \in 0 .. (m + 1)
        BY <3>2
      <4>2. h[k - 1] = f[m] /\ h[k] = g[<<m + 1, f[m]>>]
        BY <4>1
      <4> QED
        BY <3>2, <4>2
    <3> QED
      BY <3>1, <3>2
  <2> HIDE DEF h
  <2> QED
    BY <2>3, <2>4, <2>5 DEF Follows
<1> HIDE DEF T
<1>3. n \in T
  BY <1>1, <1>2, Induction
<1> QED
  BY <1>3 DEF T

-----------------------------------------------------------------------------
(* Sequences of sequences.                                                 *)

\* What FlattenSeq computes: f[i] is the first i members of s, one behind the other.
Flattening(f, s) ==
  f = [i \in 1 .. Len(s) |-> IF i = 1 THEN s[i] ELSE f[i - 1] \o s[i]]

LEMMA FlatteningExists ==
  ASSUME NEW S, NEW s \in Seq(Seq(S)), s # <<>>
  PROVE  \E f \in [1 .. Len(s) -> Seq(S)] : Flattening(f, s)
<1> DEFINE n == Len(s)
           g == [p \in (1 .. n) \X Seq(S) |-> p[2] \o s[p[1]]]
<1>1. n \in Nat /\ <<>> \in Seq(S)
  BY LenProperties
<1>2. g \in [(1 .. n) \X Seq(S) -> Seq(S)]
  BY ElementOfSeq, ConcatProperties
<1>3. PICK f \in [0 .. n -> Seq(S)] : Follows(f, n, <<>>, g)
  <2> HIDE DEF g, n
  <2> QED
    BY <1>1, <1>2, Recursion
<1>4. ASSUME NEW k \in 1 .. n
      PROVE  f[k] = f[k - 1] \o s[k]
  <2>1. k - 1 \in 0 .. n /\ k \in 1 .. n
    BY <1>1
  <2>2. f[k - 1] \in Seq(S)
    BY <2>1
  <2>3. f[k] = g[<<k, f[k - 1]>>]
    <3> HIDE DEF g, n
    <3> QED
      BY <1>3, <2>1 DEF Follows
  <2> QED
    BY <2>1, <2>2, <2>3
<1> DEFINE h == [i \in 1 .. n |-> f[i]]
<1>5. h \in [1 .. n -> Seq(S)]
  BY <1>1
<1>6. ASSUME NEW i \in 1 .. n
      PROVE  h[i] = IF i = 1 THEN s[i] ELSE h[i - 1] \o s[i]
  <2>1. CASE i = 1
    <3>1. f[i] = f[0] \o s[i] /\ f[0] = <<>>
      <4>1. i - 1 = 0
        BY <2>1
      <4>2. f[0] = <<>>
        BY <1>3 DEF Follows
      <4>3. f[i] = f[i - 1] \o s[i]
        BY <1>4
      <4> QED
        BY <4>1, <4>2, <4>3
    <3>2. s[i] \in Seq(S)
      BY ElementOfSeq
    <3> QED
      BY <2>1, <3>1, <3>2, ConcatEmptySeq
  <2>2. CASE i # 1
    <3>1. i - 1 \in 1 .. n
      BY <1>1, <2>2
    <3>2. f[i] = f[i - 1] \o s[i]
      BY <1>4
    <3> QED
      BY <2>2, <3>1, <3>2
  <2> QED
    BY <2>1, <2>2
<1> HIDE DEF h
<1>7. Flattening(h, s)
  BY <1>5, <1>6 DEF Flattening
<1> QED
  BY <1>5, <1>7

LEMMA FlattenValue ==
  ASSUME NEW s, Len(s) # 0, NEW g, Flattening(g, s)
  PROVE  \E f : Flattening(f, s) /\ FlattenSeq(s) = f[Len(s)]
BY DEF FlattenSeq, Flattening

\* f and g are the same from 1 to n.
Agree(f, g, n) == \A i \in 1 .. n : f[i] = g[i]

\* Two of them agree as far as the sequences do.
LEMMA FlatteningsAgree ==
  ASSUME NEW s, NEW t, Len(s) \in Nat, Len(t) \in Nat, NEW f, NEW g,
         Flattening(f, s), Flattening(g, t), Len(s) <= Len(t),
         Agree(s, t, Len(s))
  PROVE  Agree(f, g, Len(s))
<1> DEFINE T == {i \in 1 .. Len(s) : f[i] = g[i]}
<1>2. \A i \in 1 .. Len(s) : f[i] = IF i = 1 THEN s[i] ELSE f[i - 1] \o s[i]
  BY DEF Flattening
<1>3. \A i \in 1 .. Len(t) : g[i] = IF i = 1 THEN t[i] ELSE g[i - 1] \o t[i]
  BY DEF Flattening
<1>4. 1 <= Len(s) => 1 \in T
  BY <1>2, <1>3 DEF Agree
<1>5. ASSUME NEW i \in 1 .. Len(s), i \in T, i < Len(s)
      PROVE  i + 1 \in T
  <2>1. i + 1 \in 1 .. Len(s) /\ i + 1 \in 1 .. Len(t) /\ i + 1 # 1 /\ (i + 1) - 1 = i
    BY <1>5
  <2>2. f[i + 1] = f[i] \o s[i + 1] /\ g[i + 1] = g[i] \o t[i + 1]
    BY <1>2, <1>3, <2>1
  <2> QED
    BY <1>5, <2>1, <2>2 DEF Agree
<1> HIDE DEF T
<1>6. 1 .. Len(s) \subseteq T
  <2>1. 1 \in Int /\ Len(s) \in Int
    OBVIOUS
  <2>2. \A i \in 1 .. Len(s) : i \in T /\ i < Len(s) => i + 1 \in T
    BY <1>5
  <2> QED
    BY <1>4, <2>1, <2>2, InductionUpTo
<1> QED
  BY <1>6 DEF T, Agree

\* Three sequences in a row, without the meaning of the row.
Regroups(s, t, u) == (s \o t) \o u = s \o (t \o u)

LEMMA Regrouping ==
  ASSUME NEW S, NEW s \in Seq(S), NEW t \in Seq(S), NEW u \in Seq(S)
  PROVE  Regroups(s, t, u)
BY ConcatAssociative DEF Regroups

LEMMA FlattenEmpty == FlattenSeq(<<>>) = <<>>
BY DEF FlattenSeq

LEMMA FlattenOne ==
  ASSUME NEW S, NEW e \in Seq(S)
  PROVE  FlattenSeq(<<e>>) = e
<1>1. Len(<<e>>) = 1 /\ <<e>> \in Seq(Seq(S)) /\ <<e>> # <<>>
  OBVIOUS
<1> DEFINE s == <<e>>
<1>2. PICK f : Flattening(f, s) /\ FlattenSeq(s) = f[1]
  <2>1. Len(s) # 0 /\ Len(s) = 1
    BY <1>1
  <2> HIDE DEF s
  <2>2. PICK g \in [1 .. Len(s) -> Seq(S)] : Flattening(g, s)
    BY <1>1, FlatteningExists DEF s
  <2> QED
    BY <2>1, <2>2, FlattenValue
<1> QED
  BY <1>1, <1>2 DEF Flattening

LEMMA FlattenType ==
  ASSUME NEW S, NEW s \in Seq(Seq(S))
  PROVE  FlattenSeq(s) \in Seq(S)
<1>1. CASE s = <<>>
  <2>1. FlattenSeq(s) = <<>>
    BY <1>1, FlattenEmpty
  <2> QED
    BY <2>1
<1>2. CASE s # <<>>
  <2>1. Len(s) \in Nat \ {0}
    BY <1>2, LenProperties, EmptySeq
  <2>2. PICK g \in [1 .. Len(s) -> Seq(S)] : Flattening(g, s)
    BY <1>2, FlatteningExists
  <2>3. PICK f : Flattening(f, s) /\ FlattenSeq(s) = f[Len(s)]
    BY <2>1, <2>2, FlattenValue
  <2>4. f[Len(s)] = g[Len(s)]
    BY <2>1, <2>2, <2>3, FlatteningsAgree DEF Agree
  <2>5. g[Len(s)] \in Seq(S)
    <3>1. Len(s) \in 1 .. Len(s)
      BY <2>1
    <3> QED
      BY <2>2, <3>1
  <2> QED
    BY <2>3, <2>4, <2>5
<1> QED
  BY <1>1, <1>2

LEMMA FlattenAppend ==
  ASSUME NEW S, NEW s \in Seq(Seq(S)), NEW e \in Seq(S)
  PROVE  FlattenSeq(Append(s, e)) = FlattenSeq(s) \o e
<1> DEFINE t == Append(s, e)
           n == Len(s)
<1>1. /\ t \in Seq(Seq(S)) /\ t # <<>> /\ Len(t) = n + 1 /\ n \in Nat
      /\ t[n + 1] = e /\ \A i \in 1 .. n : s[i] = t[i]
  BY AppendProperties, LenProperties
<1> HIDE DEF t
<1>2. CASE s = <<>>
  <2>1. t = <<e>>
    BY <1>2 DEF t
  <2> QED
    BY <1>2, <2>1, FlattenOne, FlattenEmpty, ConcatEmptySeq DEF t
<1>3. CASE s # <<>>
  <2>1. n # 0
    BY <1>3, EmptySeq
  <2>2. PICK f : Flattening(f, s) /\ FlattenSeq(s) = f[n]
    BY <1>3, <2>1, FlatteningExists, FlattenValue
  <2>3. PICK g : Flattening(g, t) /\ FlattenSeq(t) = g[n + 1]
    <3>1. Len(t) # 0
      BY <1>1
    <3> QED
      BY <1>1, <3>1, FlatteningExists, FlattenValue
  <2>4. f[n] = g[n]
    <3>1. Agree(f, g, n)
      <4>1. Len(t) \in Nat /\ Len(s) <= Len(t) /\ Len(s) \in Nat
        BY <1>1
      <4>2. Agree(s, t, Len(s))
        BY <1>1 DEF Agree
      <4>3. Flattening(f, s) /\ Flattening(g, t)
        BY <2>2, <2>3
      <4> QED
        BY <4>1, <4>2, <4>3, FlatteningsAgree
    <3> QED
      BY <1>1, <2>1, <3>1 DEF Agree
  <2>5. g[n + 1] = g[n] \o t[n + 1]
    <3>1. n + 1 \in 1 .. Len(t) /\ n + 1 # 1 /\ (n + 1) - 1 = n
      BY <1>1, <2>1
    <3>2. \A i \in 1 .. Len(t) : g[i] = IF i = 1 THEN t[i] ELSE g[i - 1] \o t[i]
      BY <2>3 DEF Flattening
    <3> QED
      BY <3>1, <3>2
  <2> QED
    BY <1>1, <2>2, <2>3, <2>4, <2>5 DEF t
<1> QED
  BY <1>2, <1>3

LEMMA FlattenConcat ==
  ASSUME NEW S, NEW s \in Seq(Seq(S)), NEW t \in Seq(Seq(S))
  PROVE  FlattenSeq(s \o t) = FlattenSeq(s) \o FlattenSeq(t)
<1> DEFINE T == {n \in Nat : \A u \in Seq(Seq(S)) :
                   Len(u) = n => FlattenSeq(s \o u) = FlattenSeq(s) \o FlattenSeq(u)}
<1>1. FlattenSeq(s) \in Seq(S)
  BY FlattenType
<1>2. 0 \in T
  <2> SUFFICES ASSUME NEW u \in Seq(Seq(S)), Len(u) = 0
               PROVE  FlattenSeq(s \o u) = FlattenSeq(s) \o FlattenSeq(u)
    OBVIOUS
  <2>1. u = <<>> /\ s \o u = s
    BY EmptySeq, ConcatEmptySeq
  <2>2. FlattenSeq(u) = <<>>
    BY <2>1, FlattenEmpty
  <2> QED
    BY <1>1, <2>1, <2>2, ConcatEmptySeq
<1>3. ASSUME NEW n \in Nat, n \in T
      PROVE  n + 1 \in T
  <2> SUFFICES ASSUME NEW u \in Seq(Seq(S)), Len(u) = n + 1
               PROVE  FlattenSeq(s \o u) = FlattenSeq(s) \o FlattenSeq(u)
    OBVIOUS
  <2>1. u # <<>>
    BY EmptySeq
  <2>2. PICK v \in Seq(Seq(S)), e \in Seq(S) : u = Append(v, e)
    BY <2>1, SequenceEmptyOrAppend
  <2>3. Len(v) = n
    BY <2>2, AppendProperties, LenProperties
  <2>4. FlattenSeq(s \o v) = FlattenSeq(s) \o FlattenSeq(v)
    BY <1>3, <2>3
  <2>5. s \o u = Append(s \o v, e) /\ s \o v \in Seq(Seq(S))
    <3> DEFINE one == <<e>>
    <3>1. one \in Seq(Seq(S)) /\ u = v \o one
      BY <2>2, AppendIsConcat
    <3>2. s \o v \in Seq(Seq(S))
      BY <2>2, ConcatProperties
    <3>3. Append(s \o v, e) = (s \o v) \o one
      BY <3>2, AppendIsConcat
    <3> HIDE DEF one
    <3>4. Regroups(s, v, one)
      BY <2>2, <3>1, Regrouping
    <3> QED
      BY ONLY <3>1, <3>2, <3>3, <3>4 DEF Regroups
  <2>6. FlattenSeq(Append(s \o v, e)) = FlattenSeq(s \o v) \o e
    BY <2>5, FlattenAppend
  <2>7. FlattenSeq(u) = FlattenSeq(v) \o e /\ FlattenSeq(v) \in Seq(S)
    BY <2>2, FlattenAppend, FlattenType
  <2>8. e \in Seq(S)
    OBVIOUS
  <2>9. (FlattenSeq(s) \o FlattenSeq(v)) \o e = FlattenSeq(s) \o (FlattenSeq(v) \o e)
    <3> DEFINE a == FlattenSeq(s)
               b == FlattenSeq(v)
    <3>1. a \in Seq(S) /\ b \in Seq(S)
      BY <1>1, <2>7
    <3> HIDE DEF a, b
    <3>2. (a \o b) \o e = a \o (b \o e)
      <4>1. Regroups(a, b, e)
        BY <2>8, <3>1, Regrouping
      <4> QED
        BY ONLY <4>1 DEF Regroups
    <3> QED
      BY <3>2 DEF a, b
  <2> QED
    BY <2>4, <2>5, <2>6, <2>7, <2>9
<1> HIDE DEF T
<1>4. Nat \subseteq T
  BY <1>2, <1>3, Induction
<1>5. Len(t) \in T
  BY <1>4, LenProperties
<1> QED
  BY <1>5 DEF T

-----------------------------------------------------------------------------
(* The members of a sequence.                                              *)

LEMMA MembersOfConcat ==
  ASSUME NEW S, NEW s \in Seq(S), NEW t \in Seq(S)
  PROVE  ToSet(s \o t) = ToSet(s) \cup ToSet(t)
<1>1. /\ DOMAIN s = 1 .. Len(s) /\ DOMAIN t = 1 .. Len(t) /\ Len(s) \in Nat /\ Len(t) \in Nat
      /\ DOMAIN (s \o t) = 1 .. Len(s) + Len(t)
      /\ \A i \in 1 .. Len(s) + Len(t) :
            (s \o t)[i] = IF i <= Len(s) THEN s[i] ELSE t[i - Len(s)]
  BY LenProperties, ConcatProperties
<1>2. ASSUME NEW e \in ToSet(s \o t)
      PROVE  e \in ToSet(s) \cup ToSet(t)
  <2>1. PICK i \in 1 .. Len(s) + Len(t) : (s \o t)[i] = e
    BY <1>1 DEF ToSet
  <2>2. CASE i <= Len(s)
    BY <1>1, <2>1, <2>2 DEF ToSet
  <2>3. CASE i > Len(s)
    <3>1. i - Len(s) \in DOMAIN t /\ t[i - Len(s)] = e
      BY <1>1, <2>1, <2>3
    <3> QED
      BY <3>1 DEF ToSet
  <2> QED
    BY <1>1, <2>1, <2>2, <2>3
<1>3. ToSet(s) \subseteq ToSet(s \o t)
  <2>1. ASSUME NEW i \in DOMAIN s
        PROVE  i \in DOMAIN (s \o t) /\ (s \o t)[i] = s[i]
    BY <1>1
  <2> QED
    BY <2>1 DEF ToSet
<1>4. ToSet(t) \subseteq ToSet(s \o t)
  <2>1. ASSUME NEW i \in DOMAIN t
        PROVE  i + Len(s) \in DOMAIN (s \o t) /\ (s \o t)[i + Len(s)] = t[i]
    BY <1>1
  <2> QED
    BY <2>1 DEF ToSet
<1> QED
  BY <1>2, <1>3, <1>4

LEMMA MembersOfAppend ==
  ASSUME NEW S, NEW s \in Seq(S), NEW e \in S
  PROVE  ToSet(Append(s, e)) = ToSet(s) \cup {e}
<1> DEFINE t == <<e>>
<1>1. Append(s, e) = s \o t /\ t \in Seq(S) /\ ToSet(t) = {e}
  BY AppendIsConcat DEF ToSet
<1> HIDE DEF t
<1>2. ToSet(s \o t) = ToSet(s) \cup ToSet(t)
  BY <1>1, MembersOfConcat
<1> QED
  BY <1>1, <1>2

LEMMA MembersOfTail ==
  ASSUME NEW S, NEW s \in Seq(S), s # <<>>
  PROVE  ToSet(s) = {Head(s)} \cup ToSet(Tail(s))
<1>1. /\ Len(s) \in Nat \ {0} /\ DOMAIN s = 1 .. Len(s) /\ Head(s) = s[1]
      /\ DOMAIN Tail(s) = 1 .. Len(s) - 1 /\ \A i \in 1 .. Len(s) - 1 : Tail(s)[i] = s[i + 1]
  BY LenProperties, EmptySeq, HeadTailProperties
<1>2. ASSUME NEW i \in DOMAIN s
      PROVE  i = 1 \/ (i - 1 \in DOMAIN Tail(s) /\ Tail(s)[i - 1] = s[i])
  BY <1>1
<1>3. ASSUME NEW i \in DOMAIN Tail(s)
      PROVE  i + 1 \in DOMAIN s /\ Tail(s)[i] = s[i + 1]
  BY <1>1
<1>4. 1 \in DOMAIN s /\ Head(s) = s[1]
  BY <1>1
<1> DEFINE h == Head(s)
           t == Tail(s)
<1> HIDE DEF h, t
<1>5. \A i \in DOMAIN s : s[i] \in {h} \cup ToSet(t)
  BY <1>2, <1>4 DEF ToSet, h, t
<1>6. h \in ToSet(s) /\ \A i \in DOMAIN t : t[i] \in ToSet(s)
  BY <1>3, <1>4 DEF ToSet, h, t
<1>7. ToSet(s) = {h} \cup ToSet(t)
  BY <1>5, <1>6 DEF ToSet
<1> QED
  BY <1>7 DEF h, t

LEMMA FlattenMembers ==
  ASSUME NEW S, NEW s \in Seq(Seq(S))
  PROVE  ToSet(FlattenSeq(s)) = UNION {ToSet(s[i]) : i \in DOMAIN s}
<1> DEFINE T == {n \in Nat : \A u \in Seq(Seq(S)) :
                   Len(u) = n => ToSet(FlattenSeq(u)) = UNION {ToSet(e) : e \in ToSet(u)}}
<1>1. 0 \in T
  <2> SUFFICES ASSUME NEW u \in Seq(Seq(S)), Len(u) = 0
               PROVE  ToSet(FlattenSeq(u)) = UNION {ToSet(e) : e \in ToSet(u)}
    OBVIOUS
  <2>1. u = <<>>
    BY EmptySeq
  <2>2. FlattenSeq(u) = <<>> /\ ToSet(u) = {} /\ ToSet(<<>>) = {}
    BY <2>1, FlattenEmpty DEF ToSet
  <2> QED
    BY <2>2
<1>2. ASSUME NEW n \in Nat, n \in T
      PROVE  n + 1 \in T
  <2> SUFFICES ASSUME NEW u \in Seq(Seq(S)), Len(u) = n + 1
               PROVE  ToSet(FlattenSeq(u)) = UNION {ToSet(e) : e \in ToSet(u)}
    OBVIOUS
  <2> u # <<>>
    BY EmptySeq
  <2>1. PICK v \in Seq(Seq(S)), e \in Seq(S) : u = Append(v, e)
    BY SequenceEmptyOrAppend
  <2>2. Len(v) = n
    BY <2>1, AppendProperties, LenProperties
  <2>3. ToSet(FlattenSeq(v)) = UNION {ToSet(a) : a \in ToSet(v)}
    BY <1>2, <2>2
  <2>4. FlattenSeq(u) = FlattenSeq(v) \o e /\ FlattenSeq(v) \in Seq(S)
    BY <2>1, FlattenAppend, FlattenType
  <2>5. ToSet(FlattenSeq(u)) = ToSet(FlattenSeq(v)) \cup ToSet(e)
    BY <2>4, MembersOfConcat
  <2>6. ToSet(u) = ToSet(v) \cup {e}
    BY <2>1, MembersOfAppend
  <2> QED
    BY <2>3, <2>5, <2>6
<1> HIDE DEF T
<1>3. Nat \subseteq T
  BY <1>1, <1>2, Induction
<1>4. Len(s) \in T
  BY <1>3, LenProperties
<1>5. ToSet(FlattenSeq(s)) = UNION {ToSet(e) : e \in ToSet(s)}
  BY <1>4 DEF T
<1>6. \A e : e \in ToSet(s) <=> \E i \in DOMAIN s : e = s[i]
  BY DEF ToSet
<1> QED
  BY <1>5, <1>6

-----------------------------------------------------------------------------
(* What a function makes of each member of a sequence, one behind the      *)
(* other.                                                                  *)

Images(F, s) == [k \in DOMAIN s |-> F[s[k]]]

\* F makes a sequence over S of each element of A.
Maps(F, A, S) == F \in [A -> Seq(S)]

LEMMA ImagesType ==
  ASSUME NEW A, NEW B, NEW F \in [A -> B], NEW s \in Seq(A)
  PROVE  Images(F, s) \in Seq(B)
<1>1. DOMAIN s = 1 .. Len(s) /\ Len(s) \in Nat
  BY LenProperties
<1>2. \A k \in 1 .. Len(s) : F[s[k]] \in B
  BY ElementOfSeq
<1> QED
  BY <1>1, <1>2, IsASeq DEF Images

LEMMA FlatImagesType ==
  ASSUME NEW A, NEW S, NEW F, Maps(F, A, S), NEW s \in Seq(A)
  PROVE  FlattenSeq(Images(F, s)) \in Seq(S)
<1>1. Images(F, s) \in Seq(Seq(S))
  BY ImagesType DEF Maps
<1> QED
  BY <1>1, FlattenType

LEMMA FlatImagesEmpty ==
  ASSUME NEW F
  PROVE  FlattenSeq(Images(F, <<>>)) = <<>>
<1>1. Images(F, <<>>) = <<>>
  BY DEF Images
<1> QED
  BY <1>1, FlattenEmpty

LEMMA FlatImagesOne ==
  ASSUME NEW A, NEW S, NEW F, Maps(F, A, S), NEW e \in A
  PROVE  FlattenSeq(Images(F, <<e>>)) = F[e]
<1>1. Images(F, <<e>>) = <<F[e]>>
  BY DEF Images
<1>2. F[e] \in Seq(S)
  BY DEF Maps
<1> QED
  BY <1>1, <1>2, FlattenOne

LEMMA FlatImagesConcat ==
  ASSUME NEW A, NEW S, NEW F, Maps(F, A, S), NEW s \in Seq(A), NEW t \in Seq(A)
  PROVE  FlattenSeq(Images(F, s \o t)) =
           FlattenSeq(Images(F, s)) \o FlattenSeq(Images(F, t))
<1> DEFINE u == Images(F, s)
           v == Images(F, t)
           w == Images(F, s \o t)
<1>1. s \o t \in Seq(A) /\ Len(s) \in Nat /\ Len(t) \in Nat
  BY ConcatProperties, LenProperties
<1>2. u \in Seq(Seq(S)) /\ v \in Seq(Seq(S)) /\ w \in Seq(Seq(S))
  BY <1>1, ImagesType DEF Maps
<1>3. Len(u) = Len(s) /\ Len(v) = Len(t) /\ Len(w) = Len(s) + Len(t)
  BY <1>1, ConcatProperties DEF Images
<1>4. ASSUME NEW k \in 1 .. Len(w)
      PROVE  w[k] = (u \o v)[k]
  <2>1. w[k] = F[(s \o t)[k]]
    BY <1>1, <1>3, ConcatProperties DEF Images
  <2>2. CASE k <= Len(s)
    <3>1. (s \o t)[k] = s[k] /\ (u \o v)[k] = u[k] /\ u[k] = F[s[k]]
      BY <1>1, <1>2, <1>3, <2>2, ConcatProperties DEF Images
    <3> QED
      BY <2>1, <3>1
  <2>3. CASE k > Len(s)
    <3>1. k - Len(s) \in 1 .. Len(t)
      BY <1>1, <1>3, <2>3
    <3>2. (s \o t)[k] = t[k - Len(s)]
      BY <1>1, <1>3, <2>3, ConcatProperties
    <3>4. (u \o v)[k] = v[k - Len(s)]
      <4> HIDE DEF u, v, w
      <4>1. k \in 1 .. Len(u) + Len(v) /\ ~ (k <= Len(u))
        BY <1>1, <1>3, <2>3
      <4>2. (u \o v)[k] = v[k - Len(u)]
        BY <1>2, <4>1, ConcatProperties
      <4> QED
        BY <1>3, <4>2
    <3>3. v[k - Len(s)] = F[t[k - Len(s)]]
      BY <3>1 DEF Images
    <3> QED
      BY <2>1, <3>2, <3>3, <3>4
  <2> QED
    BY <1>1, <1>3, <2>2, <2>3
<1> HIDE DEF u, v, w
<1>5. u \o v \in Seq(Seq(S)) /\ Len(u \o v) = Len(w)
  <2>1. u \o v \in Seq(Seq(S)) /\ Len(u \o v) = Len(u) + Len(v)
    BY <1>2, ConcatProperties
  <2> QED
    BY <1>3, <2>1
<1>6. w = u \o v
  BY <1>2, <1>4, <1>5, SeqEqual
<1>7. FlattenSeq(w) = FlattenSeq(u) \o FlattenSeq(v)
  BY <1>2, <1>6, FlattenConcat
<1> QED
  BY <1>7 DEF u, v, w
=============================================================================
