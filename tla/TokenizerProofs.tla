-------------------------- MODULE TokenizerProofs --------------------------
(***************************************************************************)
(* TextIsKept for any texts and any schemas, and the ends of the loops.    *)
(***************************************************************************)
EXTENDS Tokenizer, ListLemmas, FiniteSetTheorems

-----------------------------------------------------------------------------
(* Symbols and their places.                                               *)

Symbols == STRING \cup {NUL}

LEMMA AtFacts ==
  ASSUME NEW s \in Seq(Symbols), NEW p \in Int
  PROVE  /\ At(s, p) \in Symbols
         /\ At(s, p) # NUL => p \in 0 .. Len(s) - 1
         /\ p \in 0 .. Len(s) - 1 => At(s, p) = s[p + 1]
         /\ p >= Len(s) => At(s, p) = NUL
         /\ p < 0 => At(s, p) = NUL
<1>1. Len(s) \in Nat
  BY LenProperties
<1>2. ASSUME p \in 0 .. Len(s) - 1
      PROVE  At(s, p) = s[p + 1] /\ s[p + 1] \in Symbols
  <2>1. p + 1 \in 1 .. Len(s)
    BY <1>1, <1>2
  <2> QED
    BY <1>2, <2>1, ElementOfSeq DEF At
<1>3. p \notin 0 .. Len(s) - 1 => At(s, p) = NUL
  BY DEF At
<1>4. NUL \in Symbols
  BY DEF Symbols
<1> QED
  BY <1>1, <1>2, <1>3, <1>4

\* A nonempty set of places has a first one.
LEMMA FirstPlace ==
  ASSUME NEW a \in Int, NEW b \in Int, NEW P \in SUBSET (a .. b), P # {}
  PROVE  Min(P) \in P /\ \A p \in P : Min(P) <= p
<1> DEFINE T == {n \in Nat : a + n \in P}
<1>1. T # {}
  <2>1. PICK p \in P : TRUE
    OBVIOUS
  <2>2. p - a \in Nat /\ a + (p - a) = p
    OBVIOUS
  <2> QED
    BY <2>1, <2>2
<1>2. PICK n \in T : \A m \in T : n <= m
  BY <1>1, LeastNumber
<1>3. \A p \in P : a + n <= p
  <2> SUFFICES ASSUME NEW p \in P PROVE a + n <= p
    OBVIOUS
  <2>1. p - a \in T
    OBVIOUS
  <2> QED
    BY <1>2, <2>1
<1>4. \E x \in P : \A y \in P : x <= y
  BY <1>2, <1>3
<1> QED
  BY <1>4 DEF Min

LEMMA RunFacts ==
  ASSUME NEW s \in Seq(Symbols), NEW set, NUL \notin set, NEW p \in -1 .. Len(s) - 1
  PROVE  /\ Run(s, p, set) \in p .. Len(s) - 1
         /\ At(s, Run(s, p, set) + 1) \notin set
         /\ \A q \in p + 1 .. Run(s, p, set) : At(s, q) \in set
<1>1. Len(s) \in Nat
  BY LenProperties
<1> DEFINE P == {q \in p .. Len(s) - 1 : At(s, q + 1) \notin set}
<1>2. Len(s) - 1 \in P
  BY <1>1, AtFacts
<1>6. P \subseteq p .. Len(s) - 1 /\ p \in Int /\ Len(s) - 1 \in Int
  BY <1>1
<1>3. Min(P) \in P /\ \A q \in P : Min(P) <= q
  <2> HIDE DEF P
  <2>1. P \in SUBSET (p .. Len(s) - 1) /\ P # {}
    BY <1>2, <1>6
  <2> QED
    BY <1>6, <2>1, FirstPlace
<1>4. Run(s, p, set) = Min(P)
  BY DEF Run
<1>5. ASSUME NEW q \in p + 1 .. Min(P)
      PROVE  At(s, q) \in set
  <2> DEFINE m == Min(P)
  <2>3. m \in p .. Len(s) - 1 /\ \A r \in P : m <= r
    BY <1>3
  <2> HIDE DEF m, P
  <2>4. q \in p + 1 .. m
    BY DEF m
  <2>1. q - 1 \in p .. Len(s) - 1 /\ (q - 1) + 1 = q
    BY <1>1, <2>3, <2>4
  <2>2. q - 1 \notin P
    BY <1>1, <2>3, <2>4
  <2> QED
    BY <2>1, <2>2 DEF P
<1> QED
  BY <1>3, <1>4, <1>5

-----------------------------------------------------------------------------
(* readString.                                                             *)

EndFrom(s, end, q) ==
  CASE At(s, q + 1) \in {NUL, "<", ">", "/"} -> q
    [] At(s, q + 1) = "\\" /\ At(s, q + 2) \in {"\\", ">"} -> end[q + 2]
    [] OTHER -> end[q + 1]

EndsUpTo(s, end) == end = [q \in 0 .. Len(s) |-> EndFrom(s, end, q)]

LEMMA EndsExist ==
  ASSUME NEW s \in Seq(Symbols)
  PROVE  \E end : EndsUpTo(s, end)
<1>1. Len(s) \in Nat
  BY LenProperties
<1> DEFINE n == Len(s)
           T == {m \in Nat : m <= n =>
                   \E f : \A q \in n - m .. n : f[q] = EndFrom(s, f, q)}
<1>2. 0 \in T
  <2> DEFINE f == [q \in 0 .. n |-> q]
  <2>1. f[n] = n /\ At(s, n + 1) = NUL
    BY <1>1, AtFacts
  <2>2. EndFrom(s, f, n) = n
    BY <2>1 DEF EndFrom
  <2> HIDE DEF f
  <2>3. \A q \in n - 0 .. n : f[q] = EndFrom(s, f, q)
    BY <1>1, <2>1, <2>2
  <2> QED
    BY <2>3
<1>3. ASSUME NEW m \in Nat, m \in T
      PROVE  m + 1 \in T
  <2> SUFFICES ASSUME m + 1 <= n
               PROVE  \E f : \A q \in n - (m + 1) .. n : f[q] = EndFrom(s, f, q)
    OBVIOUS
  <2>1. PICK f : \A q \in n - m .. n : f[q] = EndFrom(s, f, q)
    BY <1>1, <1>3
  <2> DEFINE k == n - (m + 1)
             h == [q \in 0 .. n |-> IF q = k THEN EndFrom(s, f, k) ELSE f[q]]
  <2>2. k \in 0 .. n /\ \A q \in k + 1 .. n : h[q] = f[q] /\ q \in n - m .. n
    BY <1>1
  <2>3. h[k] = EndFrom(s, f, k)
    BY <2>2
  <2> HIDE DEF h, k
  <2>4. ASSUME NEW q \in k .. n
        PROVE  EndFrom(s, h, q) = EndFrom(s, f, q)
    <3>1. q + 1 \in Int /\ q + 2 \in Int
      BY <1>1, <2>2
    <3>2. At(s, q + 1) # NUL => q + 1 \in k + 1 .. n
      BY <1>1, <2>2, <3>1, AtFacts
    <3>3. At(s, q + 2) # NUL => q + 2 \in k + 1 .. n
      BY <1>1, <2>2, <3>1, AtFacts
    <3>4. At(s, q + 1) # NUL => h[q + 1] = f[q + 1]
      BY <2>2, <3>2
    <3>5. At(s, q + 2) # NUL => h[q + 2] = f[q + 2]
      BY <2>2, <3>3
    <3> QED
      BY <3>4, <3>5 DEF EndFrom, NUL
  <2>5. \A q \in k .. n : h[q] = EndFrom(s, h, q)
    <3> SUFFICES ASSUME NEW q \in k .. n PROVE h[q] = EndFrom(s, h, q)
      OBVIOUS
    <3>1. CASE q = k
      BY <2>3, <2>4, <3>1
    <3>2. CASE q \in k + 1 .. n
      BY <2>1, <2>2, <2>4, <3>2
    <3> QED
      BY <1>1, <2>2, <3>1, <3>2
  <2> QED
    BY <2>5 DEF k
<1> HIDE DEF T
<1>4. n \in T
  BY <1>1, <1>2, <1>3, Induction
<1>5. PICK f : \A q \in 0 .. n : f[q] = EndFrom(s, f, q)
  BY <1>1, <1>4 DEF T
<1> DEFINE end == [q \in 0 .. n |-> f[q]]
<1>6. \A q \in 0 .. n : EndFrom(s, end, q) = EndFrom(s, f, q)
  <2> SUFFICES ASSUME NEW q \in 0 .. n PROVE EndFrom(s, end, q) = EndFrom(s, f, q)
    OBVIOUS
  <2>1. At(s, q + 1) # NUL => q + 1 \in 0 .. n
    BY <1>1, AtFacts
  <2>2. At(s, q + 2) # NUL => q + 2 \in 0 .. n
    BY <1>1, AtFacts
  <2>3. At(s, q + 1) # NUL => end[q + 1] = f[q + 1]
    BY <2>1
  <2>4. At(s, q + 2) # NUL => end[q + 2] = f[q + 2]
    BY <2>2
  <2> HIDE DEF end
  <2> QED
    BY <2>3, <2>4 DEF EndFrom, NUL
<1>7. \A q \in 0 .. n : end[q] = EndFrom(s, end, q)
  BY <1>5, <1>6
<1>8. end = [q \in 0 .. n |-> EndFrom(s, end, q)]
  <2> DEFINE g == [q \in 0 .. n |-> EndFrom(s, end, q)]
  <2>1. \A q \in 0 .. n : end[q] = g[q]
    BY <1>7
  <2> QED
    BY <2>1
<1> HIDE DEF end
<1> QED
  BY <1>8 DEF EndsUpTo

LEMMA StringEnds ==
  ASSUME NEW s \in Seq(Symbols)
  PROVE  \E end : EndsUpTo(s, end) /\ \A p : StringEnd(s, p) = end[p]
<1> DEFINE end == CHOOSE f : EndsUpTo(s, f)
<1>1. EndsUpTo(s, end)
  BY EndsExist
<1>2. \A p : StringEnd(s, p) = end[p]
  BY DEF StringEnd, EndsUpTo, EndFrom
<1> HIDE DEF end
<1> QED
  BY <1>1, <1>2

\* Nothing that ends a string is in it, but a ">" that is hidden.
LEMMA StringEndFacts ==
  ASSUME NEW s \in Seq(Symbols), NEW p \in 0 .. Len(s) - 1
  PROVE  /\ StringEnd(s, p) \in p .. Len(s) - 1
         /\ \A k \in p + 1 .. StringEnd(s, p) : At(s, k) \notin {NUL, "<", "/"}
         /\ p > 0 /\ At(s, p) = Blank => StringEnd(s, p - 1) = StringEnd(s, p)
<1>1. Len(s) \in Nat
  BY LenProperties
<1>2. PICK end : EndsUpTo(s, end) /\ \A q : StringEnd(s, q) = end[q]
  BY StringEnds
<1> DEFINE n == Len(s)
           Fits(q) == /\ end[q] \in q .. n - 1
                      /\ \A k \in q + 1 .. end[q] : At(s, k) \notin {NUL, "<", "/"}
           T == {m \in Nat : \A q \in 0 .. n - 1 : q >= n - m => Fits(q)}
<1>3. \A q \in 0 .. n : end[q] = EndFrom(s, end, q)
  <2> DEFINE g == [q \in 0 .. n |-> EndFrom(s, end, q)]
  <2>1. end = g
    BY <1>2 DEF EndsUpTo
  <2>2. \A q \in 0 .. n : g[q] = EndFrom(s, end, q)
    OBVIOUS
  <2> HIDE DEF g
  <2> QED
    BY <2>1, <2>2
<1>4. 0 \in T
  BY <1>1
<1>5. ASSUME NEW m \in Nat, m \in T
      PROVE  m + 1 \in T
  <2> SUFFICES ASSUME NEW q \in 0 .. n - 1, q >= n - (m + 1)
               PROVE  Fits(q)
    OBVIOUS
  <2>1. end[q] = EndFrom(s, end, q)
    BY <1>1, <1>3
  <2>2. CASE At(s, q + 1) \in {NUL, "<", ">", "/"}
    <3>1. end[q] = q
      BY <2>1, <2>2 DEF EndFrom, NUL
    <3> QED
      BY <1>1, <3>1
  <2>3. CASE At(s, q + 1) = "\\" /\ At(s, q + 2) \in {"\\", ">"}
    <3>1. end[q] = end[q + 2]
      BY <2>1, <2>3 DEF EndFrom, NUL
    <3>2. q + 2 \in 0 .. n - 1
      BY <1>1, <2>3, AtFacts DEF NUL
    <3>3. Fits(q + 2)
      BY <1>1, <1>5, <3>2
    <3>4. \A k \in q + 1 .. end[q] : k \in {q + 1, q + 2} \/ k \in (q + 2) + 1 .. end[q + 2]
      BY <1>1, <3>1, <3>3
    <3>5. At(s, q + 1) \notin {NUL, "<", "/"} /\ At(s, q + 2) \notin {NUL, "<", "/"}
      BY <2>3 DEF NUL
    <3> QED
      BY <1>1, <3>1, <3>2, <3>3, <3>4, <3>5
  <2>4. CASE ~ (At(s, q + 1) \in {NUL, "<", ">", "/"})
               /\ ~ (At(s, q + 1) = "\\" /\ At(s, q + 2) \in {"\\", ">"})
    <3>1. end[q] = end[q + 1]
      BY <2>1, <2>4 DEF EndFrom
    <3>2. q + 1 \in 0 .. n - 1
      BY <1>1, <2>4, AtFacts
    <3>3. Fits(q + 1)
      BY <1>1, <1>5, <3>2
    <3>4. \A k \in q + 1 .. end[q] : k = q + 1 \/ k \in (q + 1) + 1 .. end[q + 1]
      BY <1>1, <3>1, <3>3
    <3> QED
      BY <1>1, <2>4, <3>1, <3>2, <3>3, <3>4
  <2> QED
    BY <2>2, <2>3, <2>4
<1> HIDE DEF T
<1>6. n \in T
  BY <1>1, <1>4, <1>5, Induction
<1>7. Fits(p)
  BY <1>1, <1>6 DEF T
<1>8. ASSUME p > 0, At(s, p) = Blank
      PROVE  end[p - 1] = end[p]
  <2>1. p - 1 \in 0 .. n /\ (p - 1) + 1 = p
    BY <1>1, <1>8
  <2>2. end[p - 1] = EndFrom(s, end, p - 1)
    BY <1>3, <2>1
  <2> QED
    BY <1>8, <2>1, <2>2 DEF EndFrom, NUL, Blank
<1> QED
  BY <1>2, <1>7, <1>8

-----------------------------------------------------------------------------
(* What comes out for a stretch of the text.                               *)

\* A symbol as the token it is in has it: with the "<" or "/" before it again if it is
\* a blank in the place of a name.
Piece(s, k) ==
  IF At(s, k) = NUL THEN <<>>
  ELSE IF At(s, k) = Blank /\ AfterOpening(s, k) THEN <<At(s, k - 1), At(s, k)>>
  ELSE <<At(s, k)>>

Pieces(s, a, b) == [k \in 1 .. b - a |-> Piece(s, a + k - 1)]

\* The symbols from a on, before b.
Kept(s, a, b) == FlattenSeq(Pieces(s, a, b))

LEMMA PieceType ==
  ASSUME NEW s \in Seq(Symbols), NEW k \in Int
  PROVE  Piece(s, k) \in Seq(Symbols)
<1>1. At(s, k) \in Symbols /\ At(s, k - 1) \in Symbols
  BY AtFacts
<1> QED
  BY <1>1 DEF Piece

LEMMA PiecesType ==
  ASSUME NEW s \in Seq(Symbols), NEW a \in Nat, NEW b \in Nat, a <= b
  PROVE  Pieces(s, a, b) \in Seq(Seq(Symbols)) /\ Len(Pieces(s, a, b)) = b - a
<1>1. \A k \in 1 .. b - a : Piece(s, a + k - 1) \in Seq(Symbols)
  BY PieceType
<1>2. b - a \in Nat
  OBVIOUS
<1> QED
  BY <1>1, <1>2, IsASeq DEF Pieces

LEMMA KeptFacts ==
  ASSUME NEW s \in Seq(Symbols), NEW a \in Nat, NEW b \in Nat, a <= b
  PROVE  /\ Kept(s, a, b) \in Seq(Symbols)
         /\ Kept(s, a, a) = <<>>
         /\ Kept(s, a, b + 1) = Kept(s, a, b) \o Piece(s, b)
<1>1. Pieces(s, a, b) \in Seq(Seq(Symbols)) /\ Len(Pieces(s, a, b)) = b - a
  BY PiecesType
<1>2. Kept(s, a, b) \in Seq(Symbols)
  BY <1>1, FlattenType DEF Kept
<1>3. Kept(s, a, a) = <<>>
  <2>1. Pieces(s, a, a) \in Seq(Seq(Symbols)) /\ Len(Pieces(s, a, a)) = 0
    <3>1. a <= a /\ a - a = 0
      OBVIOUS
    <3>2. Pieces(s, a, a) \in Seq(Seq(Symbols)) /\ Len(Pieces(s, a, a)) = a - a
      BY <3>1, PiecesType
    <3> QED
      BY <3>1, <3>2
  <2>2. Pieces(s, a, a) = <<>>
    BY <2>1, EmptySeq
  <2> QED
    BY <2>2, FlattenEmpty DEF Kept
<1>4. Pieces(s, a, b + 1) = Append(Pieces(s, a, b), Piece(s, b))
  <2> DEFINE u == Pieces(s, a, b + 1)
             v == Append(Pieces(s, a, b), Piece(s, b))
  <2>1. u \in Seq(Seq(Symbols)) /\ Len(u) = b + 1 - a
    <3> DEFINE c == b + 1
    <3>1. c \in Nat /\ a <= c
      OBVIOUS
    <3> HIDE DEF c
    <3>2. Pieces(s, a, c) \in Seq(Seq(Symbols)) /\ Len(Pieces(s, a, c)) = c - a
      BY <3>1, PiecesType
    <3> QED
      BY <3>2 DEF c
  <2>2. /\ v \in Seq(Seq(Symbols)) /\ Len(v) = b + 1 - a /\ v[b + 1 - a] = Piece(s, b)
        /\ \A k \in 1 .. b - a : v[k] = Pieces(s, a, b)[k]
    <3> DEFINE w == Pieces(s, a, b)
               e == Piece(s, b)
    <3>1. e \in Seq(Symbols) /\ w \in Seq(Seq(Symbols)) /\ Len(w) = b - a
      BY <1>1, PieceType
    <3>2. v = Append(w, e)
      OBVIOUS
    <3> HIDE DEF v, w, e
    <3>3. /\ v \in Seq(Seq(Symbols)) /\ Len(v) = Len(w) + 1 /\ v[Len(w) + 1] = e
          /\ \A k \in 1 .. Len(w) : v[k] = w[k]
      <4> DEFINE S == Seq(Symbols)
      <4>1. e \in S /\ w \in Seq(S)
        BY <3>1
      <4> HIDE DEF S, u
      <4>2. /\ v \in Seq(S) /\ Len(v) = Len(w) + 1 /\ v[Len(w) + 1] = e
            /\ \A k \in 1 .. Len(w) : v[k] = w[k]
        BY <3>2, <4>1, AppendProperties
      <4> QED
        BY <4>2 DEF S
    <3>4. Len(w) + 1 = b + 1 - a
      BY <3>1
    <3> QED
      BY <3>1, <3>3, <3>4 DEF w, e
  <2>3. \A k \in 1 .. b + 1 - a : u[k] = Piece(s, a + k - 1)
    BY DEF Pieces
  <2>4. \A k \in 1 .. b - a : Pieces(s, a, b)[k] = Piece(s, a + k - 1)
    BY DEF Pieces
  <2>5. a + (b + 1 - a) - 1 = b /\ b + 1 - a \in 1 .. b + 1 - a
    OBVIOUS
  <2> HIDE DEF u, v
  <2>6. \A k \in 1 .. b + 1 - a : u[k] = v[k]
    <3> SUFFICES ASSUME NEW k \in 1 .. b + 1 - a PROVE u[k] = v[k]
      OBVIOUS
    <3>1. CASE k = b + 1 - a
      BY <2>2, <2>3, <2>5, <3>1
    <3>2. CASE k \in 1 .. b - a
      BY <2>2, <2>3, <2>4, <3>2
    <3> QED
      BY <3>1, <3>2
  <2>7. u = v
    BY <2>1, <2>2, <2>6, SeqEqual
  <2> QED
    BY <2>7 DEF u, v
<1>5. Kept(s, a, b + 1) = Kept(s, a, b) \o Piece(s, b)
  <2>1. Piece(s, b) \in Seq(Symbols)
    BY PieceType
  <2> QED
    BY <1>1, <1>4, <2>1, FlattenAppend DEF Kept
<1> QED
  BY <1>2, <1>3, <1>5

LEMMA KeptJoined ==
  ASSUME NEW s \in Seq(Symbols), NEW a \in Nat, NEW b \in Nat, NEW c \in Nat, a <= b, b <= c
  PROVE  Kept(s, a, c) = Kept(s, a, b) \o Kept(s, b, c)
<1> DEFINE T == {d \in b .. c : Kept(s, a, d) = Kept(s, a, b) \o Kept(s, b, d)}
<1>1. b \in T
  <2>1. Kept(s, b, b) = <<>> /\ Kept(s, a, b) \in Seq(Symbols)
    BY KeptFacts
  <2>2. Kept(s, a, b) \o <<>> = Kept(s, a, b)
    BY <2>1, ConcatEmptySeq
  <2> QED
    BY <2>1, <2>2
<1>2. ASSUME NEW d \in b .. c, d \in T, d < c
      PROVE  d + 1 \in T
  <2> DEFINE x == Kept(s, a, b)
             y == Kept(s, b, d)
             z == Piece(s, d)
  <2>0. d \in Nat /\ a <= d /\ b <= d
    OBVIOUS
  <2>1. x \in Seq(Symbols) /\ y \in Seq(Symbols) /\ z \in Seq(Symbols)
    <3>1. x \in Seq(Symbols)
      BY KeptFacts
    <3>2. y \in Seq(Symbols)
      BY <2>0, KeptFacts
    <3>3. z \in Seq(Symbols)
      BY <2>0, PieceType
    <3> QED
      BY <3>1, <3>2, <3>3
  <2>2. Kept(s, a, d + 1) = Kept(s, a, d) \o z /\ Kept(s, b, d + 1) = y \o z
    BY <2>0, KeptFacts
  <2>3. Kept(s, a, d) = x \o y
    BY <1>2
  <2>4. (x \o y) \o z = x \o (y \o z)
    <3> HIDE DEF x, y, z
    <3>1. Regroups(x, y, z)
      BY <2>1, Regrouping
    <3> QED
      BY ONLY <3>1 DEF Regroups
  <2>5. Kept(s, a, d + 1) = x \o Kept(s, b, d + 1)
    BY <2>2, <2>3, <2>4
  <2> QED
    BY <1>2, <2>0, <2>5
<1> HIDE DEF T
<1>3. b .. c \subseteq T
  BY <1>1, <1>2, InductionUpTo
<1>4. c \in T
  BY <1>3
<1> QED
  BY <1>4 DEF T

LEMMA OnesType ==
  ASSUME NEW S, NEW x \in S, NEW y \in S
  PROVE  <<x>> \in Seq(S) /\ <<y>> \in Seq(S) /\ <<x>> \o <<y>> = <<x, y>>
<1>1. <<x>> \in Seq(S) /\ <<y>> \in Seq(S) /\ <<x, y>> \in Seq(S)
  OBVIOUS
<1>2. Len(<<x>>) = 1 /\ Len(<<y>>) = 1 /\ Len(<<x, y>>) = 2
  OBVIOUS
<1> DEFINE u == <<x>> \o <<y>>
           v == <<x, y>>
<1>3. /\ u \in Seq(S) /\ Len(u) = 2
      /\ \A i \in 1 .. 2 : u[i] = IF i <= 1 THEN (<<x>>)[i] ELSE (<<y>>)[i - 1]
  BY <1>1, <1>2, ConcatProperties
<1>4. v[1] = x /\ v[2] = y /\ (<<x>>)[1] = x /\ (<<y>>)[1] = y
  OBVIOUS
<1> HIDE DEF u
<1>5. u[1] = v[1] /\ u[2] = v[2]
  BY <1>3, <1>4
<1>6. u = v
  BY <1>1, <1>2, <1>3, <1>5, SeqEqual
<1> QED
  BY <1>1, <1>6 DEF u

\* What Literals makes of symbol k of t.
Twice(t, k)  == At(t, k) = Blank /\ AfterOpening(t, k)
Symbol(t, k) ==
  IF t[k] = NUL THEN <<>> ELSE IF Twice(t, k) THEN <<t[k], t[k]>> ELSE <<t[k]>>

Firsts(t, n) == [k \in 1 .. n |-> Symbol(t, k)]

LEMMA FirstsFacts ==
  ASSUME NEW t \in Seq(Symbols), NEW n \in 0 .. Len(t)
  PROVE  /\ Firsts(t, n) \in Seq(Seq(Symbols)) /\ Len(Firsts(t, n)) = n
         /\ FlattenSeq(Firsts(t, n)) \in Seq(Symbols)
         /\ Firsts(t, 0) = <<>>
         /\ n < Len(t) => FlattenSeq(Firsts(t, n + 1)) = FlattenSeq(Firsts(t, n)) \o Symbol(t, n + 1)
<1>1. Len(t) \in Nat
  BY LenProperties
<1>2. ASSUME NEW k \in 1 .. Len(t)
      PROVE  Symbol(t, k) \in Seq(Symbols)
  <2>1. t[k] \in Symbols
    BY ElementOfSeq
  <2> QED
    BY <2>1 DEF Symbol
<1>3. ASSUME NEW m \in 0 .. Len(t)
      PROVE  Firsts(t, m) \in Seq(Seq(Symbols)) /\ Len(Firsts(t, m)) = m
  <2>1. \A k \in 1 .. m : Symbol(t, k) \in Seq(Symbols)
    BY <1>1, <1>2
  <2> QED
    BY <2>1, IsASeq DEF Firsts
<1>4. FlattenSeq(Firsts(t, n)) \in Seq(Symbols)
  BY <1>3, FlattenType
<1>5. Firsts(t, 0) = <<>>
  <2>1. Firsts(t, 0) \in Seq(Seq(Symbols)) /\ Len(Firsts(t, 0)) = 0
    BY <1>1, <1>3
  <2> QED
    BY <2>1, EmptySeq
<1>6. ASSUME n < Len(t)
      PROVE  FlattenSeq(Firsts(t, n + 1)) = FlattenSeq(Firsts(t, n)) \o Symbol(t, n + 1)
  <2> DEFINE u == Firsts(t, n + 1)
             v == Append(Firsts(t, n), Symbol(t, n + 1))
  <2>1. n + 1 \in 0 .. Len(t) /\ n + 1 \in 1 .. Len(t)
    BY <1>1, <1>6
  <2>2. u \in Seq(Seq(Symbols)) /\ Len(u) = n + 1
    BY <1>3, <2>1
  <2>3. Firsts(t, n) \in Seq(Seq(Symbols)) /\ Len(Firsts(t, n)) = n /\ Symbol(t, n + 1) \in Seq(Symbols)
    BY <1>2, <1>3, <2>1
  <2>4. /\ v \in Seq(Seq(Symbols)) /\ Len(v) = n + 1 /\ v[n + 1] = Symbol(t, n + 1)
        /\ \A k \in 1 .. n : v[k] = Firsts(t, n)[k]
    BY <2>3, AppendProperties
  <2>5. /\ \A k \in 1 .. n + 1 : u[k] = Symbol(t, k)
        /\ \A k \in 1 .. n : Firsts(t, n)[k] = Symbol(t, k)
    BY DEF Firsts
  <2> HIDE DEF u, v
  <2>6. \A k \in 1 .. n + 1 : u[k] = v[k]
    <3> SUFFICES ASSUME NEW k \in 1 .. n + 1 PROVE u[k] = v[k]
      OBVIOUS
    <3>1. k = n + 1 \/ k \in 1 .. n
      OBVIOUS
    <3> QED
      BY <2>4, <2>5, <3>1
  <2>7. u = v
    BY <2>2, <2>4, <2>6, SeqEqual
  <2>8. FlattenSeq(v) = FlattenSeq(Firsts(t, n)) \o Symbol(t, n + 1)
    BY <2>3, FlattenAppend DEF v
  <2> QED
    BY <2>7, <2>8 DEF u
<1> QED
  BY <1>3, <1>4, <1>5, <1>6

\* The tokens of a stretch are what comes out for it, whatever is around it, if it
\* begins where an element does.
LEMMA LiteralsAreKept ==
  ASSUME NEW s \in Seq(Symbols), NEW a \in Nat, NEW b \in Nat, a <= b, b <= Len(s),
         a = 0 \/ At(s, a) = "<"
  PROVE  Literals(Span(s, a, b - 1)) = Kept(s, a, b)
<1> DEFINE t == SubSeq(s, a + 1, b)
           m == b - a
           F(n) == FlattenSeq(Firsts(t, n))
           K(n) == Kept(s, a, a + n)
           Tw(n) == n >= 1 /\ Twice(t, n)
<1>1. Len(s) \in Nat /\ m \in Nat
  BY LenProperties
<1>2. t \in Seq(Symbols) /\ Len(t) = m /\ \A k \in 1 .. m : t[k] = s[a + k]
  <2>1. \A k \in a + 1 .. b : s[k] \in Symbols
    BY <1>1, ElementOfSeq
  <2>2. t \in Seq(Symbols) /\ Len(t) = (IF a + 1 <= b THEN b - (a + 1) + 1 ELSE 0)
    BY <2>1, SubSeqProperties
  <2>3. \A k \in 1 .. m : t[k] = s[a + k]
    BY <1>1, <2>1, SubSeqProperties
  <2> QED
    BY <2>2, <2>3
<1>3. Span(s, a, b - 1) = t
  BY DEF Span
<1>4. Literals(t) = F(m)
  <2>1. DOMAIN t = 1 .. m
    BY <1>2, LenProperties
  <2> QED
    BY <2>1 DEF Literals, Firsts, Symbol, Twice
<1> HIDE DEF t
<1>5. ASSUME NEW k \in 0 .. m - 1
      PROVE  At(t, k) = At(s, a + k) /\ At(t, k) = t[k + 1]
  <2>1. k + 1 \in 1 .. m /\ a + k \in 0 .. Len(s) - 1 /\ k \in 0 .. Len(t) - 1
    BY <1>1, <1>2
  <2> QED
    BY ONLY <1>2, <2>1, AtFacts
<1>6. At(t, m) = NUL /\ ~ Tw(m)
  <2>1. At(t, m) = NUL
    BY <1>1, <1>2, AtFacts
  <2>2. ~ Twice(t, m)
    BY <2>1 DEF Twice, NUL, Blank
  <2> QED
    BY <2>1, <2>2
<1>7. ASSUME NEW n \in 0 .. m - 1
      PROVE  /\ Tw(n) => At(s, a + n) = Blank
             /\ Tw(n) <=> At(s, a + n) = Blank /\ AfterOpening(s, a + n)
             /\ Tw(n) => At(s, a + n - 1) = t[n]
             /\ Tw(n + 1) => t[n + 1] \in {"<", "/"}
  <2>1. At(t, n) = At(s, a + n) /\ At(t, n) = t[n + 1]
    BY <1>5
  <2>2. n >= 1 => At(t, n - 1) = At(s, a + n - 1) /\ At(t, n - 1) = t[n]
    <3>1. n >= 1 => n - 1 \in 0 .. m - 1 /\ a + (n - 1) = a + n - 1 /\ (n - 1) + 1 = n
      BY <1>1
    <3> QED
      BY <1>5, <3>1
  <2>3. n >= 2 => At(t, n - 2) = At(s, a + n - 2)
    <3>1. n >= 2 => n - 2 \in 0 .. m - 1 /\ a + (n - 2) = a + n - 2
      BY <1>1
    <3> QED
      BY <1>5, <3>1
  <2>4. CASE n >= 2
    <3>1. n \in Int /\ a + n > 1 /\ a + n > 0 /\ n > 1 /\ n > 0
      BY <1>1, <2>4
    <3>2. AfterOpening(t, n) <=> AfterOpening(s, a + n)
      BY <2>2, <2>3, <3>1 DEF AfterOpening
    <3>3. Tw(n) <=> At(s, a + n) = Blank /\ AfterOpening(s, a + n)
      BY <2>1, <3>1, <3>2 DEF Twice
    <3> QED
      BY <2>1, <2>2, <3>1, <3>3 DEF Twice, AfterOpening
  <2>5. CASE n = 1
    <3>1. At(s, a + n - 1) = At(s, a) /\ a + n > 0 /\ (a + n > 1 => a > 0)
      BY <2>5
    <3>2. ~ (a + n > 1 /\ At(s, a + n - 1) = "/" /\ At(s, a + n - 2) = "<")
      BY <3>1
    <3>3. AfterOpening(t, n) <=> AfterOpening(s, a + n)
      BY <2>2, <2>5, <3>1, <3>2 DEF AfterOpening
    <3>4. Tw(n) <=> At(s, a + n) = Blank /\ AfterOpening(s, a + n)
      BY <2>1, <2>5, <3>3 DEF Twice
    <3> QED
      BY <2>1, <2>2, <2>5, <3>4 DEF Twice, AfterOpening
  <2>6. CASE n = 0
    <3>1. ~ Tw(n)
      BY <2>6
    <3>2. a + n = a
      BY <2>6
    <3>3. ~ (At(s, a + n) = Blank /\ AfterOpening(s, a + n))
      <4>1. CASE a = 0
        BY <3>2, <4>1 DEF AfterOpening
      <4>2. CASE At(s, a) = "<"
        <5>1. At(s, a) # Blank
          BY <4>2 DEF Blank
        <5> QED
          BY <3>2, <5>1
      <4> QED
        BY <4>1, <4>2
    <3>4. Tw(n + 1) => t[n + 1] \in {"<", "/"}
      BY <2>1, <2>6 DEF Twice, AfterOpening
    <3> QED
      BY <3>1, <3>3, <3>4
  <2> QED
    BY <1>1, <2>4, <2>5, <2>6
<1> DEFINE Rest(n) == IF Tw(n) THEN <<t[n]>> ELSE <<>>
           T == {n \in 0 .. m : F(n) = K(n) \o Rest(n)}
<1>8. 0 \in T
  <2>1. F(0) = <<>>
    <3>1. t \in Seq(Symbols) /\ 0 \in 0 .. Len(t)
      BY <1>1, <1>2
    <3>2. Firsts(t, 0) = <<>>
      BY <3>1, FirstsFacts
    <3> QED
      BY <3>2, FlattenEmpty
  <2>2. K(0) = <<>> /\ Rest(0) = <<>>
    BY KeptFacts
  <2>3. F(0) = K(0) \o Rest(0)
    <3>1. <<>> \in Seq(Symbols)
      BY EmptySeq
    <3>2. <<>> \o <<>> = <<>>
      BY <3>1, ConcatEmptySeq
    <3> HIDE DEF F, K, Rest
    <3> QED
      BY <2>1, <2>2, <3>2
  <2>4. 0 \in 0 .. m
    BY <1>1
  <2> HIDE DEF F, K, Rest
  <2> QED
    BY <2>3, <2>4
<1>9. ASSUME NEW n \in 0 .. m, n \in T, n < m
      PROVE  n + 1 \in T
  <2> DEFINE x == t[n + 1]
             k == K(n)
  <2>1. n \in 0 .. m - 1 /\ n + 1 \in 1 .. m /\ n + 1 \in 0 .. m /\ a + n \in Nat /\ a + (n + 1) = (a + n) + 1
    BY <1>1, <1>9
  <2>2. x \in Symbols /\ (n >= 1 => t[n] \in Symbols)
    BY <1>1, <1>2, <2>1, ElementOfSeq
  <2>3. k \in Seq(Symbols) /\ K(n + 1) = k \o Piece(s, a + n)
    <3> DEFINE c == a + n
    <3>1. c \in Nat /\ a <= c /\ a + (n + 1) = c + 1
      BY <2>1
    <3> HIDE DEF c
    <3>2. Kept(s, a, c) \in Seq(Symbols)
      BY <3>1, KeptFacts
    <3>3. Kept(s, a, c + 1) = Kept(s, a, c) \o Piece(s, c)
      BY <3>1, KeptFacts
    <3> QED
      BY <3>1, <3>2, <3>3 DEF c
  <2>4. F(n + 1) = F(n) \o Symbol(t, n + 1)
    BY <1>2, <1>9, FirstsFacts
  <2>5. F(n) = k \o Rest(n)
    BY <1>9
  <2>6. At(s, a + n) = x
    BY <1>5, <2>1
  <2>7. /\ Tw(n) <=> x = Blank /\ AfterOpening(s, a + n)
        /\ Tw(n) => At(s, a + n - 1) = t[n]
        /\ Tw(n + 1) => x \in {"<", "/"}
        /\ Tw(n + 1) <=> Twice(t, n + 1)
    BY <1>7, <2>1, <2>6
  <2>8. Piece(s, a + n) = IF x = NUL THEN <<>> ELSE IF Tw(n) THEN <<t[n], x>> ELSE <<x>>
    BY <2>6, <2>7 DEF Piece
  <2>9. Symbol(t, n + 1) = IF x = NUL THEN <<>> ELSE IF Tw(n + 1) THEN <<x, x>> ELSE <<x>>
    BY <2>7 DEF Symbol
  <2>10. Rest(n) = (IF Tw(n) THEN <<t[n]>> ELSE <<>>) /\ Rest(n + 1) = (IF Tw(n + 1) THEN <<x>> ELSE <<>>)
    OBVIOUS
  <2> HIDE DEF x, k, Tw, F, K, Rest
  <2>11. k \o <<>> = k
    BY <2>3, ConcatEmptySeq
  <2>12. F(n + 1) = K(n + 1) \o Rest(n + 1)
    <3>1. CASE x = NUL
      <4>1. ~ Tw(n) /\ ~ Tw(n + 1)
        BY <2>7, <3>1 DEF NUL, Blank
      <4> QED
        BY <2>3, <2>4, <2>5, <2>8, <2>9, <2>10, <2>11, <3>1, <4>1
    <3>2. CASE x # NUL /\ Tw(n)
      <4>1. ~ Tw(n + 1)
        <5>1. Blank \notin {"<", "/"}
          BY DEF Blank
        <5> QED
          BY <2>7, <3>2, <5>1
      <4>2. n >= 1
        BY <3>2 DEF Tw
      <4>3. F(n + 1) = (k \o <<t[n]>>) \o <<x>> /\ K(n + 1) = k \o <<t[n], x>> /\ Rest(n + 1) = <<>>
        BY <2>3, <2>4, <2>5, <2>8, <2>9, <2>10, <3>2, <4>1
      <4>4. <<t[n]>> \in Seq(Symbols) /\ <<x>> \in Seq(Symbols) /\ <<t[n]>> \o <<x>> = <<t[n], x>>
        BY <2>2, <4>2, OnesType
      <4>5. (k \o <<t[n]>>) \o <<x>> = k \o (<<t[n]>> \o <<x>>)
        BY <2>3, <4>4, ConcatAssociative
      <4>6. k \o <<t[n], x>> \in Seq(Symbols)
        BY <2>2, <2>3, <4>2, <4>4, ConcatProperties
      <4> QED
        BY <4>3, <4>4, <4>5, <4>6, ConcatEmptySeq
    <3>3. CASE x # NUL /\ ~ Tw(n)
      <4>1. CASE ~ Tw(n + 1)
        <5>1. k \o <<x>> \in Seq(Symbols)
          BY <2>2, <2>3, ConcatProperties
        <5>2. F(n + 1) = k \o <<x>> /\ K(n + 1) = k \o <<x>> /\ Rest(n + 1) = <<>>
          BY <2>3, <2>4, <2>5, <2>8, <2>9, <2>10, <2>11, <3>3, <4>1
        <5> QED
          BY <5>1, <5>2, ConcatEmptySeq
      <4>2. CASE Tw(n + 1)
        <5>1. F(n + 1) = k \o <<x, x>> /\ K(n + 1) = k \o <<x>> /\ Rest(n + 1) = <<x>>
          BY <2>3, <2>4, <2>5, <2>8, <2>9, <2>10, <2>11, <3>3, <4>2
        <5>2. <<x>> \in Seq(Symbols) /\ <<x>> \o <<x>> = <<x, x>>
          BY <2>2, OnesType
        <5>3. (k \o <<x>>) \o <<x>> = k \o (<<x>> \o <<x>>)
          BY <2>3, <5>2, ConcatAssociative
        <5> QED
          BY <5>1, <5>2, <5>3
      <4> QED
        BY <4>1, <4>2
    <3> QED
      BY <3>1, <3>2, <3>3
  <2> QED
    BY <2>1, <2>12
<1> HIDE DEF T
<1>10. 0 .. m \subseteq T
  <2>1. m \in Int /\ 0 \in Int
    BY <1>1
  <2> QED
    BY <1>8, <1>9, <2>1, InductionUpTo
<1>11. F(m) = K(m) \o Rest(m)
  BY <1>1, <1>10 DEF T
<1>12. Rest(m) = <<>> /\ K(m) = Kept(s, a, b) /\ Kept(s, a, b) \in Seq(Symbols)
  BY <1>1, <1>6, KeptFacts
<1> QED
  BY <1>3, <1>4, <1>11, <1>12, ConcatEmptySeq

\* Where no symbol is left out or comes twice.
LEMMA PlainKept ==
  ASSUME NEW s \in Seq(Symbols), NEW a \in Nat, NEW b \in Nat, a <= b, b <= Len(s),
         \A k \in a .. b - 1 : Piece(s, k) = <<At(s, k)>>
  PROVE  Kept(s, a, b) = SubSeq(s, a + 1, b)
<1> DEFINE T == {c \in a .. b : Kept(s, a, c) = SubSeq(s, a + 1, c)}
<1>1. Len(s) \in Nat
  BY LenProperties
<1>2. a \in T
  <2>1. Kept(s, a, a) = <<>>
    BY KeptFacts
  <2>2. SubSeq(s, a + 1, a) = <<>>
    BY SubSeqEmpty
  <2> QED
    BY <2>1, <2>2
<1>3. ASSUME NEW c \in a .. b, c \in T, c < b
      PROVE  c + 1 \in T
  <2>1. c \in Nat /\ a <= c /\ c \in a .. b - 1 /\ c \in 0 .. Len(s) - 1
    BY <1>1, <1>3
  <2>2. Kept(s, a, c + 1) = Kept(s, a, c) \o Piece(s, c)
    BY <2>1, KeptFacts
  <2>3. Piece(s, c) = <<s[c + 1]>>
    BY <2>1, AtFacts
  <2>4. a + 1 \in 1 .. Len(s) /\ c + 1 \in a + 1 .. Len(s) /\ (c + 1) - 1 = c
    BY <1>1, <2>1
  <2>5. SubSeq(s, a + 1, c + 1) = SubSeq(s, a + 1, (c + 1) - 1) \o <<s[c + 1]>>
    BY <2>4, SubSeqRecursiveSecond
  <2>6. Kept(s, a, c) = SubSeq(s, a + 1, c)
    BY <1>3
  <2>7. Kept(s, a, c + 1) = SubSeq(s, a + 1, c + 1)
    BY <2>2, <2>3, <2>4, <2>5, <2>6
  <2> QED
    BY <1>3, <2>7
<1> HIDE DEF T
<1>4. a .. b \subseteq T
  <2>1. a \in Int /\ b \in Int
    OBVIOUS
  <2> QED
    BY <1>2, <1>3, <2>1, InductionUpTo
<1> QED
  BY <1>4 DEF T

-----------------------------------------------------------------------------
(* Tokens.                                                                 *)

TokenKinds == {"EOF", "Lt", "Rt", "sL", "ident", "str"}
Tokens == [kind : TokenKinds, first : Nat, pos : Nat]

LEMMA WordFacts ==
  ASSUME NEW s \in Seq(Symbols), NEW p \in 0 .. Len(s) - 1, At(s, p) \notin {NUL, "<", ">", "/"}
  PROVE  /\ Word(s, p) \in Tokens /\ Word(s, p).kind \in {"ident", "str"}
         /\ Word(s, p).pos \in p .. Len(s) - 1
         /\ \A k \in p .. Word(s, p).pos : At(s, k) \notin {NUL, "<", "/"}
         /\ Word(s, p).first = IF At(s, p) = Blank /\ AfterOpening(s, p) THEN p - 1 ELSE p
<1> DEFINE last  == Run(s, p - 1, IdentChars)
           named == AfterOpening(s, p) /\ At(s, last + 1) \in {Blank, "/", ">"}
           from  == IF named THEN p - 1 ELSE p
<1>1. Len(s) \in Nat /\ p \in Nat /\ p - 1 \in -1 .. Len(s) - 1
  BY LenProperties
<1>2. IdentChars \cap {NUL, Blank, "<", ">", "/"} = {}
  BY LettersAssumption DEF IdentChars, NUL, Blank
<1>3. /\ last \in p - 1 .. Len(s) - 1 /\ At(s, last + 1) \notin IdentChars
      /\ \A q \in p .. last : At(s, q) \in IdentChars
  <2>1. NUL \notin IdentChars /\ (p - 1) + 1 = p
    BY <1>1, <1>2
  <2> QED
    BY <1>1, <2>1, RunFacts
<1>4. Word(s, p) = IF named /\ last >= p THEN Token("ident", p, last)
                   ELSE Token("str", from, StringEnd(s, from))
  BY DEF Word
<1> HIDE DEF last
<1>5. AfterOpening(s, p) => p > 0
  BY DEF AfterOpening
<1>6. CASE named /\ last >= p
  <2>1. Word(s, p) = [kind |-> "ident", first |-> p, pos |-> last]
    BY <1>4, <1>6 DEF Token
  <2>2. last \in p .. Len(s) - 1 /\ p \in p .. last
    BY <1>1, <1>3, <1>6
  <2>3. \A k \in p .. last : At(s, k) \notin {NUL, "<", "/"}
    BY <1>2, <1>3
  <2>4. At(s, p) # Blank
    BY <1>2, <1>3, <2>2
  <2>5. last \in Nat
    BY <1>1, <2>2
  <2> QED
    BY <1>1, <2>1, <2>2, <2>3, <2>4, <2>5 DEF Tokens, TokenKinds
<1>7. CASE ~ (named /\ last >= p)
  <2> DEFINE end == StringEnd(s, p)
  <2>1. /\ end \in p .. Len(s) - 1
        /\ \A k \in p + 1 .. end : At(s, k) \notin {NUL, "<", "/"}
        /\ p > 0 /\ At(s, p) = Blank => StringEnd(s, p - 1) = end
    BY StringEndFacts
  <2>2. named <=> At(s, p) = Blank /\ AfterOpening(s, p)
    <3>1. ASSUME named
          PROVE  At(s, p) = Blank
      <4>1. last = p - 1 /\ last + 1 = p
        BY <1>1, <1>3, <1>7, <3>1
      <4> QED
        BY <3>1, <4>1
    <3>2. ASSUME At(s, p) = Blank, AfterOpening(s, p)
          PROVE  named
      <4>1. last = p - 1 /\ last + 1 = p
        BY <1>1, <1>2, <1>3, <3>2
      <4> QED
        BY <3>2, <4>1
    <3> QED
      BY <3>1, <3>2
  <2>3. Word(s, p) = [kind |-> "str", first |-> from, pos |-> end]
    <3>1. Word(s, p) = Token("str", from, StringEnd(s, from))
      BY <1>4, <1>7
    <3>2. StringEnd(s, from) = end
      BY <1>5, <2>1, <2>2
    <3> QED
      BY <3>1, <3>2 DEF Token
  <2>4. from \in Nat /\ from = IF At(s, p) = Blank /\ AfterOpening(s, p) THEN p - 1 ELSE p
    BY <1>1, <1>5, <2>2
  <2> HIDE DEF end, from
  <2>5. \A k \in p .. end : k = p \/ k \in p + 1 .. end
    BY <1>1, <2>1
  <2>6. \A k \in p .. end : At(s, k) \notin {NUL, "<", "/"}
    BY <2>1, <2>5
  <2>7. end \in Nat
    BY <1>1, <2>1
  <2> QED
    BY <2>1, <2>3, <2>4, <2>6, <2>7 DEF Tokens, TokenKinds
<1> QED
  BY <1>6, <1>7

\* A token that is no end is what comes out for the symbols from where the lexer was up
\* to its last one.
LEMMA LexFacts ==
  ASSUME NEW s \in Seq(Symbols), NEW a \in 0 .. Len(s) - 1, At(s, a) # NUL
  PROVE  /\ Lex(s, a) \in Tokens /\ Lex(s, a).kind # "EOF"
         /\ Lex(s, a).pos \in a .. Len(s) - 1
         /\ \A k \in a .. Lex(s, a).pos : At(s, k) # NUL
         /\ Literal(s, Lex(s, a)) = Kept(s, a, Lex(s, a).pos + 1)
         /\ Lex(s, a).kind \in {"Lt", "Rt"} => Lex(s, a).first = a /\ Lex(s, a).pos = a
         /\ Lex(s, a).kind = "Lt" => At(s, a) = "<"
<1> DEFINE t == Lex(s, a)
<1>1. Len(s) \in Nat /\ a \in Nat /\ a \in Int
  BY LenProperties
<1>2. CASE At(s, a) \in {"<", ">", "/"}
  <2>1. t = Token(IF At(s, a) = "<" THEN "Lt" ELSE IF At(s, a) = ">" THEN "Rt" ELSE "sL", a, a)
    BY <1>2 DEF Lex, NUL
  <2>2. /\ t \in Tokens /\ t.kind \in {"Lt", "Rt", "sL"} /\ t.first = a /\ t.pos = a
        /\ t.kind = "Lt" => At(s, a) = "<"
    BY <1>1, <2>1 DEF Token, Tokens, TokenKinds
  <2> HIDE DEF t
  <2>3. Literal(s, t) = SubSeq(s, a + 1, a + 1)
    BY <2>2 DEF Literal, Span
  <2>4. Piece(s, a) = <<At(s, a)>>
    <3>1. At(s, a) # Blank
      BY <1>2 DEF Blank
    <3> QED
      BY <3>1 DEF Piece
  <2>5. \A k \in a .. (a + 1) - 1 : Piece(s, k) = <<At(s, k)>>
    <3>1. \A k \in a .. (a + 1) - 1 : k = a
      BY <1>1
    <3> QED
      BY <2>4, <3>1
  <2>6. Kept(s, a, a + 1) = SubSeq(s, a + 1, a + 1)
    <3>1. a + 1 \in Nat /\ a <= a + 1 /\ a + 1 <= Len(s)
      BY <1>1
    <3> QED
      BY <1>1, <2>5, <3>1, PlainKept
  <2>7. \A k \in a .. t.pos : At(s, k) # NUL
    <3>1. \A k \in a .. t.pos : k = a
      BY <1>1, <2>2
    <3> QED
      BY <3>1
  <2>8. t.pos \in a .. Len(s) - 1 /\ Literal(s, t) = Kept(s, a, t.pos + 1)
    BY <1>1, <2>2, <2>3, <2>6
  <2> QED
    BY <2>2, <2>7, <2>8 DEF t
<1>3. CASE At(s, a) \notin {"<", ">", "/"}
  <2>0. At(s, a) \notin {NUL, "<", ">", "/"}
    BY <1>3
  <2>1. t = Word(s, a)
    BY <2>0 DEF Lex
  <2>2. /\ t \in Tokens /\ t.kind \in {"ident", "str"} /\ t.pos \in a .. Len(s) - 1
        /\ \A k \in a .. t.pos : At(s, k) \notin {NUL, "<", "/"}
        /\ t.first = IF At(s, a) = Blank /\ AfterOpening(s, a) THEN a - 1 ELSE a
    BY <2>0, <2>1, WordFacts
  <2> HIDE DEF t
  <2>3. t.pos \in Nat /\ t.first \in Nat /\ t.kind # "EOF"
    BY <1>1, <2>2 DEF Tokens
  <2> DEFINE e == t.pos
  <2>4. Literal(s, t) = SubSeq(s, t.first + 1, e + 1)
    BY <2>3 DEF Literal, Span
  <2>5. \A k \in a + 1 .. e : Piece(s, k) = <<At(s, k)>>
    <3> SUFFICES ASSUME NEW k \in a + 1 .. e PROVE Piece(s, k) = <<At(s, k)>>
      OBVIOUS
    <3>1. k \in a .. e /\ k - 1 \in a .. e
      BY <1>1, <2>3
    <3>2. At(s, k) # NUL /\ At(s, k - 1) \notin {"<", "/"}
      BY <2>2, <3>1
    <3>3. ~ AfterOpening(s, k)
      BY <3>2 DEF AfterOpening
    <3> QED
      BY <3>2, <3>3 DEF Piece
  <2>6. Kept(s, a + 1, e + 1) = SubSeq(s, a + 2, e + 1)
    <3>1. a + 1 \in Nat /\ e + 1 \in Nat /\ a + 1 <= e + 1 /\ e + 1 <= Len(s) /\ (a + 1) + 1 = a + 2
          /\ (e + 1) - 1 = e
      BY <1>1, <2>2
    <3>2. Kept(s, a + 1, e + 1) = SubSeq(s, (a + 1) + 1, e + 1)
      BY <2>5, <3>1, PlainKept
    <3> QED
      BY <3>1, <3>2
  <2>7. Kept(s, a, e + 1) = Piece(s, a) \o SubSeq(s, a + 2, e + 1)
    <3>1. a + 1 \in Nat /\ e + 1 \in Nat /\ a + 1 <= e + 1 /\ a <= a + 1 /\ a <= a
      BY <1>1, <2>2
    <3>2. Kept(s, a, e + 1) = Kept(s, a, a + 1) \o Kept(s, a + 1, e + 1)
      <4> DEFINE b == a + 1
                 c == e + 1
      <4>1. a \in Nat /\ b \in Nat /\ c \in Nat /\ a <= b /\ b <= c
        BY <1>1, <3>1
      <4> HIDE DEF b, c
      <4>2. Kept(s, a, c) = Kept(s, a, b) \o Kept(s, b, c)
        BY <4>1, KeptJoined
      <4> QED
        BY ONLY <4>2 DEF b, c
    <3>3. Kept(s, a, a) = <<>> /\ Kept(s, a, a + 1) = Kept(s, a, a) \o Piece(s, a)
      <4>1. a <= a
        BY <1>1
      <4>2. Kept(s, a, a) = <<>>
        BY <1>1, <4>1, KeptFacts
      <4>3. Kept(s, a, a + 1) = Kept(s, a, a) \o Piece(s, a)
        BY <1>1, <4>1, KeptFacts
      <4> QED
        BY <4>2, <4>3
    <3>4. <<>> \o Piece(s, a) = Piece(s, a)
      BY <1>1, PieceType, ConcatEmptySeq
    <3> QED
      BY <2>6, <3>2, <3>3, <3>4
  <2>8. Literal(s, t) = Kept(s, a, e + 1)
    <3>1. At(s, a) = s[a + 1] /\ At(s, a) # NUL /\ s[a + 1] \in Symbols /\ a + 1 \in 1 .. Len(s)
      BY <1>1, AtFacts, ElementOfSeq
    <3>2. CASE ~ (At(s, a) = Blank /\ AfterOpening(s, a))
      <4>1. t.first = a /\ Piece(s, a) = <<s[a + 1]>>
        BY <2>2, <3>1, <3>2 DEF Piece
      <4>2. e + 1 \in a + 1 .. Len(s) /\ (a + 1) + 1 = a + 2
        BY <1>1, <2>2
      <4>3. SubSeq(s, a + 1, e + 1) = <<s[a + 1]>> \o SubSeq(s, (a + 1) + 1, e + 1)
        BY <3>1, <4>2, SubSeqRecursiveFirst
      <4> QED
        BY <2>4, <2>7, <4>1, <4>2, <4>3
    <3>3. CASE At(s, a) = Blank /\ AfterOpening(s, a)
      <4>1. a >= 1
        BY <1>1, <3>3 DEF AfterOpening
      <4>2. a - 1 \in 0 .. Len(s) - 1 /\ (a - 1) + 1 = a /\ a \in 1 .. Len(s) /\ a - 1 \in Int
        BY <1>1, <4>1
      <4>3. At(s, a - 1) = s[a] /\ s[a] \in Symbols
        BY <4>2, AtFacts, ElementOfSeq
      <4>4. t.first = a - 1 /\ Piece(s, a) = <<s[a], s[a + 1]>>
        BY <2>2, <3>1, <3>3, <4>3 DEF Piece
      <4>5. /\ e + 1 \in a .. Len(s) /\ e + 1 \in a + 1 .. Len(s) /\ (a + 1) + 1 = a + 2
        BY <1>1, <2>2
      <4>6. SubSeq(s, a, e + 1) = <<s[a]>> \o SubSeq(s, a + 1, e + 1)
        BY <4>2, <4>5, SubSeqRecursiveFirst
      <4>7. SubSeq(s, a + 1, e + 1) = <<s[a + 1]>> \o SubSeq(s, a + 2, e + 1)
        <5>1. SubSeq(s, a + 1, e + 1) = <<s[a + 1]>> \o SubSeq(s, (a + 1) + 1, e + 1)
          BY <3>1, <4>5, SubSeqRecursiveFirst
        <5> QED
          BY ONLY <4>5, <5>1
      <4> DEFINE x == <<s[a]>>
                 y == <<s[a + 1]>>
                 z == SubSeq(s, a + 2, e + 1)
      <4>8. x \in Seq(Symbols) /\ y \in Seq(Symbols) /\ x \o y = <<s[a], s[a + 1]>>
        BY <3>1, <4>3, OnesType
      <4>9. z \in Seq(Symbols)
        <5>1. a + 2 \in Int /\ e + 1 \in Int /\ \A i \in a + 2 .. e + 1 : s[i] \in Symbols
          BY <1>1, <4>5, ElementOfSeq
        <5> QED
          BY <5>1, SubSeqProperties
      <4>10. /\ SubSeq(s, a, e + 1) = x \o (y \o z)
             /\ Piece(s, a) = x \o y
             /\ Kept(s, a, e + 1) = Piece(s, a) \o z
             /\ Literal(s, t) = SubSeq(s, a, e + 1)
        BY <2>4, <2>7, <4>2, <4>4, <4>6, <4>7, <4>8
      <4> HIDE DEF x, y, z
      <4>11. x \in Seq(Symbols) /\ y \in Seq(Symbols)
        BY <4>8
      <4>12. (x \o y) \o z = x \o (y \o z)
        <5>1. Regroups(x, y, z)
          BY <4>9, <4>11, Regrouping
        <5> QED
          BY ONLY <5>1 DEF Regroups
      <4> QED
        BY <4>10, <4>12
    <3> QED
      BY <3>2, <3>3
  <2> QED
    BY <2>2, <2>3, <2>8 DEF t
<1> QED
  BY <1>2, <1>3

\* Behind the text there are ends only.
LEMMA LexEnd ==
  ASSUME NEW s, NEW a, At(s, a) = NUL
  PROVE  Lex(s, a) = Token("EOF", a, a)
BY DEF Lex, NUL

-----------------------------------------------------------------------------
(* The parser and its two tokens.                                          *)

Parsers(s) == [input : {s}, pos : Int, curr : Tokens, peek : Tokens]

\* Token t is what the lexer finds at place a, which is in the text or its end.
StandsAt(s, a, t) == IF a < Len(s) THEN t = Lex(s, a) ELSE t.kind = "EOF" /\ t.pos >= Len(s)

Behind(s, t) == IF t.pos < Len(s) THEN t.pos + 1 ELSE Len(s)

\* The current token is at a, the next one behind it, and the lexer at its end.
InPlace(p, s, a) ==
  /\ p \in Parsers(s) /\ a \in 0 .. Len(s)
  /\ StandsAt(s, a, p.curr) /\ StandsAt(s, Behind(s, p.curr), p.peek)
  /\ IF p.peek.pos < Len(s) THEN p.pos = p.peek.pos ELSE p.pos >= Len(s) - 1

Beyond(s, a) == {q \in Parsers(s) : \E b \in a .. Len(s) : InPlace(q, s, b)}

LEMMA LexAt ==
  ASSUME NEW s \in Seq(Symbols), NEW a \in Nat
  PROVE  /\ Lex(s, a) \in Tokens
         /\ a < Len(s) => Lex(s, a).pos \in a .. Len(s) - 1
         /\ a >= Len(s) => Lex(s, a) = Token("EOF", a, a)
<1>1. Len(s) \in Nat
  BY LenProperties
<1>2. CASE At(s, a) = NUL
  <2>1. Lex(s, a) = Token("EOF", a, a)
    BY <1>2, LexEnd
  <2> QED
    BY <1>1, <2>1 DEF Token, Tokens, TokenKinds
<1>3. CASE At(s, a) # NUL
  <2>1. a \in 0 .. Len(s) - 1
    BY <1>3, AtFacts
  <2> QED
    BY <1>1, <1>3, <2>1, LexFacts
<1> QED
  BY <1>2, <1>3

LEMMA BehindFacts ==
  ASSUME NEW s \in Seq(Symbols), NEW a \in 0 .. Len(s), NEW t \in Tokens, StandsAt(s, a, t)
  PROVE  /\ Behind(s, t) \in a .. Len(s)
         /\ a < Len(s) => Behind(s, t) = t.pos + 1 /\ a < Behind(s, t)
<1>1. Len(s) \in Nat /\ t.pos \in Nat /\ a \in Nat
  BY LenProperties DEF Tokens
<1>2. CASE a < Len(s)
  <2>1. t.pos \in a .. Len(s) - 1
    BY <1>1, <1>2, LexAt DEF StandsAt
  <2> QED
    BY <1>1, <1>2, <2>1 DEF Behind
<1>3. CASE a = Len(s)
  BY <1>1, <1>3 DEF StandsAt, Behind
<1> QED
  BY <1>1, <1>2, <1>3

LEMMA NextInPlace ==
  ASSUME NEW s \in Seq(Symbols), NEW a, NEW p, InPlace(p, s, a)
  PROVE  /\ InPlace(NextToken(p), s, Behind(s, p.curr))
         /\ NextToken(p).curr = p.peek
<1> DEFINE b == Behind(s, p.curr)
           c == Behind(s, p.peek)
           t == Lex(s, p.pos + 1)
           q == NextToken(p)
<1>1. Len(s) \in Nat
  BY LenProperties
<1>2. /\ p \in Parsers(s) /\ a \in 0 .. Len(s) /\ p.input = s /\ p.curr \in Tokens /\ p.peek \in Tokens
      /\ p.pos \in Int /\ p.peek.pos \in Nat
      /\ StandsAt(s, a, p.curr) /\ StandsAt(s, b, p.peek)
  BY DEF InPlace, Parsers, Tokens
<1>3. b \in 0 .. Len(s)
  BY <1>1, <1>2, BehindFacts
<1>4. c \in 0 .. Len(s)
  BY <1>1, <1>2, <1>3, BehindFacts
<1>5. p.pos + 1 \in Nat /\ (p.peek.pos < Len(s) => p.pos + 1 = c) /\ (p.peek.pos >= Len(s) => p.pos + 1 >= Len(s) /\ c = Len(s))
  BY <1>1, <1>2 DEF InPlace, Behind
<1>6. t \in Tokens /\ StandsAt(s, c, t)
  <2>1. t \in Tokens /\ (p.pos + 1 >= Len(s) => t = Token("EOF", p.pos + 1, p.pos + 1))
    BY <1>5, LexAt
  <2>2. CASE p.pos + 1 >= Len(s)
    <3>1. t.kind = "EOF" /\ t.pos >= Len(s)
      BY <2>1, <2>2 DEF Token
    <3>2. ~ (c < Len(s))
      BY <1>1, <1>2, <1>5, <2>2
    <3> QED
      BY <2>1, <3>1, <3>2 DEF StandsAt
  <2>3. CASE p.pos + 1 < Len(s)
    <3>1. p.pos + 1 = c
      BY <1>1, <1>2, <1>5, <2>3
    <3> QED
      BY <2>1, <2>3, <3>1 DEF StandsAt
  <2> QED
    BY <1>1, <1>2, <2>2, <2>3
<1>7. q = [p EXCEPT !.curr = p.peek, !.peek = t, !.pos = t.pos]
  BY <1>2 DEF NextToken, Shift
<1> HIDE DEF t, q
<1>8. t.pos \in Nat
  BY <1>6 DEF Tokens
<1>9. q \in Parsers(s) /\ q.curr = p.peek /\ q.peek = t /\ q.pos = t.pos
  <2> DEFINE x == t.pos
             y == p.peek
  <2>1. p \in Parsers(s) /\ t \in Tokens /\ x \in Int /\ y \in Tokens
    BY <1>2, <1>6, <1>8
  <2>2. q = [p EXCEPT !.curr = y, !.peek = t, !.pos = x]
    BY <1>7
  <2> HIDE DEF x, y
  <2>3. q \in Parsers(s) /\ q.curr = y /\ q.peek = t /\ q.pos = x
    BY <2>1, <2>2 DEF Parsers
  <2> QED
    BY <2>3 DEF x, y
<1>10. IF q.peek.pos < Len(s) THEN q.pos = q.peek.pos ELSE q.pos >= Len(s) - 1
  BY <1>1, <1>8, <1>9
<1>11. StandsAt(s, b, q.curr) /\ StandsAt(s, Behind(s, q.curr), q.peek)
  BY <1>2, <1>6, <1>9
<1> HIDE DEF b
<1>12. InPlace(q, s, b)
  BY <1>3, <1>9, <1>10, <1>11 DEF InPlace
<1> QED
  BY <1>9, <1>12 DEF b, q

LEMMA SeekInPlace ==
  ASSUME NEW s \in Seq(Symbols), NEW a, NEW p, InPlace(p, s, a), NEW q \in Parsers(s)
  PROVE  InPlace(SeekToken(q, p), s, a) /\ SeekToken(q, p).curr = p.curr
<1> DEFINE P == {p.peek.pos, Len(s) - 1}
           r == SeekToken(q, p)
<1>1. Len(s) \in Nat
  BY LenProperties
<1>2. p.curr \in Tokens /\ p.peek \in Tokens /\ p.peek.pos \in Nat
  BY DEF InPlace, Parsers, Tokens
<1>3. Min(P) \in P /\ Min(P) <= p.peek.pos /\ Min(P) <= Len(s) - 1
  <2>1. P \in SUBSET (-1 .. p.peek.pos + Len(s)) /\ P # {} /\ -1 \in Int /\ p.peek.pos + Len(s) \in Int
    BY <1>1, <1>2
  <2>2. p.peek.pos \in P /\ Len(s) - 1 \in P
    OBVIOUS
  <2> HIDE DEF P
  <2>3. Min(P) \in P /\ \A x \in P : Min(P) <= x
    BY <2>1, FirstPlace
  <2> QED
    BY <2>2, <2>3
<1> DEFINE m == Min(P)
<1>4. q.input = s
  BY DEF Parsers
<1>5. r = [q EXCEPT !.curr = p.curr, !.peek = p.peek, !.pos = m]
  BY <1>4 DEF SeekToken
<1>6. m \in {p.peek.pos, Len(s) - 1} /\ m <= p.peek.pos /\ m <= Len(s) - 1
  BY <1>3
<1> HIDE DEF r, m
<1>7. m \in Int /\ IF p.peek.pos < Len(s) THEN m = p.peek.pos ELSE m = Len(s) - 1
  BY <1>1, <1>2, <1>6
<1>8. r \in Parsers(s) /\ r.curr = p.curr /\ r.peek = p.peek /\ r.pos = m
  BY <1>2, <1>5, <1>7 DEF Parsers
<1>9. InPlace(r, s, a)
  <2>1. a \in 0 .. Len(s) /\ StandsAt(s, a, r.curr) /\ StandsAt(s, Behind(s, r.curr), r.peek)
    BY <1>8 DEF InPlace
  <2>2. IF r.peek.pos < Len(s) THEN r.pos = r.peek.pos ELSE r.pos >= Len(s) - 1
    BY <1>1, <1>7, <1>8
  <2> QED
    BY <1>8, <2>1, <2>2 DEF InPlace
<1> QED
  BY <1>8, <1>9 DEF r

LEMMA NextBeyond ==
  ASSUME NEW s \in Seq(Symbols), NEW a \in Nat, NEW q \in Beyond(s, a)
  PROVE  NextToken(q) \in Beyond(s, a)
<1>1. PICK b \in a .. Len(s) : InPlace(q, s, b)
  BY DEF Beyond
<1>2. Len(s) \in Nat /\ b \in 0 .. Len(s) /\ q.curr \in Tokens /\ StandsAt(s, b, q.curr)
  BY <1>1, LenProperties DEF InPlace, Parsers
<1> DEFINE c == Behind(s, q.curr)
<1>3. c \in b .. Len(s)
  BY <1>2, BehindFacts
<1>4. InPlace(NextToken(q), s, c)
  BY <1>1, NextInPlace
<1> HIDE DEF c
<1>5. c \in a .. Len(s)
  BY <1>1, <1>2, <1>3
<1> QED
  BY <1>4, <1>5 DEF Beyond, InPlace

\* What a function that is given by a step makes of each number.
Steps(f, c, g, n) == f = [k \in 0 .. n |-> IF k = 0 THEN c ELSE g[f[k - 1]]]

LEMMA StepsExist ==
  ASSUME NEW V, NEW c \in V, NEW g \in [V -> V], NEW n \in Nat
  PROVE  \E f \in [0 .. n -> V] : Steps(f, c, g, n)
<1> DEFINE h == [x \in (1 .. n) \X V |-> g[x[2]]]
<1>1. h \in [(1 .. n) \X V -> V]
  OBVIOUS
<1> HIDE DEF h
<1>2. PICK f \in [0 .. n -> V] : Follows(f, n, c, h)
  BY <1>1, Recursion
<1>3. \A k \in 0 .. n : f[k] = IF k = 0 THEN c ELSE g[f[k - 1]]
  <2> SUFFICES ASSUME NEW k \in 0 .. n PROVE f[k] = IF k = 0 THEN c ELSE g[f[k - 1]]
    OBVIOUS
  <2>1. CASE k = 0
    BY <1>2, <2>1 DEF Follows
  <2>2. CASE k # 0
    <3>1. k \in 1 .. n /\ f[k - 1] \in V
      BY <2>2
    <3>2. f[k] = h[<<k, f[k - 1]>>]
      BY <1>2, <3>1 DEF Follows
    <3> QED
      BY <2>2, <3>1, <3>2 DEF h
  <2> QED
    BY <2>1, <2>2
<1>4. Steps(f, c, g, n)
  BY <1>3 DEF Steps
<1> QED
  BY <1>4

LEMMA StepsType ==
  ASSUME NEW V, NEW c \in V, NEW g \in [V -> V], NEW n \in Nat, NEW f,
         f[0] = c, \A k \in 1 .. n : f[k - 1] \in V => f[k] = g[f[k - 1]]
  PROVE  \A k \in 0 .. n : f[k] \in V
<1> DEFINE T == {k \in 0 .. n : f[k] \in V}
<1>1. 0 \in T
  OBVIOUS
<1>2. ASSUME NEW k \in 0 .. n, k \in T, k < n
      PROVE  k + 1 \in T
  <2>1. k + 1 \in 1 .. n /\ (k + 1) - 1 = k
    BY <1>2
  <2> QED
    BY <1>2, <2>1
<1> HIDE DEF T
<1>3. 0 .. n \subseteq T
  BY <1>1, <1>2, InductionUpTo
<1> QED
  BY <1>3 DEF T

\* Rounds whose step is a function of what they keep to.
Walks(f, V, g, n) == \A k \in 1 .. n : f[k - 1] \in V => f[k] = g[f[k - 1]]

LEMMA WalkStays ==
  ASSUME NEW V, NEW c \in V, NEW g \in [V -> V], NEW n \in Nat, NEW f,
         f[0] = c, Walks(f, V, g, n)
  PROVE  \A k \in 0 .. n : f[k] \in V
BY StepsType DEF Walks

-----------------------------------------------------------------------------
(* eachTokenOf.                                                            *)

AfterIs(f, p, n) == f = [j \in 0 .. n |-> NextToken(IF j = 0 THEN p ELSE f[j - 1])]

LEMMA AfterFacts ==
  ASSUME NEW s \in Seq(Symbols), NEW a \in Nat, NEW p, NextToken(p) \in Beyond(s, a), NEW n \in Nat
  PROVE  /\ \E f : AfterIs(f, p, n)
         /\ \A f : AfterIs(f, p, n) =>
              \A j \in 0 .. n : f[j] \in Beyond(s, a) /\ (j > 0 => f[j].curr = f[j - 1].peek)
<1> DEFINE V == Beyond(s, a)
           g == [q \in V |-> NextToken(q)]
           c == NextToken(p)
<1>1. c \in V /\ g \in [V -> V] /\ \A q \in V : g[q] = NextToken(q)
  BY NextBeyond
<1> HIDE DEF V, g, c
<1>2. \E f : AfterIs(f, p, n)
  <2>1. PICK f \in [0 .. n -> V] : Steps(f, c, g, n)
    BY <1>1, StepsExist
  <2>2. \A k \in 0 .. n : (IF k = 0 THEN c ELSE g[f[k - 1]]) = NextToken(IF k = 0 THEN p ELSE f[k - 1])
    BY <1>1 DEF c
  <2>3. f = [k \in 0 .. n |-> IF k = 0 THEN c ELSE g[f[k - 1]]]
    BY <2>1 DEF Steps
  <2>4. f = [k \in 0 .. n |-> NextToken(IF k = 0 THEN p ELSE f[k - 1])]
    BY <2>2, <2>3
  <2> QED
    BY <2>4 DEF AfterIs
<1>3. ASSUME NEW f, AfterIs(f, p, n), NEW j \in 0 .. n
      PROVE  f[j] \in V /\ (j > 0 => f[j].curr = f[j - 1].peek)
  <2>1. \A k \in 0 .. n : f[k] = NextToken(IF k = 0 THEN p ELSE f[k - 1])
    <3> DEFINE h == [k \in 0 .. n |-> NextToken(IF k = 0 THEN p ELSE f[k - 1])]
    <3>1. f = h
      BY <1>3 DEF AfterIs
    <3>2. \A k \in 0 .. n : h[k] = NextToken(IF k = 0 THEN p ELSE f[k - 1])
      OBVIOUS
    <3> HIDE DEF h
    <3> QED
      BY <3>1, <3>2
  <2>2. f[0] = c
    BY <2>1 DEF c
  <2>3. \A k \in 1 .. n : f[k] = NextToken(f[k - 1])
    BY <2>1
  <2>4. \A k \in 1 .. n : f[k - 1] \in V => f[k] = g[f[k - 1]]
    BY <1>1, <2>3
  <2>5. \A k \in 0 .. n : f[k] \in V
    <3>1. Walks(f, V, g, n) /\ n \in Nat
      BY <2>4 DEF Walks
    <3>2. c \in V /\ g \in [V -> V]
      BY <1>1
    <3> QED
      BY ONLY <2>2, <3>1, <3>2, WalkStays
  <2>6. j > 0 => f[j].curr = f[j - 1].peek
    <3> SUFFICES ASSUME j > 0 PROVE f[j].curr = f[j - 1].peek
      OBVIOUS
    <3>1. j \in 1 .. n /\ f[j - 1] \in V
      BY <2>5
    <3>2. PICK b : InPlace(f[j - 1], s, b)
      BY <3>1 DEF V, Beyond
    <3>3. NextToken(f[j - 1]).curr = f[j - 1].peek
      BY <3>2, NextInPlace
    <3> QED
      BY <2>3, <3>1, <3>3
  <2> QED
    BY <2>5, <2>6
<1> QED
  BY <1>2, <1>3 DEF V

ReadStates(s, a, kinds) ==
  {r \in [state : {"reading", "found", "missing"}, tokens : Seq(Tokens), parser : Beyond(s, a)] :
     r.state = "found" => r.parser.curr.kind = kinds[Len(kinds)]}

LEMMA ReadRoundFacts ==
  ASSUME NEW s \in Seq(Symbols), NEW a \in Nat, NEW kinds, Len(kinds) \in Nat \ {0},
         NEW r \in ReadStates(s, a, kinds), r.state = "reading"
  PROVE  ReadRound(kinds, r) \in ReadStates(s, a, kinds)
<1> DEFINE n == Len(kinds)
           after == CHOOSE f : AfterIs(f, r.parser, n)
           F == {j \in 0 .. n - 1 : after[j].peek.kind # kinds[j + 1]}
           fits == Min({n} \cup F)
           some == [j \in 1 .. fits + 1 |-> after[j - 1].curr]
           found == [state |-> IF fits = n THEN "found" ELSE "reading",
                     tokens |-> r.tokens \o some, parser |-> after[fits]]
<1>1. /\ r.parser \in Beyond(s, a) /\ r.tokens \in Seq(Tokens) /\ n \in Nat \ {0}
      /\ NextToken(r.parser) \in Beyond(s, a)
  BY NextBeyond DEF ReadStates
<1>2. AfterIs(after, r.parser, n)
  BY <1>1, AfterFacts
<1>3. \A j \in 0 .. n : after[j] \in Beyond(s, a) /\ (j > 0 => after[j].curr = after[j - 1].peek)
  BY <1>1, <1>2, AfterFacts
<1>4. ReadRound(kinds, r) = IF after[0].peek.kind = "EOF" THEN [r EXCEPT !.state = "missing"] ELSE found
  BY DEF ReadRound, AfterIs
<1> HIDE DEF after
<1>5. fits \in {n} \cup F /\ \A j \in {n} \cup F : fits <= j
  <2>1. {n} \cup F \in SUBSET (0 .. n) /\ {n} \cup F # {} /\ 0 \in Int /\ n \in Int
    BY <1>1
  <2> HIDE DEF F, n
  <2> QED
    BY <2>1, FirstPlace
<1> HIDE DEF fits
<1>6. fits \in 0 .. n /\ (fits = n => after[n - 1].peek.kind = kinds[n])
  <2>1. fits \in 0 .. n
    BY <1>1, <1>5
  <2>2. fits = n => n - 1 \notin F
    BY <1>1, <1>5
  <2>3. n - 1 \in 0 .. n - 1 /\ (n - 1) + 1 = n
    BY <1>1
  <2> QED
    BY <2>1, <2>2, <2>3
<1>7. some \in Seq(Tokens)
  <2>1. \A j \in 1 .. fits + 1 : after[j - 1].curr \in Tokens
    <3> SUFFICES ASSUME NEW j \in 1 .. fits + 1 PROVE after[j - 1].curr \in Tokens
      OBVIOUS
    <3>1. j - 1 \in 0 .. n
      BY <1>1, <1>6
    <3> QED
      BY <1>3, <3>1 DEF Beyond, Parsers
  <2>2. fits + 1 \in Nat
    BY <1>1, <1>6
  <2> QED
    BY <2>1, <2>2, IsASeq
<1> HIDE DEF some
<1>8. r.tokens \o some \in Seq(Tokens)
  BY <1>1, <1>7, ConcatProperties
<1>9. found \in ReadStates(s, a, kinds)
  <2>1. after[fits] \in Beyond(s, a)
    BY <1>3, <1>6
  <2>2. fits = n => after[fits].curr.kind = kinds[n]
    <3> SUFFICES ASSUME fits = n PROVE after[n].curr.kind = kinds[n]
      OBVIOUS
    <3>1. after[n].curr = after[n - 1].peek
      BY <1>1, <1>3
    <3> QED
      BY <1>6, <3>1
  <2> QED
    BY <1>8, <2>1, <2>2 DEF ReadStates
<1>10. [r EXCEPT !.state = "missing"] \in ReadStates(s, a, kinds)
  BY DEF ReadStates
<1> QED
  BY <1>4, <1>9, <1>10

LEMMA BeyondWeaker ==
  ASSUME NEW s, NEW a \in Nat, NEW b \in Nat, a <= b
  PROVE  Beyond(s, b) \subseteq Beyond(s, a)
<1>1. b .. Len(s) \subseteq a .. Len(s)
  OBVIOUS
<1> QED
  BY <1>1 DEF Beyond

\* A round that does not end the reading reads a token at least.
LEMMA ReadRoundMoves ==
  ASSUME NEW s \in Seq(Symbols), NEW kinds, Len(kinds) \in Nat \ {0},
         NEW r \in ReadStates(s, 0, kinds), NEW b, InPlace(r.parser, s, b)
  PROVE  ReadRound(kinds, r).state # "missing" => ReadRound(kinds, r).parser \in Beyond(s, b + 1)
<1> DEFINE n == Len(kinds)
           after == CHOOSE f : AfterIs(f, r.parser, n)
           F == {j \in 0 .. n - 1 : after[j].peek.kind # kinds[j + 1]}
           fits == Min({n} \cup F)
           some == [j \in 1 .. fits + 1 |-> after[j - 1].curr]
           found == [state |-> IF fits = n THEN "found" ELSE "reading",
                     tokens |-> r.tokens \o some, parser |-> after[fits]]
           q == NextToken(r.parser)
           c == Behind(s, r.parser.curr)
           m == b + 1
<1>1. /\ Len(s) \in Nat /\ b \in 0 .. Len(s) /\ n \in Nat \ {0} /\ m \in Nat
      /\ r.parser.curr \in Tokens /\ StandsAt(s, b, r.parser.curr)
  BY LenProperties DEF InPlace, Parsers
<1>2. InPlace(q, s, c) /\ c \in b .. Len(s) /\ (b < Len(s) => b < c)
  <2>1. b \in 0 .. Len(s) /\ r.parser.curr \in Tokens /\ StandsAt(s, b, r.parser.curr)
    BY <1>1
  <2>2. /\ Behind(s, r.parser.curr) \in b .. Len(s)
        /\ b < Len(s) => b < Behind(s, r.parser.curr)
    BY <2>1, BehindFacts
  <2> QED
    BY <2>2, NextInPlace
<1>3. ReadRound(kinds, r) = IF after[0].peek.kind = "EOF" THEN [r EXCEPT !.state = "missing"] ELSE found
  BY DEF ReadRound, AfterIs
<1> HIDE DEF some
<1>4. found.parser = after[fits]
  OBVIOUS
<1>5. fits \in 0 .. n
  <2>1. {n} \cup F \in SUBSET (0 .. n) /\ {n} \cup F # {} /\ 0 \in Int /\ n \in Int
    BY <1>1
  <2> HIDE DEF F, n
  <2> QED
    BY <2>1, FirstPlace
<1> HIDE DEF q, c, fits, found
<1>6. [r EXCEPT !.state = "missing"].state = "missing"
  BY DEF ReadStates
<1>7. CASE b < Len(s)
  <2>1. q \in Beyond(s, m)
    BY <1>1, <1>2, <1>7 DEF Beyond, InPlace
  <2>2. NextToken(r.parser) \in Beyond(s, m)
    BY <2>1 DEF q
  <2>3. AfterIs(after, r.parser, n)
    BY <1>1, <2>2, AfterFacts
  <2> HIDE DEF after
  <2>4. \A j \in 0 .. n : after[j] \in Beyond(s, m)
    BY <1>1, <2>2, <2>3, AfterFacts
  <2>5. found.parser \in Beyond(s, m)
    BY <1>4, <1>5, <2>4
  <2> QED
    BY <1>3, <1>6, <2>5
<1>8. CASE b = Len(s)
  <2>1. c = Len(s) /\ StandsAt(s, c, q.curr) /\ q.curr \in Tokens /\ StandsAt(s, Behind(s, q.curr), q.peek)
    BY <1>1, <1>2, <1>8 DEF InPlace, Parsers
  <2>2. q.curr.pos >= Len(s)
    BY <1>1, <2>1 DEF StandsAt
  <2>3. Behind(s, q.curr) = Len(s)
    BY <1>1, <2>1, <2>2 DEF Behind, Tokens
  <2>4. q.peek.kind = "EOF"
    BY <1>1, <2>1, <2>3 DEF StandsAt
  <2>5. after[0] = q
    <3>1. NextToken(r.parser) \in Beyond(s, b)
      BY <1>1, <1>2 DEF Beyond, InPlace, q
    <3>2. AfterIs(after, r.parser, n)
      BY <1>1, <3>1, AfterFacts
    <3> HIDE DEF after
    <3> DEFINE h == [j \in 0 .. n |-> NextToken(IF j = 0 THEN r.parser ELSE after[j - 1])]
    <3>3. after = h
      BY <3>2 DEF AfterIs
    <3>4. h[0] = NextToken(r.parser)
      BY <1>1
    <3> HIDE DEF h
    <3> QED
      BY <3>3, <3>4 DEF q
  <2>6. ReadRound(kinds, r) = [r EXCEPT !.state = "missing"]
    BY <1>3, <2>4, <2>5
  <2> QED
    BY <1>6, <2>6
<1> QED
  BY <1>1, <1>7, <1>8

\* What eachTokenOf has after its last round.
LastRead(p, kinds) ==
  LET Round(r) == IF r.state = "reading" THEN ReadRound(kinds, r) ELSE r
  IN  Rounds(Round, [state |-> "reading", tokens |-> <<>>, parser |-> p], Len(p.input) + 2)

LEMMA LastReadFacts ==
  ASSUME NEW s \in Seq(Symbols), NEW a, NEW p, InPlace(p, s, a),
         NEW kinds, Len(kinds) \in Nat \ {0}
  PROVE  LET last == LastRead(p, kinds)
         IN  /\ last \in ReadStates(s, a, kinds) /\ last.state # "reading"
             /\ last.state = "found" => last.parser \in Beyond(s, a + 1)
<1> DEFINE n == Len(p.input) + 2
           V == ReadStates(s, a, kinds)
           c == [state |-> "reading", tokens |-> <<>>, parser |-> p]
           Round(r) == IF r.state = "reading" THEN ReadRound(kinds, r) ELSE r
           g == [r \in V |-> Round(r)]
           Is(f) == f = [k \in 0 .. n |-> IF k = 0 THEN c ELSE Round(f[k - 1])]
           after == CHOOSE f : Is(f)
           Far(k) == /\ after[k].state = "reading" => after[k].parser \in Beyond(s, a + k)
                     /\ after[k].state = "found" => after[k].parser \in Beyond(s, a + 1)
           T == {k \in 0 .. n : Far(k)}
<1>1. Len(s) \in Nat /\ p.input = s /\ p \in Parsers(s) /\ a \in 0 .. Len(s) /\ n \in Nat
      /\ n = Len(s) + 2 /\ a \in Nat
  BY LenProperties DEF InPlace, Parsers
<1>2. LastRead(p, kinds) = after[n]
  BY DEF LastRead, Rounds
<1>3. c \in V
  <2>1. p \in Beyond(s, a)
    BY <1>1 DEF Beyond
  <2>2. <<>> \in Seq(Tokens)
    BY EmptySeq
  <2> QED
    BY <2>1, <2>2 DEF ReadStates
<1>4. \A r \in V : Round(r) \in V
  BY <1>1, ReadRoundFacts
<1>5. c.state = "reading" /\ c.parser = p
  OBVIOUS
<1>6. \A r \in V : r.state = "reading" => Round(r) = ReadRound(kinds, r)
  OBVIOUS
<1>7. \A r \in V : r.state # "reading" => Round(r) = r
  OBVIOUS
<1> HIDE DEF V, c, Round
<1>8. g \in [V -> V] /\ \A r \in V : g[r] = Round(r)
  BY <1>4
<1> HIDE DEF g, n
<1>9. \E f : Is(f)
  <2>1. PICK f \in [0 .. n -> V] : Steps(f, c, g, n)
    BY <1>1, <1>3, <1>8, StepsExist
  <2>2. \A k \in 0 .. n : (IF k = 0 THEN c ELSE g[f[k - 1]]) = IF k = 0 THEN c ELSE Round(f[k - 1])
    <3> SUFFICES ASSUME NEW k \in 0 .. n, k # 0 PROVE g[f[k - 1]] = Round(f[k - 1])
      OBVIOUS
    <3>1. f[k - 1] \in V
      BY <1>1
    <3> QED
      BY <1>8, <3>1
  <2>3. f = [k \in 0 .. n |-> IF k = 0 THEN c ELSE g[f[k - 1]]]
    BY <2>1 DEF Steps
  <2>4. f = [k \in 0 .. n |-> IF k = 0 THEN c ELSE Round(f[k - 1])]
    BY ONLY <2>2, <2>3
  <2> QED
    BY <2>4
<1>10. Is(after)
  BY <1>9
<1> HIDE DEF after
<1>11. after[0] = c /\ \A k \in 1 .. n : after[k] = Round(after[k - 1])
  <2> DEFINE h == [k \in 0 .. n |-> IF k = 0 THEN c ELSE Round(after[k - 1])]
  <2>1. after = h
    BY <1>10
  <2>2. h[0] = c /\ \A k \in 1 .. n : h[k] = Round(after[k - 1])
    BY <1>1
  <2> HIDE DEF h
  <2> QED
    BY <2>1, <2>2
<1>12. \A k \in 0 .. n : after[k] \in V
  <2>1. \A k \in 1 .. n : after[k - 1] \in V => after[k] = g[after[k - 1]]
    BY <1>8, <1>11
  <2>2. after[0] = c
    BY <1>11
  <2>3. n \in Nat /\ g \in [V -> V]
    BY <1>1, <1>8
  <2>4. c \in V
    BY <1>3
  <2> HIDE DEF Is, Far, T, V, g, c, n
  <2>5. Walks(after, V, g, n)
    BY <2>1 DEF Walks
  <2> QED
    BY ONLY <2>2, <2>3, <2>4, <2>5, WalkStays
<1>13. 0 \in T
  <2>1. p \in Beyond(s, a + 0)
    BY <1>1 DEF Beyond
  <2> QED
    BY <1>1, <1>5, <1>11, <2>1
<1>14. ASSUME NEW k \in 0 .. n, k \in T, k < n
       PROVE  k + 1 \in T
  <2> DEFINE r == after[k]
             next == after[k + 1]
  <2>1. k + 1 \in 1 .. n /\ (k + 1) - 1 = k /\ k \in Nat
    BY <1>1, <1>14
  <2>2. next = Round(r) /\ r \in V /\ next \in V
    BY <1>11, <1>12, <2>1
  <2>3. CASE r.state # "reading"
    <3>1. next = r
      BY <1>7, <2>2, <2>3
    <3> HIDE DEF next, r
    <3>2. r.state = "found" => r.parser \in Beyond(s, a + 1)
      BY <1>14 DEF r
    <3>3. next.state # "reading" /\ (next.state = "found" => next.parser \in Beyond(s, a + 1))
      BY <2>3, <3>1, <3>2
    <3> QED
      BY <1>1, <2>1, <3>3 DEF next
  <2>4. CASE r.state = "reading"
    <3>1. next = ReadRound(kinds, r)
      BY <1>6, <2>2, <2>4
    <3>2. r.parser \in Beyond(s, a + k)
      BY <1>14, <2>4
    <3>3. PICK b \in a + k .. Len(s) : InPlace(r.parser, s, b)
      BY <3>2 DEF Beyond
    <3> HIDE DEF next, r
    <3>4. r \in ReadStates(s, 0, kinds)
      <4>1. 0 \in Nat /\ 0 <= a
        BY <1>1
      <4>2. Beyond(s, a) \subseteq Beyond(s, 0)
        BY <1>1, <4>1, BeyondWeaker
      <4> QED
        BY <2>2, <4>2 DEF V, ReadStates
    <3>5. next.state # "missing" => next.parser \in Beyond(s, b + 1)
      BY <3>1, <3>3, <3>4, ReadRoundMoves
    <3>6. /\ Beyond(s, b + 1) \subseteq Beyond(s, a + (k + 1))
          /\ Beyond(s, b + 1) \subseteq Beyond(s, a + 1)
      <4>1. b + 1 \in Nat /\ a + (k + 1) \in Nat /\ a + 1 \in Nat /\ a + (k + 1) <= b + 1 /\ a + 1 <= b + 1
        BY <1>1, <2>1
      <4> QED
        BY <4>1, BeyondWeaker
    <3>7. next.state # "missing" => next.parser \in Beyond(s, a + (k + 1)) /\ next.parser \in Beyond(s, a + 1)
      BY <3>5, <3>6
    <3>8. /\ next.state = "reading" => next.parser \in Beyond(s, a + (k + 1))
          /\ next.state = "found" => next.parser \in Beyond(s, a + 1)
      BY <3>7
    <3> QED
      BY <1>1, <2>1, <3>8 DEF next
  <2> QED
    BY <2>3, <2>4
<1> HIDE DEF T
<1>15. 0 .. n \subseteq T
  <2>1. 0 \in Int /\ n \in Int
    BY <1>1
  <2>2. \A k \in 0 .. n : k \in T /\ k < n => k + 1 \in T
    BY <1>14
  <2> QED
    BY <1>13, <2>1, <2>2, InductionUpTo
<1>16. Far(n) /\ after[n] \in V
  BY <1>1, <1>12, <1>15 DEF T
<1>17. Beyond(s, a + n) = {}
  <2>1. a + n .. Len(s) = {}
    BY <1>1
  <2> QED
    BY <2>1 DEF Beyond
<1> QED
  BY <1>2, <1>16, <1>17 DEF V

LEMMA EachTokenFacts ==
  ASSUME NEW s \in Seq(Symbols), NEW a, NEW p, InPlace(p, s, a),
         NEW kinds, Len(kinds) \in Nat \ {0}
  PROVE  LET r == EachTokenOf(p, kinds)
         IN  /\ r.ok \in BOOLEAN /\ r.tokens \in Seq(Tokens)
             /\ r.ok => r.parser \in Beyond(s, a + 1) /\ r.parser \in Beyond(s, a)
                        /\ r.parser.curr.kind = kinds[Len(kinds)]
             /\ ~ r.ok => InPlace(r.parser, s, a) /\ r.parser.curr = p.curr
<1> DEFINE last == LastRead(p, kinds)
           ok == last.state = "found"
<1>1. EachTokenOf(p, kinds) = [ok |-> ok, tokens |-> last.tokens,
                               parser |-> IF ok THEN last.parser ELSE SeekToken(last.parser, p)]
  BY DEF EachTokenOf, LastRead, OrBack
<1>2. last \in ReadStates(s, a, kinds) /\ (ok => last.parser \in Beyond(s, a + 1))
  BY LastReadFacts
<1> HIDE DEF last
<1>3. last.tokens \in Seq(Tokens) /\ last.parser \in Beyond(s, a)
      /\ (last.state = "found" => last.parser.curr.kind = kinds[Len(kinds)])
  BY <1>2 DEF ReadStates
<1>4. InPlace(SeekToken(last.parser, p), s, a) /\ SeekToken(last.parser, p).curr = p.curr
  BY <1>3, SeekInPlace DEF Beyond
<1> DEFINE r == EachTokenOf(p, kinds)
<1>5. r.ok = ok /\ r.tokens = last.tokens
      /\ r.parser = IF ok THEN last.parser ELSE SeekToken(last.parser, p)
  BY <1>1
<1> HIDE DEF r
<1>6. /\ r.ok \in BOOLEAN /\ r.tokens \in Seq(Tokens)
      /\ r.ok => r.parser \in Beyond(s, a + 1) /\ r.parser \in Beyond(s, a)
                 /\ r.parser.curr.kind = kinds[Len(kinds)]
      /\ ~ r.ok => InPlace(r.parser, s, a) /\ r.parser.curr = p.curr
  BY <1>2, <1>3, <1>4, <1>5
<1> QED
  BY <1>6 DEF r

-----------------------------------------------------------------------------
(* parseElem.                                                              *)

CloseStates(s, a) ==
  {r \in [state : {"open", "closed", "none"}, parser : Beyond(s, a), cache : Seq(Tokens), count : Int] :
     r.parser.curr.kind = "Rt"}

LEMMA CountType ==
  ASSUME NEW s, NEW ident, NEW tok \in Seq(Tokens)
  PROVE  CountIdentifier(s, ident, tok) \in Nat
<1>1. DOMAIN tok = 1 .. Len(tok) /\ Len(tok) \in Nat
  BY LenProperties
<1>2. IsFiniteSet(DOMAIN tok)
  BY <1>1, FS_Interval
<1> DEFINE kind(k) == IF k \in DOMAIN tok THEN tok[k].kind ELSE "nil"
           P == {k \in DOMAIN tok :
                   /\ kind(k) = "Lt" /\ kind(k + 1) = "ident"
                   /\ Literal(s, tok[k + 1]) = ident
                   /\ \/ kind(k + 2) = "Rt"
                      \/ kind(k + 2) = "sL" /\ kind(k + 3) = "Rt"}
<1>3. CountIdentifier(s, ident, tok) = Cardinality(P)
  BY DEF CountIdentifier
<1>4. P \in SUBSET (DOMAIN tok)
  OBVIOUS
<1> HIDE DEF P
<1>5. IsFiniteSet(P)
  BY <1>2, <1>4, FS_Subset
<1> QED
  BY <1>3, <1>5, FS_CardinalityType

\* A round that does not end the content reads a closing tag at least.
LEMMA CloseRoundFacts ==
  ASSUME NEW s \in Seq(Symbols), NEW a \in Nat, NEW ident, NEW r \in CloseStates(s, a),
         NEW b \in a .. Len(s), InPlace(r.parser, s, b)
  PROVE  /\ CloseRound(ident, r) \in CloseStates(s, a)
         /\ CloseRound(ident, r).state = "open" => CloseRound(ident, r).parser \in Beyond(s, b + 1)
<1> DEFINE next   == EachTokenOf(r.parser, ClosingTag)
           tok    == next.tokens
           opened == CountIdentifier(r.parser.input, ident, tok)
           nested == (IF opened > 0 /\ r.count = -1 THEN 0 ELSE r.count) + opened
           Read(state, count) ==
             [state |-> state, parser |-> next.parser, cache |-> r.cache \o tok, count |-> count]
           other == Literal(r.parser.input, tok[Len(tok) - 1]) # ident
           ends == [r EXCEPT !.state = IF r.count = -1 THEN "none" ELSE "closed", !.parser = next.parser]
<1>1. /\ r.parser \in Beyond(s, a) /\ r.cache \in Seq(Tokens) /\ r.count \in Int /\ r.parser.curr.kind = "Rt"
      /\ r \in [state : {"open", "closed", "none"}, parser : Beyond(s, a), cache : Seq(Tokens), count : Int]
  BY DEF CloseStates
<1>2. InPlace(r.parser, s, b)
  OBVIOUS
<1>3. Len(ClosingTag) = 4 /\ ClosingTag[Len(ClosingTag)] = "Rt" /\ 4 \in Nat \ {0}
  BY DEF ClosingTag
<1>4. /\ next.ok \in BOOLEAN /\ tok \in Seq(Tokens)
      /\ next.ok => next.parser \in Beyond(s, b + 1) /\ next.parser \in Beyond(s, b)
                    /\ next.parser.curr.kind = "Rt"
      /\ ~ next.ok => InPlace(next.parser, s, b) /\ next.parser.curr = r.parser.curr
  <2>1. Len(ClosingTag) \in Nat \ {0}
    BY <1>3
  <2>2. /\ next.ok \in BOOLEAN /\ next.tokens \in Seq(Tokens)
        /\ next.ok => next.parser \in Beyond(s, b + 1) /\ next.parser \in Beyond(s, b)
                      /\ next.parser.curr.kind = ClosingTag[Len(ClosingTag)]
        /\ ~ next.ok => InPlace(next.parser, s, b) /\ next.parser.curr = r.parser.curr
    BY <1>2, <2>1, EachTokenFacts
  <2> QED
    BY <1>3, <2>2
<1>5. opened \in Nat
  BY <1>4, CountType
<1>6. CloseRound(ident, r) =
        CASE ~ next.ok -> ends
          [] next.ok /\ other -> Read("open", r.count)
          [] OTHER -> IF nested > 0 THEN Read("open", nested - 1) ELSE Read("closed", nested)
  BY DEF CloseRound, Stretch
<1> HIDE DEF next, opened
<1>7. Len(s) \in Nat /\ b \in 0 .. Len(s)
  BY <1>2, LenProperties DEF InPlace
<1>8. next.parser \in Beyond(s, a) /\ next.parser.curr.kind = "Rt"
  <2>1. CASE next.ok
    <3>1. PICK d \in b .. Len(s) : InPlace(next.parser, s, d)
      BY <1>4, <2>1 DEF Beyond
    <3>2. d \in a .. Len(s)
      BY <1>7
    <3> QED
      BY <1>4, <2>1, <3>1, <3>2 DEF Beyond
  <2>2. CASE ~ next.ok
    BY <1>1, <1>4, <2>2 DEF Beyond, InPlace
  <2> QED
    BY <1>4, <2>1, <2>2
<1>9. r.cache \o tok \in Seq(Tokens)
  BY <1>1, <1>4, ConcatProperties
<1>10. ends \in CloseStates(s, a)
  <2> DEFINE st == IF r.count = -1 THEN "none" ELSE "closed"
             q == next.parser
  <2>1. st \in {"open", "closed", "none"} /\ q \in Beyond(s, a) /\ q.curr.kind = "Rt"
    BY <1>8
  <2>2. ends = [r EXCEPT !.state = st, !.parser = q]
    OBVIOUS
  <2> HIDE DEF st, q, ends
  <2> QED
    BY <1>1, <2>1, <2>2 DEF CloseStates
<1>11. \A st \in {"open", "closed", "none"}, i \in Int : Read(st, i) \in CloseStates(s, a)
  BY <1>8, <1>9 DEF CloseStates
<1>12. nested \in Int /\ nested - 1 \in Int
  BY <1>1, <1>5
<1>13. ends.state # "open"
  BY <1>1
<1>14. \A st, i : Read(st, i).parser = next.parser
  OBVIOUS
<1> HIDE DEF tok, nested, Read, ends, other
<1>15. CASE ~ next.ok
  BY <1>6, <1>10, <1>15, <1>13
<1>16. CASE next.ok /\ other
  <2>1. CloseRound(ident, r) = Read("open", r.count)
    BY <1>6, <1>16
  <2> QED
    BY <1>1, <1>4, <1>11, <1>16, <1>14, <2>1
<1>17. CASE next.ok /\ ~ other
  <2>1. CloseRound(ident, r) = Read("open", nested - 1) \/ CloseRound(ident, r) = Read("closed", nested)
    BY <1>6, <1>17
  <2> QED
    BY <1>4, <1>11, <1>12, <1>17, <1>14, <2>1
<1> QED
  BY <1>4, <1>15, <1>16, <1>17

\* What parseElem has after the last stretch of content.
LastClose(p, q, ident) ==
  LET Round(r) == IF r.state = "open" THEN CloseRound(ident, r) ELSE r
  IN  Rounds(Round, [state |-> "open", parser |-> q, cache |-> <<>>, count |-> -1], Len(p.input) + 1)

LEMMA LastCloseFacts ==
  ASSUME NEW s \in Seq(Symbols), NEW a, NEW p, InPlace(p, s, a), NEW ident,
         NEW q \in Beyond(s, a), q.curr.kind = "Rt"
  PROVE  LastClose(p, q, ident) \in CloseStates(s, a) /\ LastClose(p, q, ident).state # "open"
<1> DEFINE n == Len(p.input) + 1
           V == CloseStates(s, a)
           c == [state |-> "open", parser |-> q, cache |-> <<>>, count |-> -1]
           Round(r) == IF r.state = "open" THEN CloseRound(ident, r) ELSE r
           g == [r \in V |-> Round(r)]
           Is(f) == f = [k \in 0 .. n |-> IF k = 0 THEN c ELSE Round(f[k - 1])]
           after == CHOOSE f : Is(f)
           Far(k) == after[k].state = "open" => after[k].parser \in Beyond(s, a + k)
           T == {k \in 0 .. n : Far(k)}
<1>1. Len(s) \in Nat /\ p.input = s /\ p \in Parsers(s) /\ a \in 0 .. Len(s) /\ n \in Nat
      /\ n = Len(s) + 1 /\ a \in Nat
  BY LenProperties DEF InPlace, Parsers
<1>2. LastClose(p, q, ident) = after[n]
  BY DEF LastClose, Rounds
<1>3. c \in V
  <2>1. <<>> \in Seq(Tokens)
    BY EmptySeq
  <2> QED
    BY <2>1 DEF CloseStates
<1>4. \A r \in V : Round(r) \in V
  <2> SUFFICES ASSUME NEW r \in V, r.state = "open" PROVE CloseRound(ident, r) \in V
    OBVIOUS
  <2>1. PICK b \in a .. Len(s) : InPlace(r.parser, s, b)
    BY DEF CloseStates, Beyond
  <2> QED
    BY <1>1, <2>1, CloseRoundFacts
<1>5. c.state = "open" /\ c.parser = q
  OBVIOUS
<1>6. \A r \in V : r.state = "open" => Round(r) = CloseRound(ident, r)
  OBVIOUS
<1>7. \A r \in V : r.state # "open" => Round(r) = r
  OBVIOUS
<1> HIDE DEF V, c, Round
<1>8. g \in [V -> V] /\ \A r \in V : g[r] = Round(r)
  BY <1>4
<1> HIDE DEF g, n
<1>9. \E f : Is(f)
  <2>1. PICK f \in [0 .. n -> V] : Steps(f, c, g, n)
    BY <1>1, <1>3, <1>8, StepsExist
  <2>2. \A k \in 0 .. n : (IF k = 0 THEN c ELSE g[f[k - 1]]) = IF k = 0 THEN c ELSE Round(f[k - 1])
    <3> SUFFICES ASSUME NEW k \in 0 .. n, k # 0 PROVE g[f[k - 1]] = Round(f[k - 1])
      OBVIOUS
    <3>1. f[k - 1] \in V
      BY <1>1
    <3> QED
      BY <1>8, <3>1
  <2>3. f = [k \in 0 .. n |-> IF k = 0 THEN c ELSE g[f[k - 1]]]
    BY <2>1 DEF Steps
  <2>4. f = [k \in 0 .. n |-> IF k = 0 THEN c ELSE Round(f[k - 1])]
    BY ONLY <2>2, <2>3
  <2> QED
    BY <2>4
<1>10. Is(after)
  BY <1>9
<1> HIDE DEF after
<1>11. after[0] = c /\ \A k \in 1 .. n : after[k] = Round(after[k - 1])
  <2> DEFINE h == [k \in 0 .. n |-> IF k = 0 THEN c ELSE Round(after[k - 1])]
  <2>1. after = h
    BY <1>10
  <2>2. h[0] = c /\ \A k \in 1 .. n : h[k] = Round(after[k - 1])
    BY <1>1
  <2> HIDE DEF h
  <2> QED
    BY <2>1, <2>2
<1>12. \A k \in 0 .. n : after[k] \in V
  <2>1. \A k \in 1 .. n : after[k - 1] \in V => after[k] = g[after[k - 1]]
    BY <1>8, <1>11
  <2>2. after[0] = c
    BY <1>11
  <2>3. n \in Nat /\ g \in [V -> V]
    BY <1>1, <1>8
  <2>4. c \in V
    BY <1>3
  <2> HIDE DEF Is, Far, T, V, g, c, n
  <2>5. Walks(after, V, g, n)
    BY <2>1 DEF Walks
  <2> QED
    BY ONLY <2>2, <2>3, <2>4, <2>5, WalkStays
<1>13. 0 \in T
  <2>1. q \in Beyond(s, a + 0)
    BY <1>1 DEF Beyond
  <2> QED
    BY <1>1, <1>5, <1>11, <2>1
<1>14. ASSUME NEW k \in 0 .. n, k \in T, k < n
       PROVE  k + 1 \in T
  <2> DEFINE r == after[k]
             next == after[k + 1]
  <2>1. k + 1 \in 1 .. n /\ (k + 1) - 1 = k /\ k \in Nat
    BY <1>1, <1>14
  <2>2. next = Round(r) /\ r \in V /\ next \in V
    BY <1>11, <1>12, <2>1
  <2>3. CASE r.state # "open"
    <3>1. next = r
      BY <1>7, <2>2, <2>3
    <3> QED
      BY <1>1, <2>1, <2>3, <3>1
  <2>4. CASE r.state = "open"
    <3>1. next = CloseRound(ident, r)
      BY <1>6, <2>2, <2>4
    <3>2. r.parser \in Beyond(s, a + k)
      BY <1>14, <2>4
    <3>3. PICK b \in a + k .. Len(s) : InPlace(r.parser, s, b)
      BY <3>2 DEF Beyond
    <3> HIDE DEF next, r
    <3>4. b \in a .. Len(s)
      BY <1>1, <2>1
    <3>5. next.state = "open" => next.parser \in Beyond(s, b + 1)
      BY <1>1, <2>2, <3>1, <3>3, <3>4, CloseRoundFacts DEF V
    <3>6. Beyond(s, b + 1) \subseteq Beyond(s, a + (k + 1))
      <4>1. b + 1 \in Nat /\ a + (k + 1) \in Nat /\ a + (k + 1) <= b + 1
        BY <1>1, <2>1
      <4> QED
        BY <4>1, BeyondWeaker
    <3>7. next.state = "open" => next.parser \in Beyond(s, a + (k + 1))
      BY <3>5, <3>6
    <3> QED
      BY <1>1, <2>1, <3>7 DEF next
  <2> QED
    BY <2>3, <2>4
<1> HIDE DEF T
<1>15. 0 .. n \subseteq T
  <2>1. 0 \in Int /\ n \in Int
    BY <1>1
  <2>2. \A k \in 0 .. n : k \in T /\ k < n => k + 1 \in T
    BY <1>14
  <2> QED
    BY <1>13, <2>1, <2>2, InductionUpTo
<1>16. Far(n) /\ after[n] \in V
  BY <1>1, <1>12, <1>15 DEF T
<1>17. Beyond(s, a + n) = {}
  <2>1. a + n .. Len(s) = {}
    BY <1>1
  <2> QED
    BY <2>1 DEF Beyond
<1> QED
  BY <1>2, <1>16, <1>17 DEF V

LEMMA CloseFacts ==
  ASSUME NEW s \in Seq(Symbols), NEW a, NEW p, InPlace(p, s, a), NEW ident,
         NEW q \in Beyond(s, a), q.curr.kind = "Rt"
  PROVE  LET r == Close(p, q, ident)
         IN  /\ r.ok \in BOOLEAN
             /\ r.ok => r.parser \in Beyond(s, a) /\ r.parser.curr.kind = "Rt"
             /\ ~ r.ok => InPlace(r.parser, s, a) /\ r.parser.curr = p.curr
<1> DEFINE last == LastClose(p, q, ident)
           content == Join(p.input, Content(last.cache))
           r == Close(p, q, ident)
<1>1. r = IF last.state = "closed"
          THEN [ok |-> TRUE, parser |-> last.parser, content |-> content]
          ELSE [ok |-> FALSE, parser |-> SeekToken(last.parser, p), content |-> <<>>]
  BY DEF Close, LastClose
<1>2. last \in CloseStates(s, a)
  BY LastCloseFacts
<1> HIDE DEF last
<1>3. last.parser \in Beyond(s, a) /\ last.parser.curr.kind = "Rt"
  BY <1>2 DEF CloseStates
<1>4. InPlace(SeekToken(last.parser, p), s, a) /\ SeekToken(last.parser, p).curr = p.curr
  BY <1>3, SeekInPlace DEF Beyond
<1> HIDE DEF r, content
<1>5. CASE last.state = "closed"
  <2>1. r.ok = TRUE /\ r.parser = last.parser
    BY <1>1, <1>5
  <2> QED
    BY <1>3, <2>1 DEF r
<1>6. CASE last.state # "closed"
  <2>1. r.ok = FALSE /\ r.parser = SeekToken(last.parser, p)
    BY <1>1, <1>6
  <2> QED
    BY <1>4, <2>1 DEF r
<1> QED
  BY <1>5, <1>6

\* An element begins where the parser is and ends with a ">"; if there is none, the
\* parser is where it was.
ElemRead(s, a, p, r) ==
  /\ r.parser \in Beyond(s, a)
  /\ IF r.ok
     THEN /\ p.curr.kind = "Lt" /\ r.parser.curr.kind = "Rt"
          /\ r.elem.kind = "node" /\ r.elem.first = p.curr.first /\ r.elem.last = r.parser.curr.pos
     ELSE /\ InPlace(r.parser, s, a) /\ r.parser.curr = p.curr
          /\ r.elem = StrElem(s, p.curr)

LEMMA FoundFacts ==
  ASSUME NEW s, NEW a, NEW p, InPlace(p, s, a), p.curr.kind = "Lt", NEW ident, NEW attributes, NEW close,
         close.ok \in BOOLEAN,
         close.ok => close.parser \in Beyond(s, a) /\ close.parser.curr.kind = "Rt",
         ~ close.ok => InPlace(close.parser, s, a) /\ close.parser.curr = p.curr
  PROVE  ElemRead(s, a, p, Found(p, ident, attributes, close))
<1>1. p.input = s
  BY DEF InPlace, Parsers
<1>2. CASE close.ok
  BY <1>1, <1>2 DEF Found, ElemRead, Node
<1>3. CASE ~ close.ok
  <2>1. close.parser \in Beyond(s, a)
    <3>1. InPlace(close.parser, s, a)
      BY <1>3
    <3>2. a \in a .. Len(s)
      BY <3>1 DEF InPlace
    <3> QED
      BY <3>1, <3>2 DEF Beyond, InPlace
  <2> QED
    BY <1>1, <1>3, <2>1 DEF Found, ElemRead
<1> QED
  BY <1>2, <1>3

LEMMA OpenedFacts ==
  ASSUME NEW s \in Seq(Symbols), NEW a, NEW p, InPlace(p, s, a), p.curr.kind = "Lt", NEW ident
  PROVE  ElemRead(s, a, p, Opened(p, ident, EachTokenOf(p, <<"Rt">>)))
<1> DEFINE open == EachTokenOf(p, <<"Rt">>)
           tokens  == open.tokens
           slashed == Len(tokens) > 2 /\ tokens[Len(tokens) - 1].kind = "sL"
           Attributes(n) == ParseAttributes(Join(p.input, SubSeq(tokens, 2, Len(tokens) - n)))
           empty == [ok |-> TRUE, parser |-> open.parser, content |-> <<>>]
           none == [empty EXCEPT !.ok = FALSE]
           close == Close(p, open.parser, ident)
<1>1. /\ open.ok \in BOOLEAN
      /\ open.ok => open.parser \in Beyond(s, a) /\ open.parser.curr.kind = "Rt"
      /\ ~ open.ok => InPlace(open.parser, s, a) /\ open.parser.curr = p.curr
  <2> DEFINE kinds == <<"Rt">>
  <2>1. Len(kinds) \in Nat \ {0} /\ kinds[Len(kinds)] = "Rt"
    OBVIOUS
  <2> HIDE DEF kinds
  <2> DEFINE r == EachTokenOf(p, kinds)
  <2>2. /\ r.ok \in BOOLEAN
        /\ r.ok => r.parser \in Beyond(s, a) /\ r.parser.curr.kind = kinds[Len(kinds)]
        /\ ~ r.ok => InPlace(r.parser, s, a) /\ r.parser.curr = p.curr
    BY <2>1, EachTokenFacts
  <2>3. r = open
    BY DEF kinds
  <2> QED
    BY <2>1, <2>2, <2>3
<1>2. Opened(p, ident, open) =
        CASE ~ open.ok -> Found(p, ident, <<>>, none)
          [] open.ok /\ slashed -> Found(p, ident, Attributes(2), empty)
          [] OTHER -> Found(p, ident, Attributes(1), close)
  BY DEF Opened
<1> HIDE DEF open
<1>3. none.ok = FALSE /\ none.parser = open.parser /\ empty.ok = TRUE /\ empty.parser = open.parser
  OBVIOUS
<1> HIDE DEF Attributes, slashed, tokens, none, empty, close
<1>4. CASE ~ open.ok
  <2>1. Opened(p, ident, open) = Found(p, ident, <<>>, none)
    BY <1>2, <1>4
  <2> QED
    <3>1. none.ok \in BOOLEAN
      BY <1>3
    <3>2. none.ok => none.parser \in Beyond(s, a) /\ none.parser.curr.kind = "Rt"
      BY <1>3
    <3>3. ~ none.ok => InPlace(none.parser, s, a) /\ none.parser.curr = p.curr
      BY <1>1, <1>3, <1>4
    <3>4. ElemRead(s, a, p, Found(p, ident, <<>>, none))
      BY <3>1, <3>2, <3>3, FoundFacts
    <3> QED
      BY <2>1, <3>4 DEF open
<1>5. CASE open.ok /\ slashed
  <2>1. Opened(p, ident, open) = Found(p, ident, Attributes(2), empty)
    BY <1>2, <1>5
  <2> QED
    <3>1. empty.ok \in BOOLEAN
      BY <1>3
    <3>2. empty.ok => empty.parser \in Beyond(s, a) /\ empty.parser.curr.kind = "Rt"
      BY <1>1, <1>3, <1>5
    <3>3. ~ empty.ok => InPlace(empty.parser, s, a) /\ empty.parser.curr = p.curr
      BY <1>3
    <3>4. ElemRead(s, a, p, Found(p, ident, Attributes(2), empty))
      BY <3>1, <3>2, <3>3, FoundFacts
    <3> QED
      BY <2>1, <3>4 DEF open
<1>6. CASE open.ok /\ ~ slashed
  <2>1. Opened(p, ident, open) = Found(p, ident, Attributes(1), close)
    BY <1>2, <1>6
  <2>2. /\ close.ok \in BOOLEAN
        /\ close.ok => close.parser \in Beyond(s, a) /\ close.parser.curr.kind = "Rt"
        /\ ~ close.ok => InPlace(close.parser, s, a) /\ close.parser.curr = p.curr
    BY <1>1, <1>6, CloseFacts DEF close
  <2>3. ElemRead(s, a, p, Found(p, ident, Attributes(1), close))
    <3>1. close.ok \in BOOLEAN
      BY <2>2
    <3>2. close.ok => close.parser \in Beyond(s, a) /\ close.parser.curr.kind = "Rt"
      BY <2>2
    <3>3. ~ close.ok => InPlace(close.parser, s, a) /\ close.parser.curr = p.curr
      BY <2>2
    <3> QED
      BY <3>1, <3>2, <3>3, FoundFacts
  <2> QED
    BY <2>1, <2>3 DEF open
<1> QED
  BY <1>1, <1>4, <1>5, <1>6 DEF open

LEMMA ParseElemFacts ==
  ASSUME NEW s \in Seq(Symbols), NEW a, NEW p, InPlace(p, s, a)
  PROVE  ElemRead(s, a, p, ParseElem(p))
<1>1. p.input = s /\ a \in a .. Len(s) /\ p \in Parsers(s)
  BY DEF InPlace, Parsers
<1> DEFINE ident == Literal(p.input, p.peek)
<1>2. CASE p.curr.kind = "Lt" /\ p.peek.kind = "ident" /\ ident \in Schemas
  <2>1. ParseElem(p) = Opened(p, ident, EachTokenOf(p, <<"Rt">>))
    BY <1>2 DEF ParseElem
  <2> QED
    BY <1>2, <2>1, OpenedFacts
<1>3. CASE ~ (p.curr.kind = "Lt" /\ p.peek.kind = "ident" /\ ident \in Schemas)
  <2>1. ParseElem(p) = [ok |-> FALSE, parser |-> p, elem |-> StrElem(s, p.curr)]
    BY <1>1, <1>3 DEF ParseElem
  <2> QED
    BY <1>1, <2>1 DEF ElemRead, Beyond
<1> QED
  BY <1>2, <1>3

-----------------------------------------------------------------------------
(* parse.                                                                  *)

\* What TextIsKept joins for an element.
Yield(s, e) == IF e.kind = "node" THEN Literals(Span(s, e.first, e.last)) ELSE e.content

\* Where an element that is read at a ends, and what it stands for.
Takes(s, a, b, e) ==
  /\ Yield(s, e) = Kept(s, a, b)
  /\ e.kind = "node" => e.first = a /\ e.last = b - 1
  /\ e.kind # "node" => \A q \in a .. b - 1 : At(s, q) # NUL

LEMMA TakesFacts ==
  ASSUME NEW s \in Seq(Symbols), NEW a, NEW p, InPlace(p, s, a), p.curr.kind # "EOF"
  PROVE  \E b \in a + 1 .. Len(s) :
            /\ InPlace(NextToken(ParseElem(p).parser), s, b)
            /\ Takes(s, a, b, ParseElem(p).elem)
<1> DEFINE r == ParseElem(p)
<1>1. Len(s) \in Nat /\ a \in 0 .. Len(s) /\ p \in Parsers(s) /\ p.curr \in Tokens /\ StandsAt(s, a, p.curr)
  BY LenProperties DEF InPlace, Parsers
<1>2. a \in 0 .. Len(s) - 1 /\ p.curr = Lex(s, a)
  BY <1>1 DEF StandsAt
<1>3. At(s, a) # NUL
  BY <1>2, LexEnd DEF Token
<1>4. ElemRead(s, a, p, r)
  BY ParseElemFacts
<1> HIDE DEF r
<1>5. CASE r.ok
  <2>1. /\ p.curr.kind = "Lt" /\ r.parser.curr.kind = "Rt" /\ r.parser \in Beyond(s, a)
        /\ r.elem.kind = "node" /\ r.elem.first = p.curr.first /\ r.elem.last = r.parser.curr.pos
    BY <1>4, <1>5 DEF ElemRead
  <2>2. p.curr.first = a /\ At(s, a) = "<"
    BY <1>2, <1>3, <2>1, LexFacts
  <2>3. PICK c \in a .. Len(s) : InPlace(r.parser, s, c)
    BY <2>1 DEF Beyond
  <2>4. StandsAt(s, c, r.parser.curr)
    BY <2>3 DEF InPlace
  <2>5. c \in 0 .. Len(s) - 1 /\ r.parser.curr = Lex(s, c)
    BY <1>1, <2>1, <2>4 DEF StandsAt
  <2>6. At(s, c) # NUL
    BY <2>1, <2>5, LexEnd DEF Token
  <2>7. r.parser.curr.pos = c
    BY <2>1, <2>5, <2>6, LexFacts
  <2>8. Behind(s, r.parser.curr) = c + 1 /\ c + 1 \in a + 1 .. Len(s)
    BY <1>1, <2>3, <2>5, <2>7 DEF Behind
  <2>9. InPlace(NextToken(r.parser), s, c + 1)
    BY <2>3, <2>8, NextInPlace
  <2>10. Yield(s, r.elem) = Literals(Span(s, a, c))
    BY <2>1, <2>2, <2>7 DEF Yield
  <2>11. Literals(Span(s, a, (c + 1) - 1)) = Kept(s, a, c + 1)
    <3>1. c + 1 \in Nat /\ a \in Nat /\ a <= c + 1 /\ c + 1 <= Len(s)
      BY <1>1, <2>8
    <3> QED
      BY <2>2, <3>1, LiteralsAreKept
  <2>12. (c + 1) - 1 = c
    BY <2>5
  <2>13. Takes(s, a, c + 1, r.elem)
    BY <2>1, <2>2, <2>7, <2>10, <2>11, <2>12 DEF Takes
  <2> QED
    BY <2>8, <2>9, <2>13 DEF r
<1>6. CASE ~ r.ok
  <2>1. InPlace(r.parser, s, a) /\ r.parser.curr = p.curr /\ r.elem = StrElem(s, p.curr)
    BY <1>4, <1>6 DEF ElemRead
  <2> DEFINE b == p.curr.pos + 1
  <2>2. /\ p.curr.pos \in a .. Len(s) - 1
        /\ \A k \in a .. p.curr.pos : At(s, k) # NUL
        /\ Literal(s, p.curr) = Kept(s, a, b)
    BY <1>2, <1>3, LexFacts
  <2>3. Behind(s, p.curr) = b /\ b \in a + 1 .. Len(s) /\ b - 1 = p.curr.pos
    BY <1>1, <2>2 DEF Behind
  <2>4. InPlace(NextToken(r.parser), s, b)
    BY <2>1, <2>3, NextInPlace
  <2>5. r.elem.kind = "str" /\ r.elem.content = Literal(s, p.curr)
    BY <2>1 DEF StrElem
  <2>6. Yield(s, r.elem) = Kept(s, a, b)
    BY <2>2, <2>5 DEF Yield
  <2>7. Takes(s, a, b, r.elem)
    BY <2>2, <2>3, <2>5, <2>6 DEF Takes
  <2> QED
    BY <2>3, <2>4, <2>7 DEF r
<1> QED
  BY <1>5, <1>6

\* The elements of a text, and what they stand for.
Parts(s) ==
  {e \in {ParseElem(p).elem : p \in Beyond(s, 0)} : Yield(s, e) \in Seq(Symbols)}
Yields(s) == [e \in Parts(s) |-> Yield(s, e)]

Inside(elements, q) ==
  \E k \in DOMAIN elements : elements[k].kind = "node" /\ q \in elements[k].first .. elements[k].last

\* parse has come to place a: what it has is the text before a, no element is beyond
\* a, and a rune 0 that is behind it is in an element.
Parsed(s, r, a) ==
  /\ InPlace(r.parser, s, a) /\ r.elems \in Seq(Parts(s))
  /\ FlattenSeq(Images(Yields(s), r.elems)) = Kept(s, 0, a)
  /\ \A q \in 0 .. a - 1 : At(s, q) = NUL => Inside(r.elems, q)
  /\ \A q \in a .. Len(s) : ~ Inside(r.elems, q)

LEMMA InsideAppend ==
  ASSUME NEW S, NEW elements \in Seq(S), NEW e \in S, NEW q
  PROVE  Inside(Append(elements, e), q) <=>
           Inside(elements, q) \/ (e.kind = "node" /\ q \in e.first .. e.last)
<1> DEFINE n == Len(elements)
           all == Append(elements, e)
<1>1. n \in Nat /\ DOMAIN elements = 1 .. n
  BY LenProperties
<1>2. DOMAIN all = 1 .. n + 1 /\ all[n + 1] = e /\ \A k \in 1 .. n : all[k] = elements[k]
  BY <1>1, AppendProperties
<1> HIDE DEF n, all
<1>3. Inside(all, q) => Inside(elements, q) \/ (e.kind = "node" /\ q \in e.first .. e.last)
  <2> SUFFICES ASSUME NEW k \in 1 .. n + 1, all[k].kind = "node", q \in all[k].first .. all[k].last
               PROVE  Inside(elements, q) \/ (e.kind = "node" /\ q \in e.first .. e.last)
    BY <1>2 DEF Inside
  <2>1. CASE k = n + 1
    BY <1>2, <2>1
  <2>2. CASE k # n + 1
    <3>1. k \in 1 .. n
      BY <1>1, <2>2
    <3> QED
      BY <1>1, <1>2, <3>1 DEF Inside
  <2> QED
    BY <2>1, <2>2
<1>4. Inside(elements, q) => Inside(all, q)
  <2> SUFFICES ASSUME NEW k \in 1 .. n, elements[k].kind = "node", q \in elements[k].first .. elements[k].last
               PROVE  Inside(all, q)
    BY <1>1 DEF Inside
  <2>1. k \in DOMAIN all /\ all[k] = elements[k]
    BY <1>1, <1>2
  <2> QED
    BY <2>1 DEF Inside
<1>5. e.kind = "node" /\ q \in e.first .. e.last => Inside(all, q)
  <2>1. n + 1 \in DOMAIN all
    BY <1>1, <1>2
  <2> QED
    BY <1>2, <2>1 DEF Inside
<1> QED
  BY <1>3, <1>4, <1>5 DEF all

LEMMA ParseRoundFacts ==
  ASSUME NEW s \in Seq(Symbols), NEW a, NEW r, Parsed(s, r, a), r.parser.curr.kind # "EOF"
  PROVE  \E b \in a + 1 .. Len(s) : Parsed(s, ParseRound(r), b)
<1> DEFINE p == r.parser
           e == ParseElem(p).elem
           next == ParseRound(r)
<1>1. InPlace(p, s, a) /\ r.elems \in Seq(Parts(s)) /\ p \in Parsers(s) /\ a \in 0 .. Len(s) /\ Len(s) \in Nat
  BY LenProperties DEF Parsed, InPlace
<1>2. PICK b \in a + 1 .. Len(s) :
         InPlace(NextToken(ParseElem(p).parser), s, b) /\ Takes(s, a, b, e)
  BY <1>1, TakesFacts
<1>3. next.parser = NextToken(ParseElem(p).parser) /\ next.elems = Append(r.elems, e)
  BY DEF ParseRound
<1>4. /\ Yield(s, e) = Kept(s, a, b)
      /\ e.kind = "node" => e.first = a /\ e.last = b - 1
      /\ e.kind # "node" => \A q \in a .. b - 1 : At(s, q) # NUL
  BY <1>2 DEF Takes
<1>5. a \in Nat /\ b \in Nat /\ a <= b /\ 0 <= a
  BY <1>1
<1>6. e \in Parts(s)
  <2>1. p \in Beyond(s, 0)
    BY <1>1 DEF Beyond
  <2>2. Kept(s, a, b) \in Seq(Symbols)
    BY <1>5, KeptFacts
  <2> QED
    BY <1>4, <2>1, <2>2 DEF Parts
<1> HIDE DEF e, next, p
<1>7. next.elems \in Seq(Parts(s))
  BY <1>1, <1>3, <1>6, AppendProperties
<1>8. FlattenSeq(Images(Yields(s), next.elems)) = Kept(s, 0, b)
  <2> DEFINE A == Parts(s)
             F == Yields(s)
  <2>1. Maps(F, A, Symbols) /\ F[e] = Yield(s, e)
    BY <1>6 DEF Maps, Yields, Parts
  <2>2. FlattenSeq(Images(F, r.elems)) = Kept(s, 0, a)
    BY DEF Parsed
  <2> HIDE DEF A, F
  <2>3. r.elems \in Seq(A) /\ e \in A
    BY <1>1, <1>6 DEF A
  <2>4. next.elems = r.elems \o <<e>> /\ <<e>> \in Seq(A)
    BY <1>3, <2>3, AppendIsConcat
  <2>5. FlattenSeq(Images(F, r.elems \o <<e>>))
          = FlattenSeq(Images(F, r.elems)) \o FlattenSeq(Images(F, <<e>>))
    <3> DEFINE one == <<e>>
    <3>1. one \in Seq(A)
      BY <2>4
    <3> HIDE DEF one
    <3>2. Maps(F, A, Symbols)
      BY <2>1
    <3>3. r.elems \in Seq(A)
      BY <2>3
    <3> DEFINE old == r.elems
    <3>4. old \in Seq(A)
      BY <3>3
    <3> HIDE DEF old
    <3>5. FlattenSeq(Images(F, old \o one))
            = FlattenSeq(Images(F, old)) \o FlattenSeq(Images(F, one))
      BY ONLY <3>1, <3>2, <3>4, FlatImagesConcat
    <3> QED
      BY <3>5 DEF one, old
  <2>6. FlattenSeq(Images(F, <<e>>)) = F[e]
    <3>1. Maps(F, A, Symbols) /\ e \in A
      BY <2>1, <2>3
    <3> QED
      BY ONLY <3>1, FlatImagesOne
  <2>7. Kept(s, 0, b) = Kept(s, 0, a) \o Kept(s, a, b)
    <3>1. 0 \in Nat /\ 0 <= a
      BY <1>5
    <3> QED
      BY <1>5, <3>1, KeptJoined
  <2>8. FlattenSeq(Images(F, next.elems)) = Kept(s, 0, b)
    BY <1>4, <2>1, <2>2, <2>4, <2>5, <2>6, <2>7
  <2> QED
    BY <2>8 DEF F
<1>9. \A q : Inside(next.elems, q) <=> Inside(r.elems, q) \/ (e.kind = "node" /\ q \in e.first .. e.last)
  BY <1>1, <1>3, <1>6, InsideAppend
<1>10. /\ \A q \in 0 .. a - 1 : At(s, q) = NUL => Inside(r.elems, q)
       /\ \A q \in a .. Len(s) : ~ Inside(r.elems, q)
  BY DEF Parsed
<1>11. ASSUME NEW q \in 0 .. b - 1, At(s, q) = NUL
       PROVE  Inside(next.elems, q)
  <2>1. CASE q < a
    <3>1. q \in 0 .. a - 1
      BY <1>5, <2>1
    <3> QED
      BY <1>9, <1>10, <1>11, <3>1
  <2>2. CASE q >= a
    <3>1. q \in a .. b - 1
      BY <1>5, <2>2
    <3> QED
      BY <1>4, <1>9, <1>11, <3>1
  <2> QED
    BY <1>5, <2>1, <2>2
<1>12. ASSUME NEW q \in b .. Len(s)
       PROVE  ~ Inside(next.elems, q)
  <2>1. q \in a .. Len(s) /\ q \notin a .. b - 1
    BY <1>5
  <2> QED
    BY <1>4, <1>9, <1>10, <2>1
<1>13. Parsed(s, next, b)
  BY <1>2, <1>3, <1>7, <1>8, <1>11, <1>12 DEF Parsed
<1> QED
  BY <1>13 DEF next

\* What parse can have after k rounds: it has come that far, or to the end.
ParseStates(s) == {r \in [parser : Beyond(s, 0), elems : Seq(Parts(s))] :
                     \E a \in 0 .. Len(s) : Parsed(s, r, a)}

LEMMA ParseFromFacts ==
  ASSUME NEW s \in Seq(Symbols), NEW p, InPlace(p, s, 0)
  PROVE  \E a \in 0 .. Len(s) :
            Parsed(s, ParseFrom(p), a) /\ ParseFrom(p).parser.curr.kind = "EOF"
<1> DEFINE n == Len(p.input)
           V == ParseStates(s)
           c == [parser |-> p, elems |-> <<>>]
           g == [r \in V |-> ParseRound(r)]
           Is(f) == f = [k \in 0 .. n |-> IF k = 0 THEN c ELSE ParseRound(f[k - 1])]
           after == CHOOSE f : Is(f)
           Far(k, r) == \E a \in 0 .. Len(s) : Parsed(s, r, a) /\ (a >= k \/ r.parser.curr.kind = "EOF")
<1>1. Len(s) \in Nat /\ p.input = s /\ p \in Parsers(s) /\ 0 \in 0 .. Len(s) /\ n = Len(s)
  BY LenProperties DEF InPlace, Parsers
<1>2. ParseFrom(p) = after[n]
  BY DEF ParseFrom, Rounds
<1>3. Parsed(s, c, 0) /\ c \in V
  <2>1. <<>> \in Seq(Parts(s))
    BY EmptySeq
  <2>2. FlattenSeq(Images(Yields(s), <<>>)) = Kept(s, 0, 0)
    BY FlatImagesEmpty, KeptFacts
  <2>3. \A q : ~ Inside(<<>>, q)
    BY DEF Inside
  <2>4. Parsed(s, c, 0)
    BY <1>1, <2>1, <2>2, <2>3 DEF Parsed
  <2>5. p \in Beyond(s, 0)
    BY <1>1 DEF Beyond
  <2>6. c \in [parser : Beyond(s, 0), elems : Seq(Parts(s))]
    BY <2>1, <2>5
  <2> QED
    BY <1>1, <2>4, <2>6 DEF ParseStates
<1>4. ASSUME NEW r, NEW a \in 0 .. Len(s), Parsed(s, r, a)
      PROVE  r.parser \in Beyond(s, 0) /\ r.elems \in Seq(Parts(s))
  BY <1>1, <1>4 DEF Parsed, Beyond, InPlace
<1>5. ASSUME NEW r \in V
      PROVE  ParseRound(r) \in V
  <2>1. PICK a \in 0 .. Len(s) : Parsed(s, r, a)
    BY DEF ParseStates
  <2>2. CASE r.parser.curr.kind = "EOF"
    BY <2>2 DEF ParseRound
  <2>3. CASE r.parser.curr.kind # "EOF"
    <3> DEFINE next == ParseRound(r)
    <3>1. PICK b \in a + 1 .. Len(s) : Parsed(s, next, b)
      BY <2>1, <2>3, ParseRoundFacts
    <3>2. b \in 0 .. Len(s)
      BY <1>1
    <3>3. next = [parser |-> NextToken(ParseElem(r.parser).parser),
                  elems |-> Append(r.elems, ParseElem(r.parser).elem)]
      BY <2>3 DEF ParseRound
    <3>4. next = [parser |-> next.parser, elems |-> next.elems]
      BY <3>3
    <3> HIDE DEF next
    <3>5. next.parser \in Beyond(s, 0) /\ next.elems \in Seq(Parts(s))
      BY <1>4, <3>1, <3>2
    <3>6. next \in [parser : Beyond(s, 0), elems : Seq(Parts(s))]
      BY <3>4, <3>5
    <3>7. next \in V
      BY <3>1, <3>2, <3>6 DEF ParseStates
    <3> QED
      BY <3>7 DEF next
  <2> QED
    BY <2>2, <2>3
<1> HIDE DEF V, c
<1>6. g \in [V -> V] /\ \A r \in V : g[r] = ParseRound(r)
  BY <1>5
<1> HIDE DEF g, n
<1>7. \E f : Is(f)
  <2>1. PICK f \in [0 .. n -> V] : Steps(f, c, g, n)
    BY <1>1, <1>3, <1>6, StepsExist
  <2>2. \A k \in 0 .. n : (IF k = 0 THEN c ELSE g[f[k - 1]]) = IF k = 0 THEN c ELSE ParseRound(f[k - 1])
    <3> SUFFICES ASSUME NEW k \in 0 .. n, k # 0 PROVE g[f[k - 1]] = ParseRound(f[k - 1])
      OBVIOUS
    <3>1. f[k - 1] \in V
      BY <1>1
    <3> QED
      BY <1>6, <3>1
  <2>3. f = [k \in 0 .. n |-> IF k = 0 THEN c ELSE g[f[k - 1]]]
    BY <2>1 DEF Steps
  <2> QED
    BY <2>2, <2>3
<1>8. Is(after)
  BY <1>7
<1> HIDE DEF after
<1>9. after[0] = c /\ \A k \in 1 .. n : after[k] = ParseRound(after[k - 1])
  <2> DEFINE h == [k \in 0 .. n |-> IF k = 0 THEN c ELSE ParseRound(after[k - 1])]
  <2>1. after = h
    BY <1>8
  <2>2. h[0] = c /\ \A k \in 1 .. n : h[k] = ParseRound(after[k - 1])
    BY <1>1
  <2> HIDE DEF h
  <2> QED
    BY <2>1, <2>2
<1> DEFINE T == {k \in 0 .. n : Far(k, after[k])}
<1>10. 0 \in T
  BY <1>1, <1>3, <1>9
<1>11. ASSUME NEW k \in 0 .. n, k \in T, k < n
       PROVE  k + 1 \in T
  <2>1. PICK a \in 0 .. Len(s) : Parsed(s, after[k], a) /\ (a >= k \/ after[k].parser.curr.kind = "EOF")
    BY <1>11
  <2>2. k + 1 \in 1 .. n /\ (k + 1) - 1 = k
    BY <1>1, <1>11
  <2>3. after[k + 1] = ParseRound(after[k])
    BY <1>9, <2>2
  <2>4. CASE after[k].parser.curr.kind = "EOF"
    <3>1. after[k + 1] = after[k]
      BY <2>3, <2>4 DEF ParseRound
    <3> QED
      BY <1>1, <2>1, <2>2, <2>4, <3>1
  <2>5. CASE after[k].parser.curr.kind # "EOF"
    <3>1. PICK b \in a + 1 .. Len(s) : Parsed(s, ParseRound(after[k]), b)
      BY <2>1, <2>5, ParseRoundFacts
    <3>2. b \in 0 .. Len(s) /\ b >= k + 1
      BY <1>1, <2>1, <2>5
    <3>3. Far(k + 1, after[k + 1])
      BY <2>3, <3>1, <3>2
    <3> QED
      BY <1>1, <2>2, <3>3
  <2> QED
    BY <2>4, <2>5
<1> HIDE DEF T
<1>12. 0 .. n \subseteq T
  <2>1. 0 \in Int /\ n \in Int
    BY <1>1
  <2>2. \A k \in 0 .. n : k \in T /\ k < n => k + 1 \in T
    BY <1>11
  <2> QED
    BY <1>10, <2>1, <2>2, InductionUpTo
<1>13. PICK a \in 0 .. Len(s) : Parsed(s, after[n], a) /\ (a >= n \/ after[n].parser.curr.kind = "EOF")
  BY <1>1, <1>12 DEF T
<1>14. after[n].parser.curr.kind = "EOF"
  <2>1. CASE a >= n
    <3>1. a = Len(s) /\ ~ (a < Len(s))
      BY <1>1, <2>1
    <3>2. StandsAt(s, a, after[n].parser.curr)
      BY <1>13 DEF Parsed, InPlace
    <3> QED
      BY <3>1, <3>2 DEF StandsAt
  <2> QED
    BY <1>13, <2>1
<1> QED
  BY <1>2, <1>13, <1>14

\* The loops of the parser come to their ends in the rounds they get here, which go
\* by the length of the text: eachTokenOf to a fit or the end of the text, parseElem
\* to the end of an element or to none, parse to the end of the text.
THEOREM LoopsEnd ==
  ASSUME NEW s \in Seq(Symbols), NEW a, NEW p, InPlace(p, s, a)
  PROVE  /\ \A kinds : Len(kinds) \in Nat \ {0} => LastRead(p, kinds).state # "reading"
         /\ \A ident, q : q \in Beyond(s, a) /\ q.curr.kind = "Rt" =>
              LastClose(p, q, ident).state # "open"
         /\ a = 0 => ParseFrom(p).parser.curr.kind = "EOF"
<1>1. ASSUME NEW kinds, Len(kinds) \in Nat \ {0}
      PROVE  LastRead(p, kinds).state # "reading"
  BY <1>1, LastReadFacts
<1>2. ASSUME NEW ident, NEW q, q \in Beyond(s, a), q.curr.kind = "Rt"
      PROVE  LastClose(p, q, ident).state # "open"
  BY <1>2, LastCloseFacts
<1>3. ASSUME a = 0
      PROVE  ParseFrom(p).parser.curr.kind = "EOF"
  BY <1>3, ParseFromFacts
<1> QED
  BY <1>1, <1>2, <1>3

\* A parser that stands at the end of a text returns nothing.
LEMMA ParseAtEnd ==
  ASSUME NEW p, Len(p.input) \in Nat, p.curr.kind = "EOF"
  PROVE  ParseFrom(p) = [parser |-> p, elems |-> <<>>]
<1> DEFINE n == Len(p.input)
           c == [parser |-> p, elems |-> <<>>]
           Is(f) == f = [k \in 0 .. n |-> IF k = 0 THEN c ELSE ParseRound(f[k - 1])]
           after == CHOOSE f : Is(f)
           T == {k \in 0 .. n : after[k] = c}
<1>1. ParseFrom(p) = after[n]
  BY DEF ParseFrom, Rounds
<1>2. ParseRound(c) = c
  BY DEF ParseRound
<1> HIDE DEF c
<1>3. \E f : Is(f)
  <2> DEFINE f == [k \in 0 .. n |-> c]
  <2>1. \A k \in 0 .. n : c = IF k = 0 THEN c ELSE ParseRound(f[k - 1])
    BY <1>2
  <2>2. f = [k \in 0 .. n |-> IF k = 0 THEN c ELSE ParseRound(f[k - 1])]
    BY <2>1
  <2> QED
    BY <2>2
<1>4. Is(after)
  BY <1>3
<1> HIDE DEF after, n
<1>5. n \in Nat
  BY DEF n
<1>6. after[0] = c /\ \A k \in 1 .. n : after[k] = ParseRound(after[k - 1])
  <2> DEFINE h == [k \in 0 .. n |-> IF k = 0 THEN c ELSE ParseRound(after[k - 1])]
  <2>1. after = h
    BY <1>4
  <2>2. h[0] = c /\ \A k \in 1 .. n : h[k] = ParseRound(after[k - 1])
    BY <1>5
  <2> HIDE DEF h
  <2> QED
    BY <2>1, <2>2
<1>7. 0 \in T
  BY <1>5, <1>6
<1>8. ASSUME NEW k \in 0 .. n, k \in T, k < n
      PROVE  k + 1 \in T
  <2>1. k + 1 \in 1 .. n /\ (k + 1) - 1 = k
    BY <1>5, <1>8
  <2> QED
    BY <1>2, <1>5, <1>6, <1>8, <2>1
<1> HIDE DEF T
<1>9. 0 .. n \subseteq T
  <2>1. 0 \in Int /\ n \in Int
    BY <1>5
  <2>2. \A k \in 0 .. n : k \in T /\ k < n => k + 1 \in T
    BY <1>8
  <2> QED
    BY <1>7, <2>1, <2>2, InductionUpTo
<1>10. after[n] = c
  BY <1>5, <1>9 DEF T
<1> QED
  BY <1>1, <1>10 DEF c

LEMMA ShiftFacts ==
  ASSUME NEW i, NEW n, NEW c, NEW k, NEW t
  PROVE  Shift([input |-> i, pos |-> n, curr |-> c, peek |-> k], t)
           = [input |-> i, pos |-> t.pos, curr |-> k, peek |-> t]
<1> DEFINE p == [input |-> i, pos |-> n, curr |-> c, peek |-> k]
           q == [input |-> i, pos |-> n, curr |-> k, peek |-> k]
           r == [input |-> i, pos |-> n, curr |-> k, peek |-> t]
<1>1. [p EXCEPT !.curr = p.peek] = q
  OBVIOUS
<1>2. [q EXCEPT !.peek = t] = r
  OBVIOUS
<1>3. [r EXCEPT !.pos = t.pos] = [input |-> i, pos |-> t.pos, curr |-> k, peek |-> t]
  OBVIOUS
<1>4. Shift(p, t) = [[[p EXCEPT !.curr = p.peek] EXCEPT !.peek = t] EXCEPT !.pos = t.pos]
  BY DEF Shift
<1> HIDE DEF p, q, r
<1> QED
  BY <1>1, <1>2, <1>3, <1>4 DEF p

\* The two tokens of a new parser.
LEMMA PrimedInPlace ==
  ASSUME NEW s \in Seq(Symbols)
  PROVE  LET p == [input |-> s, pos |-> -1, curr |-> Nil, peek |-> Nil]
         IN  InPlace(Primed(p), s, 0)
<1> DEFINE p == [input |-> s, pos |-> -1, curr |-> Nil, peek |-> Nil]
           n == Len(s)
           t == Lex(s, 0)
           u == Lex(s, t.pos + 1)
           q == [input |-> s, pos |-> u.pos, curr |-> t, peek |-> u]
<1>1. n \in Nat
  BY LenProperties
<1>2. Primed(p) = q
  <2> DEFINE p1 == [input |-> s, pos |-> t.pos, curr |-> Nil, peek |-> t]
  <2>1. p.input = s /\ p.pos + 1 = 0 /\ p.curr = Nil
    OBVIOUS
  <2>2. NextToken(p) = Shift(p, t)
    BY <2>1 DEF NextToken
  <2>3. p1.input = s /\ p1.pos + 1 = t.pos + 1
    OBVIOUS
  <2>4. NextToken(p1) = Shift(p1, u)
    BY <2>3 DEF NextToken
  <2> HIDE DEF t, u
  <2>5. Shift(p, t) = p1
    BY ShiftFacts
  <2>6. Shift(p1, u) = q
    BY ShiftFacts
  <2>7. NextToken(NextToken(p)) = q
    BY <2>2, <2>4, <2>5, <2>6
  <2> QED
    BY <2>1, <2>7 DEF Primed
<1>3. /\ t \in Tokens
      /\ 0 < n => t.pos \in 0 .. n - 1
      /\ 0 >= n => t = Token("EOF", 0, 0)
  <2>1. 0 \in Nat
    OBVIOUS
  <2> QED
    BY <1>1, <2>1, LexAt
<1> HIDE DEF t
<1>4. t.pos + 1 \in Nat
  BY <1>3 DEF Tokens
<1>5. /\ u \in Tokens
      /\ t.pos + 1 < n => u.pos \in t.pos + 1 .. n - 1
      /\ t.pos + 1 >= n => u = Token("EOF", t.pos + 1, t.pos + 1)
  BY <1>4, LexAt
<1>6. StandsAt(s, 0, t)
  BY <1>1, <1>3 DEF StandsAt, Token, t
<1> DEFINE c == Behind(s, t)
<1>7. CASE n = 0
  <2>1. t.pos = 0 /\ c = 0
    BY <1>3, <1>7 DEF Token, Behind
  <2>2. u = Token("EOF", 1, 1)
    BY <1>5, <1>7, <2>1
  <2>3. StandsAt(s, c, u)
    BY <1>7, <2>1, <2>2 DEF StandsAt, Token
  <2>4. u.pos = 1
    BY <2>2 DEF Token
  <2>5. q \in Parsers(s)
    BY <1>3, <1>5, <2>4 DEF Parsers
  <2> HIDE DEF u
  <2> QED
    BY <1>2, <1>6, <1>7, <2>3, <2>4, <2>5 DEF InPlace
<1>8. CASE n # 0
  <2>1. t.pos \in 0 .. n - 1 /\ c = t.pos + 1
    BY <1>1, <1>3, <1>8 DEF Behind
  <2>2. u.pos \in Nat /\ q \in Parsers(s)
    BY <1>3, <1>5 DEF Parsers, Tokens
  <2>3. StandsAt(s, c, u)
    BY <1>1, <1>5, <2>1 DEF StandsAt, Token
  <2> HIDE DEF u, c
  <2>4. IF u.pos < n THEN q.pos = u.pos ELSE q.pos >= n - 1
    BY <1>1, <2>2
  <2>5. 0 \in 0 .. n
    BY <1>1
  <2>6. q.curr = t /\ q.peek = u
    OBVIOUS
  <2> QED
    BY <1>2, <1>6, <2>2, <2>3, <2>4, <2>5, <2>6 DEF InPlace, c
<1> QED
  BY <1>7, <1>8

-----------------------------------------------------------------------------
(* The text is kept.                                                       *)

\* The elements are what comes out for the text before a, where parse stops.
Ended(s, elements, a) ==
  /\ elements \in Seq(Parts(s))
  /\ FlattenSeq(Images(Yields(s), elements)) = Kept(s, 0, a)
  /\ \A q \in 0 .. a - 1 : At(s, q) = NUL => Inside(elements, q)
  /\ ~ Inside(elements, a)
  /\ a = Len(s) \/ At(s, a) = NUL

LEMMA ParsedEnds ==
  ASSUME NEW s \in Seq(Symbols), NEW a \in 0 .. Len(s), NEW r, Parsed(s, r, a), r.parser.curr.kind = "EOF"
  PROVE  Ended(s, r.elems, a)
<1>1. StandsAt(s, a, r.parser.curr) /\ Len(s) \in Nat
  BY LenProperties DEF Parsed, InPlace
<1>2. a = Len(s) \/ At(s, a) = NUL
  <2> SUFFICES ASSUME a # Len(s), At(s, a) # NUL PROVE FALSE
    OBVIOUS
  <2>1. a \in 0 .. Len(s) - 1
    BY <1>1
  <2>2. r.parser.curr = Lex(s, a)
    BY <1>1, <2>1 DEF StandsAt
  <2> QED
    BY <2>1, <2>2, LexFacts
<1>3. a \in a .. Len(s)
  BY <1>1
<1> QED
  BY <1>2, <1>3 DEF Parsed, Ended

LEMMA EndedIsKept ==
  ASSUME input \in Seq(Symbols), NEW a \in 0 .. Len(input), Ended(input, elems, a)
  PROVE  FlattenSeq([k \in DOMAIN elems |->
                       IF k \in Nodes THEN Literals(Text(elems[k])) ELSE elems[k].content])
           = Literals(Span(input, 0, Stop - 1))
<1> DEFINE s == input
           P == {Len(s)} \cup
                {q \in 0 .. Len(s) - 1 :
                   At(s, q) = NUL /\ \A k \in Nodes : q \notin elems[k].first .. elems[k].last}
<1>1. Len(s) \in Nat
  BY LenProperties
<1>2. \A q : Inside(elems, q) <=> \E k \in Nodes : q \in elems[k].first .. elems[k].last
  BY DEF Inside, Nodes
<1>3. Stop = a
  <2>1. a \in P
    BY <1>1, <1>2 DEF Ended
  <2>2. P \in SUBSET (0 .. Len(s))
    BY <1>1
  <2>3. Stop = Min(P)
    BY DEF Stop
  <2> DEFINE m == Min(P)
  <2>4. m \in P /\ \A q \in P : m <= q
    <3> HIDE DEF P
    <3>1. 0 \in Int /\ Len(s) \in Int /\ P # {}
      BY <1>1, <2>1
    <3> QED
      BY <2>2, <3>1, FirstPlace
  <2> HIDE DEF m
  <2>5. ASSUME m # a PROVE FALSE
    <3>1. m < a /\ m \in 0 .. Len(s)
      BY <2>1, <2>2, <2>4, <2>5
    <3>2. m # Len(s)
      BY <1>1, <3>1
    <3>3. At(s, m) = NUL /\ ~ Inside(elems, m)
      BY <1>2, <2>4, <3>2
    <3>4. m \in 0 .. a - 1
      BY <3>1
    <3> QED
      BY <3>3, <3>4 DEF Ended
  <2> QED
    BY <2>3, <2>5 DEF m
<1>4. [k \in DOMAIN elems |-> IF k \in Nodes THEN Literals(Text(elems[k])) ELSE elems[k].content]
        = Images(Yields(s), elems)
  <2>1. \A k \in DOMAIN elems : elems[k] \in Parts(s)
    BY ElementOfSeq, LenProperties DEF Ended
  <2>2. \A k \in DOMAIN elems :
          (IF k \in Nodes THEN Literals(Text(elems[k])) ELSE elems[k].content) = Yields(s)[elems[k]]
    BY <2>1 DEF Yields, Yield, Nodes, Text
  <2> QED
    BY <2>2 DEF Images
<1>5. Literals(Span(s, 0, a - 1)) = Kept(s, 0, a)
  <2>1. 0 \in Nat /\ a \in Nat /\ 0 <= a /\ a <= Len(s)
    BY <1>1
  <2> QED
    BY <2>1, LiteralsAreKept
<1> QED
  BY <1>3, <1>4, <1>5 DEF Ended

New(text) == [input |-> text, pos |-> -1, curr |-> Nil, peek |-> Nil]

\* What a call of Parse finds, and what it leaves: a parser that is new, or one that
\* stands at the end of its text.
IInv ==
  /\ parses \in Nat
  /\ parses = 0 => parser = New(<<>>)
  /\ parses = 1 => parser \in Parsers(input) /\ parser.curr.kind = "EOF"
  /\ IF parses > 1 THEN elems = <<>>
     ELSE input \in Seq(Symbols) /\ \E a \in 0 .. Len(input) : Ended(input, elems, a)

LEMMA IInvKept == IInv => TextIsKept
BY EndedIsKept DEF IInv, TextIsKept

LEMMA InitInv == Init => IInv
<1> SUFFICES ASSUME Init PROVE IInv
  OBVIOUS
<1>1. parser = New(<<>>) /\ elems = <<>> /\ parses = 0 /\ input = <<>>
  BY DEF Init, New, input
<1>2. <<>> \in Seq(Symbols) /\ <<>> \in Seq(Parts(<<>>)) /\ Len(<<>>) = 0 /\ DOMAIN <<>> = {}
  BY EmptySeq
<1>3. FlattenSeq(Images(Yields(<<>>), <<>>)) = Kept(<<>>, 0, 0)
  <2>1. Kept(<<>>, 0, 0) = <<>>
    <3> DEFINE s == <<>>
    <3>1. s \in Seq(Symbols)
      BY <1>2
    <3> HIDE DEF s
    <3>2. Kept(s, 0, 0) = <<>>
      BY <3>1, KeptFacts
    <3> QED
      BY <3>2 DEF s
  <2>2. FlattenSeq(Images(Yields(<<>>), <<>>)) = <<>>
    BY FlatImagesEmpty
  <2> QED
    BY <2>1, <2>2
<1>4. Ended(<<>>, <<>>, 0)
  BY <1>2, <1>3 DEF Ended, Inside
<1> QED
  BY <1>1, <1>2, <1>4 DEF IInv

LEMMA TextsAreSymbols ==
  ASSUME NEW text \in Texts
  PROVE  text \in Seq(Symbols) /\ Len(text) \in Nat
<1>1. text \in Seq(STRING) /\ Len(text) \in Nat
  BY TextsAssumption, LenProperties
<1>2. \A k \in 1 .. Len(text) : text[k] \in Symbols
  BY <1>1, ElementOfSeq DEF Symbols
<1>3. text = [k \in 1 .. Len(text) |-> text[k]]
  BY <1>1, LenProperties
<1> QED
  BY <1>1, <1>2, <1>3, IsASeq

LEMMA ParseKeeps ==
  ASSUME IInv, NEW text \in Texts, Parse(text)
  PROVE  IInv'
<1> DEFINE p == Primed(Restarted(text))
           r == ParseFrom(p)
<1>1. parser' = r.parser /\ elems' = r.elems /\ parses' = parses + 1
  BY DEF Parse
<1>2. text \in Seq(Symbols) /\ Len(text) \in Nat
  BY TextsAreSymbols
<1>3. CASE parses = 0
  <2>1. Restarted(text) = New(text)
    <3> DEFINE z == [input |-> text, pos |-> -1, curr |-> Nil, peek |-> Nil]
    <3>1. parser = [input |-> <<>>, pos |-> -1, curr |-> Nil, peek |-> Nil]
      BY <1>3 DEF IInv, New
    <3>2. [parser EXCEPT !.input = text] = z
      BY <3>1
    <3>3. [z EXCEPT !.pos = -1] = z
      OBVIOUS
    <3>4. Restarted(text) = [[parser EXCEPT !.input = text] EXCEPT !.pos = -1]
      BY DEF Restarted
    <3> HIDE DEF z
    <3>5. Restarted(text) = z
      BY <3>2, <3>3, <3>4
    <3> QED
      BY <3>5 DEF z, New
  <2>2. InPlace(p, text, 0)
    BY <1>2, <2>1, PrimedInPlace DEF New
  <2> HIDE DEF p
  <2>3. PICK a \in 0 .. Len(text) : Parsed(text, r, a) /\ r.parser.curr.kind = "EOF"
    BY <1>2, <2>2, ParseFromFacts
  <2> HIDE DEF r
  <2>4. Ended(text, r.elems, a)
    BY <1>2, <2>3, ParsedEnds
  <2>5. r.parser \in Parsers(text) /\ r.parser.input = text
    BY <2>3 DEF Parsed, InPlace, Parsers
  <2>6. input' = text /\ parser' \in Parsers(text) /\ parser'.curr.kind = "EOF" /\ parses' = 1
    BY <1>1, <1>3, <2>3, <2>5 DEF input
  <2>7. Ended(input', elems', a) /\ a \in 0 .. Len(input')
    BY <1>1, <2>4, <2>6
  <2> QED
    BY <1>2, <2>6, <2>7 DEF IInv
<1>4. CASE parses # 0
  <2>1. parses = 1 /\ parser \in Parsers(input) /\ parser.curr.kind = "EOF"
    BY <1>4 DEF Parse, IInv
  <2> DEFINE q == Restarted(text)
  <2>2. q.input = text /\ q.curr = parser.curr
    BY <2>1 DEF Restarted, Parsers
  <2>3. q.curr # Nil
    BY <2>1, <2>2 DEF Nil, Token
  <2>4. p = q
    BY <2>3 DEF Primed
  <2> HIDE DEF q
  <2>5. p.curr.kind = "EOF" /\ Len(p.input) \in Nat
    BY <1>2, <2>1, <2>2, <2>4
  <2> HIDE DEF p
  <2>6. r = [parser |-> p, elems |-> <<>>]
    BY <2>5, ParseAtEnd
  <2> HIDE DEF r
  <2>7. elems' = <<>> /\ parses' = 2
    BY <1>1, <2>1, <2>6
  <2> QED
    BY <2>7 DEF IInv
<1> QED
  BY <1>3, <1>4

LEMMA StepInv == IInv /\ [Next]_vars => IInv'
<1> SUFFICES ASSUME IInv, [Next]_vars PROVE IInv'
  OBVIOUS
<1>1. CASE Next
  BY <1>1, ParseKeeps DEF Next
<1>2. CASE UNCHANGED vars
  BY <1>2 DEF IInv, vars, input
<1> QED
  BY <1>1, <1>2

\* Whatever the texts are, strings and elements together are the text: what a failed
\* try at an element has read comes again, and nothing comes twice but for the symbol
\* before a blank in the place of a name.
THEOREM TextCorrect == Spec => []TextIsKept
<1>1. Spec => []IInv
  BY InitInv, StepInv, PTL DEF Spec
<1> QED
  BY <1>1, IInvKept, PTL
=============================================================================
