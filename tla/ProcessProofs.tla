--------------------------- MODULE ProcessProofs ---------------------------
(***************************************************************************)
(* Proofs about Lifecycle, for all hooks, their priorities and the ways in *)
(* which they register others.                                             *)
(*                                                                         *)
(* ExitInv says how far the exit hooks have been run.  LoopInv says that   *)
(* the loop has run the first hooks of its array, which stays in order and *)
(* holds none twice, as long as what a hook registers does not come before *)
(* the hook itself: AddInitialized then changes nothing the loop has       *)
(* passed.  QuietInv says what there is to run when no hook registers any. *)
(***************************************************************************)
EXTENDS Lifecycle, Robot, ListLemmas, FiniteSetTheorems

\* The array the loop goes over.
Array(st) == IF st.view.shared THEN st.inits ELSE st.view.array

Views  == [length : Nat, shared : BOOLEAN, array : Seq(AllHooks)]
States == [inits : Seq(AllHooks), capacity : Nat, view : Views]

BeforeLoop == {"init", "logger", "environ"}

LoopOn == {"hooks", "notified", "serving"}

Phases == {"init", "logger", "environ", "hooks", "notified", "serving", "left"}

TypeOK ==
  /\ registers \in Registers
  /\ State \in States
  /\ pos \in Nat /\ pos <= view.length /\ view.length <= Len(Array(State))
  /\ ran \in Seq(AllHooks) /\ Len(ran) = pos
  /\ phase \in BeforeLoop => pos = 0
  /\ exits \in Seq(ExitHooks) /\ exited \in Seq(ExitHooks)
  /\ phase \in Phases
  /\ exiting \in -1 .. Len(exits)

InOrder(s) == \A j, k \in 1 .. Len(s) : j < k => Priority[s[j]] <= Priority[s[k]]

NoTwice(s) == \A j, k \in 1 .. Len(s) : j # k => s[j] # s[k]

\* s begins with r.
Begins(r, s) == Len(r) <= Len(s) /\ \A i \in 1 .. Len(r) : s[i] = r[i]

\* The slice and the loop's array are sorted and hold none twice, and the hooks of
\* done are the first ones of the array.
Good(st, done) ==
  /\ InOrder(st.inits) /\ NoTwice(st.inits)
  /\ InOrder(Array(st)) /\ NoTwice(Array(st))
  /\ Begins(done, Array(st))

\* A hook of a package, or one that a hook of r has registered.
Known(h, r) ==
  h \in Hooks \/ \E k \in 1 .. Len(r) :
                  \E j \in 1 .. Len(registers[r[k]]) : h = registers[r[k]][j]

RegisterLater ==
  \A h \in AllHooks : \A k \in DOMAIN registers[h] :
     Priority[registers[h][k]] >= Priority[h]

RegisterNone(r) == \A k \in DOMAIN r : registers[r[k]] = <<>>

LoopInv ==
  RegisterLater \/ RegisterNone(ran) =>
    Good(State, ran) /\ \A i \in 1 .. Len(inits) : Known(inits[i], ran)

QuietInv ==
  RegisterNone(ran) =>
    /\ phase # "init" => ToSet(inits) = Hooks
    /\ phase \in LoopOn \/ pos > 0 => view.shared
    /\ phase \in LoopOn => view.length = Len(inits)
    /\ phase \in {"notified", "serving"} => pos = view.length

ExitInv ==
  /\ NoTwice(exits)
  /\ exiting = -1 => exited = <<>>
  /\ exiting # -1 => phase \in {"notified", "serving", "left"} /\ Len(exited) = exiting
  /\ Begins(exited, exits)
  /\ ending = "exit" => exiting = Len(exits)

IInv == TypeOK /\ LoopInv /\ QuietInv /\ ExitInv

-----------------------------------------------------------------------------
(* Where Sorted puts an element.                                           *)

\* A set of numbers that begins at 1 and has no hole counts its members.
LEMMA CountFromOne ==
  ASSUME NEW n \in Nat, NEW B \in SUBSET (1 .. n),
         \A k \in B : \A j \in 1 .. k : j \in B
  PROVE  B = 1 .. Cardinality(B) /\ Cardinality(B) \in 0 .. n
<1> DEFINE T == {m \in 0 .. n : m + 1 \notin B}
<1>1. T \in SUBSET Nat /\ n \in T
  OBVIOUS
<1>2. PICK m \in T : \A k \in T : m <= k
  <2> HIDE DEF T
  <2> QED
    BY <1>1, LeastNumber
<1>3. B = 1 .. m
  <2>1. ASSUME NEW k \in 1 .. m PROVE k \in B
    <3>1. k - 1 \in 0 .. n /\ ~ (m <= k - 1) /\ (k - 1) + 1 = k
      OBVIOUS
    <3> QED
      BY <1>2, <3>1
  <2>2. ASSUME NEW k \in B PROVE k \in 1 .. m
    <3>1. k \in 1 .. n /\ m \in Nat
      OBVIOUS
    <3>2. CASE m < k
      <4>1. m + 1 \in 1 .. k
        BY <3>1, <3>2
      <4> QED
        BY <4>1
    <3> QED
      BY <3>1, <3>2
  <2> QED
    BY <2>1, <2>2
<1>4. Cardinality(1 .. m) = m
  <2>1. m \in Nat /\ 1 \in Int /\ m \in Int
    OBVIOUS
  <2>2. Cardinality(1 .. m) = IF 1 > m THEN 0 ELSE m - 1 + 1
    BY <2>1, FS_Interval
  <2> QED
    BY <2>1, <2>2
<1> QED
  BY <1>3, <1>4

\* t is s with h behind its first n members.
Inserted(t, s, h, n) ==
  /\ Len(t) = Len(s) + 1
  /\ \A i \in 1 .. Len(t) : t[i] = IF i <= n THEN s[i] ELSE IF i = n + 1 THEN h ELSE s[i - 1]

LEMMA InsertedType ==
  ASSUME NEW S, NEW s \in Seq(S), NEW h \in S, NEW n \in 0 .. Len(s)
  PROVE  LET t == SubSeq(s, 1, n) \o <<h>> \o SubSeq(s, n + 1, Len(s))
         IN  t \in Seq(S) /\ Inserted(t, s, h, n)
<1> DEFINE a == SubSeq(s, 1, n)
           b == SubSeq(s, n + 1, Len(s))
           c == <<h>>
<1>1. Len(s) \in Nat /\ n \in Nat
  BY LenProperties
<1>2. /\ a \in Seq(S) /\ Len(a) = n /\ \A i \in 1 .. n : a[i] = s[i]
  BY <1>1, SubSeqProperties
<1>3. /\ b \in Seq(S) /\ Len(b) = Len(s) - n
      /\ \A i \in 1 .. (Len(s) - n) : b[i] = s[n + i]
  <2>1. b \in Seq(S) /\ Len(b) = Len(s) - n
    BY <1>1, SubSeqProperties
  <2>2. \A i \in 1 .. (Len(s) - n) : b[i] = s[(n + 1) + i - 1]
    BY <1>1, <2>1, SubSeqProperties
  <2>3. \A i \in 1 .. (Len(s) - n) : (n + 1) + i - 1 = n + i
    BY <1>1
  <2> QED
    BY <2>1, <2>2, <2>3
<1>4. c \in Seq(S) /\ Len(c) = 1 /\ c[1] = h
  OBVIOUS
<1> HIDE DEF a, b, c
<1>5. /\ a \o c \in Seq(S) /\ Len(a \o c) = n + 1
      /\ \A i \in 1 .. (n + 1) : (a \o c)[i] = IF i <= n THEN a[i] ELSE c[i - n]
  <2>1. a \in Seq(S) /\ c \in Seq(S) /\ Len(a) = n /\ Len(c) = 1
    BY <1>2, <1>4
  <2>2. /\ a \o c \in Seq(S) /\ Len(a \o c) = Len(a) + Len(c)
        /\ \A i \in 1 .. Len(a) + Len(c) :
             (a \o c)[i] = IF i <= Len(a) THEN a[i] ELSE c[i - Len(a)]
    BY <2>1, ConcatProperties
  <2> QED
    BY <2>1, <2>2
<1> DEFINE d == a \o c
           t == d \o b
<1>6. /\ d \in Seq(S) /\ Len(d) = n + 1 /\ d[n + 1] = h
      /\ \A i \in 1 .. n : d[i] = s[i]
  BY <1>1, <1>2, <1>4, <1>5
<1> HIDE DEF d
<1>7. /\ t \in Seq(S) /\ Len(t) = Len(s) + 1
      /\ \A i \in 1 .. (Len(s) + 1) : t[i] = IF i <= n + 1 THEN d[i] ELSE b[i - (n + 1)]
  <2>1. d \in Seq(S) /\ b \in Seq(S) /\ Len(d) = n + 1 /\ Len(d) + Len(b) = Len(s) + 1
    BY <1>1, <1>3, <1>6
  <2>2. /\ d \o b \in Seq(S) /\ Len(d \o b) = Len(d) + Len(b)
        /\ \A i \in 1 .. Len(d) + Len(b) :
             (d \o b)[i] = IF i <= Len(d) THEN d[i] ELSE b[i - Len(d)]
    BY <2>1, ConcatProperties
  <2> QED
    BY <2>1, <2>2
<1>8. ASSUME NEW i \in 1 .. (Len(s) + 1)
      PROVE  t[i] = IF i <= n THEN s[i] ELSE IF i = n + 1 THEN h ELSE s[i - 1]
  <2>1. CASE i <= n
    BY <1>1, <1>6, <1>7, <2>1
  <2>2. CASE i = n + 1
    BY <1>1, <1>6, <1>7, <2>2
  <2>3. CASE i > n + 1
    <3>1. i - (n + 1) \in 1 .. (Len(s) - n) /\ n + (i - (n + 1)) = i - 1 /\ ~ (i <= n + 1)
      BY <1>1, <2>3
    <3>2. t[i] = b[i - (n + 1)]
      BY <1>7, <3>1
    <3>3. b[i - (n + 1)] = s[i - 1]
      BY <1>3, <3>1
    <3> QED
      BY <1>1, <2>3, <3>2, <3>3
  <2> QED
    <3>1. i <= n \/ i = n + 1 \/ i > n + 1
      BY <1>1
    <3> QED
      BY <2>1, <2>2, <2>3, <3>1
<1> HIDE DEF t
<1>9. t \in Seq(S) /\ Inserted(t, s, h, n)
  BY <1>7, <1>8 DEF Inserted
<1> QED
  BY <1>9 DEF t, d, a, b, c

LEMMA SortedType ==
  ASSUME NEW s \in Seq(AllHooks), NEW h \in AllHooks
  PROVE  /\ Sorted(s, h) \in Seq(AllHooks)
         /\ \E n \in 0 .. Len(s) : Inserted(Sorted(s, h), s, h, n)
<1> DEFINE B == {k \in DOMAIN s : Priority[s[k]] <= Priority[h]}
           n == Cardinality(B)
<1>1. Len(s) \in Nat /\ B \in SUBSET (1 .. Len(s))
  BY LenProperties
<1>2. n \in 0 .. Len(s)
  <2>1. IsFiniteSet(1 .. Len(s)) /\ Cardinality(1 .. Len(s)) = Len(s)
    <3>1. /\ IsFiniteSet(1 .. Len(s))
          /\ Cardinality(1 .. Len(s)) = IF 1 > Len(s) THEN 0 ELSE Len(s) - 1 + 1
      <4>1. 1 \in Int /\ Len(s) \in Int
        BY <1>1
      <4> QED
        BY ONLY <4>1, FS_Interval
    <3> QED
      BY <1>1, <3>1
  <2> HIDE DEF B
  <2>2. IsFiniteSet(B) /\ Cardinality(B) <= Len(s)
    BY <1>1, <2>1, FS_Subset
  <2>3. Cardinality(B) \in Nat
    BY <2>2, FS_CardinalityType
  <2> QED
    BY <1>1, <2>2, <2>3
<1>3. Sorted(s, h) = SubSeq(s, 1, n) \o <<h>> \o SubSeq(s, n + 1, Len(s))
  BY DEF Sorted
<1> HIDE DEF n
<1> QED
  BY <1>2, <1>3, InsertedType

\* An element goes behind those of a sorted sequence that do not come after it.
LEMMA SortedKeepsOrder ==
  ASSUME NEW s \in Seq(AllHooks), NEW h \in AllHooks, InOrder(s)
  PROVE  /\ InOrder(Sorted(s, h))
         /\ \A r \in Seq(AllHooks) :
              /\ Begins(r, s)
              /\ \A i \in 1 .. Len(r) : Priority[r[i]] <= Priority[h]
              => Begins(r, Sorted(s, h))
<1> DEFINE B == {k \in DOMAIN s : Priority[s[k]] <= Priority[h]}
           n == Cardinality(B)
           t == Sorted(s, h)
<1>1. Len(s) \in Nat /\ DOMAIN s = 1 .. Len(s)
  BY LenProperties
<1>2. \A i \in 1 .. Len(s) : Priority[s[i]] \in Int
  BY ElementOfSeq, HookAssumption
<1>3. Priority[h] \in Int
  BY HookAssumption
<1>4. \A k \in B : \A j \in 1 .. k : j \in B
  <2> SUFFICES ASSUME NEW k \in B, NEW j \in 1 .. k, j # k PROVE j \in B
    OBVIOUS
  <2>1. k \in 1 .. Len(s) /\ j \in 1 .. Len(s) /\ j < k
    BY <1>1
  <2>2. Priority[s[j]] <= Priority[s[k]] /\ Priority[s[k]] <= Priority[h]
    BY <2>1 DEF InOrder
  <2>3. Priority[s[j]] <= Priority[h]
    BY <1>2, <1>3, <2>1, <2>2
  <2> QED
    BY <1>1, <2>1, <2>3
<1>5. B = 1 .. n /\ n \in 0 .. Len(s)
  <2>1. B \in SUBSET (1 .. Len(s))
    BY <1>1
  <2> HIDE DEF B
  <2> QED
    BY <1>1, <1>4, <2>1, CountFromOne
<1>6. Inserted(t, s, h, n) /\ t \in Seq(AllHooks)
  <2>1. t = SubSeq(s, 1, n) \o <<h>> \o SubSeq(s, n + 1, Len(s))
    BY DEF Sorted
  <2> HIDE DEF t, n
  <2> QED
    BY <1>5, <2>1, InsertedType
<1>7. \A k \in 1 .. Len(s) : k <= n <=> Priority[s[k]] <= Priority[h]
  <2>1. \A k \in 1 .. Len(s) : k \in B <=> Priority[s[k]] <= Priority[h]
    BY <1>1
  <2> HIDE DEF B
  <2> QED
    BY <1>1, <1>5, <2>1
<1> HIDE DEF B, n, t
<1>8. InOrder(t)
  <2> SUFFICES ASSUME NEW j \in 1 .. Len(t), NEW k \in 1 .. Len(t), j < k
               PROVE  Priority[t[j]] <= Priority[t[k]]
    BY DEF InOrder
  <2>1. Len(t) = Len(s) + 1 /\ n \in Nat
    BY <1>5, <1>6 DEF Inserted
  <2>2. \A i \in 1 .. Len(t) :
           t[i] = IF i <= n THEN s[i] ELSE IF i = n + 1 THEN h ELSE s[i - 1]
    BY <1>6 DEF Inserted
  <2>3. CASE k <= n
    BY <1>1, <1>5, <2>1, <2>2, <2>3 DEF InOrder
  <2>4. CASE k = n + 1
    <3>1. t[j] = s[j] /\ t[k] = h /\ j \in 1 .. Len(s) /\ j <= n
      BY <1>1, <1>5, <2>1, <2>2, <2>4
    <3> QED
      BY <1>7, <3>1
  <2>5. CASE k > n + 1
    <3>1. t[k] = s[k - 1] /\ k - 1 \in 1 .. Len(s) /\ ~ (k - 1 <= n)
      BY <1>1, <1>5, <2>1, <2>2, <2>5
    <3>2. CASE j <= n
      <4>1. t[j] = s[j] /\ j \in 1 .. Len(s) /\ j < k - 1
        BY <1>1, <1>5, <2>1, <2>2, <2>5, <3>2
      <4> QED
        BY <3>1, <4>1 DEF InOrder
    <3>3. CASE j = n + 1
      <4>1. t[j] = h
        BY <1>1, <1>5, <2>1, <2>2, <3>3
      <4>2. ~ (Priority[s[k - 1]] <= Priority[h])
        BY <1>7, <3>1
      <4> QED
        BY <1>2, <1>3, <3>1, <4>1, <4>2
    <3>4. CASE j > n + 1
      <4>1. t[j] = s[j - 1] /\ j - 1 \in 1 .. Len(s) /\ j - 1 < k - 1
        BY <1>1, <1>5, <2>1, <2>2, <3>4
      <4> QED
        BY <3>1, <4>1 DEF InOrder
    <3> QED
      BY <2>1, <3>2, <3>3, <3>4
  <2> QED
    BY <2>1, <2>3, <2>4, <2>5
<1>9. ASSUME NEW r \in Seq(AllHooks), Begins(r, s),
             \A i \in 1 .. Len(r) : Priority[r[i]] <= Priority[h]
      PROVE  Begins(r, t)
  <2>1. Len(r) \in Nat /\ Len(r) <= Len(s)
    BY <1>9, LenProperties DEF Begins
  <2>2. \A i \in 1 .. Len(r) : i \in 1 .. Len(s) /\ s[i] = r[i] /\ i <= n
    BY <1>1, <1>7, <1>9, <2>1 DEF Begins
  <2> QED
    BY <1>1, <1>6, <2>1, <2>2 DEF Begins, Inserted
<1> QED
  BY <1>8, <1>9 DEF t

LEMMA SortedOnce ==
  ASSUME NEW s \in Seq(AllHooks), NEW h \in AllHooks
  PROVE  /\ NoTwice(s) /\ (\A i \in 1 .. Len(s) : s[i] # h) => NoTwice(Sorted(s, h))
         /\ \A i \in 1 .. Len(Sorted(s, h)) :
              Sorted(s, h)[i] = h \/ \E j \in 1 .. Len(s) : Sorted(s, h)[i] = s[j]
         /\ Len(Sorted(s, h)) = Len(s) + 1
<1> DEFINE t == Sorted(s, h)
<1>1. PICK n \in 0 .. Len(s) : Inserted(t, s, h, n)
  BY SortedType
<1> HIDE DEF t
<1>2. Len(s) \in Nat /\ n \in Nat /\ n <= Len(s) /\ Len(t) = Len(s) + 1
  BY <1>1, LenProperties DEF Inserted
<1>3. \A i \in 1 .. Len(t) :
         t[i] = IF i <= n THEN s[i] ELSE IF i = n + 1 THEN h ELSE s[i - 1]
  BY <1>1 DEF Inserted
<1> DEFINE from(i) == IF i <= n THEN i ELSE i - 1
<1>4. ASSUME NEW i \in 1 .. Len(t), i # n + 1
      PROVE  from(i) \in 1 .. Len(s) /\ t[i] = s[from(i)]
  BY <1>2, <1>3, <1>4
<1>5. t[n + 1] = h
  BY <1>2, <1>3
<1>6. ASSUME NoTwice(s), \A i \in 1 .. Len(s) : s[i] # h PROVE NoTwice(t)
  <2> SUFFICES ASSUME NEW j \in 1 .. Len(t), NEW k \in 1 .. Len(t), j # k
               PROVE  t[j] # t[k]
    BY DEF NoTwice
  <2>1. CASE j = n + 1
    BY <1>4, <1>5, <1>6, <2>1
  <2>2. CASE k = n + 1
    BY <1>4, <1>5, <1>6, <2>2
  <2>3. CASE j # n + 1 /\ k # n + 1
    <3>1. from(j) # from(k)
      BY <1>2, <2>3
    <3> HIDE DEF from
    <3> QED
      BY <1>4, <1>6, <2>3, <3>1 DEF NoTwice
  <2> QED
    BY <2>1, <2>2, <2>3
<1>7. \A i \in 1 .. Len(t) : t[i] = h \/ \E j \in 1 .. Len(s) : t[i] = s[j]
  <2> HIDE DEF from
  <2> QED
    BY <1>4, <1>5
<1> QED
  BY <1>2, <1>6, <1>7 DEF t

-----------------------------------------------------------------------------
(* What AddInitialized does to the loop's array.                           *)

LEMMA AddType ==
  ASSUME NEW st \in States, NEW h \in AllHooks
  PROVE  LET new == AddInitialized(st, h)
         IN  /\ new \in States /\ new.view.length = st.view.length
             /\ new.inits = Sorted(st.inits, h)
             /\ Array(new) \in Seq(AllHooks)
             /\ \/ Array(new) = Array(st)
                \/ Array(st) = st.inits /\ Array(new) = Sorted(st.inits, h)
<1> DEFINE new == AddInitialized(st, h)
           full == Len(st.inits) = st.capacity
<1>1. /\ st.inits \in Seq(AllHooks) /\ st.capacity \in Nat /\ st.view \in Views
      /\ st.view.length \in Nat /\ st.view.shared \in BOOLEAN
      /\ st.view.array \in Seq(AllHooks)
  BY DEF States, Views
<1>2. Sorted(st.inits, h) \in Seq(AllHooks)
  BY <1>1, SortedType
<1>3. new.inits = Sorted(st.inits, h) /\ new.capacity \in Nat
  BY <1>1 DEF AddInitialized
<1>4. new.view = IF full /\ st.view.shared
                 THEN [st.view EXCEPT !.shared = FALSE, !.array = st.inits]
                 ELSE st.view
  BY DEF AddInitialized
<1>5. /\ new.view \in Views /\ new.view.length = st.view.length
      /\ new.view.shared = (st.view.shared /\ ~full)
      /\ new.view.array = IF full /\ st.view.shared THEN st.inits ELSE st.view.array
  BY <1>1, <1>4 DEF Views
<1>6. new = [inits |-> new.inits, capacity |-> new.capacity, view |-> new.view]
  BY DEF AddInitialized
<1> HIDE DEF new, full
<1>7. new \in States
  BY <1>2, <1>3, <1>5, <1>6 DEF States
<1>8. \/ Array(new) = Array(st)
      \/ Array(st) = st.inits /\ Array(new) = Sorted(st.inits, h)
  BY <1>3, <1>5 DEF Array
<1>9. Array(new) \in Seq(AllHooks)
  BY <1>2, <1>3, <1>7 DEF Array, States, Views
<1> QED
  BY <1>3, <1>5, <1>7, <1>8, <1>9 DEF new

\* A new hook that does not come before those that have been run leaves them where
\* they are.
LEMMA AddGood ==
  ASSUME NEW st \in States, NEW h \in AllHooks, NEW done \in Seq(AllHooks),
         Good(st, done),
         \A i \in 1 .. Len(st.inits) : st.inits[i] # h,
         \A i \in 1 .. Len(done) : Priority[done[i]] <= Priority[h]
  PROVE  Good(AddInitialized(st, h), done)
<1> DEFINE new == AddInitialized(st, h)
<1>1. /\ new.inits = Sorted(st.inits, h)
      /\ \/ Array(new) = Array(st)
         \/ Array(st) = st.inits /\ Array(new) = Sorted(st.inits, h)
  BY AddType
<1>2. st.inits \in Seq(AllHooks)
  BY DEF States
<1>3. InOrder(Sorted(st.inits, h)) /\ NoTwice(Sorted(st.inits, h))
  BY <1>2, SortedKeepsOrder, SortedOnce DEF Good
<1>4. Begins(done, st.inits) => Begins(done, Sorted(st.inits, h))
  BY <1>2, SortedKeepsOrder DEF Good
<1> HIDE DEF new
<1>5. Good(new, done)
  BY <1>1, <1>3, <1>4 DEF Good
<1> QED
  BY <1>5 DEF new

Adding(f, st, hooks) ==
  f = [k \in 0 .. Len(hooks) |->
         IF k = 0 THEN st ELSE AddInitialized(f[k - 1], hooks[k])]

LEMMA AddingExists ==
  ASSUME NEW st \in States, NEW hooks \in Seq(AllHooks)
  PROVE  \E f : Adding(f, st, hooks)
<1> DEFINE n == Len(hooks)
           g == [p \in (1 .. n) \X States |-> AddInitialized(p[2], hooks[p[1]])]
<1>1. n \in Nat
  BY LenProperties
<1>2. \A k \in 1 .. n : hooks[k] \in AllHooks
  BY ElementOfSeq
<1>3. g \in [(1 .. n) \X States -> States]
  BY <1>2, AddType
<1>4. PICK f \in [0 .. n -> States] : Follows(f, n, st, g)
  <2> HIDE DEF g, n
  <2> QED
    BY <1>1, <1>3, Recursion
<1>5. f[0] = st
  BY <1>4 DEF Follows
<1>6. ASSUME NEW k \in 1 .. n PROVE f[k] = AddInitialized(f[k - 1], hooks[k])
  <2>1. f[k] = g[<<k, f[k - 1]>>]
    BY <1>4 DEF Follows
  <2>2. k - 1 \in 0 .. n
    BY <1>1
  <2>3. <<k, f[k - 1]>> \in (1 .. n) \X States
    BY <1>4, <2>2
  <2> QED
    BY <2>1, <2>3
<1>7. f = [k \in 0 .. n |-> IF k = 0 THEN st ELSE AddInitialized(f[k - 1], hooks[k])]
  BY <1>1, <1>4, <1>5, <1>6
<1> QED
  BY <1>7 DEF Adding

LEMMA AddEachValue ==
  ASSUME NEW st, NEW hooks, NEW g, Adding(g, st, hooks)
  PROVE  \E f : Adding(f, st, hooks) /\ AddEach(st, hooks) = f[Len(hooks)]
BY DEF AddEach, Adding

\* What holds at first and at each call holds when all hooks are registered.
LEMMA AddEachInduction ==
  ASSUME NEW st \in States, NEW hooks \in Seq(AllHooks), NEW T,
         <<0, st>> \in T,
         \A k \in 0 .. (Len(hooks) - 1) : \A x \in States :
            <<k, x>> \in T => <<k + 1, AddInitialized(x, hooks[k + 1])>> \in T
  PROVE  AddEach(st, hooks) \in States /\ <<Len(hooks), AddEach(st, hooks)>> \in T
<1> DEFINE n == Len(hooks)
<1>1. n \in Nat /\ \A k \in 1 .. n : hooks[k] \in AllHooks
  BY LenProperties, ElementOfSeq
<1>2. PICK f : Adding(f, st, hooks) /\ AddEach(st, hooks) = f[n]
  BY AddingExists, AddEachValue
<1>3. f[0] = st /\ \A k \in 1 .. n : f[k] = AddInitialized(f[k - 1], hooks[k])
  BY <1>1, <1>2 DEF Adding
<1> DEFINE U == {k \in 0 .. n : f[k] \in States /\ <<k, f[k]>> \in T}
<1>4. 0 \in U
  BY <1>1, <1>3
<1>5. ASSUME NEW k \in 0 .. n, k \in U, k < n PROVE k + 1 \in U
  <2>1. k \in 0 .. (n - 1) /\ k + 1 \in 1 .. n /\ (k + 1) - 1 = k
    BY <1>1, <1>5
  <2>2. f[k + 1] = AddInitialized(f[k], hooks[k + 1])
    BY <1>3, <2>1
  <2>3. f[k + 1] \in States
    BY <1>1, <1>5, <2>1, <2>2, AddType
  <2>4. <<k + 1, f[k + 1]>> \in T
    BY <1>5, <2>1, <2>2
  <2> QED
    BY <2>1, <2>3, <2>4
<1>6. n \in U
  <2> HIDE DEF U, n
  <2>1. 0 .. n \subseteq U
    <3>1. 0 \in Int /\ n \in Int
      BY <1>1
    <3>2. \A k \in 0 .. n : k \in U /\ k < n => k + 1 \in U
      BY <1>5
    <3> QED
      BY <1>4, <3>1, <3>2, InductionUpTo
  <2> QED
    BY <1>1, <2>1
<1> QED
  BY <1>2, <1>6

LEMMA AddNone ==
  ASSUME NEW st \in States
  PROVE  AddEach(st, <<>>) = st
<1>1. PICK f : Adding(f, st, <<>>) /\ AddEach(st, <<>>) = f[0]
  <2>1. <<>> \in Seq(AllHooks) /\ Len(<<>>) = 0
    OBVIOUS
  <2>2. \E f : Adding(f, st, <<>>)
    BY <2>1, AddingExists
  <2> QED
    BY <2>1, <2>2, AddEachValue
<1> QED
  BY <1>1 DEF Adding

LEMMA AddEachType ==
  ASSUME NEW st \in States, NEW hooks \in Seq(AllHooks)
  PROVE  LET new == AddEach(st, hooks)
         IN  /\ new \in States /\ new.view.length = st.view.length
             /\ Len(Array(st)) <= Len(Array(new))
<1> DEFINE T == {p \in Nat \X States : p[2].view.length = st.view.length
                                       /\ Len(Array(st)) <= Len(Array(p[2]))}
<1>1. \A x \in States : Array(x) \in Seq(AllHooks) /\ Len(Array(x)) \in Nat
  <2>1. \A x \in States : Array(x) \in Seq(AllHooks)
    BY DEF Array, States, Views
  <2> QED
    BY <2>1, LenProperties
<1>2. <<0, st>> \in T
  BY <1>1
<1>3. ASSUME NEW k \in 0 .. (Len(hooks) - 1), NEW x \in States, <<k, x>> \in T
      PROVE  <<k + 1, AddInitialized(x, hooks[k + 1])>> \in T
  <2> DEFINE h == hooks[k + 1]
             y == AddInitialized(x, h)
  <2>1. h \in AllHooks
    <3>1. k + 1 \in 1 .. Len(hooks)
      BY LenProperties
    <3> QED
      BY <3>1, ElementOfSeq
  <2>2. /\ y \in States /\ y.view.length = x.view.length
        /\ \/ Array(y) = Array(x)
           \/ Array(x) = x.inits /\ Array(y) = Sorted(x.inits, h)
    BY <2>1, AddType
  <2>3. Len(Sorted(x.inits, h)) = Len(x.inits) + 1
    BY <2>1, SortedOnce DEF States
  <2>4. Len(Array(x)) <= Len(Array(y))
    <3> HIDE DEF y, h
    <3> QED
      BY <1>1, <2>2, <2>3
  <2>5. x.view.length = st.view.length /\ Len(Array(st)) <= Len(Array(x))
    BY <1>3
  <2> HIDE DEF y
  <2>6. y.view.length = st.view.length /\ Len(Array(st)) <= Len(Array(y))
    BY <1>1, <2>2, <2>4, <2>5
  <2> QED
    BY <2>2, <2>6 DEF y
<1> HIDE DEF T
<1>4. AddEach(st, hooks) \in States /\ <<Len(hooks), AddEach(st, hooks)>> \in T
  BY <1>2, <1>3, AddEachInduction
<1> QED
  BY <1>4 DEF T

-----------------------------------------------------------------------------
(* The invariant.                                                          *)

LEMMA InitInv == Init => IInv
<1> SUFFICES ASSUME Init PROVE IInv
  OBVIOUS
<1>1. /\ <<>> \in Seq(AllHooks) /\ <<>> \in Seq(ExitHooks) /\ Len(<<>>) = 0
      /\ NoTwice(<<>>) /\ InOrder(<<>>) /\ Begins(<<>>, <<>>)
  BY DEF NoTwice, InOrder, Begins
<1>2. view \in Views /\ view.shared /\ view.length = 0
  BY <1>1 DEF Init, Views
<1>3. State \in States /\ Array(State) = <<>> /\ State.inits = <<>>
  BY <1>1, <1>2 DEF Init, State, States, Array
<1>4. TypeOK
  BY <1>1, <1>2, <1>3 DEF Init, TypeOK, Phases, BeforeLoop
<1>5. LoopInv
  <2>1. Good(State, ran)
    BY <1>1, <1>3 DEF Init, Good
  <2>2. \A i \in 1 .. Len(inits) : Known(inits[i], ran)
    BY <1>1 DEF Init
  <2> QED
    BY <2>1, <2>2 DEF LoopInv
<1>6. QuietInv
  BY DEF Init, QuietInv, LoopOn
<1>7. ExitInv
  BY <1>1 DEF Init, ExitInv
<1> QED
  BY <1>4, <1>5, <1>6, <1>7 DEF IInv

\* The slices are where the steps of Register, Initialized and RunHook put them.
SliceStep ==
  \/ \E h \in Hooks : Register(h)
  \/ Initialized \/ RunHook
  \/ UNCHANGED <<inits, capacity, view, pos, ran>>

LEMMA Slices ==
  ASSUME [Next]_vars
  PROVE  SliceStep /\ UNCHANGED <<registers, modelView>>
BY DEF Next, MainStep, ExitStep, vars, setting, SliceStep, Register, AddExited, InitLogger,
       InitEnviron, Initialized, RunHook, Notify, Listen, Signal, TakeSignal, RunExit, Exit

LEMMA StateParts ==
  ASSUME State \in States
  PROVE  /\ inits \in Seq(AllHooks) /\ view \in Views
         /\ view.length \in Nat /\ view.shared \in BOOLEAN /\ view.array \in Seq(AllHooks)
         /\ Array(State) = IF view.shared THEN inits ELSE view.array
         /\ Array(State) \in Seq(AllHooks) /\ Len(Array(State)) \in Nat
<1>1. inits \in Seq(AllHooks) /\ view \in Views
  BY DEF State, States
<1>2. view.length \in Nat /\ view.shared \in BOOLEAN /\ view.array \in Seq(AllHooks)
  BY <1>1 DEF Views
<1>3. Array(State) = IF view.shared THEN inits ELSE view.array
  BY DEF State, Array
<1> QED
  BY <1>1, <1>2, <1>3, LenProperties

\* The hook whose turn it is, and what it registers.
LEMMA CurrentHook ==
  ASSUME TypeOK, pos < view.length
  PROVE  /\ Current = Array(State)[pos + 1] /\ pos + 1 \in 1 .. Len(Array(State))
         /\ Current \in AllHooks
         /\ registers[Current] \in Seq(LateHooks) /\ registers[Current] \in Seq(AllHooks)
<1>1. pos \in Nat /\ view.length <= Len(Array(State)) /\ State \in States
  BY DEF TypeOK
<1>2. Current = Array(State)[pos + 1] /\ pos + 1 \in 1 .. Len(Array(State))
  BY <1>1, StateParts DEF Current
<1>3. Current \in AllHooks
  BY <1>1, <1>2, StateParts, ElementOfSeq
<1>4. registers \in [AllHooks -> Seq(LateHooks)]
  BY HookAssumption DEF TypeOK
<1>5. registers[Current] \in Seq(LateHooks)
  BY <1>3, <1>4
<1>6. registers[Current] \in Seq(AllHooks)
  BY <1>5, SeqMonotonic DEF AllHooks
<1> QED
  BY <1>2, <1>3, <1>5, <1>6

LEMMA BecomesState ==
  ASSUME NEW new, new \in States, Becomes(new)
  PROVE  State' = new
<1>1. new = [inits |-> new.inits, capacity |-> new.capacity, view |-> new.view]
  BY DEF States
<1> QED
  BY <1>1 DEF Becomes, State

LEMMA RanGrows ==
  ASSUME TypeOK, RunHook
  PROVE  /\ ran' \in Seq(AllHooks) /\ Len(ran') = pos + 1 /\ pos' = pos + 1
         /\ ran'[pos + 1] = Current /\ \A i \in 1 .. pos : ran'[i] = ran[i]
<1>1. Current \in AllHooks
  BY CurrentHook DEF RunHook
<1>2. ran' = Append(ran, Current) /\ pos' = pos + 1
  BY DEF RunHook
<1>3. ran \in Seq(AllHooks) /\ Len(ran) = pos
  BY DEF TypeOK
<1> QED
  BY <1>1, <1>2, <1>3, AppendProperties

LEMMA TypeStep ==
  ASSUME TypeOK, [Next]_vars
  PROVE  TypeOK'
<1> DEFINE Slice == /\ State \in States
                    /\ pos \in Nat /\ pos <= view.length /\ view.length <= Len(Array(State))
                    /\ ran \in Seq(AllHooks) /\ Len(ran) = pos
<1>1. Slice'
  <2>1. CASE UNCHANGED <<inits, capacity, view, pos, ran>>
    BY <2>1 DEF TypeOK, State
  <2>2. ASSUME NEW h \in Hooks, Register(h) PROVE Slice'
    <3> DEFINE new == AddInitialized(State, h)
    <3>1. h \in AllHooks /\ State \in States /\ inits \in Seq(AllHooks)
      BY StateParts DEF AllHooks, TypeOK
    <3>2. /\ new \in States /\ new.view.length = State.view.length
          /\ Array(new) \in Seq(AllHooks)
          /\ \/ Array(new) = Array(State)
             \/ Array(State) = State.inits /\ Array(new) = Sorted(State.inits, h)
      BY <3>1, AddType
    <3>3. State.inits = inits /\ State.view = view
      BY DEF State
    <3>4. Len(Sorted(inits, h)) = Len(inits) + 1
      BY <3>1, SortedOnce
    <3>5. Becomes(new) /\ UNCHANGED <<pos, ran>>
      BY <2>2 DEF Register
    <3> HIDE DEF new
    <3>6. State' = new /\ view' = new.view
      BY <3>2, <3>5, BecomesState DEF Becomes
    <3>7. Len(Array(State)) <= Len(Array(new))
      BY <3>1, <3>2, <3>3, <3>4, StateParts
    <3>8. /\ Array(State)' = Array(new) /\ Len(Array(new)) \in Nat
          /\ Len(Array(State)) \in Nat /\ view'.length = view.length
      BY <3>1, <3>2, <3>3, <3>6, StateParts, LenProperties DEF Array
    <3>9. view'.length <= Len(Array(State)')
      BY <3>1, <3>7, <3>8, StateParts DEF TypeOK
    <3> QED
      BY <3>2, <3>5, <3>6, <3>8, <3>9 DEF TypeOK
  <2>3. CASE Initialized
    <3>1. /\ view' = [length |-> Len(inits), shared |-> TRUE, array |-> <<>>]
          /\ UNCHANGED <<inits, capacity, pos, ran>>
      BY <2>3 DEF Initialized
    <3>2. Len(inits) \in Nat /\ <<>> \in Seq(AllHooks) /\ inits \in Seq(AllHooks)
          /\ capacity \in Nat
      BY StateParts, LenProperties DEF TypeOK, State, States
    <3>3. view' \in Views /\ view'.shared /\ view'.length = Len(inits)
      BY <3>1, <3>2 DEF Views
    <3>4. State' \in States /\ Array(State)' = inits
      BY <3>1, <3>2, <3>3 DEF State, States, Array
    <3>5. pos = 0
      BY <2>3 DEF TypeOK, Initialized, BeforeLoop
    <3> QED
      BY <3>1, <3>2, <3>3, <3>4, <3>5 DEF TypeOK
  <2>4. CASE RunHook
    <3> DEFINE new == AddEach(State, registers[Current])
    <3>1. State \in States /\ registers[Current] \in Seq(AllHooks) /\ pos < view.length
      BY <2>4, CurrentHook DEF RunHook, TypeOK
    <3>2. /\ new \in States /\ new.view.length = State.view.length
          /\ Len(Array(State)) <= Len(Array(new))
      BY <3>1, AddEachType
    <3>3. Becomes(new)
      BY <2>4 DEF RunHook
    <3> HIDE DEF new
    <3>4. State' = new /\ view' = new.view
      BY <3>2, <3>3, BecomesState DEF Becomes
    <3>5. /\ Array(State)' = Array(new) /\ State.view = view /\ view.length \in Nat
          /\ Len(Array(State)) \in Nat
      BY <3>1, <3>4, StateParts DEF Array, State
    <3>6. Array(new) \in Seq(AllHooks) /\ Len(Array(new)) \in Nat
      <4>1. Array(new) \in Seq(AllHooks)
        BY <3>2 DEF Array, States, Views
      <4> QED
        BY <4>1, LenProperties
    <3>7. /\ view'.length = view.length /\ view.length <= Len(Array(new))
          /\ pos + 1 <= view.length /\ pos + 1 \in Nat
      BY <3>1, <3>2, <3>4, <3>5, <3>6 DEF TypeOK
    <3> QED
      BY <2>4, <3>2, <3>4, <3>5, <3>7, RanGrows
  <2> QED
    BY <2>1, <2>2, <2>3, <2>4, Slices DEF SliceStep
<1>2. phase' \in Phases /\ (phase' \in BeforeLoop => phase \in BeforeLoop /\ UNCHANGED pos)
  BY DEF Next, MainStep, ExitStep, vars, setting, Register, AddExited, InitLogger,
         InitEnviron, Initialized, RunHook, Notify, Listen, Signal, TakeSignal, RunExit,
         Exit, TypeOK, Phases, BeforeLoop
<1>3. exits' \in Seq(ExitHooks) /\ exited' \in Seq(ExitHooks) /\ exiting' \in -1 .. Len(exits')
  <2>0. Len(exits) \in Nat
    BY LenProperties DEF TypeOK
  <2>1. ASSUME NEW h \in ExitHooks, AddExited(h)
        PROVE  exits' \in Seq(ExitHooks) /\ exited' \in Seq(ExitHooks)
               /\ exiting' \in -1 .. Len(exits')
    <3>1. exits' = Append(exits, h) /\ UNCHANGED <<exiting, exited>>
      BY <2>1 DEF AddExited
    <3>2. exits' \in Seq(ExitHooks) /\ Len(exits') = Len(exits) + 1
      BY <3>1, AppendProperties DEF TypeOK
    <3> QED
      BY <2>0, <3>1, <3>2 DEF TypeOK
  <2>2. CASE RunExit
    <3>1. exits[exiting + 1] \in ExitHooks
      <4>1. exiting + 1 \in 1 .. Len(exits)
        BY <2>0, <2>2 DEF RunExit
      <4> QED
        BY <4>1, ElementOfSeq DEF TypeOK
    <3>2. exited' \in Seq(ExitHooks)
      BY <2>2, <3>1, AppendProperties DEF RunExit, TypeOK
    <3> QED
      BY <2>0, <2>2, <3>2 DEF RunExit, TypeOK
  <2>3. CASE TakeSignal
    BY <2>0, <2>3 DEF TakeSignal, TypeOK
  <2>4. CASE UNCHANGED <<exits, exited, exiting>>
    BY <2>4 DEF TypeOK
  <2> QED
    BY <2>1, <2>2, <2>3, <2>4
       DEF Next, MainStep, ExitStep, vars, setting, Register, InitLogger,
           InitEnviron, Initialized, RunHook, Notify, Listen, Signal, Exit
<1>4. registers' \in Registers
  BY Slices DEF TypeOK
<1> QED
  BY <1>1, <1>2, <1>3, <1>4 DEF TypeOK

\* A hook stays where it is in the order, and known, when others have been run.
LEMMA LoopUnchanged ==
  ASSUME LoopInv, UNCHANGED <<registers, inits, capacity, view, ran>>
  PROVE  LoopInv'
BY DEF LoopInv, RegisterLater, RegisterNone, State, Good, Array, Known, InOrder, NoTwice, Begins

LEMMA LoopRegister ==
  ASSUME TypeOK, LoopInv, UNCHANGED registers, NEW h \in Hooks, Register(h)
  PROVE  LoopInv'
<1> SUFFICES ASSUME RegisterLater \/ RegisterNone(ran)
             PROVE  Good(State, ran)' /\ \A i \in 1 .. Len(inits') : Known(inits'[i], ran)
  <2>1. UNCHANGED ran
    BY DEF Register
  <2> QED
    BY <2>1 DEF LoopInv, RegisterLater, RegisterNone, Known
<1> DEFINE new == AddInitialized(State, h)
<1>1. /\ Becomes(new) /\ UNCHANGED ran /\ h \notin ToSet(inits) /\ phase = "init"
  BY DEF Register
<1>2. /\ h \in AllHooks /\ State \in States /\ inits \in Seq(AllHooks) /\ ran \in Seq(AllHooks)
      /\ State.inits = inits
  BY StateParts DEF AllHooks, TypeOK, State
<1>3. new \in States /\ new.inits = Sorted(inits, h)
  BY <1>2, AddType
<1>4. \A i \in 1 .. Len(inits) : inits[i] # h
  BY <1>1, <1>2, LenProperties DEF ToSet
<1>5. \A i \in 1 .. Len(ran) : Priority[ran[i]] <= Priority[h]
  <2>1. Len(ran) = 0
    BY <1>1 DEF TypeOK, BeforeLoop
  <2> QED
    BY <2>1
<1>6. Good(State, ran)
  BY DEF LoopInv
<1>7. Good(new, ran)
  BY <1>2, <1>4, <1>5, <1>6, AddGood
<1>8. State' = new /\ inits' = new.inits
  BY <1>1, <1>3, BecomesState DEF Becomes
<1>9. \A i \in 1 .. Len(inits') : inits'[i] \in AllHooks /\ Known(inits'[i], ran)
  <2>1. \A i \in 1 .. Len(inits') :
          inits'[i] = h \/ \E j \in 1 .. Len(inits) : inits'[i] = inits[j]
    <3> HIDE DEF new
    <3> QED
      BY <1>2, <1>3, <1>8, SortedOnce
  <2>2. \A i \in 1 .. Len(inits) : Known(inits[i], ran)
    BY DEF LoopInv
  <2>3. Known(h, ran)
    BY DEF Known
  <2>4. \A i \in 1 .. Len(inits') : inits'[i] \in AllHooks
    <3>1. inits' \in Seq(AllHooks)
      BY <1>3, <1>8 DEF States
    <3> QED
      BY <3>1, ElementOfSeq
  <2> QED
    BY <2>1, <2>2, <2>3, <2>4
<1>10. Good(State, ran)'
  BY <1>1, <1>7, <1>8 DEF Good, Array, Begins, InOrder, NoTwice
<1> QED
  BY <1>9, <1>10

LEMMA LoopInitialized ==
  ASSUME TypeOK, LoopInv, UNCHANGED registers, Initialized
  PROVE  LoopInv'
<1>1. /\ view' = [length |-> Len(inits), shared |-> TRUE, array |-> <<>>]
      /\ UNCHANGED <<inits, ran>>
  BY DEF Initialized
<1>2. Len(ran) = 0 /\ Len(inits) \in Nat
  BY StateParts, LenProperties DEF TypeOK, Initialized, BeforeLoop
<1>3. /\ State'.inits = inits /\ State.inits = inits /\ Array(State)' = inits
  BY <1>1 DEF State, Array
<1>4. Good(State, ran) => Good(State, ran)'
  BY <1>1, <1>2, <1>3 DEF Good, Begins, InOrder, NoTwice
<1> QED
  BY <1>1, <1>4 DEF LoopInv, RegisterLater, RegisterNone, Known

LEMMA LoopRun ==
  ASSUME TypeOK, LoopInv, UNCHANGED registers, RunHook
  PROVE  LoopInv'
<1> DEFINE cur == Current
           hs == registers[cur]
           done == ran'
           new == AddEach(State, hs)
<1>1. /\ cur = Array(State)[pos + 1] /\ pos + 1 \in 1 .. Len(Array(State))
      /\ cur \in AllHooks /\ hs \in Seq(LateHooks) /\ hs \in Seq(AllHooks)
  BY CurrentHook DEF RunHook
<1>2. /\ done \in Seq(AllHooks) /\ Len(done) = pos + 1 /\ done[pos + 1] = cur
      /\ \A i \in 1 .. pos : done[i] = ran[i]
  BY RanGrows
<1>3. Becomes(new) /\ pos \in Nat /\ Len(ran) = pos /\ State \in States
  BY DEF RunHook, TypeOK
<1> SUFFICES ASSUME RegisterLater \/ RegisterNone(done)
             PROVE  Good(State', done) /\ \A i \in 1 .. Len(inits') : Known(inits'[i], done)
  <2>1. RegisterLater' => RegisterLater
    BY DEF RegisterLater
  <2>2. RegisterNone(ran)' => RegisterNone(done)
    BY DEF RegisterNone
  <2>3. Good(State', done) => Good(State, ran)'
    BY DEF Good, Array, InOrder, NoTwice, Begins
  <2>4. (\A i \in 1 .. Len(inits') : Known(inits'[i], done))
        => (\A i \in 1 .. Len(inits) : Known(inits[i], ran))'
    BY DEF Known
  <2> HIDE DEF done
  <2> QED
    BY <2>1, <2>2, <2>3, <2>4 DEF LoopInv
<1>4. /\ \A k \in 1 .. Len(hs) : Priority[cur] <= Priority[hs[k]]
      /\ RegisterLater \/ RegisterNone(ran)
  <2>1. Len(hs) \in Nat /\ DOMAIN hs = 1 .. Len(hs) /\ DOMAIN done = 1 .. (pos + 1)
        /\ DOMAIN ran = 1 .. pos
    BY <1>1, <1>2, <1>3, LenProperties DEF TypeOK
  <2>2. CASE RegisterLater
    <3>1. \A k \in DOMAIN hs : Priority[hs[k]] >= Priority[cur]
      BY <1>1, <2>2 DEF RegisterLater
    <3>2. \A k \in 1 .. Len(hs) : Priority[hs[k]] \in Int /\ Priority[cur] \in Int
      BY <1>1, ElementOfSeq, HookAssumption
    <3> QED
      BY <2>1, <2>2, <3>1, <3>2 DEF RegisterLater
  <2>3. CASE RegisterNone(done)
    <3>1. \A k \in 1 .. (pos + 1) : registers[done[k]] = <<>>
      BY <2>1, <2>3 DEF RegisterNone
    <3>2. hs = <<>>
      BY <1>2, <1>3, <3>1
    <3>3. RegisterNone(ran)
      BY <1>2, <1>3, <2>1, <3>1 DEF RegisterNone
    <3> QED
      BY <3>2, <3>3
  <2> QED
    BY <2>2, <2>3
<1>5. /\ Good(State, ran) /\ State.inits = inits
      /\ \A i \in 1 .. Len(inits) : Known(inits[i], ran)
  BY <1>4 DEF LoopInv, State
<1>6. Good(State, done)
  <2>1. \A i \in 1 .. (pos + 1) : Array(State)[i] = done[i]
    BY <1>1, <1>2, <1>3, <1>5 DEF Good, Begins
  <2> QED
    BY <1>1, <1>2, <1>5, <2>1, StateParts, <1>3 DEF Good, Begins
\* Who has been run comes before what the current hook registers.
<1>7. \A k \in 1 .. Len(hs) : \A i \in 1 .. Len(done) : Priority[done[i]] <= Priority[hs[k]]
  <2> SUFFICES ASSUME NEW k \in 1 .. Len(hs), NEW i \in 1 .. Len(done)
               PROVE  Priority[done[i]] <= Priority[hs[k]]
    OBVIOUS
  <2>1. Array(State)[i] = done[i] /\ i <= pos + 1 /\ i \in 1 .. Len(Array(State))
    BY <1>1, <1>2, <1>3, <1>6, StateParts DEF Good, Begins
  <2>2. i = pos + 1 \/ Priority[done[i]] <= Priority[cur]
    BY <1>1, <1>3, <1>5, <2>1 DEF Good, InOrder
  <2>3. /\ Priority[done[i]] \in Int /\ Priority[cur] \in Int /\ Priority[hs[k]] \in Int
    BY <1>1, <1>2, ElementOfSeq, HookAssumption
  <2> QED
    BY <1>2, <1>4, <2>2, <2>3
\* What has been added so far is of the hooks that have been run, or of the current
\* one's first k.
<1> DEFINE Of(x, k) == \A i \in 1 .. Len(x.inits) :
                         Known(x.inits[i], ran) \/ \E j \in 1 .. k : x.inits[i] = hs[j]
           T == {p \in Nat \X States : Good(p[2], done) /\ Of(p[2], p[1])}
<1>8. <<0, State>> \in T
  <2>1. Of(State, 0)
    BY <1>5
  <2> HIDE DEF Of
  <2> QED
    BY <1>3, <1>6, <2>1
<1>9. ASSUME NEW k \in 0 .. (Len(hs) - 1), NEW x \in States, <<k, x>> \in T
      PROVE  <<k + 1, AddInitialized(x, hs[k + 1])>> \in T
  <2> DEFINE h == hs[k + 1]
             y == AddInitialized(x, h)
  <2>1. k \in Nat /\ k + 1 \in 1 .. Len(hs) /\ Len(hs) \in Nat /\ DOMAIN hs = 1 .. Len(hs)
    BY <1>1, LenProperties
  <2>2. h \in LateHooks /\ h \in AllHooks
    BY <1>1, <2>1, ElementOfSeq DEF AllHooks
  <2>3. Good(x, done) /\ Of(x, k) /\ x.inits \in Seq(AllHooks)
    BY <1>9 DEF States
  <2>4. \A g \in AllHooks : \A j \in DOMAIN registers[g] :
          registers[g][j] = h => g = cur /\ j = k + 1
    <3>1. registers \in Registers /\ \A g \in AllHooks :
             \A j \in DOMAIN registers[g], i \in DOMAIN registers[cur] :
                registers[g][j] = registers[cur][i] => g = cur /\ j = i
      <4> HIDE DEF cur, hs
      <4> QED
        <5>1. registers \in Registers
          BY DEF TypeOK
        <5>2. \A way \in Registers : \A g, f \in AllHooks :
                 \A j \in DOMAIN way[g], i \in DOMAIN way[f] :
                    way[g][j] = way[f][i] => g = f /\ j = i
          BY HookAssumption
        <5>3. cur \in AllHooks
          BY <1>1
        <5> QED
          BY <5>1, <5>2, <5>3, Zenon
    <3>2. k + 1 \in DOMAIN registers[cur]
      BY <2>1
    <3> QED
      BY <3>1, <3>2
  <2>5. ~ Known(h, ran)
    <3>1. h \notin Hooks
      BY <2>2, HookAssumption
    <3>2. ASSUME NEW m \in 1 .. Len(ran), NEW j \in 1 .. Len(registers[ran[m]]),
                 h = registers[ran[m]][j]
          PROVE  FALSE
      <4>1. ran[m] \in AllHooks
        BY ElementOfSeq DEF TypeOK
      <4>2. DOMAIN registers[ran[m]] = 1 .. Len(registers[ran[m]])
        <5>1. registers[ran[m]] \in Seq(LateHooks)
          BY <4>1, HookAssumption DEF TypeOK
        <5> QED
          BY <5>1, LenProperties
      <4>3. ran[m] = cur
        BY <2>4, <3>2, <4>1, <4>2
      <4>4. Array(State)[m] = ran[m] /\ m \in 1 .. Len(Array(State)) /\ m # pos + 1
        <5>1. Len(ran) <= Len(Array(State)) /\ Len(Array(State)) \in Nat
              /\ \A i \in 1 .. Len(ran) : Array(State)[i] = ran[i]
          BY <1>3, <1>5, StateParts DEF Good, Begins
        <5> QED
          BY <1>3, <5>1
      <4>5. Array(State)[m] # Array(State)[pos + 1]
        BY <1>1, <1>5, <4>4 DEF Good, NoTwice
      <4> QED
        BY <1>1, <4>3, <4>4, <4>5
    <3> HIDE DEF h
    <3> QED
      BY <3>1, <3>2 DEF Known
  <2>6. \A j \in 1 .. k : hs[j] # h
    BY <1>1, <2>1, <2>4
  <2> HIDE DEF h
  <2>7. \A i \in 1 .. Len(x.inits) : x.inits[i] # h
    BY <2>3, <2>5, <2>6
  <2>8. \A i \in 1 .. Len(done) : Priority[done[i]] <= Priority[h]
    BY <1>7, <2>1 DEF h
  <2>9. Good(y, done)
    <3> HIDE DEF done
    <3> QED
      BY <1>2, <2>2, <2>3, <2>7, <2>8, AddGood
  <2>10. y \in States /\ y.inits = Sorted(x.inits, h)
    BY <2>2, AddType
  <2> HIDE DEF y
  <2>11. Of(y, k + 1)
    <3>1. \A i \in 1 .. Len(y.inits) :
            y.inits[i] = h \/ \E j \in 1 .. Len(x.inits) : y.inits[i] = x.inits[j]
      <4> DEFINE s == x.inits
                 t == y.inits
      <4>1. s \in Seq(AllHooks) /\ h \in AllHooks /\ t = Sorted(s, h)
        BY <2>2, <2>3, <2>10
      <4> HIDE DEF s, t
      <4>2. \A i \in 1 .. Len(t) : t[i] = h \/ \E j \in 1 .. Len(s) : t[i] = s[j]
        BY ONLY <4>1, SortedOnce
      <4> QED
        BY ONLY <4>2 DEF s, t
    <3> SUFFICES ASSUME NEW i \in 1 .. Len(y.inits)
                 PROVE  Known(y.inits[i], ran) \/ \E j \in 1 .. (k + 1) : y.inits[i] = hs[j]
      OBVIOUS
    <3>2. CASE y.inits[i] = h
      BY <2>1, <3>2 DEF h
    <3>3. ASSUME NEW m \in 1 .. Len(x.inits), y.inits[i] = x.inits[m]
          PROVE  Known(y.inits[i], ran) \/ \E j \in 1 .. (k + 1) : y.inits[i] = hs[j]
      <4>1. Known(x.inits[m], ran) \/ \E j \in 1 .. k : x.inits[m] = hs[j]
        BY <2>3
      <4>2. 1 .. k \subseteq 1 .. (k + 1)
        BY <2>1
      <4> QED
        BY <3>3, <4>1, <4>2
    <3> QED
      BY <3>1, <3>2, <3>3
  <2> HIDE DEF Of, done
  <2> QED
    BY <2>1, <2>9, <2>10, <2>11 DEF y, h
<1>10. new \in States /\ Good(new, done) /\ Of(new, Len(hs))
  <2>1. new \in States /\ <<Len(hs), new>> \in T
    <3> HIDE DEF T, hs
    <3> QED
      BY <1>1, <1>3, <1>8, <1>9, AddEachInduction
  <2> HIDE DEF new, Of, hs, done
  <2> QED
    BY <2>1
<1>11. State' = new /\ inits' = new.inits
  BY <1>3, <1>10, BecomesState DEF Becomes
<1>12. \A i \in 1 .. Len(inits') : Known(inits'[i], done)
  <2> SUFFICES ASSUME NEW i \in 1 .. Len(inits') PROVE Known(inits'[i], done)
    OBVIOUS
  <2> HIDE DEF new, hs, cur, done
  <2>1. Known(inits'[i], ran) \/ \E j \in 1 .. Len(hs) : inits'[i] = hs[j]
    BY <1>10, <1>11
  <2>2. CASE Known(inits'[i], ran)
    <3>1. \A k \in 1 .. Len(ran) : k \in 1 .. Len(done) /\ done[k] = ran[k]
      BY <1>2, <1>3
    <3> QED
      BY <2>2, <3>1 DEF Known
  <2>3. ASSUME NEW j \in 1 .. Len(hs), inits'[i] = hs[j] PROVE Known(inits'[i], done)
    <3>1. pos + 1 \in 1 .. Len(done) /\ registers[done[pos + 1]] = hs
      BY <1>2, <1>3 DEF hs
    <3> QED
      BY <2>3, <3>1 DEF Known
  <2> QED
    BY <2>1, <2>2, <2>3
<1> HIDE DEF new, done
<1> QED
  BY <1>10, <1>11, <1>12

LEMMA LoopStep ==
  ASSUME TypeOK, LoopInv, [Next]_vars
  PROVE  LoopInv'
BY Slices, LoopUnchanged, LoopRegister, LoopInitialized, LoopRun DEF SliceStep

LEMMA QuietStep ==
  ASSUME TypeOK, QuietInv, [Next]_vars
  PROVE  QuietInv'
<1> SUFFICES ASSUME RegisterNone(ran)' PROVE QuietInv'
  BY DEF QuietInv
<1>1. UNCHANGED registers
  BY Slices
<1>2. CASE RunHook
  <2> DEFINE hs == registers[Current]
  <2>1. /\ Len(ran') = pos + 1 /\ ran'[pos + 1] = Current /\ ran' \in Seq(AllHooks)
        /\ \A i \in 1 .. pos : ran'[i] = ran[i]
        /\ pos \in Nat /\ Len(ran) = pos /\ ran \in Seq(AllHooks)
    BY <1>2, RanGrows DEF TypeOK
  <2>2. DOMAIN ran' = 1 .. (pos + 1) /\ DOMAIN ran = 1 .. pos
    BY <2>1, LenProperties
  <2>3. \A k \in 1 .. (pos + 1) : registers[ran'[k]] = <<>>
    BY <1>1, <2>2 DEF RegisterNone
  <2>4. RegisterNone(ran) /\ hs = <<>>
    BY <2>1, <2>2, <2>3 DEF RegisterNone
  <2>5. Becomes(State)
    BY <1>2, <2>4, AddNone DEF RunHook, TypeOK
  <2>6. inits' = inits /\ view' = view
    BY <2>5 DEF Becomes, State
  <2> QED
    BY <1>2, <2>4, <2>6 DEF RunHook, QuietInv, LoopOn
<1>3. CASE ~RunHook
  <2>1. UNCHANGED ran
    BY <1>3 DEF Next, MainStep, ExitStep, vars, setting, Register, AddExited, InitLogger,
         InitEnviron, Initialized, Notify, Listen, Signal, TakeSignal, RunExit, Exit
  <2>2. RegisterNone(ran)
    BY <1>1, <2>1 DEF RegisterNone
  <2>3. ASSUME NEW h \in Hooks, Register(h) PROVE QuietInv'
    BY <2>3 DEF Register, QuietInv, LoopOn, TypeOK, BeforeLoop
  <2>4. CASE InitLogger
    BY <2>4 DEF InitLogger, QuietInv, LoopOn, TypeOK, BeforeLoop
  <2>5. CASE InitEnviron
    BY <2>2, <2>5 DEF InitEnviron, QuietInv, LoopOn, TypeOK, BeforeLoop
  <2>6. CASE Initialized
    BY <2>2, <2>6 DEF Initialized, QuietInv, LoopOn
  <2>7. CASE Notify
    BY <2>2, <2>7 DEF Notify, QuietInv, LoopOn
  <2>8. CASE Listen
    BY <2>2, <2>8 DEF Listen, QuietInv, LoopOn
  <2>9. CASE UNCHANGED <<inits, view, pos, phase>>
    BY <2>2, <2>9 DEF QuietInv
  <2> QED
    BY <1>3, <2>3, <2>4, <2>5, <2>6, <2>7, <2>8, <2>9
       DEF Next, MainStep, ExitStep, vars, setting, AddExited, Signal, TakeSignal,
           RunExit, Exit
<1> QED
  BY <1>2, <1>3

LEMMA ExitStepKeeps ==
  ASSUME TypeOK, ExitInv, [Next]_vars
  PROVE  ExitInv'
<1>1. Len(exits) \in Nat /\ Len(exited) \in Nat /\ exiting \in -1 .. Len(exits)
      /\ exits \in Seq(ExitHooks) /\ exited \in Seq(ExitHooks)
  BY LenProperties DEF TypeOK
<1>2. ASSUME NEW h \in ExitHooks, AddExited(h) PROVE ExitInv'
  <2>1. /\ exits' = Append(exits, h) /\ UNCHANGED <<exiting, exited, ending, phase>>
        /\ exiting = -1 /\ ending = "none" /\ h \notin ToSet(exits)
    BY <1>2 DEF AddExited, ExitInv, Alive
  <2>2. /\ Len(exits') = Len(exits) + 1 /\ exits'[Len(exits) + 1] = h
        /\ \A i \in 1 .. Len(exits) : exits'[i] = exits[i]
    BY <1>1, <2>1, AppendProperties
  <2>3. \A i \in 1 .. Len(exits) : exits[i] # h
    BY <1>1, <2>1, LenProperties DEF ToSet
  <2>4. NoTwice(exits')
    BY <1>1, <2>2, <2>3 DEF NoTwice, ExitInv
  <2>5. Begins(exited, exits')
    BY <1>1, <2>2 DEF Begins, ExitInv
  <2>6. Begins(exited, exits)' /\ NoTwice(exits)'
    BY <2>1, <2>4, <2>5 DEF Begins, NoTwice
  <2> QED
    BY <2>1, <2>6 DEF ExitInv
<1>3. CASE TakeSignal
  <2>1. Len(exited) = 0
    BY <1>3 DEF TakeSignal, ExitInv
  <2> QED
    BY <1>3, <2>1 DEF TakeSignal, ExitInv, Alive, Notified, Begins, NoTwice
<1>4. CASE RunExit
  <2>1. /\ exited' = Append(exited, exits[exiting + 1]) /\ exiting' = exiting + 1
        /\ UNCHANGED <<exits, phase, ending>> /\ ending = "none"
        /\ exiting \in Nat /\ exiting < Len(exits)
    BY <1>1, <1>4 DEF RunExit, Alive
  <2>2. exits[exiting + 1] \in ExitHooks /\ Len(exited) = exiting
    <3>1. exiting + 1 \in 1 .. Len(exits)
      BY <1>1, <2>1
    <3> QED
      BY <1>1, <2>1, <3>1, ElementOfSeq DEF ExitInv
  <2>3. /\ Len(exited') = exiting + 1 /\ exited'[exiting + 1] = exits[exiting + 1]
        /\ \A i \in 1 .. exiting : exited'[i] = exited[i]
    BY <1>1, <2>1, <2>2, AppendProperties
  <2>4. Begins(exited', exits) /\ NoTwice(exits)
    BY <1>1, <2>1, <2>2, <2>3 DEF Begins, ExitInv
  <2>5. Begins(exited, exits)' /\ NoTwice(exits)'
    BY <2>1, <2>4 DEF Begins, NoTwice
  <2>6. phase \in {"notified", "serving", "left"}
    BY <2>1 DEF ExitInv
  <2> QED
    BY <2>1, <2>3, <2>5, <2>6 DEF ExitInv
<1>5. CASE Exit
  BY <1>1, <1>5 DEF Exit, ExitInv, Begins, NoTwice
<1>6. CASE UNCHANGED <<exits, exiting, exited>> /\ (ending' = ending \/ ending' # "exit")
           /\ (phase \in {"notified", "serving", "left"} =>
                 phase' \in {"notified", "serving", "left"})
  BY <1>6 DEF ExitInv, Begins, NoTwice
<1> QED
  BY <1>2, <1>3, <1>4, <1>5, <1>6
     DEF Next, MainStep, ExitStep, vars, setting, Register, InitLogger, InitEnviron,
         Initialized, RunHook, Notify, Listen, Signal

\* The inductive invariant of the process.
THEOREM Invariant == Spec => []IInv
<1>1. Init => IInv
  BY InitInv
<1>2. IInv /\ [Next]_vars => IInv'
  BY TypeStep, LoopStep, QuietStep, ExitStepKeeps DEF IInv
<1> QED
  BY <1>1, <1>2, PTL DEF Spec

\* However many signals come, an exit hook runs once, and the process does not end
\* of them before each has (initialized.go:40-48).
THEOREM ExitsRunOnce == Spec => []ExitHooksRunOnce
<1>1. IInv => ExitHooksRunOnce
  <2> SUFFICES ASSUME IInv PROVE ExitHooksRunOnce
    OBVIOUS
  <2>1. /\ exits \in Seq(ExitHooks) /\ exited \in Seq(ExitHooks)
        /\ Len(exits) \in Nat /\ Len(exited) \in Nat
        /\ DOMAIN exited = 1 .. Len(exited) /\ DOMAIN exits = 1 .. Len(exits)
        /\ exiting \in -1 .. Len(exits)
    BY LenProperties DEF IInv, TypeOK
  <2>2. /\ NoTwice(exits) /\ Len(exited) <= Len(exits)
        /\ \A i \in 1 .. Len(exited) : exited[i] = exits[i]
    BY DEF IInv, ExitInv, Begins
  <2>3. \A j, k \in DOMAIN exited : j # k => exited[j] # exited[k]
    BY <2>1, <2>2 DEF NoTwice
  <2>4. ASSUME ending = "exit" PROVE exited = exits
    <3>1. Len(exited) = Len(exits)
      <4>1. /\ ending = "exit" => exiting = Len(exits)
            /\ exiting # -1 => Len(exited) = exiting
        BY DEF IInv, ExitInv
      <4>2. exiting = Len(exits)
        BY <2>4, <4>1
      <4>3. exiting \in Nat
        BY <2>1, <4>2
      <4> QED
        BY <4>1, <4>2, <4>3
    <3> QED
      BY <2>1, <2>2, <3>1, SeqEqual
  <2> QED
    BY <2>3, <2>4 DEF ExitHooksRunOnce
<1> QED
  BY <1>1, Invariant, PTL

\* The hooks that have been run are different, and in order.
LEMMA RanInOrder ==
  ASSUME IInv, RegisterLater \/ RegisterNone(ran)
  PROVE  /\ DOMAIN ran = 1 .. pos /\ pos \in Nat /\ pos <= Len(Array(State))
         /\ \A k \in 1 .. pos : ran[k] = Array(State)[k]
         /\ \A j, k \in 1 .. pos :
              /\ j # k => ran[j] # ran[k]
              /\ j < k => Priority[ran[j]] <= Priority[ran[k]]
<1>1. DOMAIN ran = 1 .. pos /\ pos \in Nat /\ Len(ran) = pos /\ Len(Array(State)) \in Nat
  BY StateParts, LenProperties DEF IInv, TypeOK
<1>2. Good(State, ran)
  BY DEF IInv, LoopInv
<1>3. pos <= Len(Array(State)) /\ \A k \in 1 .. pos : ran[k] = Array(State)[k]
  BY <1>1, <1>2 DEF Good, Begins
<1>4. \A j, k \in 1 .. Len(Array(State)) :
        /\ j # k => Array(State)[j] # Array(State)[k]
        /\ j < k => Priority[Array(State)[j]] <= Priority[Array(State)[k]]
  BY <1>2 DEF Good, NoTwice, InOrder
<1>5. \A k \in 1 .. pos : k \in 1 .. Len(Array(State))
  BY <1>1, <1>3
<1> QED
  BY <1>1, <1>3, <1>4, <1>5

\* As long as no hook registers one of an earlier priority than its own, no hook
\* runs twice (initialized.go:28-38).
THEOREM LaterRunOnce == Spec => []LaterHooksDoNotRepeat
<1>1. IInv => LaterHooksDoNotRepeat
  <2> SUFFICES ASSUME IInv, RegisterLater
               PROVE  \A j, k \in DOMAIN ran : j # k => ran[j] # ran[k]
    BY DEF LaterHooksDoNotRepeat, RegisterLater
  <2> QED
    BY RanInOrder
<1> QED
  BY <1>1, Invariant, PTL

\* As long as no hook has registered another, they run in the order of their
\* priorities, each once, and all of them before the server starts
\* (initialized.go:28-38).
THEOREM HooksInOrder == Spec => []HooksRunInOrder
<1>1. IInv => HooksRunInOrder
  <2> SUFFICES ASSUME IInv, RegisterNone(ran)
               PROVE  /\ \A j, k \in DOMAIN ran :
                           j < k => ran[j] # ran[k] /\ Priority[ran[j]] <= Priority[ran[k]]
                      /\ \A j \in DOMAIN ran, h \in Hooks \ ToSet(ran) :
                           Priority[ran[j]] <= Priority[h]
                      /\ phase \in {"notified", "serving"} => ToSet(ran) = Hooks
    BY DEF HooksRunInOrder, RegisterNone
  <2>1. /\ DOMAIN ran = 1 .. pos /\ pos \in Nat /\ pos <= Len(Array(State))
        /\ \A k \in 1 .. pos : ran[k] = Array(State)[k]
        /\ \A j, k \in 1 .. pos :
             /\ j # k => ran[j] # ran[k]
             /\ j < k => Priority[ran[j]] <= Priority[ran[k]]
    BY RanInOrder
  <2>2. \A j, k \in DOMAIN ran :
          j < k => ran[j] # ran[k] /\ Priority[ran[j]] <= Priority[ran[k]]
    BY <2>1
  <2>3. ASSUME pos > 0 \/ phase \in {"notified", "serving"}
        PROVE  /\ Array(State) = inits /\ ToSet(inits) = Hooks
               /\ DOMAIN inits = 1 .. Len(inits) /\ Len(inits) \in Nat
    <3>1. view.shared /\ phase # "init"
      BY <2>3 DEF IInv, QuietInv, TypeOK, LoopOn, BeforeLoop
    <3> QED
      BY <3>1, StateParts, LenProperties DEF IInv, QuietInv, TypeOK
  <2>4. ASSUME NEW j \in DOMAIN ran, NEW h \in Hooks \ ToSet(ran)
        PROVE  Priority[ran[j]] <= Priority[h]
    <3>1. pos > 0 /\ j \in 1 .. pos
      BY <2>1
    <3>2. PICK k \in 1 .. Len(inits) : inits[k] = h
      BY <2>3, <3>1 DEF ToSet
    <3>3. k > pos
      BY <2>1, <2>3, <3>1, <3>2 DEF ToSet
    <3>4. ran[j] = inits[j] /\ j \in 1 .. Len(inits) /\ j < k
      BY <2>1, <2>3, <3>1, <3>2, <3>3
    <3>5. InOrder(inits)
      BY DEF IInv, LoopInv, Good, State
    <3> QED
      BY <3>2, <3>4, <3>5 DEF InOrder
  <2>5. ASSUME phase \in {"notified", "serving"} PROVE ToSet(ran) = Hooks
    <3>1. pos = Len(inits)
      BY <2>5 DEF IInv, QuietInv, LoopOn
    <3> QED
      BY <2>1, <2>3, <2>5, <3>1 DEF ToSet
  <2> QED
    BY <2>2, <2>4, <2>5
<1> QED
  BY <1>1, Invariant, PTL

-----------------------------------------------------------------------------
(* The desktop robot.                                                      *)

Places == {"absent", "new", "lock", "done", "hooking"} \cup Locked

Apps == Procs \cup {User}

RobotTypeOK ==
    /\ at \in [Procs -> Places]
    /\ mu \in Callers \cup {None}
    /\ pid \in [Procs -> Apps \cup {None}]
    /\ started \in [Procs -> {"no", "asked", "run", "over"}]
    /\ apps \subseteq Apps
    /\ excused \in BOOLEAN

\* A hook that has not begun has asked for nothing.
Idle == at[Hook] \in {"absent", "new"}
IdleHookAsksNothing == Idle => started[Hook] = "no"

\* Nothing has happened yet that may start a second application.
Plain == ~excused /\ Idle

OneApp == Plain => \A a, b \in apps : a = b

\* Who sleeps for what it has asked for has seen that nothing runs.
SleepersSawNone ==
    Plain => \A c \in Callers :
               at[c] = "sleep" /\ started[c] = "asked" => apps = {}

RobotInv ==
    /\ RobotTypeOK /\ MutexIsHeldInside
    /\ IdleHookAsksNothing /\ OneApp /\ SleepersSawNone
----------------------------------------------------------------------------
LEMMA PlacesList ==
    /\ {"absent", "new", "lock", "done", "hooking"} \subseteq Places
    /\ {"find", "sleep", "check", "activate", "checked", "return", "event", "after",
        "wait"} \subseteq Places
    /\ {"absent", "new", "lock", "done", "hooking"} \cap Locked = {}
BY DEF Places, Locked

\* A step moves the call that takes it, and no other.
LEMMA GoMoves ==
    ASSUME RobotTypeOK, NEW p \in Procs, NEW from, NEW to \in Places, Go(p, from, to)
    PROVE  /\ at[p] = from /\ at'[p] = to /\ at' \in [Procs -> Places]
           /\ \A q \in Procs \ {p} : at'[q] = at[q]
BY DEF Go, RobotTypeOK

LEMMA RobotInitInv == RobotInit => RobotInv
<1> SUFFICES ASSUME RobotInit PROVE RobotInv
    OBVIOUS
<1>1. PICK crowd \in Crowds : at = [p \in Procs |-> IF p \in crowd THEN "new" ELSE "absent"]
    BY DEF RobotInit
<1>2. \A p \in Procs : at[p] \in {"new", "absent"}
    BY <1>1
<1>3. RobotTypeOK
    BY <1>1, PlacesList DEF RobotInit, RobotTypeOK, Apps
<1>4. MutexIsHeldInside /\ IdleHookAsksNothing /\ OneApp /\ SleepersSawNone
    BY <1>2, RobotAssumption
       DEF RobotInit, MutexIsHeldInside, IdleHookAsksNothing, OneApp, SleepersSawNone,
           Locked, Procs
<1> QED
    BY <1>3, <1>4 DEF RobotInv

\* A step that brings no application and no call to sleep or into the locked part,
\* and takes a call out of that part only with an unlock.
LEMMA Harmless ==
    ASSUME RobotInv, RobotTypeOK', NEW p \in Procs,
           UNCHANGED started, apps' \subseteq apps, excused => excused', Idle' => Idle,
           at'[p] # "sleep",
           \/ mu' = mu /\ (at'[p] \in Locked <=> at[p] \in Locked)
           \/ mu' = None /\ p \in Callers /\ at[p] \in Locked /\ at'[p] \notin Locked,
           \A q \in Procs \ {p} : at'[q] = at[q]
    PROVE  RobotInv'
<1>1. Callers \subseteq Procs /\ Hook \in Procs
    BY DEF Procs
<1>2. MutexIsHeldInside'
    <2>1. CASE mu' = mu /\ (at'[p] \in Locked <=> at[p] \in Locked)
        <3>1. \A c \in Callers : at'[c] \in Locked <=> at[c] \in Locked
            BY <1>1, <2>1
        <3> QED
            BY <2>1, <3>1 DEF RobotInv, MutexIsHeldInside
    <2>2. CASE mu' = None /\ p \in Callers /\ at[p] \in Locked /\ at'[p] \notin Locked
        <3>1. \A c \in Callers : at'[c] \notin Locked
            BY <1>1, <2>2 DEF RobotInv, MutexIsHeldInside
        <3> QED
            BY <2>2, <3>1, RobotAssumption DEF MutexIsHeldInside
    <2> QED
        BY <2>1, <2>2
<1>3. IdleHookAsksNothing'
    BY DEF RobotInv, IdleHookAsksNothing
<1>4. Plain' => Plain
    BY DEF Plain, RobotInv, RobotTypeOK
<1>5. OneApp'
    BY <1>4 DEF RobotInv, OneApp
<1>6. SleepersSawNone'
    BY <1>1, <1>4 DEF RobotInv, SleepersSawNone
<1> QED
    BY <1>2, <1>3, <1>5, <1>6 DEF RobotInv

\* What no call but RunComesBack, AppStarts and AppEnds does happens to the one that
\* takes the step.
LEMMA FindIdsFinds ==
    ASSUME RobotTypeOK, NEW p \in Procs, FindIds(p)
    PROVE  /\ pid' \in [Procs -> Apps \cup {None}]
           /\ excused' \in BOOLEAN /\ (excused => excused')
           /\ pid'[p] = None /\ ~excused' => apps = {}
BY DEF FindIds, RobotTypeOK

LEMMA FindStep ==
    ASSUME RobotInv, NEW p \in Procs, Find(p)
    PROVE  RobotInv'
<1>1. /\ pid' \in [Procs -> Apps \cup {None}]
      /\ excused' \in BOOLEAN /\ (excused => excused')
      /\ pid'[p] = None /\ ~excused' => apps = {}
    BY FindIdsFinds DEF RobotInv, Find
<1>2. UNCHANGED <<mu, apps>>
    BY DEF Find
<1>3. CASE pid'[p] # None
    <2>1. UNCHANGED started /\ Go(p, "find", "check")
        BY <1>3 DEF Find
    <2>2. /\ at[p] = "find" /\ at'[p] = "check" /\ at' \in [Procs -> Places]
          /\ \A q \in Procs \ {p} : at'[q] = at[q]
        BY <2>1, GoMoves, PlacesList DEF RobotInv
    <2>3. RobotTypeOK'
        BY <1>1, <1>2, <2>1, <2>2 DEF RobotInv, RobotTypeOK
    <2>4. Idle' => Idle
        BY <2>2 DEF Idle, Procs
    <2> QED
        BY <1>1, <1>2, <2>1, <2>2, <2>3, <2>4, Harmless, PlacesList DEF Locked
<1>4. CASE pid'[p] = None
    <2>1. started' = [started EXCEPT ![p] = "asked"] /\ Go(p, "find", "sleep")
        BY <1>4 DEF Find
    <2>2. /\ at[p] = "find" /\ at'[p] = "sleep" /\ at' \in [Procs -> Places]
          /\ \A q \in Procs \ {p} : at'[q] = at[q]
        BY <2>1, GoMoves, PlacesList DEF RobotInv
    <2>3. RobotTypeOK'
        BY <1>1, <1>2, <2>1, <2>2 DEF RobotInv, RobotTypeOK
    <2>4. MutexIsHeldInside'
        BY <1>2, <2>2 DEF RobotInv, MutexIsHeldInside, Locked, Procs
    <2>5. Idle' => Idle /\ p # Hook
        BY <2>2 DEF Idle, Procs
    <2>6. IdleHookAsksNothing'
        BY <2>1, <2>5 DEF RobotInv, IdleHookAsksNothing
    <2>7. Plain' => Plain /\ apps = {}
        BY <1>1, <1>4, <2>5 DEF Plain, RobotInv, RobotTypeOK
    <2>8. OneApp' /\ SleepersSawNone'
        BY <1>2, <2>7 DEF OneApp, SleepersSawNone
    <2> QED
        BY <2>3, <2>4, <2>6, <2>8 DEF RobotInv
<1> QED
    BY <1>3, <1>4

\* The one step that brings an application.
LEMMA AppStartsStep ==
    ASSUME RobotInv, NEW p \in Procs, AppStarts(p)
    PROVE  RobotInv'
<1>1. /\ UNCHANGED <<at, mu, pid>> /\ started[p] = "asked"
      /\ started' = [started EXCEPT ![p] = "run"]
      /\ apps' = apps \cup {p}
      /\ excused' = (excused \/ at[p] # "sleep")
    BY DEF AppStarts
<1>2. RobotTypeOK'
    BY <1>1 DEF RobotInv, RobotTypeOK, Apps
<1>3. MutexIsHeldInside'
    BY <1>1 DEF RobotInv, MutexIsHeldInside
<1>4. Idle' => Idle /\ p # Hook
    BY <1>1 DEF Idle, RobotInv, IdleHookAsksNothing
<1>5. IdleHookAsksNothing'
    BY <1>1, <1>4 DEF RobotInv, IdleHookAsksNothing, RobotTypeOK, Procs
<1>6. ASSUME Plain'
      PROVE  apps = {} /\ \A c \in Callers : at[c] = "sleep" => c = p
    <2>1. Plain /\ at[p] = "sleep" /\ p \in Callers
        BY <1>1, <1>4, <1>6 DEF Plain, Procs
    <2> QED
        BY <1>1, <2>1 DEF RobotInv, SleepersSawNone, MutexIsHeldInside, Locked
<1>7. OneApp'
    BY <1>1, <1>6 DEF OneApp
<1>8. SleepersSawNone'
    <2>1. started'[p] = "run"
        BY <1>1 DEF RobotInv, RobotTypeOK
    <2> QED
        BY <1>1, <1>6, <2>1 DEF SleepersSawNone
<1> QED
    BY <1>2, <1>3, <1>5, <1>7, <1>8 DEF RobotInv

LEMMA RunAppStays ==
    ASSUME RobotInv, NEW p \in Procs, FindAgain(p) \/ Check(p) \/ Activate(p) \/ Checked(p)
    PROVE  RobotInv'
<1> USE PlacesList DEF RobotInv
<1>1. UNCHANGED <<mu, started, apps>>
    BY DEF FindAgain, Check, Activate, Checked
<1>2. /\ at[p] \in {"sleep", "check", "activate", "checked"}
      /\ at'[p] \in {"check", "activate", "checked", "return"}
      /\ at' \in [Procs -> Places]
      /\ \A q \in Procs \ {p} : at'[q] = at[q]
    <2>1. CASE Go(p, "sleep", "check")
        BY <2>1, GoMoves
    <2>2. CASE Go(p, "check", "return") \/ Go(p, "check", "activate")
        BY <2>2, GoMoves
    <2>3. CASE Go(p, "activate", "checked")
        BY <2>3, GoMoves
    <2>4. CASE Go(p, "checked", "return")
        BY <2>4, GoMoves
    <2> QED
        BY <2>1, <2>2, <2>3, <2>4 DEF FindAgain, Check, Activate, Checked
<1>3. pid' \in [Procs -> Apps \cup {None}] /\ excused' \in BOOLEAN /\ (excused => excused')
    <2>1. CASE FindAgain(p)
        BY <2>1, FindIdsFinds DEF FindAgain
    <2>2. CASE Check(p) \/ Activate(p) \/ Checked(p)
        BY <2>2 DEF Check, Activate, Checked, RobotTypeOK
    <2> QED
        BY <2>1, <2>2
<1>4. RobotTypeOK'
    BY <1>1, <1>2, <1>3 DEF RobotTypeOK
<1>5. Idle' => Idle
    BY <1>2 DEF Idle, Procs
<1> QED
    BY <1>1, <1>2, <1>3, <1>4, <1>5, Harmless DEF Locked

LEMMA ReturnStays ==
    ASSUME RobotInv, NEW c \in Callers, NEW from \in Locked, NEW how, Return(c, from, how)
    PROVE  RobotInv'
<1>1. /\ UNCHANGED <<started, apps, excused>> /\ mu' = None
      /\ pid' = [pid EXCEPT ![c] = None]
    BY DEF Return, Unlock
<1>2. /\ at[c] = from /\ at'[c] = "done" /\ at' \in [Procs -> Places]
      /\ \A q \in Procs \ {c} : at'[q] = at[q]
    BY GoMoves, PlacesList DEF Return, RobotInv, Procs
<1>3. RobotTypeOK'
    BY <1>1, <1>2 DEF RobotInv, RobotTypeOK
<1>4. c \in Procs /\ (Idle' => Idle)
    BY <1>2, RobotAssumption DEF Idle, Procs
<1> QED
    BY <1>1, <1>2, <1>3, <1>4, Harmless, PlacesList

LEMMA CallerStays ==
    ASSUME RobotInv, NEW c \in Callers,
           \/ Call(c) \/ RunAuto(c) \/ Event(c) \/ LeaveEvents(c) \/ Kill(c) \/ After(c)
           \/ Wait(c)
    PROVE  RobotInv'
<1> USE PlacesList DEF RobotInv
<1>1. CASE \/ Return(c, "event", "panic") \/ Return(c, "after", "nothing")
           \/ Return(c, "wait", "timeout")
    BY <1>1, ReturnStays DEF Locked
<1>2. ASSUME NEW from, NEW to \in {"lock", "event", "after", "wait"}, Go(c, from, to),
             from \in Locked <=> to \in Locked,
             apps' \subseteq apps, UNCHANGED <<mu, pid, started, excused>>
      PROVE  RobotInv'
    <2>1. c \in Procs /\ c # Hook
        BY RobotAssumption DEF Procs
    <2>2. /\ at[c] = from /\ at'[c] = to /\ at' \in [Procs -> Places]
          /\ \A q \in Procs \ {c} : at'[q] = at[q]
        BY <1>2, <2>1, GoMoves
    <2>3. RobotTypeOK'
        BY <1>2, <2>2 DEF RobotTypeOK
    <2>4. Idle' => Idle
        BY <2>1, <2>2 DEF Idle, Procs
    <2> QED
        BY <1>2, <2>1, <2>2, <2>3, <2>4, Harmless
<1>3. CASE Call(c)
    BY <1>2, <1>3 DEF Call, Locked
<1>4. CASE RunAuto(c)
    BY <1>2, <1>4 DEF RunAuto, Locked
<1>5. CASE /\ Go(c, "event", "event")
           /\ UNCHANGED <<late, mu, pid, err, started, apps, answer, excused>>
    BY <1>2, <1>5 DEF Locked
<1>6. CASE LeaveEvents(c)
    BY <1>2, <1>6 DEF LeaveEvents, Locked
<1>7. CASE Kill(c)
    BY <1>2, <1>7 DEF Kill, Locked
<1>8. CASE /\ Go(c, "after", "wait")
           /\ UNCHANGED <<late, mu, pid, err, started, apps, sent, answer, excused>>
    BY <1>2, <1>8 DEF Locked
<1> QED
    BY <1>1, <1>3, <1>4, <1>5, <1>6, <1>7, <1>8 DEF Event, After, Wait

LEMMA LockStep ==
    ASSUME RobotInv, NEW c \in Callers, Lock(c)
    PROVE  RobotInv'
<1> USE PlacesList, RobotAssumption DEF RobotInv
<1>1. UNCHANGED <<pid, started, apps, excused>> /\ mu = None /\ mu' = c
    BY DEF Lock, Unlocked
<1>2. /\ at[c] = "lock" /\ at'[c] = "find" /\ at' \in [Procs -> Places]
      /\ \A q \in Procs \ {c} : at'[q] = at[q]
    BY GoMoves DEF Lock, Procs
<1>3. RobotTypeOK'
    BY <1>1, <1>2 DEF RobotTypeOK
<1>4. MutexIsHeldInside'
    <2>1. \A b \in Callers : at[b] \notin Locked
        BY <1>1 DEF MutexIsHeldInside
    <2>2. \A b \in Callers \ {c} : at'[b] \notin Locked
        BY <1>2, <2>1 DEF Procs
    <2> QED
        BY <1>1, <1>2, <2>2 DEF MutexIsHeldInside, Locked
<1>5. at'[Hook] = at[Hook]
    BY <1>2 DEF Procs
<1>6. IdleHookAsksNothing' /\ OneApp' /\ SleepersSawNone'
    BY <1>1, <1>2, <1>5 DEF IdleHookAsksNothing, OneApp, SleepersSawNone, Plain, Idle, Procs
<1> QED
    BY <1>3, <1>4, <1>6

LEMMA HookStays ==
    ASSUME RobotInv, StartHook \/ Hooking \/ Escape
    PROVE  RobotInv'
<1> USE PlacesList DEF RobotInv
<1>1. /\ UNCHANGED <<mu, pid, started, excused>> /\ apps' \subseteq apps
    BY DEF StartHook, Hooking, Escape
<1>2. /\ at' \in [Procs -> Places]
      /\ at'[Hook] \in {"find", "done", "hooking"}
      /\ \A q \in Procs \ {Hook} : at'[q] = at[q]
    <2>1. Hook \in Procs
        BY DEF Procs
    <2>2. CASE Go(Hook, "new", "find")
        BY <2>1, <2>2, GoMoves
    <2>3. CASE Go(Hook, "return", "done") \/ Go(Hook, "return", "hooking")
        BY <2>1, <2>3, GoMoves
    <2>4. CASE Go(Hook, "hooking", "done")
        BY <2>1, <2>4, GoMoves
    <2> QED
        BY <2>2, <2>3, <2>4 DEF StartHook, Hooking, Escape
<1>3. RobotTypeOK'
    BY <1>1, <1>2 DEF RobotTypeOK
<1>4. ~ Idle'
    BY <1>2 DEF Idle
<1>5. MutexIsHeldInside'
    BY <1>1, <1>2, RobotAssumption DEF MutexIsHeldInside, Procs
<1> QED
    BY <1>3, <1>4, <1>5 DEF IdleHookAsksNothing, OneApp, SleepersSawNone, Plain

\* Nobody moves: an application ends, the time is up, or a Run comes back.
LEMMA OthersStay ==
    ASSUME RobotInv,
           \/ \E app \in apps : AppEnds(app)
           \/ \E c \in Callers : TimeIsUp(c)
           \/ \E p \in Procs : RunComesBack(p)
           \/ UNCHANGED robotVars
    PROVE  RobotInv'
<1> USE DEF RobotInv
<1>1. UNCHANGED <<at, mu, pid, excused>> /\ apps' \subseteq apps
    BY DEF AppEnds, TimeIsUp, RunComesBack, robotVars
<1>2. /\ started' \in [Procs -> {"no", "asked", "run", "over"}]
      /\ \A q \in Procs : \/ started'[q] = started[q]
                          \/ started[q] # "no" /\ started'[q] = "over"
    <2>1. CASE UNCHANGED started
        BY <2>1 DEF RobotTypeOK
    <2>2. ASSUME NEW p \in Procs, RunComesBack(p)
          PROVE  <1>2!1 /\ <1>2!2
        BY <2>2 DEF RunComesBack, RobotTypeOK
    <2> QED
        BY <2>1, <2>2 DEF AppEnds, TimeIsUp, robotVars
<1>3. RobotTypeOK'
    BY <1>1, <1>2 DEF RobotTypeOK
<1>4. MutexIsHeldInside'
    BY <1>1 DEF MutexIsHeldInside
<1>5. IdleHookAsksNothing'
    BY <1>1, <1>2 DEF IdleHookAsksNothing, Idle, Procs
<1>6. OneApp' /\ SleepersSawNone'
    BY <1>1, <1>2 DEF OneApp, SleepersSawNone, Plain, Idle, Procs
<1> QED
    BY <1>3, <1>4, <1>5, <1>6
----------------------------------------------------------------------------
\* The inductive invariant holds for any number of callers and events.
THEOREM RobotInvariant == RobotSpec => []RobotInv
<1>1. RobotInv /\ [RobotNext]_robotVars => RobotInv'
    <2>1. Callers \subseteq Procs /\ Hook \in Procs
        BY DEF Procs
    <2>2. ASSUME RobotInv, NEW p \in Procs, RunAppStep(p)
          PROVE  RobotInv'
        BY <2>2, FindStep, RunAppStays DEF RunAppStep
    <2>3. ASSUME RobotInv, NEW c \in Callers, CallerStep(c)
          PROVE  RobotInv'
        BY <2>1, <2>2, <2>3, LockStep, CallerStays DEF CallerStep
    <2>4. ASSUME RobotInv, RobotNext
          PROVE  RobotInv'
        BY <2>1, <2>2, <2>3, <2>4, CallerStays, HookStays, OthersStay, AppStartsStep
           DEF RobotNext
    <2> QED
        BY <2>4, OthersStay
<1> QED
    BY <1>1, RobotInitInv, PTL DEF RobotSpec

\* The mutex of WaitEvent is held by one caller at a time, from the look for the
\* application on, and every way out of WaitEvent has unlocked it (robot.go:43-44).
THEOREM MutualExclusion == RobotSpec => []MutexIsHeldInside
<1>1. RobotInv => MutexIsHeldInside
    BY DEF RobotInv
<1> QED
    BY <1>1, RobotInvariant, PTL

\* Any number of callers start no second application unless a look missed the first,
\* the first came late, or the hook began (robot.go:43, 238-247).
THEOREM SecondAppExplained == RobotSpec => []SecondAppHasCause
<1>1. RobotInv => SecondAppHasCause
    <2> SUFFICES ASSUME RobotInv, Plain PROVE ~ (Cardinality(apps) > 1)
        BY DEF SecondAppHasCause, Plain, Idle
    <2>1. CASE apps = {}
        BY <2>1, FS_EmptySet
    <2>2. ASSUME NEW a \in apps
          PROVE  ~ (Cardinality(apps) > 1)
        <3>1. apps = {a}
            BY DEF RobotInv, OneApp
        <3> QED
            BY <3>1, FS_Singleton
    <2> QED
        BY <2>1, <2>2
<1> QED
    BY <1>1, RobotInvariant, PTL
=============================================================================
