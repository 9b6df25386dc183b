---------------------------- MODULE Query_proofs ----------------------------
(***************************************************************************)
(* Theorems about queries: the optimizer of offsets, limits and sorts      *)
(* changes no answer, whatever the pipes and the rows; a pipe cancels      *)
(* another one for a reason only, and nodes are missing if they may be,    *)
(* for any number of nodes, rows, pipes and failures.                      *)
(***************************************************************************)
EXTENDS Query, SequenceTheorems, FiniteSetTheorems, WellFoundedInduction, TLAPS

-----------------------------------------------------------------------------
(* Functions of the number of elements done *)

\* What holds for 0, and for the next number with each, holds up to n.
LEMMA UpTo ==
  ASSUME NEW n \in Nat, NEW S, 0 \in S, \A i \in 0..n : i < n /\ i \in S => i + 1 \in S
  PROVE  \A i \in 0..n : i \in S
<1> SUFFICES ASSUME (0..n) \ S # {} PROVE FALSE
  OBVIOUS
<1>1. IsWellFoundedOn(OpToRel(<, Nat), Nat)
  BY NatLessThanWellFounded
<1>2. PICK x \in (0..n) \ S : \A y \in (0..n) \ S : ~(<<y, x>> \in OpToRel(<, Nat))
  <2>1. (0..n) \ S \subseteq Nat
    OBVIOUS
  <2> QED BY <1>1, <2>1, WFMin
<1>3. x # 0 /\ x - 1 \in 0..n /\ x - 1 < n /\ x - 1 < x
  OBVIOUS
<1>4. x - 1 \notin S
  BY <1>3
<1>5. <<x - 1, x>> \in OpToRel(<, Nat)
  BY <1>3 DEF OpToRel
<1> QED BY <1>2, <1>3, <1>4, <1>5

\* g[i] is what a loop has after i steps.
IsLoop(g, n, S, base, step) ==
  g \in [0..n -> S] /\ g[0] = base /\ \A i \in 1..n : g[i] = step[i][g[i - 1]]

\* A loop whose step stays within S computes a function of the elements done.
LEMMA LoopExists ==
  ASSUME NEW n \in Nat, NEW S, NEW base \in S, NEW step \in [1..n -> [S -> S]]
  PROVE  \E g : IsLoop(g, n, S, base, step)
<1> DEFINE Good(g, m) == g \in [0..m -> S] /\ g[0] = base /\ \A i \in 1..m : g[i] = step[i][g[i - 1]]
           T == {m \in 0..n : \E g : Good(g, m)}
<1>1. 0 \in T
  <2>1. Good([i \in 0..0 |-> base], 0)
    OBVIOUS
  <2>2. 0 \in 0..n
    OBVIOUS
  <2> HIDE DEF Good
  <2> QED BY <2>1, <2>2
<1>2. \A m \in 0..n : m < n /\ m \in T => m + 1 \in T
  <2> SUFFICES ASSUME NEW m \in 0..n, m < n, m \in T PROVE m + 1 \in T
    OBVIOUS
  <2>1. PICK g : Good(g, m)
    OBVIOUS
  <2> DEFINE h == [i \in 0..(m + 1) |-> IF i = m + 1 THEN step[m + 1][g[m]] ELSE g[i]]
  <2>2. step[m + 1] \in [S -> S] /\ g[m] \in S
    BY <2>1
  <2>3. h \in [0..(m + 1) -> S]
    BY <2>1, <2>2
  <2>4. h[0] = base
    BY <2>1
  <2>5. \A i \in 1..(m + 1) : h[i] = step[i][h[i - 1]]
    BY <2>1
  <2>6. Good(h, m + 1)
    BY <2>3, <2>4, <2>5
  <2> HIDE DEF Good
  <2> QED BY <2>6
<1>3. \A m \in 0..n : m \in T
  <2> HIDE DEF T
  <2> QED BY <1>1, <1>2, UpTo
<1>4. n \in T
  BY <1>3
<1>5. PICK g : Good(g, n)
  BY <1>4
<1>6. IsLoop(g, n, S, base, step)
  BY <1>5 DEF IsLoop
<1> QED BY <1>6

\* Whatever holds before a loop and is kept by its steps holds all the way.
LEMMA LoopStays ==
  ASSUME NEW n \in Nat, NEW S, NEW g, g[0] \in S, \A i \in 1..n : g[i - 1] \in S => g[i] \in S
  PROVE  \A i \in 0..n : g[i] \in S
<1> DEFINE T == {i \in 0..n : g[i] \in S}
<1>1. 0 \in T
  OBVIOUS
<1>2. \A i \in 0..n : i < n /\ i \in T => i + 1 \in T
  <2> SUFFICES ASSUME NEW i \in 0..n, i < n, i \in T PROVE i + 1 \in T
    OBVIOUS
  <2>1. i + 1 \in 1..n /\ (i + 1) - 1 = i
    OBVIOUS
  <2>2. g[(i + 1) - 1] \in S => g[i + 1] \in S
    BY <2>1
  <2> QED BY <2>1, <2>2
<1>3. \A i \in 0..n : i \in T
  <2> HIDE DEF T
  <2> QED BY <1>1, <1>2, UpTo
<1> QED BY <1>3

-----------------------------------------------------------------------------
(* Loops over rows *)

\* filter() keeps rows in their order.
LEMMA FilterLoop ==
  ASSUME NEW p, NEW s \in Seq(Row)
  PROVE  \E f : /\ FilterRows(p, s) = f[Len(s)] /\ f[0] = <<>>
                /\ \A i \in 1..Len(s) : f[i] = IF s[i].n >= p.off THEN Append(f[i - 1], s[i]) ELSE f[i - 1]
                /\ \A i \in 0..Len(s) : f[i] \in Seq(Row)
<1> DEFINE n == Len(s)
           E(t, i) == IF s[i].n >= p.off THEN Append(t, s[i]) ELSE t
           Def(g) == g = [i \in 0..n |-> IF i = 0 THEN <<>> ELSE E(g[i - 1], i)]
           f == CHOOSE g : Def(g)
           step == [i \in 1..n |-> [t \in Seq(Row) |-> E(t, i)]]
<1>1. FilterRows(p, s) = f[n]
  BY DEF FilterRows
<1>2. n \in Nat /\ <<>> \in Seq(Row)
  OBVIOUS
<1>3. \A i \in 1..n : \A t \in Seq(Row) : E(t, i) \in Seq(Row)
  <2> SUFFICES ASSUME NEW i \in 1..n, NEW t \in Seq(Row) PROVE E(t, i) \in Seq(Row)
    OBVIOUS
  <2>1. s[i] \in Row
    OBVIOUS
  <2>2. Append(t, s[i]) \in Seq(Row)
    BY <2>1
  <2> QED BY <2>2
<1> HIDE DEF E, n
<1>4. step \in [1..n -> [Seq(Row) -> Seq(Row)]]
  BY <1>3
<1>5. PICK g : IsLoop(g, n, Seq(Row), <<>>, step)
  <2> HIDE DEF step, Def, f
  <2> QED BY <1>2, <1>4, LoopExists
<1>6. Def(g)
  <2>1. g = [i \in 0..n |-> g[i]]
    BY <1>5 DEF IsLoop
  <2>2. \A i \in 0..n : i # 0 => i \in 1..n /\ i - 1 \in 0..n
    BY <1>2
  <2>3. \A i \in 0..n : g[i] = IF i = 0 THEN <<>> ELSE E(g[i - 1], i)
    BY <1>5, <2>2 DEF IsLoop
  <2> QED BY <2>1, <2>3
<1>7. Def(f)
  <2> HIDE DEF Def
  <2> QED BY <1>6
<1>8. f[0] = <<>> /\ \A i \in 1..n : f[i] = E(f[i - 1], i)
  <2>1. 0 \in 0..n /\ \A i \in 1..n : i \in 0..n /\ i # 0
    BY <1>2
  <2> HIDE DEF f, step
  <2> QED BY <1>7, <2>1
<1> HIDE DEF f, step
<1>9. \A i \in 1..n : f[i - 1] \in Seq(Row) => f[i] \in Seq(Row)
  BY <1>3, <1>8
<1>10. \A i \in 0..n : f[i] \in Seq(Row)
  BY <1>2, <1>8, <1>9, LoopStays
<1>11. /\ FilterRows(p, s) = f[Len(s)] /\ f[0] = <<>>
      /\ \A i \in 0..Len(s) : f[i] \in Seq(Row)
  BY <1>1, <1>8, <1>10 DEF n
<1>12. \A i \in 1..Len(s) : f[i] = IF s[i].n >= p.off THEN Append(f[i - 1], s[i]) ELSE f[i - 1]
  BY <1>8 DEF n, E
<1> WITNESS f
<1> QED BY <1>11, <1>12

\* A row is put between rows of the sequence.
LEMMA PutRowType ==
  ASSUME NEW op, NEW s \in Seq(Row), NEW r \in Row
  PROVE  PutRow(op, s, r) \in Seq(Row) /\ Len(PutRow(op, s, r)) = Len(s) + 1
<1> DEFINE T == {i \in DOMAIN s : ~ Before(op, r, s[i])}
           k == Cardinality(T)
<1>1. k \in 0..Len(s)
  <2>1. T \subseteq 1..Len(s)
    OBVIOUS
  <2>2. IsFiniteSet(1..Len(s)) /\ Cardinality(1..Len(s)) = Len(s)
    <3>1. Len(s) \in Nat
      OBVIOUS
    <3> HIDE DEF T
    <3> QED BY <3>1, FS_Interval
  <2> HIDE DEF T
  <2>3. Cardinality(T) \in Nat /\ Cardinality(T) <= Len(s)
    BY <2>1, <2>2, FS_Subset, FS_CardinalityType
  <2> QED BY <2>3
<1>2. PutRow(op, s, r) = SubSeq(s, 1, (k + 1) - 1) \o <<r>> \o SubSeq(s, k + 1, Len(s))
  BY DEF PutRow, InsertAt
<1> HIDE DEF k
<1>3. (k + 1) - 1 = k
  BY <1>1
<1>4. SubSeq(s, 1, k) \in Seq(Row) /\ Len(SubSeq(s, 1, k)) = k
  BY <1>1
<1>5. SubSeq(s, k + 1, Len(s)) \in Seq(Row) /\ Len(SubSeq(s, k + 1, Len(s))) = Len(s) - k
  BY <1>1
<1>6. <<r>> \in Seq(Row) /\ Len(<<r>>) = 1
  OBVIOUS
<1>7. SubSeq(s, 1, k) \o <<r>> \in Seq(Row) /\ Len(SubSeq(s, 1, k) \o <<r>>) = k + 1
  BY <1>1, <1>4, <1>6
<1> DEFINE a == SubSeq(s, 1, k) \o <<r>>
           b == SubSeq(s, k + 1, Len(s))
<1>8. PutRow(op, s, r) = a \o b
  BY <1>2, <1>3
<1>9. a \in Seq(Row) /\ Len(a) = k + 1
  BY <1>7
<1>10. b \in Seq(Row) /\ Len(b) = Len(s) - k
  BY <1>5
<1>11. Len(s) \in Nat
  OBVIOUS
<1> HIDE DEF a, b
<1>12. (k + 1) + (Len(s) - k) = Len(s) + 1
  BY <1>1, <1>11
<1> QED BY <1>8, <1>9, <1>10, <1>12, ConcatProperties

\* sort puts the rows one by one.
LEMMA SortedLoop ==
  ASSUME NEW op, NEW s \in Seq(Row)
  PROVE  \E f : /\ Sorted(op, s) = f[Len(s)] /\ f[0] = <<>>
                /\ \A i \in 1..Len(s) : f[i] = PutRow(op, f[i - 1], s[i])
                /\ \A i \in 0..Len(s) : f[i] \in Seq(Row)
<1> DEFINE n == Len(s)
           E(t, i) == PutRow(op, t, s[i])
           Def(g) == g = [i \in 0..n |-> IF i = 0 THEN <<>> ELSE E(g[i - 1], i)]
           f == CHOOSE g : Def(g)
           step == [i \in 1..n |-> [t \in Seq(Row) |-> E(t, i)]]
<1>1. Sorted(op, s) = f[n]
  BY DEF Sorted
<1>2. n \in Nat /\ <<>> \in Seq(Row)
  OBVIOUS
<1>3. \A i \in 1..n : \A t \in Seq(Row) : E(t, i) \in Seq(Row)
  <2> SUFFICES ASSUME NEW i \in 1..n, NEW t \in Seq(Row) PROVE E(t, i) \in Seq(Row)
    OBVIOUS
  <2>1. s[i] \in Row
    OBVIOUS
  <2> QED BY <2>1, PutRowType
<1> HIDE DEF E, n
<1>4. step \in [1..n -> [Seq(Row) -> Seq(Row)]]
  BY <1>3
<1>5. PICK g : IsLoop(g, n, Seq(Row), <<>>, step)
  <2> HIDE DEF step, Def, f
  <2> QED BY <1>2, <1>4, LoopExists
<1>6. Def(g)
  <2>1. g = [i \in 0..n |-> g[i]]
    BY <1>5 DEF IsLoop
  <2>2. \A i \in 0..n : i # 0 => i \in 1..n /\ i - 1 \in 0..n
    BY <1>2
  <2>3. \A i \in 0..n : g[i] = IF i = 0 THEN <<>> ELSE E(g[i - 1], i)
    BY <1>5, <2>2 DEF IsLoop
  <2> QED BY <2>1, <2>3
<1>7. Def(f)
  <2> HIDE DEF Def
  <2> QED BY <1>6
<1>8. f[0] = <<>> /\ \A i \in 1..n : f[i] = E(f[i - 1], i)
  <2>1. 0 \in 0..n /\ \A i \in 1..n : i \in 0..n /\ i # 0
    BY <1>2
  <2> HIDE DEF f, step
  <2> QED BY <1>7, <2>1
<1> HIDE DEF f, step
<1>9. \A i \in 1..n : f[i - 1] \in Seq(Row) => f[i] \in Seq(Row)
  BY <1>3, <1>8
<1>10. \A i \in 0..n : f[i] \in Seq(Row)
  BY <1>2, <1>8, <1>9, LoopStays
<1>11. /\ Sorted(op, s) = f[Len(s)] /\ f[0] = <<>>
      /\ \A i \in 0..Len(s) : f[i] \in Seq(Row)
  BY <1>1, <1>8, <1>10 DEF n
<1>12. \A i \in 1..Len(s) : f[i] = PutRow(op, f[i - 1], s[i])
  BY <1>8 DEF n, E
<1> WITNESS f
<1> QED BY <1>11, <1>12

\* Sorting keeps the number of rows.
LEMMA SortedType ==
  ASSUME NEW op, NEW s \in Seq(Row)
  PROVE  Sorted(op, s) \in Seq(Row) /\ Len(Sorted(op, s)) = Len(s)
<1>1. PICK f : /\ Sorted(op, s) = f[Len(s)] /\ f[0] = <<>>
               /\ \A i \in 1..Len(s) : f[i] = PutRow(op, f[i - 1], s[i])
               /\ \A i \in 0..Len(s) : f[i] \in Seq(Row)
  BY SortedLoop
<1> DEFINE S == {i \in 0..Len(s) : Len(f[i]) = i}
<1>2. 0 \in S
  BY <1>1
<1>3. \A i \in 0..Len(s) : i < Len(s) /\ i \in S => i + 1 \in S
  <2> SUFFICES ASSUME NEW i \in 0..Len(s), i < Len(s), i \in S PROVE i + 1 \in S
    OBVIOUS
  <2>1. i + 1 \in 1..Len(s) /\ (i + 1) - 1 = i /\ f[i] \in Seq(Row) /\ s[i + 1] \in Row
    BY <1>1
  <2>2. f[i + 1] = PutRow(op, f[i], s[i + 1])
    BY <1>1, <2>1
  <2> QED BY <2>1, <2>2, PutRowType
<1>4. \A i \in 0..Len(s) : i \in S
  <2> HIDE DEF S
  <2>1. Len(s) \in Nat
    OBVIOUS
  <2> QED BY <1>2, <1>3, <2>1, UpTo
<1>5. Len(s) \in 0..Len(s)
  OBVIOUS
<1> QED BY <1>1, <1>4, <1>5

\* stats adds the numbers of the rows of a key.
LEMMA TotalLoop ==
  ASSUME NEW k, NEW s \in Seq(Row)
  PROVE  \E f : /\ Total(s, k) = f[Len(s)] /\ f[0] = 0
                /\ \A i \in 1..Len(s) : f[i] = f[i - 1] + (IF s[i].key = k THEN s[i].n ELSE 0)
                /\ \A i \in 0..Len(s) : f[i] \in Nat
<1> DEFINE n == Len(s)
           E(t, i) == t + (IF s[i].key = k THEN s[i].n ELSE 0)
           Def(g) == g = [i \in 0..n |-> IF i = 0 THEN 0 ELSE E(g[i - 1], i)]
           f == CHOOSE g : Def(g)
           step == [i \in 1..n |-> [t \in Nat |-> E(t, i)]]
<1>1. Total(s, k) = f[n]
  BY DEF Total
<1>2. n \in Nat /\ 0 \in Nat
  OBVIOUS
<1>3. \A i \in 1..n : \A t \in Nat : E(t, i) \in Nat
  <2> SUFFICES ASSUME NEW i \in 1..n, NEW t \in Nat PROVE E(t, i) \in Nat
    OBVIOUS
  <2>1. s[i] \in Row
    OBVIOUS
  <2>2. s[i].n \in Nat
    BY <2>1 DEF Row
  <2> QED BY <2>2
<1> HIDE DEF E, n
<1>4. step \in [1..n -> [Nat -> Nat]]
  BY <1>3
<1>5. PICK g : IsLoop(g, n, Nat, 0, step)
  <2> HIDE DEF step, Def, f
  <2> QED BY <1>2, <1>4, LoopExists
<1>6. Def(g)
  <2>1. g = [i \in 0..n |-> g[i]]
    BY <1>5 DEF IsLoop
  <2>2. \A i \in 0..n : i # 0 => i \in 1..n /\ i - 1 \in 0..n
    BY <1>2
  <2>3. \A i \in 0..n : g[i] = IF i = 0 THEN 0 ELSE E(g[i - 1], i)
    BY <1>5, <2>2 DEF IsLoop
  <2> QED BY <2>1, <2>3
<1>7. Def(f)
  <2> HIDE DEF Def
  <2> QED BY <1>6
<1>8. f[0] = 0 /\ \A i \in 1..n : f[i] = E(f[i - 1], i)
  <2>1. 0 \in 0..n /\ \A i \in 1..n : i \in 0..n /\ i # 0
    BY <1>2
  <2> HIDE DEF f, step
  <2> QED BY <1>7, <2>1
<1> HIDE DEF f, step
<1>9. \A i \in 1..n : f[i - 1] \in Nat => f[i] \in Nat
  BY <1>3, <1>8
<1>10. \A i \in 0..n : f[i] \in Nat
  BY <1>2, <1>8, <1>9, LoopStays
<1>11. /\ Total(s, k) = f[Len(s)] /\ f[0] = 0
      /\ \A i \in 0..Len(s) : f[i] \in Nat
  BY <1>1, <1>8, <1>10 DEF n
<1>12. \A i \in 1..Len(s) : f[i] = f[i - 1] + (IF s[i].key = k THEN s[i].n ELSE 0)
  BY <1>8 DEF n, E
<1> WITNESS f
<1> QED BY <1>11, <1>12

-----------------------------------------------------------------------------
(* Every pipe makes sequences of rows *)

\* A part of a sequence which ends with it or before it.
LEMMA PartOfSeq ==
  ASSUME NEW S, NEW s \in Seq(S), NEW a \in Nat, NEW b \in Int, b <= Len(s)
  PROVE  /\ SubSeq(s, a + 1, b) \in Seq(S)
         /\ Len(SubSeq(s, a + 1, b)) = IF a < b THEN b - a ELSE 0
         /\ \A i \in 1..(b - a) : SubSeq(s, a + 1, b)[i] = s[a + i]
<1>1. a + 1 \in Int /\ (a + 1 <= b <=> a < b) /\ b - (a + 1) + 1 = b - a
  OBVIOUS
<1>2. \A i \in (a + 1)..b : s[i] \in S
  OBVIOUS
<1>3. \A i \in 1..(b - a) : (a + 1) + i - 1 = a + i
  OBVIOUS
<1> QED BY <1>1, <1>2, <1>3, SubSeqProperties

\* The keys of a sequence of rows.
LEMMA KeysFacts ==
  ASSUME NEW s \in Seq(Row)
  PROVE  IsFiniteSet(Keys(s)) /\ Keys(s) \subseteq Key
<1> DEFINE f == [i \in DOMAIN s |-> s[i].key]
<1>1. \A i \in DOMAIN s : s[i] \in Row
  OBVIOUS
<1>2. Keys(s) \subseteq Key
  BY <1>1 DEF Keys, Row
<1>3. f \in Surjection(DOMAIN s, Keys(s))
  BY DEF Surjection, Keys
<1>4. IsFiniteSet(DOMAIN s)
  <2>1. Len(s) \in Nat /\ DOMAIN s = 1..Len(s)
    OBVIOUS
  <2> QED BY <2>1, FS_Interval
<1> HIDE DEF f
<1>5. IsFiniteSet(Keys(s))
  BY <1>3, <1>4, FS_Surjection
<1> QED BY <1>2, <1>5

\* All the orders of a finite set.
LEMMA OrdersFacts ==
  ASSUME NEW K, IsFiniteSet(K), NEW ks \in SetToSeqs(K)
  PROVE  Cardinality(K) \in Nat /\ ks \in [1..Cardinality(K) -> K] /\ ks \in Seq(K)
<1>1. Cardinality(K) \in Nat
  BY FS_CardinalityType
<1>2. ks \in [1..Cardinality(K) -> K]
  BY DEF SetToSeqs
<1> QED BY <1>1, <1>2

LEMMA GroupsType ==
  ASSUME NEW K \in SUBSET Key, IsFiniteSet(K), NEW num \in [K -> Nat]
  PROVE  Groups(num) \subseteq Seq(Row)
<1> SUFFICES ASSUME NEW ks \in SetToSeqs(K)
             PROVE  [i \in DOMAIN ks |-> [key |-> ks[i], n |-> num[ks[i]]]] \in Seq(Row)
  <2>1. DOMAIN num = K
    OBVIOUS
  <2> QED BY <2>1 DEF Groups
<1>1. Cardinality(K) \in Nat /\ ks \in [1..Cardinality(K) -> K]
  BY OrdersFacts
<1> DEFINE t == [i \in DOMAIN ks |-> [key |-> ks[i], n |-> num[ks[i]]]]
<1>2. t \in [1..Cardinality(K) -> Row]
  BY <1>1 DEF Row
<1> HIDE DEF t
<1>3. t \in Seq(Row)
  BY <1>1, <1>2
<1> QED BY <1>3 DEF t

LEMMA KeptKeysFacts ==
  ASSUME NEW p, NEW K, IsFiniteSet(K), NEW S \in KeptKeys(p, K)
  PROVE  S \subseteq K /\ IsFiniteSet(S)
<1>1. S \subseteq K
  BY DEF KeptKeys
<1> QED BY <1>1, FS_Subset

\* The numbers pipes compute for keys.
LEMMA NumbersFacts ==
  ASSUME NEW s \in Seq(Row), NEW k
  PROVE  Total(s, k) \in Nat /\ Cardinality(RowsOfKey(s, k)) \in Nat
<1>1. Total(s, k) \in Nat
  <2>1. Len(s) \in 0..Len(s)
    OBVIOUS
  <2> QED BY <2>1, TotalLoop
<1>2. Cardinality(RowsOfKey(s, k)) \in Nat
  <2>1. Len(s) \in Nat /\ DOMAIN s = 1..Len(s)
    OBVIOUS
  <2>2. RowsOfKey(s, k) \subseteq 1..Len(s)
    BY <2>1 DEF RowsOfKey
  <2>3. IsFiniteSet(1..Len(s))
    BY <2>1, FS_Interval
  <2> QED BY <2>2, <2>3, FS_Subset, FS_CardinalityType
<1> QED BY <1>1, <1>2

\* What sort makes of its input.
LEMMA SortRowsFacts ==
  ASSUME NEW p \in LocalPipe, NEW s \in Seq(Row)
  PROVE  SortRows(p, s) \in Seq(Row)
<1>1. Sorted(p.op, s) \in Seq(Row) /\ Len(Sorted(p.op, s)) = Len(s)
  BY SortedType
<1>2. p.off \in Nat /\ p.lim \in Nat /\ Len(s) \in Nat
  BY DEF LocalPipe, ClientPipe
<1> DEFINE b == IF p.lim = 0 THEN Len(s) ELSE Lower(p.off + p.lim, Len(s))
<1>3. b \in Int /\ b <= Len(s)
  BY <1>2 DEF Lower
<1>4. SortRows(p, s) = SubSeq(Sorted(p.op, s), p.off + 1, b)
  BY DEF SortRows
<1> HIDE DEF b
<1> QED BY <1>1, <1>2, <1>3, <1>4, PartOfSeq

\* What the kinds of uniq make of their input.
LEMMA UniqFacts ==
  ASSUME NEW p, NEW s \in Seq(Row)
  PROVE  /\ UniqRows(p, s) \subseteq Seq(Row)
         /\ UniqHitsRows(p, s) \subseteq Seq(Row)
         /\ UniqLocalRows(p, s) \subseteq Seq(Row)
<1> DEFINE hits(K) == [k \in K |-> IF TooManyKeys(p, s) THEN 0 ELSE Cardinality(RowsOfKey(s, k))]
           hasZeroHits == \E i \in DOMAIN s : s[i].n = 0
           sums(K) == [k \in K |-> IF hasZeroHits \/ TooManyKeys(p, s) THEN 0 ELSE Total(s, k)]
<1>1. \A K \in KeptKeys(p, Keys(s)) : K \in SUBSET Key /\ IsFiniteSet(K)
  BY KeysFacts, KeptKeysFacts
<1>2. \A K : hits(K) \in [K -> Nat]
  <2>1. \A k : (IF TooManyKeys(p, s) THEN 0 ELSE Cardinality(RowsOfKey(s, k))) \in Nat
    BY NumbersFacts
  <2> QED BY <2>1
<1>3. \A K : sums(K) \in [K -> Nat]
  <2>1. \A k : (IF hasZeroHits \/ TooManyKeys(p, s) THEN 0 ELSE Total(s, k)) \in Nat
    BY NumbersFacts
  <2> QED BY <2>1
<1>4. \A K : [k \in K |-> 0] \in [K -> Nat]
  OBVIOUS
<1>5. UniqRows(p, s) = UNION {Groups([k \in K |-> 0]) : K \in KeptKeys(p, Keys(s))}
  BY DEF UniqRows
<1>6. UniqHitsRows(p, s) = UNION {Groups(hits(K)) : K \in KeptKeys(p, Keys(s))}
  BY DEF UniqHitsRows
<1>7. UniqLocalRows(p, s) = UNION {Groups(sums(K)) : K \in KeptKeys(p, Keys(s))}
  BY DEF UniqLocalRows
<1> HIDE DEF hits, sums
<1>8. \A K \in KeptKeys(p, Keys(s)) : /\ Groups([k \in K |-> 0]) \subseteq Seq(Row)
                                      /\ Groups(hits(K)) \subseteq Seq(Row)
                                      /\ Groups(sums(K)) \subseteq Seq(Row)
  BY <1>1, <1>2, <1>3, <1>4, GroupsType
<1> QED BY <1>5, <1>6, <1>7, <1>8

\* Whatever comes into a pipe, sequences of rows come out.
LEMMA ApplyType ==
  ASSUME NEW p \in LocalPipe, NEW s \in Seq(Row)
  PROVE  Apply(p, s) \subseteq Seq(Row)
<1>1. p.off \in Nat /\ p.lim \in Nat /\ Len(s) \in Nat
  BY DEF LocalPipe, ClientPipe
<1>2. CASE p.op = "limit"
  <2>1. Apply(p, s) = {SubSeq(s, 1, Lower(p.lim, Len(s)))}
    BY <1>2 DEF Apply, IsSort
  <2>2. Lower(p.lim, Len(s)) \in Int /\ Lower(p.lim, Len(s)) <= Len(s)
    BY <1>1 DEF Lower
  <2>3. SubSeq(s, 0 + 1, Lower(p.lim, Len(s))) \in Seq(Row)
    BY <1>1, <2>2, PartOfSeq
  <2> QED BY <2>1, <2>3
<1>3. CASE p.op = "offset"
  <2>1. Apply(p, s) = {SubSeq(s, p.off + 1, Len(s))}
    BY <1>3 DEF Apply, IsSort
  <2> QED BY <1>1, <2>1, PartOfSeq
<1>4. CASE p.op = "filter"
  <2>1. Apply(p, s) = {FilterRows(p, s)}
    BY <1>4 DEF Apply, IsSort
  <2>2. Len(s) \in 0..Len(s)
    BY <1>1
  <2>3. FilterRows(p, s) \in Seq(Row)
    BY <2>2, FilterLoop
  <2> QED BY <2>1, <2>3
<1>5. CASE IsSort(p)
  <2>1. Apply(p, s) = {SortRows(p, s)}
    BY <1>5 DEF Apply, IsSort
  <2> QED BY <2>1, SortRowsFacts
<1>6. CASE p.op \in {"uniq", "uniq_hits", "uniq_local"}
  <2>1. Apply(p, s) \in {UniqRows(p, s), UniqHitsRows(p, s), UniqLocalRows(p, s)}
    BY <1>6 DEF Apply, IsSort
  <2> QED BY <2>1, UniqFacts
<1>7. CASE p.op \in {"stats", "stats_local"}
  <2> DEFINE counts == [k \in Keys(s) |-> Cardinality(RowsOfKey(s, k))]
             sums == [k \in Keys(s) |-> Total(s, k)]
  <2>1. Apply(p, s) \in {Groups(counts), Groups(sums)}
    BY <1>7 DEF Apply, IsSort
  <2>2. counts \in [Keys(s) -> Nat] /\ sums \in [Keys(s) -> Nat]
    BY NumbersFacts
  <2> HIDE DEF counts, sums
  <2> QED BY <2>1, <2>2, KeysFacts, GroupsType
<1>8. CASE p.op \in {"count", "count_local"}
  <2>1. Apply(p, s) \in {{<<[key |-> "", n |-> Len(s)]>>}, {<<[key |-> "", n |-> Total(s, "")]>>}}
    BY <1>8 DEF Apply, IsSort
  <2>2. ASSUME NEW x \in Nat PROVE {<<[key |-> "", n |-> x]>>} \subseteq Seq(Row)
    <3> DEFINE r == [key |-> "", n |-> x]
    <3>1. r \in Row
      BY KeyAssumption DEF Row
    <3> HIDE DEF r
    <3>2. <<r>> \in Seq(Row)
      BY <3>1
    <3> QED BY <3>2 DEF r
  <2>3. {<<[key |-> "", n |-> Len(s)]>>} \subseteq Seq(Row)
    BY <1>1, <2>2
  <2>4. {<<[key |-> "", n |-> Total(s, "")]>>} \subseteq Seq(Row)
    BY <2>2, NumbersFacts
  <2> QED BY <2>1, <2>3, <2>4
<1>9. \/ p.op \in {"limit", "offset", "filter"} \/ IsSort(p) \/ p.op \in {"uniq", "uniq_hits", "uniq_local"}
      \/ p.op \in {"stats", "stats_local"} \/ p.op \in {"count", "count_local"}
  BY DEF LocalPipe, ClientPipe, IsSort
<1> QED BY <1>2, <1>3, <1>4, <1>5, <1>6, <1>7, <1>8, <1>9

-----------------------------------------------------------------------------
(* Sequences of pipes *)

\* Sets of inputs.
Inputs == SUBSET Seq(Row)

\* What a pipe makes of the inputs of a set.
Outputs(p, S) == UNION {Apply(p, s) : s \in S}

LEMMA OutputsType ==
  ASSUME NEW p \in LocalPipe, NEW S \in Inputs
  PROVE  Outputs(p, S) \in Inputs
BY ApplyType DEF Outputs, Inputs

\* The inputs go through one pipe after another.
LEMMA ThroughLoop ==
  ASSUME NEW ps \in Seq(LocalPipe), NEW S \in Inputs
  PROVE  \E f : /\ Through(ps, S) = f[Len(ps)] /\ f[0] = S
                /\ \A i \in 1..Len(ps) : f[i] = Outputs(ps[i], f[i - 1])
                /\ \A i \in 0..Len(ps) : f[i] \in Inputs
<1> DEFINE n == Len(ps)
           E(t, i) == Outputs(ps[i], t)
           Def(g) == g = [i \in 0..n |-> IF i = 0 THEN S ELSE E(g[i - 1], i)]
           f == CHOOSE g : Def(g)
           step == [i \in 1..n |-> [t \in Inputs |-> E(t, i)]]
<1>1. Through(ps, S) = f[n]
  BY DEF Through, Outputs
<1>2. n \in Nat /\ S \in Inputs
  OBVIOUS
<1>3. \A i \in 1..n : \A t \in Inputs : E(t, i) \in Inputs
  <2> SUFFICES ASSUME NEW i \in 1..n, NEW t \in Inputs PROVE E(t, i) \in Inputs
    OBVIOUS
  <2>1. ps[i] \in LocalPipe
    OBVIOUS
  <2> QED BY <2>1, OutputsType
<1> HIDE DEF E, n
<1>4. step \in [1..n -> [Inputs -> Inputs]]
  BY <1>3
<1>5. PICK g : IsLoop(g, n, Inputs, S, step)
  <2> HIDE DEF step, Def, f
  <2> QED BY <1>2, <1>4, LoopExists
<1>6. Def(g)
  <2>1. g = [i \in 0..n |-> g[i]]
    BY <1>5 DEF IsLoop
  <2>2. \A i \in 0..n : i # 0 => i \in 1..n /\ i - 1 \in 0..n
    BY <1>2
  <2>3. \A i \in 0..n : g[i] = IF i = 0 THEN S ELSE E(g[i - 1], i)
    BY <1>5, <2>2 DEF IsLoop
  <2> QED BY <2>1, <2>3
<1>7. Def(f)
  <2> HIDE DEF Def
  <2> QED BY <1>6
<1>8. f[0] = S /\ \A i \in 1..n : f[i] = E(f[i - 1], i)
  <2>1. 0 \in 0..n /\ \A i \in 1..n : i \in 0..n /\ i # 0
    BY <1>2
  <2> HIDE DEF f, step
  <2> QED BY <1>7, <2>1
<1> HIDE DEF f, step
<1>9. \A i \in 1..n : f[i - 1] \in Inputs => f[i] \in Inputs
  BY <1>3, <1>8
<1>10. \A i \in 0..n : f[i] \in Inputs
  BY <1>2, <1>8, <1>9, LoopStays
<1>11. /\ Through(ps, S) = f[Len(ps)] /\ f[0] = S
      /\ \A i \in 0..Len(ps) : f[i] \in Inputs
  BY <1>1, <1>8, <1>10 DEF n
<1>12. \A i \in 1..Len(ps) : f[i] = Outputs(ps[i], f[i - 1])
  BY <1>8 DEF n, E
<1> WITNESS f
<1> QED BY <1>11, <1>12

\* There is one way to go through the pipes.
LEMMA ThroughIs ==
  ASSUME NEW ps \in Seq(LocalPipe), NEW S \in Inputs, NEW h,
         h[0] = S, \A i \in 1..Len(ps) : h[i] = Outputs(ps[i], h[i - 1])
  PROVE  Through(ps, S) = h[Len(ps)]
<1>1. PICK f : /\ Through(ps, S) = f[Len(ps)] /\ f[0] = S
               /\ \A i \in 1..Len(ps) : f[i] = Outputs(ps[i], f[i - 1])
  BY ThroughLoop
<1> DEFINE T == {i \in 0..Len(ps) : f[i] = h[i]}
<1>2. Len(ps) \in Nat
  OBVIOUS
<1>3. 0 \in T
  BY <1>1, <1>2
<1>4. \A i \in 0..Len(ps) : i < Len(ps) /\ i \in T => i + 1 \in T
  <2> SUFFICES ASSUME NEW i \in 0..Len(ps), i < Len(ps), i \in T PROVE i + 1 \in T
    OBVIOUS
  <2>1. i + 1 \in 1..Len(ps) /\ (i + 1) - 1 = i
    BY <1>2
  <2>2. f[i + 1] = Outputs(ps[i + 1], f[i]) /\ h[i + 1] = Outputs(ps[i + 1], h[i])
    BY <1>1, <2>1
  <2> QED BY <2>1, <2>2
<1>5. \A i \in 0..Len(ps) : i \in T
  <2> HIDE DEF T
  <2> QED BY <1>2, <1>3, <1>4, UpTo
<1> QED BY <1>1, <1>2, <1>5

LEMMA ThroughType ==
  ASSUME NEW ps \in Seq(LocalPipe), NEW S \in Inputs
  PROVE  Through(ps, S) \in Inputs
<1>1. Len(ps) \in 0..Len(ps)
  OBVIOUS
<1> QED BY <1>1, ThroughLoop

\* Going through two sequences of pipes is going through one after the other.
LEMMA ThroughBoth ==
  ASSUME NEW xs \in Seq(LocalPipe), NEW ys \in Seq(LocalPipe), NEW S \in Inputs
  PROVE  Through(xs \o ys, S) = Through(ys, Through(xs, S))
<1> DEFINE m == Len(xs)
           n == Len(ys)
<1>1. m \in Nat /\ n \in Nat /\ Len(xs \o ys) = m + n /\ xs \o ys \in Seq(LocalPipe)
  OBVIOUS
<1>2. PICK f : /\ Through(xs, S) = f[m] /\ f[0] = S
               /\ \A i \in 1..m : f[i] = Outputs(xs[i], f[i - 1])
  BY ThroughLoop
<1>3. PICK g : /\ Through(ys, Through(xs, S)) = g[n] /\ g[0] = Through(xs, S)
               /\ \A i \in 1..n : g[i] = Outputs(ys[i], g[i - 1])
  <2> DEFINE U == Through(xs, S)
  <2>1. U \in Inputs
    BY ThroughType
  <2> HIDE DEF U
  <2>2. \E g : /\ Through(ys, U) = g[Len(ys)] /\ g[0] = U
               /\ \A i \in 1..Len(ys) : g[i] = Outputs(ys[i], g[i - 1])
    BY <2>1, ThroughLoop
  <2> QED BY <2>2 DEF U
<1> DEFINE h == [i \in 0..(m + n) |-> IF i <= m THEN f[i] ELSE g[i - m]]
<1>4. \A i \in 1..m : (xs \o ys)[i] = xs[i]
  OBVIOUS
<1>5. \A i \in 1..n : (xs \o ys)[m + i] = ys[i]
  OBVIOUS
<1> HIDE DEF m, n
<1>6. h[0] = S
  BY <1>1, <1>2
<1>7. \A i \in 0..m : h[i] = f[i]
  BY <1>1
<1>8. \A i \in 0..n : h[m + i] = g[i]
  <2> SUFFICES ASSUME NEW i \in 0..n PROVE h[m + i] = g[i]
    OBVIOUS
  <2>1. m + i \in 0..(m + n) /\ (m + i) - m = i /\ (m + i <= m <=> i = 0)
    BY <1>1
  <2>2. i = 0 => h[m + i] = f[m]
    BY <1>1
  <2>3. i # 0 => h[m + i] = g[(m + i) - m]
    BY <2>1
  <2> QED BY <1>2, <1>3, <2>1, <2>2, <2>3
<1>9. \A i \in 1..(m + n) : h[i] = Outputs((xs \o ys)[i], h[i - 1])
  <2> SUFFICES ASSUME NEW i \in 1..(m + n) PROVE h[i] = Outputs((xs \o ys)[i], h[i - 1])
    OBVIOUS
  <2> HIDE DEF h
  <2>1. CASE i <= m
    <3>1. i \in 1..m /\ i \in 0..m /\ i - 1 \in 0..m
      BY <1>1, <2>1
    <3> QED BY <1>2, <1>4, <1>7, <3>1
  <2>2. CASE ~ (i <= m)
    <3> DEFINE j == i - m
    <3>1. j \in 1..n /\ j \in 0..n /\ j - 1 \in 0..n /\ i = m + j /\ i - 1 = m + (j - 1)
      BY <1>1, <2>2
    <3> HIDE DEF j
    <3>2. h[i] = g[j] /\ h[i - 1] = g[j - 1] /\ (xs \o ys)[i] = ys[j]
      BY <1>5, <1>8, <3>1
    <3> QED BY <1>3, <3>1, <3>2
  <2> QED BY <2>1, <2>2
<1>10. Through(xs \o ys, S) = h[m + n]
  <2> HIDE DEF h
  <2> QED BY <1>1, <1>6, <1>9, ThroughIs
<1>11. h[m + n] = g[n]
  <2>1. n \in 0..n
    BY <1>1
  <2> HIDE DEF h
  <2> QED BY <1>8, <2>1
<1> QED BY <1>3, <1>10, <1>11

\* No pipe, a single one and two of them.
LEMMA ThroughFew ==
  ASSUME NEW ps \in Seq(LocalPipe), NEW S \in Inputs
  PROVE  /\ Len(ps) = 0 => Through(ps, S) = S
         /\ Len(ps) = 1 => Through(ps, S) = Outputs(ps[1], S)
         /\ Len(ps) = 2 => Through(ps, S) = Outputs(ps[2], Outputs(ps[1], S))
<1>1. PICK f : /\ Through(ps, S) = f[Len(ps)] /\ f[0] = S
               /\ \A i \in 1..Len(ps) : f[i] = Outputs(ps[i], f[i - 1])
  BY ThroughLoop
<1>2. Len(ps) \in {1, 2} => f[1] = Outputs(ps[1], S)
  <2> SUFFICES ASSUME Len(ps) \in {1, 2} PROVE f[1] = Outputs(ps[1], S)
    OBVIOUS
  <2>1. 1 \in 1..Len(ps) /\ 1 - 1 = 0
    OBVIOUS
  <2>2. f[1] = Outputs(ps[1], f[1 - 1])
    BY <1>1, <2>1
  <2> QED BY <1>1, <2>1, <2>2
<1>3. Len(ps) = 2 => f[2] = Outputs(ps[2], f[1])
  <2> SUFFICES ASSUME Len(ps) = 2 PROVE f[2] = Outputs(ps[2], f[1])
    OBVIOUS
  <2>1. 2 \in 1..Len(ps) /\ 2 - 1 = 1
    OBVIOUS
  <2>2. f[2] = Outputs(ps[2], f[2 - 1])
    BY <1>1, <2>1
  <2> QED BY <2>1, <2>2
<1> QED BY <1>1, <1>2, <1>3

LEMMA ThroughTwo ==
  ASSUME NEW a \in LocalPipe, NEW b \in LocalPipe, NEW S \in Inputs
  PROVE  Through(<<a, b>>, S) = Outputs(b, Outputs(a, S))
<1> DEFINE ps == <<a, b>>
<1>1. ps \in Seq(LocalPipe) /\ Len(ps) = 2 /\ ps[1] = a /\ ps[2] = b
  OBVIOUS
<1> HIDE DEF ps
<1>2. Through(ps, S) = Outputs(b, Outputs(a, S))
  BY <1>1, ThroughFew
<1> QED BY <1>2 DEF ps

LEMMA ThroughOne ==
  ASSUME NEW a \in LocalPipe, NEW S \in Inputs
  PROVE  Through(<<a>>, S) = Outputs(a, S)
<1> DEFINE ps == <<a>>
<1>1. ps \in Seq(LocalPipe) /\ Len(ps) = 1 /\ ps[1] = a
  OBVIOUS
<1> HIDE DEF ps
<1>2. Through(ps, S) = Outputs(a, S)
  BY <1>1, ThroughFew
<1> QED BY <1>2 DEF ps

-----------------------------------------------------------------------------
(* Pipes which cut a part out of the rows *)

\* The rows after the first a, up to the first b.
Window(s, a, b) == SubSeq(s, a + 1, Lower(b, Len(s)))

LEMMA WindowFacts ==
  ASSUME NEW S, NEW s \in Seq(S), NEW a \in Nat, NEW b \in Nat
  PROVE  /\ Window(s, a, b) \in Seq(S)
         /\ Len(Window(s, a, b)) = IF a < Lower(b, Len(s)) THEN Lower(b, Len(s)) - a ELSE 0
         /\ \A i \in 1..(Lower(b, Len(s)) - a) : Window(s, a, b)[i] = s[a + i]
<1> DEFINE c == Lower(b, Len(s))
<1>1. c \in Int /\ c <= Len(s)
  BY DEF Lower
<1>2. Window(s, a, b) = SubSeq(s, a + 1, c)
  BY DEF Window
<1> HIDE DEF c
<1>3. /\ SubSeq(s, a + 1, c) \in Seq(S)
      /\ Len(SubSeq(s, a + 1, c)) = IF a < c THEN c - a ELSE 0
      /\ \A i \in 1..(c - a) : SubSeq(s, a + 1, c)[i] = s[a + i]
  BY <1>1, PartOfSeq
<1> QED BY <1>2, <1>3 DEF c

\* t has the rows of a window.
HasRowsOf(t, s, a, b) ==
  \/ Len(t) = 0 /\ Lower(b, Len(s)) <= a
  \/ Len(t) = Lower(b, Len(s)) - a /\ \A i \in 1..Len(t) : t[i] = s[a + i]

\* Windows with the same rows are equal.
LEMMA SameWindow ==
  ASSUME NEW S, NEW s \in Seq(S), NEW t \in Seq(S),
         NEW a \in Nat, NEW b \in Nat, HasRowsOf(t, s, a, b)
  PROVE  t = Window(s, a, b)
<1> DEFINE h == Lower(b, Len(s))
           u == Window(s, a, b)
<1>0. u \in Seq(S)
  BY WindowFacts
<1>1. Len(u) = (IF a < h THEN h - a ELSE 0) /\ \A i \in 1..(h - a) : u[i] = s[a + i]
  BY WindowFacts
<1>2. h \in Int
  BY DEF Lower
<1> HIDE DEF h, u
<1>3. \/ Len(t) = 0 /\ h <= a
      \/ Len(t) = h - a /\ \A i \in 1..Len(t) : t[i] = s[a + i]
  BY DEF h, HasRowsOf
<1>4. Len(t) \in Nat
  OBVIOUS
<1>5. Len(t) = Len(u) /\ \A i \in 1..Len(t) : t[i] = u[i]
  BY <1>1, <1>2, <1>3, <1>4
<1>6. t = u
  BY <1>0, <1>5, SeqEqual
<1> QED BY <1>6 DEF u

LEMMA WindowType ==
  ASSUME NEW S, NEW s \in Seq(S), NEW a \in Nat, NEW b \in Nat
  PROVE  Window(s, a, b) \in Seq(S) /\ Len(Window(s, a, b)) <= Len(s)
<1> DEFINE h == Lower(b, Len(s))
<1>1. Window(s, a, b) \in Seq(S) /\ Len(Window(s, a, b)) = (IF a < h THEN h - a ELSE 0)
  BY WindowFacts
<1>2. h \in Int /\ h <= Len(s) /\ Len(s) \in Nat
  BY DEF Lower
<1> HIDE DEF h
<1> QED BY <1>1, <1>2

LEMMA WindowOfWindow ==
  ASSUME NEW S, NEW s \in Seq(S), NEW a \in Nat, NEW b \in Nat, NEW c \in Nat, NEW d \in Nat
  PROVE  Window(Window(s, a, b), c, d) = Window(s, a + c, Lower(a + d, b))
<1> DEFINE v == Window(s, a, b)
           t == Window(v, c, d)
           x == a + c
           y == Lower(a + d, b)
           u == Window(s, x, y)
           h == Lower(b, Len(s))
           k == Lower(d, Len(v))
<1>1. v \in Seq(S) /\ Len(v) = (IF a < h THEN h - a ELSE 0) /\ \A i \in 1..(h - a) : v[i] = s[a + i]
  BY WindowFacts
<1>2. t \in Seq(S) /\ Len(t) = (IF c < k THEN k - c ELSE 0) /\ \A i \in 1..(k - c) : t[i] = v[c + i]
  <2>1. v \in Seq(S)
    BY <1>1
  <2> HIDE DEF v
  <2> QED BY <2>1, WindowFacts
<1>3. x \in Nat /\ y \in Nat
  BY DEF Lower
<1>4. u \in Seq(S)
  <2> HIDE DEF x, y
  <2> QED BY <1>3, WindowFacts
<1>5. \/ Len(t) = 0 /\ Lower(y, Len(s)) <= x
      \/ Len(t) = Lower(y, Len(s)) - x /\ Len(t) = k - c /\ k <= h - a
  <2>1. Len(s) \in Nat /\ Len(v) \in Nat
    BY <1>1 DEF Lower
  <2> HIDE DEF v, t
  <2> QED BY <1>1, <1>2, <2>1, SMTT(30) DEF Lower
<1>6. \A i \in 1..(k - c) : k <= h - a => t[i] = s[x + i]
  <2> SUFFICES ASSUME NEW i \in 1..(k - c), k <= h - a PROVE t[i] = s[x + i]
    OBVIOUS
  <2>1. k \in Int /\ h \in Int
    BY <1>1 DEF Lower
  <2> HIDE DEF v, t, k, h
  <2>2. c + i \in 1..(h - a) /\ a + (c + i) = (a + c) + i
    BY <2>1
  <2> QED BY <1>1, <1>2, <2>2
<1> HIDE DEF v, t, u, x, y, h, k
<1>7. HasRowsOf(t, s, x, y)
  BY <1>5, <1>6 DEF HasRowsOf
<1>8. u = Window(s, x, y)
  BY DEF u
<1>9. t \in Seq(S)
  BY <1>2
<1>10. t = u
  BY <1>3, <1>7, <1>8, <1>9, SameWindow
<1> QED BY <1>10 DEF t, u, v, x, y

\* Only the part inside the sequence counts, and windows without rows are alike.
LEMMA EqualWindows ==
  ASSUME NEW S, NEW s \in Seq(S), NEW r \in Seq(S), NEW a \in Nat, NEW b \in Nat, NEW c \in Nat, NEW d \in Nat,
         \/ r = s /\ a = c /\ Lower(b, Len(s)) = Lower(d, Len(s))
         \/ Lower(b, Len(s)) <= a /\ Lower(d, Len(r)) <= c
  PROVE  Window(s, a, b) = Window(r, c, d)
<1>1. CASE r = s /\ a = c /\ Lower(b, Len(s)) = Lower(d, Len(s))
  BY <1>1 DEF Window
<1>2. CASE Lower(b, Len(s)) <= a /\ Lower(d, Len(r)) <= c
  <2> DEFINE t == Window(s, a, b)
             u == Window(r, c, d)
  <2>1. Lower(b, Len(s)) \in Int /\ Lower(d, Len(r)) \in Int
    BY DEF Lower
  <2>2. t \in Seq(S) /\ Len(t) = IF a < Lower(b, Len(s)) THEN Lower(b, Len(s)) - a ELSE 0
    BY WindowFacts
  <2>3. u \in Seq(S) /\ Len(u) = IF c < Lower(d, Len(r)) THEN Lower(d, Len(r)) - c ELSE 0
    BY WindowFacts
  <2>4. Len(t) = 0 /\ Len(u) = 0
    BY <1>2, <2>1, <2>2, <2>3
  <2> HIDE DEF t, u
  <2>5. t = u
    BY <2>2, <2>3, <2>4, SeqEqual
  <2> QED BY <2>5 DEF t, u
<1> QED BY <1>1, <1>2

Cuts(p) == p.op \in {"limit", "offset", "sort", "newest"}

\* A pipe skips rows and keeps the others up to a row.
Base(p, s)  == IF IsSort(p) THEN Sorted(p.op, s) ELSE s
Skips(p)    == IF p.op = "limit" THEN 0 ELSE p.off
Until(p, n) == IF p.op = "limit" THEN p.lim
               ELSE IF p.op = "offset" \/ p.lim = 0 THEN n
               ELSE p.off + p.lim
Cut(p, s)   == Window(Base(p, s), Skips(p), Until(p, Len(s)))

LEMMA CutTypes ==
  ASSUME NEW p \in ClientPipe, NEW s \in Seq(Row), NEW n \in Nat
  PROVE  /\ Base(p, s) \in Seq(Row) /\ Len(Base(p, s)) = Len(s) /\ Len(s) \in Nat
         /\ p.off \in Nat /\ p.lim \in Nat /\ Skips(p) \in Nat /\ Until(p, n) \in Nat
<1>1. p.off \in Nat /\ p.lim \in Nat /\ Len(s) \in Nat
  BY DEF ClientPipe
<1>2. Base(p, s) \in Seq(Row) /\ Len(Base(p, s)) = Len(s)
  BY SortedType DEF Base
<1>3. Skips(p) \in Nat /\ Until(p, n) \in Nat
  BY <1>1 DEF Skips, Until
<1> QED BY <1>1, <1>2, <1>3

LEMMA CutFacts ==
  ASSUME NEW p \in ClientPipe, Cuts(p), NEW s \in Seq(Row)
  PROVE  Apply(p, s) = {Cut(p, s)} /\ Cut(p, s) \in Seq(Row) /\ Len(Cut(p, s)) <= Len(s)
<1> DEFINE e == Until(p, Len(s))
           t == Base(p, s)
<1>1. /\ t \in Seq(Row) /\ Len(t) = Len(s) /\ Len(s) \in Nat
      /\ p.off \in Nat /\ p.lim \in Nat /\ Skips(p) \in Nat /\ e \in Nat
  <2>1. Len(s) \in Nat
    OBVIOUS
  <2> QED BY <2>1, CutTypes
<1>2. Cut(p, s) \in Seq(Row) /\ Len(Cut(p, s)) <= Len(s)
  <2> HIDE DEF e, t
  <2>1. Cut(p, s) = Window(t, Skips(p), e)
    BY DEF Cut, e, t
  <2>2. Window(t, Skips(p), e) \in Seq(Row) /\ Len(Window(t, Skips(p), e)) <= Len(t)
    BY <1>1, WindowType
  <2> QED BY <1>1, <2>1, <2>2
<1>3. Cut(p, s) = SubSeq(t, Skips(p) + 1, Lower(e, Len(s)))
  BY <1>1 DEF Cut, Window
<1>4. CASE p.op = "limit"
  <2>1. Apply(p, s) = {SubSeq(s, 1, Lower(p.lim, Len(s)))}
    BY <1>4 DEF Apply, IsSort
  <2>2. 0 + 1 = 1 /\ Skips(p) = 0 /\ e = p.lim /\ t = s
    BY <1>4 DEF Skips, Until, Base, IsSort
  <2> HIDE DEF t, e
  <2> QED BY <1>2, <1>3, <2>1, <2>2
<1>5. CASE p.op = "offset"
  <2>1. Apply(p, s) = {SubSeq(s, p.off + 1, Len(s))}
    BY <1>5 DEF Apply, IsSort
  <2>2. Lower(e, Len(s)) = Len(s) /\ Skips(p) = p.off /\ t = s
    BY <1>5 DEF Skips, Until, Base, IsSort, Lower
  <2> HIDE DEF t, e
  <2> QED BY <1>2, <1>3, <2>1, <2>2
<1>6. CASE IsSort(p)
  <2>1. Apply(p, s) = {SortRows(p, s)}
    BY <1>6 DEF Apply, IsSort
  <2>2. Skips(p) = p.off /\ t = Sorted(p.op, s)
    BY <1>6 DEF Skips, Base, IsSort
  <2>3. Lower(e, Len(s)) = IF p.lim = 0 THEN Len(s) ELSE Lower(p.off + p.lim, Len(s))
    BY <1>1, <1>6 DEF Lower, Until, IsSort
  <2>4. SortRows(p, s) = SubSeq(t, Skips(p) + 1, Lower(e, Len(s)))
    BY <2>2, <2>3 DEF SortRows
  <2> HIDE DEF t, e
  <2> QED BY <1>2, <1>3, <2>1, <2>4
<1> QED BY <1>4, <1>5, <1>6 DEF Cuts, IsSort

\* The number of rows that came in may be overestimated.
LEMMA CutOfMore ==
  ASSUME NEW p \in ClientPipe, NEW s \in Seq(Row), NEW n \in Nat, Len(s) <= n
  PROVE  Cut(p, s) = Window(Base(p, s), Skips(p), Until(p, n))
<1> DEFINE t == Base(p, s)
           b == Until(p, Len(s))
           d == Until(p, n)
<1>1. t \in Seq(Row) /\ Len(t) = Len(s) /\ Len(s) \in Nat /\ Skips(p) \in Nat /\ d \in Nat
  BY CutTypes
<1>2. b \in Nat
  BY <1>1, CutTypes
<1>3. Lower(b, Len(t)) = Lower(d, Len(t))
  BY <1>1, <1>2 DEF Lower, Until
<1>4. Cut(p, s) = Window(t, Skips(p), b)
  BY DEF Cut
<1> HIDE DEF t, b, d
<1>5. Window(t, Skips(p), b) = Window(t, Skips(p), d)
  BY <1>1, <1>2, <1>3, EqualWindows
<1> QED BY <1>4, <1>5 DEF t, d

\* Cutting what was cut.
LEMMA CutOfCut ==
  ASSUME NEW a \in ClientPipe, Cuts(a), NEW b \in ClientPipe, Cuts(b), ~ IsSort(b), NEW s \in Seq(Row)
  PROVE  Cut(b, Cut(a, s)) = Window(Base(a, s), Skips(a) + Skips(b),
                                    Lower(Skips(a) + Until(b, Len(s)), Until(a, Len(s))))
<1> DEFINE v == Cut(a, s)
           t == Base(a, s)
           n == Len(s)
<1>1. v \in Seq(Row) /\ Len(v) <= n /\ n \in Nat
  BY CutFacts
<1>2. t \in Seq(Row) /\ Skips(a) \in Nat /\ Skips(b) \in Nat /\ Until(a, n) \in Nat /\ Until(b, n) \in Nat
  BY <1>1, CutTypes
<1>3. v = Window(t, Skips(a), Until(a, n))
  BY DEF Cut
<1> HIDE DEF v, t, n
<1>4. Cut(b, v) = Window(Base(b, v), Skips(b), Until(b, n))
  BY <1>1, CutOfMore
<1>5. Base(b, v) = v
  BY DEF Base
<1>6. Window(Window(t, Skips(a), Until(a, n)), Skips(b), Until(b, n))
        = Window(t, Skips(a) + Skips(b), Lower(Skips(a) + Until(b, n), Until(a, n)))
  BY <1>2, WindowOfWindow
<1> QED BY <1>3, <1>4, <1>5, <1>6 DEF v, t, n

\* Pipe c cuts out of n rows what a and then b cut.
Merges(a, b, c, n) ==
  LET e == Lower(Skips(a) + Until(b, n), Until(a, n))
  IN  \/ /\ (IsSort(a) <=> IsSort(c)) /\ (IsSort(a) => c.op = a.op)
         /\ Skips(a) + Skips(b) = Skips(c)
         /\ Lower(e, n) = Lower(Until(c, n), n)
      \/ Lower(e, n) <= Skips(a) + Skips(b) /\ Lower(Until(c, n), n) <= Skips(c)

LEMMA MergedCut ==
  ASSUME NEW a \in ClientPipe, Cuts(a), NEW b \in ClientPipe, Cuts(b), ~ IsSort(b),
         NEW c \in ClientPipe, Cuts(c), NEW s \in Seq(Row), Merges(a, b, c, Len(s))
  PROVE  Cut(b, Cut(a, s)) = Cut(c, s)
<1> DEFINE n == Len(s)
           e == Lower(Skips(a) + Until(b, n), Until(a, n))
           t == Base(a, s)
           r == Base(c, s)
           x == Skips(a) + Skips(b)
<1>1. n \in Nat /\ t \in Seq(Row) /\ Len(t) = n /\ r \in Seq(Row) /\ Len(r) = n
  <2>1. n \in Nat
    OBVIOUS
  <2> QED BY <2>1, CutTypes
<1>2. Skips(a) \in Nat /\ Skips(b) \in Nat /\ Until(a, n) \in Nat /\ Until(b, n) \in Nat
  BY <1>1, CutTypes
<1>3. Skips(c) \in Nat /\ Until(c, n) \in Nat
  BY <1>1, CutTypes
<1>4. e \in Nat /\ x \in Nat
  BY <1>2 DEF Lower
<1>5. Cut(b, Cut(a, s)) = Window(t, x, e)
  BY CutOfCut
<1>6. Cut(c, s) = Window(r, Skips(c), Until(c, n))
  BY DEF Cut
<1>7. \/ r = t /\ x = Skips(c) /\ Lower(e, n) = Lower(Until(c, n), n)
      \/ Lower(e, n) <= x /\ Lower(Until(c, n), n) <= Skips(c)
  BY DEF Merges, Base
<1> HIDE DEF n, e, t, r, x
<1>8. Window(t, x, e) = Window(r, Skips(c), Until(c, n))
  BY <1>1, <1>3, <1>4, <1>7, EqualWindows
<1> QED BY <1>5, <1>6, <1>8

\* Both pipes give one output for every input.
LEMMA OutputsOfTwo ==
  ASSUME NEW a \in ClientPipe, Cuts(a), NEW b \in ClientPipe, Cuts(b), NEW S \in Inputs
  PROVE  /\ Outputs(a, S) = {Cut(a, s) : s \in S}
         /\ Outputs(b, Outputs(a, S)) = {Cut(b, Cut(a, s)) : s \in S}
<1>1. \A s \in S : s \in Seq(Row)
  BY DEF Inputs
<1>2. Outputs(a, S) = UNION {Apply(a, s) : s \in S}
  BY DEF Outputs
<1>3. \A s \in S : Apply(a, s) = {Cut(a, s)} /\ Cut(a, s) \in Seq(Row)
  BY <1>1, CutFacts
<1>4. Outputs(a, S) = {Cut(a, s) : s \in S}
  BY <1>2, <1>3
<1>5. \A s \in S : Apply(b, Cut(a, s)) = {Cut(b, Cut(a, s))}
  BY <1>3, CutFacts
<1>6. Outputs(b, Outputs(a, S)) = UNION {Apply(b, v) : v \in Outputs(a, S)}
  BY DEF Outputs
<1>7. Outputs(b, Outputs(a, S)) = {Cut(b, Cut(a, s)) : s \in S}
  BY <1>4, <1>5, <1>6
<1> QED BY <1>4, <1>7

LEMMA MergedPipes ==
  ASSUME NEW a \in ClientPipe, Cuts(a), NEW b \in ClientPipe, Cuts(b), ~ IsSort(b),
         NEW c \in ClientPipe, Cuts(c), \A n \in Nat : Merges(a, b, c, n), NEW S \in Inputs
  PROVE  Through(<<c>>, S) = Through(<<a, b>>, S)
<1>1. a \in LocalPipe /\ b \in LocalPipe /\ c \in LocalPipe
  BY DEF LocalPipe
<1>2. Through(<<c>>, S) = Outputs(c, S) /\ Through(<<a, b>>, S) = Outputs(b, Outputs(a, S))
  BY <1>1, ThroughOne, ThroughTwo
<1>3. Outputs(c, S) = {Cut(c, s) : s \in S} /\ Outputs(b, Outputs(a, S)) = {Cut(b, Cut(a, s)) : s \in S}
  BY OutputsOfTwo
<1>4. \A s \in S : Cut(b, Cut(a, s)) = Cut(c, s)
  <2> SUFFICES ASSUME NEW s \in S PROVE Cut(b, Cut(a, s)) = Cut(c, s)
    OBVIOUS
  <2>1. s \in Seq(Row)
    BY DEF Inputs
  <2>2. Merges(a, b, c, Len(s))
    BY <2>1
  <2> QED BY <2>1, <2>2, MergedCut
<1>5. {Cut(c, s) : s \in S} = {Cut(b, Cut(a, s)) : s \in S}
  BY <1>4
<1> QED BY <1>2, <1>3, <1>5

-----------------------------------------------------------------------------
(* The rewriting of neighbours *)

LEMMA NewPipes ==
  ASSUME NEW x \in Nat
  PROVE  /\ Limit(x) \in ClientPipe /\ Cuts(Limit(x)) /\ ~ IsSort(Limit(x)) /\ Skips(Limit(x)) = 0
         /\ \A n \in Nat : Until(Limit(x), n) = x
         /\ Offset(x) \in ClientPipe /\ Cuts(Offset(x)) /\ ~ IsSort(Offset(x)) /\ Skips(Offset(x)) = x
         /\ \A n \in Nat : Until(Offset(x), n) = n
BY DEF Limit, Offset, ClientPipe, Cuts, IsSort, Skips, Until

LEMMA ChangedPipe ==
  ASSUME NEW p \in ClientPipe, NEW x, NEW y
  PROVE  [p EXCEPT !.off = x, !.lim = y] = [op |-> p.op, off |-> x, lim |-> y]
<1> DEFINE q == [p EXCEPT !.off = x]
<1>1. p = [op |-> p.op, off |-> p.off, lim |-> p.lim]
  BY DEF ClientPipe
<1>2. q = [op |-> p.op, off |-> x, lim |-> p.lim]
  BY <1>1
<1>3. [p EXCEPT !.off = x, !.lim = y] = [q EXCEPT !.lim = y]
  OBVIOUS
<1> HIDE DEF q
<1>4. [q EXCEPT !.lim = y] = [op |-> p.op, off |-> x, lim |-> y]
  BY <1>2
<1> QED BY <1>3, <1>4

LEMMA PairTypes ==
  ASSUME NEW a \in ClientPipe
  PROVE  /\ a.off \in Nat /\ a.lim \in Nat
         /\ a.op = "limit" => Cuts(a) /\ ~ IsSort(a) /\ Skips(a) = 0 /\ \A n \in Nat : Until(a, n) = a.lim
         /\ a.op = "offset" => Cuts(a) /\ ~ IsSort(a) /\ Skips(a) = a.off /\ \A n \in Nat : Until(a, n) = n
         /\ IsSort(a) => /\ Cuts(a) /\ Skips(a) = a.off
                         /\ \A n \in Nat : Until(a, n) = IF a.lim = 0 THEN n ELSE a.off + a.lim
BY DEF ClientPipe, Cuts, IsSort, Skips, Until

\* A replacement of a pair has at least one pipe and the same outputs.
Fits(ps, a, b) ==
  ps \in Seq(ClientPipe) /\ ps # <<>> /\ \A S \in Inputs : Through(ps, S) = Through(<<a, b>>, S)

LEMMA OnePipeFits ==
  ASSUME NEW a \in ClientPipe, Cuts(a), NEW b \in ClientPipe, Cuts(b), ~ IsSort(b),
         NEW c \in ClientPipe, Cuts(c), \A n \in Nat : Merges(a, b, c, n)
  PROVE  Fits(<<c>>, a, b)
<1>1. \A S \in Inputs : Through(<<c>>, S) = Through(<<a, b>>, S)
  BY MergedPipes
<1>2. <<c>> \in Seq(ClientPipe) /\ <<c>> # <<>>
  OBVIOUS
<1> QED BY <1>1, <1>2 DEF Fits

LEMMA SamePairFits ==
  ASSUME NEW a \in ClientPipe, NEW b \in ClientPipe
  PROVE  Fits(<<a, b>>, a, b)
<1>1. <<a, b>> \in Seq(ClientPipe) /\ <<a, b>> # <<>>
  OBVIOUS
<1> QED BY <1>1 DEF Fits

\* 'offset X | limit Y' is 'limit X+Y | offset X'.
LEMMA SwapFits ==
  ASSUME NEW a \in ClientPipe, NEW b \in ClientPipe
  PROVE  Fits(SwapOffsetLimit(a, b), a, b)
<1>1. CASE a.op = "offset" /\ b.op = "limit"
  <2> DEFINE c == Limit(a.off + b.lim)
  <2>1. a.off \in Nat /\ b.lim \in Nat /\ a.off + b.lim \in Nat
    BY PairTypes
  <2>2. c \in ClientPipe /\ Cuts(c) /\ ~ IsSort(c) /\ Skips(c) = 0 /\ \A n \in Nat : Until(c, n) = a.off + b.lim
    BY <2>1, NewPipes
  <2> HIDE DEF c
  <2>3. Cuts(a) /\ ~ IsSort(a) /\ Skips(a) = a.off /\ \A n \in Nat : Until(a, n) = n
    BY <1>1, PairTypes
  <2>4. Cuts(b) /\ ~ IsSort(b) /\ Skips(b) = 0 /\ \A n \in Nat : Until(b, n) = b.lim
    BY <1>1, PairTypes
  <2>5. ASSUME NEW s \in Seq(Row) PROVE Cut(b, Cut(a, s)) = Cut(a, Cut(c, s))
    <3> DEFINE n == Len(s)
               x == a.off + 0
               d == Lower(a.off + b.lim, n)
               e == Lower(0 + n, a.off + b.lim)
    <3>1. n \in Nat /\ Base(a, s) = s /\ Base(c, s) = s
      BY <2>2, <2>3 DEF Base
    <3>2. Cut(b, Cut(a, s)) = Window(s, Skips(a) + Skips(b), Lower(Skips(a) + Until(b, n), Until(a, n)))
      BY <2>3, <2>4, <3>1, CutOfCut
    <3>3. Cut(a, Cut(c, s)) = Window(s, Skips(c) + Skips(a), Lower(Skips(c) + Until(a, n), Until(c, n)))
      BY <2>2, <2>3, <3>1, CutOfCut
    <3>4. Cut(b, Cut(a, s)) = Window(s, a.off + 0, d)
      BY <2>3, <2>4, <3>1, <3>2
    <3>5. Cut(a, Cut(c, s)) = Window(s, 0 + a.off, e)
      BY <2>2, <2>3, <3>1, <3>3
    <3>6. d = e /\ a.off + 0 = 0 + a.off
      BY <2>1, <3>1 DEF Lower
    <3> QED BY <3>4, <3>5, <3>6
  <2>6. ASSUME NEW S \in Inputs PROVE Through(<<c, a>>, S) = Through(<<a, b>>, S)
    <3>1. a \in LocalPipe /\ b \in LocalPipe /\ c \in LocalPipe
      BY <2>2 DEF LocalPipe
    <3>2. Through(<<c, a>>, S) = Outputs(a, Outputs(c, S)) /\ Through(<<a, b>>, S) = Outputs(b, Outputs(a, S))
      BY <3>1, ThroughTwo
    <3>3. /\ Outputs(a, Outputs(c, S)) = {Cut(a, Cut(c, s)) : s \in S}
          /\ Outputs(b, Outputs(a, S)) = {Cut(b, Cut(a, s)) : s \in S}
      BY <2>2, <2>3, <2>4, OutputsOfTwo
    <3>4. \A s \in S : s \in Seq(Row)
      BY DEF Inputs
    <3>5. \A s \in S : Cut(b, Cut(a, s)) = Cut(a, Cut(c, s))
      BY <2>5, <3>4
    <3> QED BY <3>2, <3>3, <3>5
  <2>7. SwapOffsetLimit(a, b) = <<c, a>>
    BY <1>1 DEF SwapOffsetLimit, c
  <2>8. <<c, a>> \in Seq(ClientPipe) /\ <<c, a>> # <<>>
    BY <2>2
  <2> QED BY <2>6, <2>7, <2>8 DEF Fits
<1>2. CASE ~ (a.op = "offset" /\ b.op = "limit")
  BY <1>2, SamePairFits DEF SwapOffsetLimit
<1> QED BY <1>1, <1>2

LEMMA MergeOffsetsFits ==
  ASSUME NEW a \in ClientPipe, NEW b \in ClientPipe
  PROVE  Fits(MergeOffsets(a, b), a, b)
<1>1. CASE a.op = "offset" /\ b.op = "offset"
  <2> DEFINE x == a.off + b.off
             c == Offset(x)
  <2>1. a.off \in Nat /\ b.off \in Nat /\ x \in Nat
    BY PairTypes
  <2>2. c \in ClientPipe /\ Cuts(c) /\ ~ IsSort(c) /\ Skips(c) = x /\ \A n \in Nat : Until(c, n) = n
    BY <2>1, NewPipes
  <2> HIDE DEF c
  <2>3. Cuts(a) /\ ~ IsSort(a) /\ Skips(a) = a.off /\ \A n \in Nat : Until(a, n) = n
    BY <1>1, PairTypes
  <2>4. Cuts(b) /\ ~ IsSort(b) /\ Skips(b) = b.off /\ \A n \in Nat : Until(b, n) = n
    BY <1>1, PairTypes
  <2>5. \A n \in Nat : Merges(a, b, c, n)
    BY <2>1, <2>2, <2>3, <2>4 DEF Merges, Lower
  <2>6. Fits(<<c>>, a, b)
    BY <2>2, <2>3, <2>4, <2>5, OnePipeFits
  <2>7. MergeOffsets(a, b) = <<c>>
    BY <1>1 DEF MergeOffsets, c
  <2> QED BY <2>6, <2>7
<1>2. CASE ~ (a.op = "offset" /\ b.op = "offset")
  BY <1>2, SamePairFits DEF MergeOffsets
<1> QED BY <1>1, <1>2

LEMMA MergeLimitsFits ==
  ASSUME NEW a \in ClientPipe, NEW b \in ClientPipe
  PROVE  Fits(MergeLimits(a, b), a, b)
<1>1. CASE a.op = "limit" /\ b.op = "limit"
  <2> DEFINE x == Lower(a.lim, b.lim)
             c == Limit(x)
  <2>1. a.lim \in Nat /\ b.lim \in Nat /\ x \in Nat
    BY PairTypes DEF Lower
  <2>2. c \in ClientPipe /\ Cuts(c) /\ ~ IsSort(c) /\ Skips(c) = 0 /\ \A n \in Nat : Until(c, n) = x
    BY <2>1, NewPipes
  <2> HIDE DEF c
  <2>3. Cuts(a) /\ ~ IsSort(a) /\ Skips(a) = 0 /\ \A n \in Nat : Until(a, n) = a.lim
    BY <1>1, PairTypes
  <2>4. Cuts(b) /\ ~ IsSort(b) /\ Skips(b) = 0 /\ \A n \in Nat : Until(b, n) = b.lim
    BY <1>1, PairTypes
  <2>5. \A n \in Nat : Merges(a, b, c, n)
    BY <2>1, <2>2, <2>3, <2>4 DEF Merges, Lower
  <2>6. Fits(<<c>>, a, b)
    BY <2>2, <2>3, <2>4, <2>5, OnePipeFits
  <2>7. MergeLimits(a, b) = <<c>>
    BY <1>1 DEF MergeLimits, c
  <2> QED BY <2>6, <2>7
<1>2. CASE ~ (a.op = "limit" /\ b.op = "limit")
  BY <1>2, SamePairFits DEF MergeLimits
<1> QED BY <1>1, <1>2

\* 'limit X | offset Y' is 'limit 0' when Y >= X.
LEMMA DropLimitOffsetFits ==
  ASSUME NEW a \in ClientPipe, NEW b \in ClientPipe
  PROVE  Fits(DropLimitOffset(a, b), a, b)
<1>1. CASE a.op = "limit" /\ b.op = "offset" /\ b.off >= a.lim
  <2> DEFINE c == Limit(0)
  <2>1. a.lim \in Nat /\ b.off \in Nat
    BY PairTypes
  <2>2. c \in ClientPipe /\ Cuts(c) /\ ~ IsSort(c) /\ Skips(c) = 0 /\ \A n \in Nat : Until(c, n) = 0
    BY NewPipes
  <2> HIDE DEF c
  <2>3. Cuts(a) /\ ~ IsSort(a) /\ Skips(a) = 0 /\ \A n \in Nat : Until(a, n) = a.lim
    BY <1>1, PairTypes
  <2>4. Cuts(b) /\ ~ IsSort(b) /\ Skips(b) = b.off /\ \A n \in Nat : Until(b, n) = n
    BY <1>1, PairTypes
  <2>5. \A n \in Nat : Merges(a, b, c, n)
    BY <1>1, <2>1, <2>2, <2>3, <2>4 DEF Merges, Lower
  <2>6. Fits(<<c>>, a, b)
    BY <2>2, <2>3, <2>4, <2>5, OnePipeFits
  <2>7. DropLimitOffset(a, b) = <<c>>
    BY <1>1 DEF DropLimitOffset, c
  <2> QED BY <2>6, <2>7
<1>2. CASE ~ (a.op = "limit" /\ b.op = "offset" /\ b.off >= a.lim)
  BY <1>2, SamePairFits DEF DropLimitOffset
<1> QED BY <1>1, <1>2

\* An offset after a sort becomes an offset of the sort.
LEMMA MergeSortOffsetFits ==
  ASSUME NEW a \in ClientPipe, NEW b \in ClientPipe
  PROVE  Fits(MergeSortOffset(a, b), a, b)
<1>1. CASE IsSort(a) /\ b.op = "offset"
  <2>1. a.off \in Nat /\ a.lim \in Nat /\ b.off \in Nat
    BY PairTypes
  <2>2. Cuts(a) /\ Skips(a) = a.off /\ \A n \in Nat : Until(a, n) = IF a.lim = 0 THEN n ELSE a.off + a.lim
    BY <1>1, PairTypes
  <2>3. Cuts(b) /\ ~ IsSort(b) /\ Skips(b) = b.off /\ \A n \in Nat : Until(b, n) = n
    BY <1>1, PairTypes
  <2>4. CASE a.lim > 0 /\ b.off >= a.lim
    <3> DEFINE c == Limit(0)
    <3>1. c \in ClientPipe /\ Cuts(c) /\ ~ IsSort(c) /\ Skips(c) = 0 /\ \A n \in Nat : Until(c, n) = 0
      BY NewPipes
    <3> HIDE DEF c
    <3>2. \A n \in Nat : Merges(a, b, c, n)
      BY <2>1, <2>2, <2>3, <2>4, <3>1 DEF Merges, Lower
    <3>3. Fits(<<c>>, a, b)
      BY <2>2, <2>3, <3>1, <3>2, OnePipeFits
    <3>4. MergeSortOffset(a, b) = <<c>>
      BY <1>1, <2>4 DEF MergeSortOffset, c
    <3> QED BY <3>3, <3>4
  <2>5. CASE ~ (a.lim > 0 /\ b.off >= a.lim)
    <3> DEFINE l == IF a.lim > 0 THEN a.lim - b.off ELSE 0
               c == [a EXCEPT !.off = @ + b.off, !.lim = IF a.lim > 0 THEN @ - b.off ELSE 0]
    <3>1. a.off + b.off \in Nat /\ l \in Nat /\ (l = 0 <=> a.lim = 0)
      BY <2>1, <2>5
    <3>2. c = [op |-> a.op, off |-> a.off + b.off, lim |-> l]
      <4> DEFINE x == a.off + b.off
                 y == IF a.lim > 0 THEN a.lim - b.off ELSE 0
      <4>2. c = [a EXCEPT !.off = x, !.lim = y] /\ l = y
        OBVIOUS
      <4> HIDE DEF c, l, x, y
      <4>3. [a EXCEPT !.off = x, !.lim = y] = [op |-> a.op, off |-> x, lim |-> y]
        BY ChangedPipe
      <4> QED BY <4>2, <4>3 DEF x
    <3>3. c \in ClientPipe /\ c.op = a.op /\ c.off = a.off + b.off /\ c.lim = l
      BY <3>1, <3>2 DEF ClientPipe
    <3>4. MergeSortOffset(a, b) = <<c>>
      BY <1>1, <2>5 DEF MergeSortOffset
    <3> HIDE DEF c
    <3>5. IsSort(c)
      BY <1>1, <3>3 DEF IsSort
    <3>6. Cuts(c) /\ Skips(c) = c.off /\ \A n \in Nat : Until(c, n) = IF c.lim = 0 THEN n ELSE c.off + c.lim
      BY <3>3, <3>5, PairTypes
    <3>7. \A n \in Nat : Merges(a, b, c, n)
      BY <1>1, <2>1, <2>2, <2>3, <2>5, <3>1, <3>3, <3>5, <3>6 DEF Merges, Lower
    <3>8. Fits(<<c>>, a, b)
      BY <2>2, <2>3, <3>3, <3>6, <3>7, OnePipeFits
    <3> QED BY <3>4, <3>8
  <2> QED BY <2>4, <2>5
<1>2. CASE ~ (IsSort(a) /\ b.op = "offset")
  BY <1>2, SamePairFits DEF MergeSortOffset
<1> QED BY <1>1, <1>2

\* A limit after a sort becomes the limit of the sort.
LEMMA MergeSortLimitFits ==
  ASSUME NEW a \in ClientPipe, NEW b \in ClientPipe
  PROVE  Fits(MergeSortLimit(a, b), a, b)
<1>1. CASE IsSort(a) /\ b.op = "limit"
  <2>1. a.off \in Nat /\ a.lim \in Nat /\ b.lim \in Nat
    BY PairTypes
  <2>2. Cuts(a) /\ Skips(a) = a.off /\ \A n \in Nat : Until(a, n) = IF a.lim = 0 THEN n ELSE a.off + a.lim
    BY <1>1, PairTypes
  <2>3. Cuts(b) /\ ~ IsSort(b) /\ Skips(b) = 0 /\ \A n \in Nat : Until(b, n) = b.lim
    BY <1>1, PairTypes
  <2>4. CASE b.lim = 0
    <3>1. \A n \in Nat : Merges(a, b, b, n)
      BY <2>1, <2>2, <2>3, <2>4 DEF Merges, Lower
    <3>2. Fits(<<b>>, a, b)
      BY <2>2, <2>3, <3>1, OnePipeFits
    <3>3. MergeSortLimit(a, b) = <<b>>
      BY <1>1, <2>4 DEF MergeSortLimit
    <3> QED BY <3>2, <3>3
  <2>5. CASE b.lim # 0
    <3> DEFINE l == IF a.lim = 0 THEN b.lim ELSE Lower(a.lim, b.lim)
               c == [a EXCEPT !.lim = IF @ = 0 THEN b.lim ELSE Lower(@, b.lim)]
    <3>1. l \in Nat /\ l # 0
      BY <2>1, <2>5 DEF Lower
    <3>2. c = [op |-> a.op, off |-> a.off, lim |-> l]
      BY DEF ClientPipe
    <3>3. c \in ClientPipe /\ c.op = a.op /\ c.off = a.off /\ c.lim = l
      BY <2>1, <3>1, <3>2 DEF ClientPipe
    <3>4. MergeSortLimit(a, b) = <<c>>
      BY <1>1, <2>5 DEF MergeSortLimit
    <3> HIDE DEF c
    <3>5. IsSort(c)
      BY <1>1, <3>3 DEF IsSort
    <3>6. Cuts(c) /\ Skips(c) = c.off /\ \A n \in Nat : Until(c, n) = IF c.lim = 0 THEN n ELSE c.off + c.lim
      BY <3>3, <3>5, PairTypes
    <3>7. \A n \in Nat : Merges(a, b, c, n)
      BY <1>1, <2>1, <2>2, <2>3, <2>5, <3>1, <3>3, <3>5, <3>6 DEF Merges, Lower
    <3>8. Fits(<<c>>, a, b)
      BY <2>2, <2>3, <3>3, <3>6, <3>7, OnePipeFits
    <3> QED BY <3>4, <3>8
  <2> QED BY <2>4, <2>5
<1>2. CASE ~ (IsSort(a) /\ b.op = "limit")
  BY <1>2, SamePairFits DEF MergeSortLimit
<1> QED BY <1>1, <1>2

Rules == {"swap", "offsets", "limits", "drop", "sort_offset", "sort_limit"}

LEMMA ReplacementFits ==
  ASSUME NEW loop \in Rules, NEW a \in ClientPipe, NEW b \in ClientPipe
  PROVE  Fits(Replacement(loop, a, b), a, b)
<1>1. Replacement("swap", a, b) = SwapOffsetLimit(a, b)
  BY DEF Replacement
<1>2. Replacement("offsets", a, b) = MergeOffsets(a, b)
  BY DEF Replacement
<1>3. Replacement("limits", a, b) = MergeLimits(a, b)
  BY DEF Replacement
<1>4. Replacement("drop", a, b) = DropLimitOffset(a, b)
  BY DEF Replacement
<1>5. Replacement("sort_offset", a, b) = MergeSortOffset(a, b)
  BY DEF Replacement
<1>6. Replacement("sort_limit", a, b) = MergeSortLimit(a, b)
  BY DEF Replacement
<1> QED BY <1>1, <1>2, <1>3, <1>4, <1>5, <1>6, SwapFits, MergeOffsetsFits, MergeLimitsFits,
           DropLimitOffsetFits, MergeSortOffsetFits, MergeSortLimitFits DEF Rules

-----------------------------------------------------------------------------
(* The optimizer *)

LEMMA FrontAndLast ==
  ASSUME NEW S, NEW s \in Seq(S), s # <<>>
  PROVE  Front(s) \in Seq(S) /\ Last(s) \in S /\ s = Front(s) \o <<Last(s)>>
<1>1. Len(s) \in Nat /\ Len(s) > 0
  BY EmptySeq
<1>2. Last(s) \in S
  BY <1>1 DEF Last
<1>3. 0 + 1 = 1 /\ Len(s) - 1 \in Int /\ Len(s) - 1 <= Len(s) /\ 0 \in Nat
  BY <1>1
<1> DEFINE k == Len(s) - 1
           f == SubSeq(s, 0 + 1, k)
           l == Last(s)
<1>4. f \in Seq(S) /\ Len(f) = (IF 0 < k THEN k - 0 ELSE 0) /\ \A i \in 1..(k - 0) : f[i] = s[0 + i]
  <2> HIDE DEF k
  <2> QED BY <1>3, PartOfSeq DEF k
<1>5. Front(s) = f /\ Len(f) = k /\ \A i \in 1..k : f[i] = s[i]
  <2>1. k \in Nat
    BY <1>1
  <2>2. Front(s) = f
    BY <1>3 DEF Front
  <2> HIDE DEF f, k
  <2>3. k - 0 = k /\ (IF 0 < k THEN k - 0 ELSE 0) = k /\ \A i \in 1..k : 0 + i = i
    BY <2>1
  <2> QED BY <1>4, <2>2, <2>3
<1>6. k \in Nat /\ Len(s) = k + 1 /\ s[k + 1] = l
  BY <1>1 DEF Last
<1> HIDE DEF f, k, l
<1> DEFINE t == f \o <<l>>
<1>7. <<l>> \in Seq(S) /\ Len(<<l>>) = 1 /\ <<l>>[1] = l
  BY <1>2 DEF l
<1>8. t \in Seq(S) /\ Len(t) = k + 1 /\ \A i \in 1..(k + 1) : t[i] = IF i <= k THEN f[i] ELSE <<l>>[i - k]
  BY <1>4, <1>5, <1>6, <1>7, ConcatProperties
<1> HIDE DEF t
<1>9. \A i \in 1..(k + 1) : t[i] = s[i]
  <2> SUFFICES ASSUME NEW i \in 1..(k + 1) PROVE t[i] = s[i]
    OBVIOUS
  <2>1. CASE i <= k
    BY <1>5, <1>6, <1>8, <2>1
  <2>2. CASE ~ (i <= k)
    <3>1. i = k + 1 /\ i - k = 1
      BY <1>6, <2>2
    <3> QED BY <1>6, <1>7, <1>8, <2>2, <3>1
  <2> QED BY <2>1, <2>2
<1>10. s = t
  BY <1>6, <1>8, <1>9, SeqEqual
<1> QED BY <1>2, <1>4, <1>5, <1>10 DEF l, t

\* The loops of the optimizer, and of what follows it.
Loops == Rules \cup {"uniq_limit"}

LEMMA ReplacementType ==
  ASSUME NEW loop \in Loops, NEW a \in ClientPipe, NEW b \in ClientPipe
  PROVE  Replacement(loop, a, b) \in Seq(ClientPipe)
<1>1. CASE loop \in Rules
  BY <1>1, ReplacementFits DEF Fits
<1>2. CASE loop = "uniq_limit"
  <2>1. Replacement(loop, a, b) = MergeUniqLimit(a, b)
    BY <1>2 DEF Replacement
  <2> DEFINE l == IF a.lim = 0 THEN b.lim ELSE Lower(a.lim, b.lim)
             c == [a EXCEPT !.lim = IF a.lim = 0 THEN b.lim ELSE Lower(a.lim, b.lim)]
  <2>2. l \in Nat
    BY PairTypes DEF Lower
  <2>3. c = [a EXCEPT !.lim = l]
    OBVIOUS
  <2> HIDE DEF l
  <2>4. c \in ClientPipe
    BY <2>2, <2>3 DEF ClientPipe
  <2>5. MergeUniqLimit(a, b) = <<a, b>> \/ MergeUniqLimit(a, b) = <<c>>
    BY DEF MergeUniqLimit
  <2> HIDE DEF c
  <2>6. <<a, b>> \in Seq(ClientPipe) /\ <<c>> \in Seq(ClientPipe)
    BY <2>4
  <2> QED BY <2>1, <2>5, <2>6
<1> QED BY <1>1, <1>2 DEF Loops

\* Every step replaces the last pipe and the next one.
LEMMA RewriteLoop ==
  ASSUME NEW loop \in Loops, NEW ps \in Seq(ClientPipe)
  PROVE  \E f : /\ Rewrite(loop, ps) = f[Len(ps)] /\ f[0] = <<>>
                /\ \A i \in 1..Len(ps) : f[i] = IF f[i - 1] = <<>> THEN <<ps[i]>> ELSE Front(f[i - 1]) \o Replacement(loop, Last(f[i - 1]), ps[i])
                /\ \A i \in 0..Len(ps) : f[i] \in Seq(ClientPipe)
<1> DEFINE n == Len(ps)
           E(t, i) == IF t = <<>> THEN <<ps[i]>> ELSE Front(t) \o Replacement(loop, Last(t), ps[i])
           Def(g) == g = [i \in 0..n |-> IF i = 0 THEN <<>> ELSE E(g[i - 1], i)]
           f == CHOOSE g : Def(g)
           step == [i \in 1..n |-> [t \in Seq(ClientPipe) |-> E(t, i)]]
<1>1. Rewrite(loop, ps) = f[n]
  BY DEF Rewrite
<1>2. n \in Nat /\ <<>> \in Seq(ClientPipe)
  OBVIOUS
<1>3. \A i \in 1..n : \A t \in Seq(ClientPipe) : E(t, i) \in Seq(ClientPipe)
  <2> SUFFICES ASSUME NEW i \in 1..n, NEW t \in Seq(ClientPipe) PROVE E(t, i) \in Seq(ClientPipe)
    OBVIOUS
  <2>1. ps[i] \in ClientPipe
    OBVIOUS
  <2>2. <<ps[i]>> \in Seq(ClientPipe)
    BY <2>1
  <2>3. t # <<>> => Front(t) \in Seq(ClientPipe) /\ Replacement(loop, Last(t), ps[i]) \in Seq(ClientPipe)
    BY <2>1, FrontAndLast, ReplacementType
  <2>4. t # <<>> => Front(t) \o Replacement(loop, Last(t), ps[i]) \in Seq(ClientPipe)
    BY <2>3, ConcatProperties
  <2> QED BY <2>2, <2>4
<1> HIDE DEF E, n
<1>4. step \in [1..n -> [Seq(ClientPipe) -> Seq(ClientPipe)]]
  BY <1>3
<1>5. PICK g : IsLoop(g, n, Seq(ClientPipe), <<>>, step)
  <2> HIDE DEF step, Def, f
  <2> QED BY <1>2, <1>4, LoopExists
<1>6. Def(g)
  <2>1. g = [i \in 0..n |-> g[i]]
    BY <1>5 DEF IsLoop
  <2>2. \A i \in 0..n : i # 0 => i \in 1..n /\ i - 1 \in 0..n
    BY <1>2
  <2>3. \A i \in 0..n : g[i] = IF i = 0 THEN <<>> ELSE E(g[i - 1], i)
    BY <1>5, <2>2 DEF IsLoop
  <2> QED BY <2>1, <2>3
<1>7. Def(f)
  <2> HIDE DEF Def
  <2> QED BY <1>6
<1>8. f[0] = <<>> /\ \A i \in 1..n : f[i] = E(f[i - 1], i)
  <2>1. 0 \in 0..n /\ \A i \in 1..n : i \in 0..n /\ i # 0
    BY <1>2
  <2> HIDE DEF f, step
  <2> QED BY <1>7, <2>1
<1> HIDE DEF f, step
<1>9. \A i \in 1..n : f[i - 1] \in Seq(ClientPipe) => f[i] \in Seq(ClientPipe)
  BY <1>3, <1>8
<1>10. \A i \in 0..n : f[i] \in Seq(ClientPipe)
  BY <1>2, <1>8, <1>9, LoopStays
<1>11. /\ Rewrite(loop, ps) = f[Len(ps)] /\ f[0] = <<>>
      /\ \A i \in 0..Len(ps) : f[i] \in Seq(ClientPipe)
  BY <1>1, <1>8, <1>10 DEF n
<1>12. \A i \in 1..Len(ps) : f[i] = IF f[i - 1] = <<>> THEN <<ps[i]>> ELSE Front(f[i - 1]) \o Replacement(loop, Last(f[i - 1]), ps[i])
  BY <1>8 DEF n, E
<1> WITNESS f
<1> QED BY <1>11, <1>12

\* The pipes but those which skip no rows.
LEMMA DropLoop ==
  ASSUME NEW ps \in Seq(ClientPipe)
  PROVE  \E f : /\ DropZeroOffsets(ps) = f[Len(ps)] /\ f[0] = <<>>
                /\ \A i \in 1..Len(ps) : f[i] = IF ps[i] = Offset(0) THEN f[i - 1] ELSE Append(f[i - 1], ps[i])
                /\ \A i \in 0..Len(ps) : f[i] \in Seq(ClientPipe)
<1> DEFINE n == Len(ps)
           E(t, i) == IF ps[i] = Offset(0) THEN t ELSE Append(t, ps[i])
           Def(g) == g = [i \in 0..n |-> IF i = 0 THEN <<>> ELSE E(g[i - 1], i)]
           f == CHOOSE g : Def(g)
           step == [i \in 1..n |-> [t \in Seq(ClientPipe) |-> E(t, i)]]
<1>1. DropZeroOffsets(ps) = f[n]
  BY DEF DropZeroOffsets
<1>2. n \in Nat /\ <<>> \in Seq(ClientPipe)
  OBVIOUS
<1>3. \A i \in 1..n : \A t \in Seq(ClientPipe) : E(t, i) \in Seq(ClientPipe)
  <2> SUFFICES ASSUME NEW i \in 1..n, NEW t \in Seq(ClientPipe) PROVE E(t, i) \in Seq(ClientPipe)
    OBVIOUS
  <2>1. ps[i] \in ClientPipe
    OBVIOUS
  <2>2. Append(t, ps[i]) \in Seq(ClientPipe)
    BY <2>1
  <2> QED BY <2>2
<1> HIDE DEF E, n
<1>4. step \in [1..n -> [Seq(ClientPipe) -> Seq(ClientPipe)]]
  BY <1>3
<1>5. PICK g : IsLoop(g, n, Seq(ClientPipe), <<>>, step)
  <2> HIDE DEF step, Def, f
  <2> QED BY <1>2, <1>4, LoopExists
<1>6. Def(g)
  <2>1. g = [i \in 0..n |-> g[i]]
    BY <1>5 DEF IsLoop
  <2>2. \A i \in 0..n : i # 0 => i \in 1..n /\ i - 1 \in 0..n
    BY <1>2
  <2>3. \A i \in 0..n : g[i] = IF i = 0 THEN <<>> ELSE E(g[i - 1], i)
    BY <1>5, <2>2 DEF IsLoop
  <2> QED BY <2>1, <2>3
<1>7. Def(f)
  <2> HIDE DEF Def
  <2> QED BY <1>6
<1>8. f[0] = <<>> /\ \A i \in 1..n : f[i] = E(f[i - 1], i)
  <2>1. 0 \in 0..n /\ \A i \in 1..n : i \in 0..n /\ i # 0
    BY <1>2
  <2> HIDE DEF f, step
  <2> QED BY <1>7, <2>1
<1> HIDE DEF f, step
<1>9. \A i \in 1..n : f[i - 1] \in Seq(ClientPipe) => f[i] \in Seq(ClientPipe)
  BY <1>3, <1>8
<1>10. \A i \in 0..n : f[i] \in Seq(ClientPipe)
  BY <1>2, <1>8, <1>9, LoopStays
<1>11. /\ DropZeroOffsets(ps) = f[Len(ps)] /\ f[0] = <<>>
      /\ \A i \in 0..Len(ps) : f[i] \in Seq(ClientPipe)
  BY <1>1, <1>8, <1>10 DEF n
<1>12. \A i \in 1..Len(ps) : f[i] = IF ps[i] = Offset(0) THEN f[i - 1] ELSE Append(f[i - 1], ps[i])
  BY <1>8 DEF n, E
<1> WITNESS f
<1> QED BY <1>11, <1>12

\* The pipes of clients are pipes.
LEMMA ClientPipes ==
  ASSUME NEW ps \in Seq(ClientPipe)
  PROVE  ps \in Seq(LocalPipe)
<1>1. \A i \in 1..Len(ps) : ps[i] \in LocalPipe
  BY DEF LocalPipe
<1> QED BY <1>1

LEMMA ThroughLast ==
  ASSUME NEW xs \in Seq(LocalPipe), NEW p \in LocalPipe, NEW S \in Inputs
  PROVE  Through(xs \o <<p>>, S) = Outputs(p, Through(xs, S))
<1>1. <<p>> \in Seq(LocalPipe) /\ Through(xs, S) \in Inputs
  BY ThroughType
<1>2. Through(xs \o <<p>>, S) = Through(<<p>>, Through(xs, S))
  BY <1>1, ThroughBoth
<1>3. Through(<<p>>, Through(xs, S)) = Outputs(p, Through(xs, S))
  BY <1>1, ThroughOne
<1> QED BY <1>2, <1>3

LEMMA ThroughNothing ==
  ASSUME NEW xs, xs = <<>>, NEW S \in Inputs
  PROVE  Through(xs, S) = S
<1>1. xs \in Seq(LocalPipe) /\ Len(xs) = 0
  OBVIOUS
<1> QED BY <1>1, ThroughFew

\* A replaced pair at the end of the pipes changes no output.
LEMMA ReplacedAtEnd ==
  ASSUME NEW loop \in Rules, NEW xs \in Seq(ClientPipe), xs # <<>>, NEW p \in ClientPipe, NEW S \in Inputs
  PROVE  Through(Front(xs) \o Replacement(loop, Last(xs), p), S) = Outputs(p, Through(xs, S))
<1> DEFINE f == Front(xs)
           l == Last(xs)
           r == Replacement(loop, l, p)
           T == Through(f, S)
<1>1. f \in Seq(ClientPipe) /\ l \in ClientPipe /\ xs = f \o <<l>>
  BY FrontAndLast
<1> HIDE DEF f, l
<1>2. f \in Seq(LocalPipe) /\ l \in LocalPipe /\ p \in LocalPipe
  BY <1>1, ClientPipes DEF LocalPipe
<1>3. T \in Inputs
  BY <1>2, ThroughType
<1>4. Fits(r, l, p)
  BY <1>1, ReplacementFits
<1> HIDE DEF r, T
<1>5. r \in Seq(LocalPipe) /\ Through(r, T) = Through(<<l, p>>, T)
  BY <1>3, <1>4, ClientPipes DEF Fits
<1>6. Through(f \o r, S) = Through(r, T)
  BY <1>2, <1>5, ThroughBoth DEF T
<1>7. Through(<<l, p>>, T) = Outputs(p, Outputs(l, T))
  BY <1>2, <1>3, ThroughTwo
<1>8. Through(xs, S) = Outputs(l, T)
  BY <1>1, <1>2, ThroughLast DEF T
<1> QED BY <1>5, <1>6, <1>7, <1>8 DEF f, l, r

LEMMA RewriteKeeps ==
  ASSUME NEW loop \in Rules, NEW ps \in Seq(ClientPipe), NEW S \in Inputs
  PROVE  Through(Rewrite(loop, ps), S) = Through(ps, S)
<1> DEFINE n == Len(ps)
<1>1. n \in Nat /\ n \in 0..n
  OBVIOUS
<1>2. PICK f : /\ Rewrite(loop, ps) = f[n] /\ f[0] = <<>>
               /\ \A i \in 1..n : f[i] = IF f[i - 1] = <<>> THEN <<ps[i]>>
                                         ELSE Front(f[i - 1]) \o Replacement(loop, Last(f[i - 1]), ps[i])
               /\ \A i \in 0..n : f[i] \in Seq(ClientPipe)
  BY RewriteLoop DEF Loops
<1>3. PICK h : /\ Through(ps, S) = h[n] /\ h[0] = S
               /\ \A i \in 1..n : h[i] = Outputs(ps[i], h[i - 1])
  <2>1. ps \in Seq(LocalPipe)
    BY ClientPipes
  <2> QED BY <2>1, ThroughLoop
<1> DEFINE T == {i \in 0..n : Through(f[i], S) = h[i]}
<1>4. 0 \in T
  <2>1. Through(f[0], S) = S
    BY <1>2, ThroughNothing
  <2> QED BY <1>1, <1>3, <2>1
<1>5. \A i \in 0..n : i < n /\ i \in T => i + 1 \in T
  <2> SUFFICES ASSUME NEW i \in 0..n, i < n, i \in T PROVE i + 1 \in T
    OBVIOUS
  <2> DEFINE k == i + 1
  <2>1. k \in 1..n /\ k \in 0..n /\ k - 1 = i
    BY <1>1
  <2>2. ps[k] \in ClientPipe /\ ps[k] \in LocalPipe
    BY <2>1 DEF LocalPipe
  <2> HIDE DEF k, n
  <2>3. h[k] = Outputs(ps[k], Through(f[i], S)) /\ f[i] \in Seq(ClientPipe)
    BY <1>2, <1>3, <2>1
  <2>4. f[k] = IF f[i] = <<>> THEN <<ps[k]>> ELSE Front(f[i]) \o Replacement(loop, Last(f[i]), ps[k])
    BY <1>2, <2>1
  <2>5. CASE f[i] = <<>>
    <3>1. Through(f[i], S) = S
      BY <2>5, ThroughNothing
    <3>2. Through(<<ps[k]>>, S) = Outputs(ps[k], S)
      BY <2>2, ThroughOne
    <3> QED BY <2>1, <2>3, <2>4, <2>5, <3>1, <3>2 DEF k
  <2>6. CASE f[i] # <<>>
    <3>1. Through(f[k], S) = Outputs(ps[k], Through(f[i], S))
      BY <2>2, <2>3, <2>4, <2>6, ReplacedAtEnd
    <3> QED BY <2>1, <2>3, <3>1 DEF k
  <2> QED BY <2>5, <2>6
<1>6. \A i \in 0..n : i \in T
  <2> HIDE DEF T, n
  <2> QED BY <1>1, <1>4, <1>5, UpTo
<1> QED BY <1>1, <1>2, <1>3, <1>6

LEMMA RewriteType ==
  ASSUME NEW loop \in Loops, NEW ps \in Seq(ClientPipe)
  PROVE  Rewrite(loop, ps) \in Seq(ClientPipe)
<1>1. Len(ps) \in 0..Len(ps)
  OBVIOUS
<1> QED BY <1>1, RewriteLoop

\* 'offset 0' leaves the rows as they are.
LEMMA ZeroOffset ==
  ASSUME NEW S \in Inputs
  PROVE  Outputs(Offset(0), S) = S
<1>1. Offset(0) \in ClientPipe /\ Cuts(Offset(0))
  BY NewPipes
<1>2. Outputs(Offset(0), S) = {Cut(Offset(0), s) : s \in S}
  BY <1>1, OutputsOfTwo
<1>3. ASSUME NEW s \in S PROVE Cut(Offset(0), s) = s
  <2>1. s \in Seq(Row)
    BY DEF Inputs
  <2>2. Apply(Offset(0), s) = {SubSeq(s, 0 + 1, Len(s))}
    BY DEF Apply, Offset, IsSort
  <2>3. Apply(Offset(0), s) = {Cut(Offset(0), s)}
    BY <1>1, <2>1, CutFacts
  <2>4. SubSeq(s, 0 + 1, Len(s)) = s
    <3> DEFINE t == SubSeq(s, 0 + 1, Len(s))
    <3>1. Len(s) \in Nat /\ 0 \in Nat /\ Len(s) \in Int /\ Len(s) <= Len(s)
      BY <2>1
    <3>2. /\ t \in Seq(Row) /\ Len(t) = (IF 0 < Len(s) THEN Len(s) - 0 ELSE 0)
          /\ \A i \in 1..(Len(s) - 0) : t[i] = s[0 + i]
      BY <2>1, <3>1, PartOfSeq
    <3> HIDE DEF t
    <3>3. Len(t) = Len(s) /\ \A i \in 1..Len(t) : t[i] = s[i]
      BY <3>1, <3>2
    <3>4. t = s
      BY <2>1, <3>2, <3>3, SeqEqual
    <3> QED BY <3>4 DEF t
  <2> QED BY <2>2, <2>3, <2>4
<1> QED BY <1>2, <1>3

LEMMA DropKeeps ==
  ASSUME NEW ps \in Seq(ClientPipe), NEW S \in Inputs
  PROVE  DropZeroOffsets(ps) \in Seq(ClientPipe) /\ Through(DropZeroOffsets(ps), S) = Through(ps, S)
<1> DEFINE n == Len(ps)
<1>1. n \in Nat /\ n \in 0..n
  OBVIOUS
<1>2. PICK f : /\ DropZeroOffsets(ps) = f[n] /\ f[0] = <<>>
               /\ \A i \in 1..n : f[i] = IF ps[i] = Offset(0) THEN f[i - 1] ELSE Append(f[i - 1], ps[i])
               /\ \A i \in 0..n : f[i] \in Seq(ClientPipe)
  BY DropLoop
<1>3. PICK h : /\ Through(ps, S) = h[n] /\ h[0] = S
               /\ \A i \in 1..n : h[i] = Outputs(ps[i], h[i - 1])
  <2>1. ps \in Seq(LocalPipe)
    BY ClientPipes
  <2> QED BY <2>1, ThroughLoop
<1> DEFINE T == {i \in 0..n : Through(f[i], S) = h[i]}
<1>4. 0 \in T
  <2>1. Through(f[0], S) = S
    BY <1>2, ThroughNothing
  <2> QED BY <1>1, <1>3, <2>1
<1>5. \A i \in 0..n : i < n /\ i \in T => i + 1 \in T
  <2> SUFFICES ASSUME NEW i \in 0..n, i < n, i \in T PROVE i + 1 \in T
    OBVIOUS
  <2> DEFINE k == i + 1
  <2>1. k \in 1..n /\ k \in 0..n /\ k - 1 = i
    BY <1>1
  <2>2. ps[k] \in ClientPipe /\ ps[k] \in LocalPipe
    BY <2>1 DEF LocalPipe
  <2> HIDE DEF k, n
  <2>3. h[k] = Outputs(ps[k], Through(f[i], S)) /\ f[i] \in Seq(ClientPipe)
    BY <1>2, <1>3, <2>1
  <2>4. f[i] \in Seq(LocalPipe)
    BY <2>3, ClientPipes
  <2>5. f[k] = IF ps[k] = Offset(0) THEN f[i] ELSE Append(f[i], ps[k])
    BY <1>2, <2>1
  <2>6. CASE ps[k] = Offset(0)
    <3>1. Outputs(Offset(0), Through(f[i], S)) = Through(f[i], S)
      BY <2>4, ThroughType, ZeroOffset
    <3> QED BY <2>1, <2>3, <2>5, <2>6, <3>1 DEF k
  <2>7. CASE ps[k] # Offset(0)
    <3>1. Append(f[i], ps[k]) = f[i] \o <<ps[k]>>
      BY <2>2, <2>3, AppendIsConcat
    <3>2. Through(f[i] \o <<ps[k]>>, S) = Outputs(ps[k], Through(f[i], S))
      BY <2>2, <2>4, ThroughLast
    <3> QED BY <2>1, <2>3, <2>5, <2>7, <3>1, <3>2 DEF k
  <2> QED BY <2>6, <2>7
<1>6. \A i \in 0..n : i \in T
  <2> HIDE DEF T, n
  <2> QED BY <1>1, <1>4, <1>5, UpTo
<1> QED BY <1>1, <1>2, <1>3, <1>6

LEMMA OptimizeOnceKeeps ==
  ASSUME NEW ps \in Seq(ClientPipe)
  PROVE  OptimizeOnce(ps) \in Seq(ClientPipe) /\ \A S \in Inputs : Through(OptimizeOnce(ps), S) = Through(ps, S)
<1> DEFINE p1 == Rewrite("swap", ps)
           p2 == Rewrite("offsets", p1)
           p3 == Rewrite("limits", p2)
           p4 == Rewrite("drop", p3)
           p5 == DropZeroOffsets(p4)
           p6 == Rewrite("sort_offset", p5)
           p7 == Rewrite("sort_limit", p6)
<1> DEFINE Same(xs, ys) == ys \in Seq(ClientPipe) /\ \A S \in Inputs : Through(ys, S) = Through(xs, S)
<1>1. ASSUME NEW loop \in Rules, NEW xs \in Seq(ClientPipe) PROVE Same(xs, Rewrite(loop, xs))
  BY RewriteKeeps, RewriteType DEF Loops
<1>2. {"swap", "offsets", "limits", "drop", "sort_offset", "sort_limit"} = Rules
  BY DEF Rules
<1>3. Same(ps, p1)
  BY <1>1, <1>2
<1> HIDE DEF p1
<1>4. Same(p1, p2)
  BY <1>1, <1>2, <1>3
<1> HIDE DEF p2
<1>5. Same(p2, p3)
  BY <1>1, <1>2, <1>4
<1> HIDE DEF p3
<1>6. Same(p3, p4)
  BY <1>1, <1>2, <1>5
<1> HIDE DEF p4
<1>7. Same(p4, p5)
  <2>1. ASSUME NEW xs \in Seq(ClientPipe) PROVE Same(xs, DropZeroOffsets(xs))
    <3>1. {} \in Inputs
      BY DEF Inputs
    <3> QED BY <3>1, DropKeeps
  <2> QED BY <1>6, <2>1
<1> HIDE DEF p5
<1>8. Same(p5, p6)
  BY <1>1, <1>2, <1>7
<1> HIDE DEF p6
<1>9. Same(p6, p7)
  BY <1>1, <1>2, <1>8
<1>10. OptimizeOnce(ps) = p7
  BY DEF OptimizeOnce, p1, p2, p3, p4, p5, p6
<1> HIDE DEF p7
<1> QED BY <1>3, <1>4, <1>5, <1>6, <1>7, <1>8, <1>9, <1>10

\* A pass, and whether it was the last one.
Passes == [ps : Seq(ClientPipe), end : BOOLEAN]
NextPass(st) == IF st.end THEN st ELSE [ps |-> OptimizeOnce(st.ps), end |-> Len(OptimizeOnce(st.ps)) = Len(st.ps)]

LEMMA NextPassKeeps ==
  ASSUME NEW st \in Passes
  PROVE  /\ NextPass(st) \in Passes
         /\ \A S \in Inputs : Through(NextPass(st).ps, S) = Through(st.ps, S)
<1>1. st.ps \in Seq(ClientPipe)
  BY DEF Passes
<1>2. OptimizeOnce(st.ps) \in Seq(ClientPipe) /\ \A S \in Inputs : Through(OptimizeOnce(st.ps), S) = Through(st.ps, S)
  BY <1>1, OptimizeOnceKeeps
<1> QED BY <1>2 DEF Passes, NextPass

\* The passes of the optimizer.
LEMMA PassesLoop ==
  ASSUME NEW xs \in Seq(ClientPipe)
  PROVE  \E f : /\ OptimizeOffsetLimit(xs) = f[Len(xs) + 1].ps /\ f[0] = [ps |-> xs, end |-> FALSE]
                /\ \A i \in 1..(Len(xs) + 1) : f[i] = NextPass(f[i - 1])
                /\ \A i \in 0..(Len(xs) + 1) : f[i] \in Passes
<1> DEFINE n == Len(xs) + 1
           E(t, i) == NextPass(t)
           Def(g) == g = [i \in 0..n |-> IF i = 0 THEN [ps |-> xs, end |-> FALSE] ELSE E(g[i - 1], i)]
           f == CHOOSE g : Def(g)
           step == [i \in 1..n |-> [t \in Passes |-> E(t, i)]]
<1>1. OptimizeOffsetLimit(xs) = f[n].ps
  BY DEF OptimizeOffsetLimit, NextPass
<1>2. n \in Nat /\ [ps |-> xs, end |-> FALSE] \in Passes
  BY DEF Passes
<1>3. \A i \in 1..n : \A t \in Passes : E(t, i) \in Passes
  BY NextPassKeeps
<1> HIDE DEF E, n
<1>4. step \in [1..n -> [Passes -> Passes]]
  BY <1>3
<1>5. PICK g : IsLoop(g, n, Passes, [ps |-> xs, end |-> FALSE], step)
  <2> HIDE DEF step, Def, f
  <2> QED BY <1>2, <1>4, LoopExists
<1>6. Def(g)
  <2>1. g = [i \in 0..n |-> g[i]]
    BY <1>5 DEF IsLoop
  <2>2. \A i \in 0..n : i # 0 => i \in 1..n /\ i - 1 \in 0..n
    BY <1>2
  <2>3. \A i \in 0..n : g[i] = IF i = 0 THEN [ps |-> xs, end |-> FALSE] ELSE E(g[i - 1], i)
    BY <1>5, <2>2 DEF IsLoop
  <2> QED BY <2>1, <2>3
<1>7. Def(f)
  <2> HIDE DEF Def
  <2> QED BY <1>6
<1>8. f[0] = [ps |-> xs, end |-> FALSE] /\ \A i \in 1..n : f[i] = E(f[i - 1], i)
  <2>1. 0 \in 0..n /\ \A i \in 1..n : i \in 0..n /\ i # 0
    BY <1>2
  <2> HIDE DEF f, step
  <2> QED BY <1>7, <2>1
<1> HIDE DEF f, step
<1>9. \A i \in 1..n : f[i - 1] \in Passes => f[i] \in Passes
  BY <1>3, <1>8
<1>10. \A i \in 0..n : f[i] \in Passes
  BY <1>2, <1>8, <1>9, LoopStays
<1>11. /\ OptimizeOffsetLimit(xs) = f[Len(xs) + 1].ps /\ f[0] = [ps |-> xs, end |-> FALSE]
      /\ \A i \in 0..(Len(xs) + 1) : f[i] \in Passes
  BY <1>1, <1>8, <1>10 DEF n
<1>12. \A i \in 1..(Len(xs) + 1) : f[i] = NextPass(f[i - 1])
  BY <1>8 DEF n, E
<1> WITNESS f
<1> QED BY <1>11, <1>12

LEMMA OptimizerKeeps ==
  ASSUME NEW xs \in Seq(ClientPipe)
  PROVE  /\ OptimizeOffsetLimit(xs) \in Seq(ClientPipe)
         /\ \A S \in Inputs : Through(OptimizeOffsetLimit(xs), S) = Through(xs, S)
<1> DEFINE n == Len(xs) + 1
           Same(ys) == \A S \in Inputs : Through(ys, S) = Through(xs, S)
           Good == {st \in Passes : Same(st.ps)}
<1>1. n \in Nat /\ n \in 0..n
  OBVIOUS
<1>2. PICK f : /\ OptimizeOffsetLimit(xs) = f[n].ps /\ f[0] = [ps |-> xs, end |-> FALSE]
               /\ \A i \in 1..n : f[i] = NextPass(f[i - 1])
               /\ \A i \in 0..n : f[i] \in Passes
  BY PassesLoop
<1>3. f[0] \in Good
  <2>1. 0 \in 0..n
    BY <1>1
  <2>2. f[0].ps = xs /\ f[0] \in Passes
    BY <1>2, <2>1
  <2>3. Same(f[0].ps)
    BY <2>2
  <2> QED BY <2>2, <2>3
<1>4. \A i \in 1..n : f[i - 1] \in Good => f[i] \in Good
  <2> SUFFICES ASSUME NEW i \in 1..n, f[i - 1] \in Good PROVE f[i] \in Good
    OBVIOUS
  <2>1. f[i] = NextPass(f[i - 1])
    BY <1>2
  <2> QED BY <2>1, NextPassKeeps
<1>5. f[n] \in Good
  <2> HIDE DEF Good, n
  <2>1. \A i \in 0..n : f[i] \in Good
    BY <1>1, <1>3, <1>4, LoopStays
  <2> QED BY <1>1, <2>1
<1> QED BY <1>2, <1>5 DEF Passes

\* The rows of a finite set in every order.
LEMMA OrdersOfRows ==
  ASSUME NEW rows \in SUBSET Row, IsFiniteSet(rows)
  PROVE  SetToSeqs(rows) \in Inputs
BY OrdersFacts DEF Inputs

\* The optimizer of offsets, limits and sorts changes no answer: whatever
\* the pipes of the client and the rows they get, exactly the outcomes of
\* the pipes as written are the outcomes of those that
\* optimizeOffsetLimitPipes() makes of them.
THEOREM OptimizerKeepsAnswers ==
  ASSUME NEW ps \in Seq(ClientPipe), NEW rows \in SUBSET Row, IsFiniteSet(rows)
  PROVE  Outcomes(OptimizeOffsetLimit(ps), rows) = Outcomes(ps, rows)
BY OptimizerKeeps, OrdersOfRows DEF Outcomes

-----------------------------------------------------------------------------
(* What the nodes run and what is left to vlselect *)

LEMMA OptimizeType ==
  ASSUME NEW ps \in Seq(ClientPipe)
  PROVE  Optimize(ps) \in Seq(ClientPipe)
<1>1. {} \in Inputs
  BY DEF Inputs
<1>2. OptimizeOffsetLimit(ps) \in Seq(ClientPipe)
  BY <1>1, OptimizerKeeps
<1> QED BY <1>2, RewriteType DEF Optimize, Loops

\* The local pipes which the nodes don't know.
LEMMA LocalPipes ==
  ASSUME NEW x \in Nat
  PROVE  UniqLocal(x) \in LocalPipe /\ StatsLocal \in LocalPipe /\ CountLocal \in LocalPipe
BY DEF UniqLocal, StatsLocal, CountLocal, LocalPipe

Splits == [remote : Seq(LocalPipe), local : Seq(LocalPipe)]

LEMMA SplitType ==
  ASSUME NEW p \in ClientPipe
  PROVE  Split(p) \in Splits
<1>1. p \in LocalPipe /\ p.off \in Nat /\ p.lim \in Nat
  BY DEF LocalPipe, ClientPipe
<1> DEFINE q == [p EXCEPT !.off = 0, !.lim = @ + p.off]
<1>2. q \in LocalPipe
  <2>1. q = [p EXCEPT !.off = 0, !.lim = p.lim + p.off]
    OBVIOUS
  <2>2. q = [op |-> p.op, off |-> 0, lim |-> p.lim + p.off]
    BY <2>1, ChangedPipe
  <2>3. p.op \in {"limit", "offset", "filter", "sort", "newest", "uniq", "uniq_hits", "stats", "count"}
    BY DEF ClientPipe
  <2> HIDE DEF q
  <2> QED BY <1>1, <2>2, <2>3 DEF LocalPipe, ClientPipe
<1>3. SplitSort(p) = [remote |-> <<q>>, local |-> <<p>>]
  BY DEF SplitSort
<1> HIDE DEF q
<1>4. UniqLocal(p.lim) \in LocalPipe /\ StatsLocal \in LocalPipe /\ CountLocal \in LocalPipe
  BY <1>1, LocalPipes
<1>5. ASSUME NEW x \in LocalPipe PROVE <<x>> \in Seq(LocalPipe)
  OBVIOUS
<1>6. ASSUME NEW xs \in Seq(LocalPipe), NEW ys \in Seq(LocalPipe) PROVE [remote |-> xs, local |-> ys] \in Splits
  BY DEF Splits
<1>7. <<>> \in Seq(LocalPipe)
  OBVIOUS
<1>8. <<p>> \in Seq(LocalPipe) /\ <<q>> \in Seq(LocalPipe)
  BY <1>1, <1>2, <1>5
<1>9. <<UniqLocal(p.lim)>> \in Seq(LocalPipe) /\ <<StatsLocal>> \in Seq(LocalPipe) /\ <<CountLocal>> \in Seq(LocalPipe)
  BY <1>4, <1>5
<1>10. \/ Split(p) = [remote |-> <<p>>, local |-> <<>>]
       \/ Split(p) = [remote |-> <<p>>, local |-> <<p>>]
       \/ Split(p) = [remote |-> <<>>, local |-> <<p>>]
       \/ Split(p) = SplitSort(p)
       \/ Split(p) = [remote |-> <<p>>, local |-> <<UniqLocal(p.lim)>>]
       \/ Split(p) = [remote |-> <<p>>, local |-> <<StatsLocal>>]
       \/ Split(p) = [remote |-> <<p>>, local |-> <<CountLocal>>]
  <2>1. \/ p.op \in {"limit", "uniq"} \/ p.op \in {"offset", "filter", "uniq_hits", "stats", "count"} \/ IsSort(p)
    BY DEF ClientPipe, IsSort
  <2> QED BY <2>1 DEF Split, IsSort
<1> QED BY <1>3, <1>6, <1>7, <1>8, <1>9, <1>10

\* The next pipe of the client.
AddPipe(st, p) ==
  IF st.local # <<>> THEN [st EXCEPT !.local = Append(@, p)]
  ELSE [remote |-> st.remote \o Split(p).remote, local |-> Split(p).local]

LEMMA AddPipeType ==
  ASSUME NEW st \in Splits, NEW p \in ClientPipe
  PROVE  AddPipe(st, p) \in Splits
<1>1. st.remote \in Seq(LocalPipe) /\ st.local \in Seq(LocalPipe) /\ st = [remote |-> st.remote, local |-> st.local]
  BY DEF Splits
<1>2. Split(p).remote \in Seq(LocalPipe) /\ Split(p).local \in Seq(LocalPipe)
  BY SplitType DEF Splits
<1>3. st.remote \o Split(p).remote \in Seq(LocalPipe)
  BY <1>1, <1>2, ConcatProperties
<1>4. Append(st.local, p) \in Seq(LocalPipe)
  BY <1>1 DEF LocalPipe
<1>5. ASSUME NEW xs \in Seq(LocalPipe) PROVE [st EXCEPT !.local = xs] \in Splits
  BY <1>1 DEF Splits
<1>6. ASSUME NEW xs \in Seq(LocalPipe), NEW ys \in Seq(LocalPipe) PROVE [remote |-> xs, local |-> ys] \in Splits
  BY DEF Splits
<1>7. [st EXCEPT !.local = Append(st.local, p)] \in Splits
  BY <1>4, <1>5
<1>8. [remote |-> st.remote \o Split(p).remote, local |-> Split(p).local] \in Splits
  BY <1>2, <1>3, <1>6
<1> QED BY <1>7, <1>8 DEF AddPipe

\* The pipes are split one by one.
LEMMA SplitLoop ==
  ASSUME NEW ps \in Seq(ClientPipe)
  PROVE  \E f : /\ RemoteAndLocal(ps) = f[Len(ps)] /\ f[0] = [remote |-> <<>>, local |-> <<>>]
                /\ \A i \in 1..Len(ps) : f[i] = AddPipe(f[i - 1], ps[i])
                /\ \A i \in 0..Len(ps) : f[i] \in Splits
<1> DEFINE n == Len(ps)
           E(t, i) == AddPipe(t, ps[i])
           Def(g) == g = [i \in 0..n |-> IF i = 0 THEN [remote |-> <<>>, local |-> <<>>] ELSE E(g[i - 1], i)]
           f == CHOOSE g : Def(g)
           step == [i \in 1..n |-> [t \in Splits |-> E(t, i)]]
<1>1. RemoteAndLocal(ps) = f[n]
  BY DEF RemoteAndLocal, AddPipe
<1>2. n \in Nat /\ [remote |-> <<>>, local |-> <<>>] \in Splits
  BY DEF Splits
<1>3. \A i \in 1..n : \A t \in Splits : E(t, i) \in Splits
  <2> SUFFICES ASSUME NEW i \in 1..n, NEW t \in Splits PROVE E(t, i) \in Splits
    OBVIOUS
  <2>1. ps[i] \in ClientPipe
    OBVIOUS
  <2> QED BY <2>1, AddPipeType
<1> HIDE DEF E, n
<1>4. step \in [1..n -> [Splits -> Splits]]
  BY <1>3
<1>5. PICK g : IsLoop(g, n, Splits, [remote |-> <<>>, local |-> <<>>], step)
  <2> HIDE DEF step, Def, f
  <2> QED BY <1>2, <1>4, LoopExists
<1>6. Def(g)
  <2>1. g = [i \in 0..n |-> g[i]]
    BY <1>5 DEF IsLoop
  <2>2. \A i \in 0..n : i # 0 => i \in 1..n /\ i - 1 \in 0..n
    BY <1>2
  <2>3. \A i \in 0..n : g[i] = IF i = 0 THEN [remote |-> <<>>, local |-> <<>>] ELSE E(g[i - 1], i)
    BY <1>5, <2>2 DEF IsLoop
  <2> QED BY <2>1, <2>3
<1>7. Def(f)
  <2> HIDE DEF Def
  <2> QED BY <1>6
<1>8. f[0] = [remote |-> <<>>, local |-> <<>>] /\ \A i \in 1..n : f[i] = E(f[i - 1], i)
  <2>1. 0 \in 0..n /\ \A i \in 1..n : i \in 0..n /\ i # 0
    BY <1>2
  <2> HIDE DEF f, step
  <2> QED BY <1>7, <2>1
<1> HIDE DEF f, step
<1>9. \A i \in 1..n : f[i - 1] \in Splits => f[i] \in Splits
  BY <1>3, <1>8
<1>10. \A i \in 0..n : f[i] \in Splits
  BY <1>2, <1>8, <1>9, LoopStays
<1>11. /\ RemoteAndLocal(ps) = f[Len(ps)] /\ f[0] = [remote |-> <<>>, local |-> <<>>]
      /\ \A i \in 0..Len(ps) : f[i] \in Splits
  BY <1>1, <1>8, <1>10 DEF n
<1>12. \A i \in 1..Len(ps) : f[i] = AddPipe(f[i - 1], ps[i])
  BY <1>8 DEF n, E
<1> WITNESS f
<1> QED BY <1>11, <1>12

LEMMA RemoteAndLocalType ==
  ASSUME NEW ps \in Seq(ClientPipe)
  PROVE  RemoteAndLocal(ps) \in Splits
<1>1. Len(ps) \in 0..Len(ps)
  OBVIOUS
<1> QED BY <1>1, SplitLoop

\* Of the rows a node sends, what doesn't arrive is filled in.
LEMMA SentRowsType ==
  ASSUME NEW F, NEW s \in Seq(Row)
  PROVE  SentRows(F, s) \in Seq(Row)
<1> DEFINE r(i) == [key |-> IF "key" \in F THEN s[i].key ELSE "", n |-> IF "n" \in F THEN s[i].n ELSE 0]
           t == [i \in DOMAIN s |-> r(i)]
<1>1. Len(s) \in Nat /\ DOMAIN s = 1..Len(s)
  OBVIOUS
<1>2. \A i \in 1..Len(s) : r(i) \in Row
  <2> SUFFICES ASSUME NEW i \in 1..Len(s) PROVE r(i) \in Row
    OBVIOUS
  <2>1. s[i] \in Row
    OBVIOUS
  <2>2. s[i].key \in Key /\ s[i].n \in Nat
    BY <2>1 DEF Row
  <2> QED BY <2>2, KeyAssumption DEF Row
<1>3. SentRows(F, s) = <<>> \/ SentRows(F, s) = t
  BY DEF SentRows
<1> HIDE DEF r
<1>4. t \in [1..Len(s) -> Row]
  BY <1>1, <1>2
<1> HIDE DEF t
<1>5. t \in Seq(Row)
  BY <1>1, <1>4
<1>6. <<>> \in Seq(Row)
  OBVIOUS
<1> QED BY <1>3, <1>5, <1>6

LEMMA NodeRowsFacts ==
  ASSUME NEW w \in Node
  PROVE  NodeRows[w] \in SUBSET Row /\ IsFiniteSet(NodeRows[w])
<1>1. From..To \subseteq Nat
  BY TimeAssumption
<1>2. NodeRows[w] \subseteq [key : Key, n : From..To] /\ IsFiniteSet(NodeRows[w])
  BY QueryAssumption
<1>3. [key : Key, n : From..To] \subseteq Row
  BY <1>1 DEF Row
<1> QED BY <1>2, <1>3

\* The pipes of a query at the nodes and at vlselect.
LEMMA QuerySplit ==
  ASSUME NEW q \in Queries
  PROVE  /\ RemoteAndLocal(Optimize(q)).remote \in Seq(LocalPipe)
         /\ RemoteAndLocal(Optimize(q)).local \in Seq(LocalPipe)
<1>1. q \in Seq(ClientPipe)
  BY QueryAssumption
<1>2. RemoteAndLocal(Optimize(q)) \in Splits
  BY <1>1, OptimizeType, RemoteAndLocalType
<1> QED BY <1>2 DEF Splits

\* Nodes send sequences of rows.
LEMMA RemoteType ==
  ASSUME NEW q \in Queries, NEW w \in Node
  PROVE  Remote(q, w) \subseteq Seq(Row)
<1> DEFINE split == RemoteAndLocal(Optimize(q))
           ps == split.remote
<1>1. ps \in Seq(LocalPipe)
  BY QuerySplit
<1>2. RunAtNode(ps, NodeRows[w]) \subseteq Seq(Row)
  <2>1. CASE IsLastN(ps)
    BY <2>1, LastNAssumption
  <2>2. CASE ~ IsLastN(ps)
    <3>1. RunAtNode(ps, NodeRows[w]) = Through(ps, SetToSeqs(NodeRows[w]))
      BY <2>2 DEF RunAtNode, Outcomes
    <3>2. SetToSeqs(NodeRows[w]) \in Inputs
      BY NodeRowsFacts, OrdersOfRows
    <3> HIDE DEF ps
    <3>3. Through(ps, SetToSeqs(NodeRows[w])) \in Inputs
      BY <1>1, <3>2, ThroughType
    <3> QED BY <3>1, <3>3 DEF Inputs
  <2> QED BY <2>1, <2>2
<1>3. Remote(q, w) = {SentRows(SentColumns(split), s) : s \in RunAtNode(ps, NodeRows[w])}
  BY DEF Remote
<1> HIDE DEF ps, split
<1> QED BY <1>2, <1>3, SentRowsType

\* The shards of a pipe are joined one after another.
LEMMA KeptLoop ==
  ASSUME NEW k, kept[k] \in [Node -> Seq(Row)]
  PROVE  \E f : /\ AllKept(k) = f[N] /\ f[0] = <<>>
                /\ \A i \in 1..N : f[i] = f[i - 1] \o kept[k][i]
                /\ \A i \in 0..N : f[i] \in Seq(Row)
<1> DEFINE n == N
           E(t, i) == t \o kept[k][i]
           Def(g) == g = [i \in 0..n |-> IF i = 0 THEN <<>> ELSE E(g[i - 1], i)]
           f == CHOOSE g : Def(g)
           step == [i \in 1..n |-> [t \in Seq(Row) |-> E(t, i)]]
<1>1. AllKept(k) = f[n]
  BY DEF AllKept
<1>2. n \in Nat /\ <<>> \in Seq(Row)
  BY QueryAssumption
<1>3. \A i \in 1..n : \A t \in Seq(Row) : E(t, i) \in Seq(Row)
  <2> SUFFICES ASSUME NEW i \in 1..n, NEW t \in Seq(Row) PROVE E(t, i) \in Seq(Row)
    OBVIOUS
  <2>1. kept[k][i] \in Seq(Row)
    BY DEF Node
  <2> QED BY <2>1, ConcatProperties
<1> HIDE DEF E, n
<1>4. step \in [1..n -> [Seq(Row) -> Seq(Row)]]
  BY <1>3
<1>5. PICK g : IsLoop(g, n, Seq(Row), <<>>, step)
  <2> HIDE DEF step, Def, f
  <2> QED BY <1>2, <1>4, LoopExists
<1>6. Def(g)
  <2>1. g = [i \in 0..n |-> g[i]]
    BY <1>5 DEF IsLoop
  <2>2. \A i \in 0..n : i # 0 => i \in 1..n /\ i - 1 \in 0..n
    BY <1>2
  <2>3. \A i \in 0..n : g[i] = IF i = 0 THEN <<>> ELSE E(g[i - 1], i)
    BY <1>5, <2>2 DEF IsLoop
  <2> QED BY <2>1, <2>3
<1>7. Def(f)
  <2> HIDE DEF Def
  <2> QED BY <1>6
<1>8. f[0] = <<>> /\ \A i \in 1..n : f[i] = E(f[i - 1], i)
  <2>1. 0 \in 0..n /\ \A i \in 1..n : i \in 0..n /\ i # 0
    BY <1>2
  <2> HIDE DEF f, step
  <2> QED BY <1>7, <2>1
<1> HIDE DEF f, step
<1>9. \A i \in 1..n : f[i - 1] \in Seq(Row) => f[i] \in Seq(Row)
  BY <1>3, <1>8
<1>10. \A i \in 0..n : f[i] \in Seq(Row)
  BY <1>2, <1>8, <1>9, LoopStays
<1>11. /\ AllKept(k) = f[N] /\ f[0] = <<>>
      /\ \A i \in 0..N : f[i] \in Seq(Row)
  BY <1>1, <1>8, <1>10 DEF n
<1>12. \A i \in 1..N : f[i] = f[i - 1] \o kept[k][i]
  BY <1>8 DEF n, E
<1> WITNESS f
<1> QED BY <1>11, <1>12

LEMMA AllKeptType ==
  ASSUME NEW k, kept[k] \in [Node -> Seq(Row)]
  PROVE  AllKept(k) \in Seq(Row)
<1>1. N \in 0..N
  BY QueryAssumption
<1> QED BY <1>1, KeptLoop

-----------------------------------------------------------------------------
(* THE INVARIANT *)

Blocks == [at : Nat, rows : Seq(Row)]

QueryTypes ==
  /\ QueryTypeOK
  /\ pipes \in Seq(LocalPipe)
  /\ rest \in [Node -> Seq(Row)]
  /\ block \in [Node -> Blocks]
  /\ owed \in [Node -> Nat]
  /\ seen \in [Pipe -> Nat]
  /\ budget \in [Pipe -> Int]
  /\ kept \in [Pipe -> [Node -> Seq(Row)]]

\* The pipes which need no rows.
Spare == {i \in Pipe : NeedsNoRows(i)}

\* What a goroutine is going to cancel on its return needs no rows either.
OwedIsJustified == \A w \in Node : owed[w] # 0 => owed[w] \in Spare

NoEarlyResult == stage = 0 => result = "none"

QueryIInv == QueryTypes /\ OwedIsJustified /\ NoEarlyResult /\ CancelIsJustified /\ MissingNodesAreAllowed

LEMMA TopFacts ==
  ASSUME pipes \in Seq(LocalPipe)
  PROVE  Top \in Nat /\ Top >= 1 /\ Pipe = 1..(Top - 1) /\ \A i \in Pipe : pipes[i] \in LocalPipe
BY DEF Top, Pipe

LEMMA NodeFacts == N \in Nat /\ 1 \in Node /\ Node = 1..N
<1>1. N \in Nat \ {0}
  BY QueryAssumption
<1> QED BY <1>1 DEF Node

\* The greatest of some pipes.
LEMMA GreatestExists ==
  ASSUME NEW n \in Nat, NEW T \in SUBSET (1..n), T # {}
  PROVE  \E i \in T : \A j \in T : j <= i
<1> DEFINE M == {n - i : i \in T}
<1>1. M \subseteq Nat /\ M # {}
  <2>1. PICK i : i \in T
    OBVIOUS
  <2>2. n - i \in M
    BY <2>1
  <2>3. \A j \in T : n - j \in Nat
    OBVIOUS
  <2> QED BY <2>2, <2>3
<1>2. IsWellFoundedOn(OpToRel(<, Nat), Nat)
  BY NatLessThanWellFounded
<1>3. PICK m \in M : \A k \in M : ~ (<<k, m>> \in OpToRel(<, Nat))
  <2> HIDE DEF M
  <2> QED BY <1>1, <1>2, WFMin
<1>4. \A k \in M : m <= k
  <2> SUFFICES ASSUME NEW k \in M, ~ (m <= k) PROVE FALSE
    OBVIOUS
  <2>1. k \in Nat /\ m \in Nat
    BY <1>1, <1>3
  <2>2. k < m
    BY <2>1
  <2>3. <<k, m>> \in OpToRel(<, Nat)
    BY <2>1, <2>2 DEF OpToRel
  <2> QED BY <1>3, <2>3
<1>5. PICK i \in T : m = n - i
  OBVIOUS
<1>6. \A j \in T : j <= i
  <2> SUFFICES ASSUME NEW j \in T PROVE j <= i
    OBVIOUS
  <2>1. n - i <= n - j
    BY <1>4, <1>5
  <2>2. i \in Nat /\ j \in Nat
    OBVIOUS
  <2> HIDE DEF M
  <2> QED BY <2>1, <2>2
<1> QED BY <1>6

\* The first of some nodes.
LEMMA FirstExists ==
  ASSUME NEW T \in SUBSET Node, T # {}
  PROVE  \E w \in T : \A v \in T : w <= v
<1>1. T \subseteq Nat
  BY NodeFacts
<1>2. IsWellFoundedOn(OpToRel(<, Nat), Nat)
  BY NatLessThanWellFounded
<1>3. PICK m \in T : \A k \in T : ~ (<<k, m>> \in OpToRel(<, Nat))
  BY <1>1, <1>2, WFMin
<1>4. \A k \in T : m <= k
  <2> SUFFICES ASSUME NEW k \in T, ~ (m <= k) PROVE FALSE
    OBVIOUS
  <2>1. k \in Nat /\ m \in Nat
    BY <1>1, <1>3
  <2>2. k < m
    BY <2>1
  <2>3. <<k, m>> \in OpToRel(<, Nat)
    BY <2>1, <2>2 DEF OpToRel
  <2> QED BY <1>3, <2>3
<1> QED BY <1>4

\* The error of the search is a node's error, or that all are unavailable;
\* none hides a node which may not be missing.
LEMMA FirstErrorFacts ==
  ASSUME errs \in [Node -> Fault \cup {"none"}], partial \in BOOLEAN
  PROVE  /\ FirstError \in Fault \cup {"none"}
         /\ FirstError = "none" => /\ ~ partial => \A w \in Node : errs[w] = "none"
                                   /\ \E w \in Node : errs[w] # "unavailable"
<1> DEFINE first == {w \in Node : (partial => errs[w] # "unavailable") /\ (~ partial => errs[w] # "none")}
           min == CHOOSE w \in first : \A v \in first : w <= v
<1>1. FirstError = IF first # {} THEN errs[min] ELSE IF partial THEN "unavailable" ELSE "none"
  BY DEF FirstError
<1>2. first # {} => min \in first
  <2> SUFFICES ASSUME first # {} PROVE min \in first
    OBVIOUS
  <2>1. first \in SUBSET Node
    OBVIOUS
  <2> HIDE DEF first
  <2>2. \E w \in first : \A v \in first : w <= v
    BY <2>1, FirstExists
  <2> QED BY <2>2
<1> HIDE DEF min
<1>3. CASE first # {}
  <2>1. min \in Node /\ (partial => errs[min] # "unavailable") /\ (~ partial => errs[min] # "none")
    BY <1>2, <1>3
  <2>2. FirstError = errs[min]
    BY <1>1, <1>3
  <2> HIDE DEF first
  <2> QED BY <2>1, <2>2
<1>4. CASE first = {}
  <2>1. FirstError = IF partial THEN "unavailable" ELSE "none"
    BY <1>1, <1>4
  <2>2. ~ partial => \A w \in Node : errs[w] = "none"
    BY <1>4
  <2> HIDE DEF first
  <2> QED BY <2>1, <2>2, NodeFacts DEF Fault
<1> QED BY <1>3, <1>4

LEMMA QueryIInit == Init => QueryIInv
<1> SUFFICES ASSUME Init PROVE QueryIInv
  OBVIOUS
<1>1. query \in Queries
  BY DEF Init
<1>2. pipes \in Seq(LocalPipe)
  BY <1>1, QuerySplit DEF Init
<1>3. Top \in Nat /\ Top >= 1 /\ Pipe = 1..(Top - 1) /\ \A i \in Pipe : pipes[i] \in LocalPipe
  BY <1>2, TopFacts
<1>4. rest \in [Node -> Seq(Row)]
  <2>1. rest \in [Node -> UNION {Remote(query, w) : w \in Node}]
    BY DEF Init
  <2>2. UNION {Remote(query, w) : w \in Node} \subseteq Seq(Row)
    BY <1>1, RemoteType
  <2> QED BY <2>1, <2>2
<1>5. block \in [Node -> Blocks] /\ \A w \in Node : block[w].rows = <<>>
  <2>1. NoBlock \in Blocks /\ NoBlock.rows = <<>>
    BY DEF NoBlock, Blocks
  <2> QED BY <2>1 DEF Init
<1>6. /\ owed \in [Node -> Nat] /\ seen \in [Pipe -> Nat] /\ \A w \in Node : owed[w] = 0
      /\ \A i \in Pipe : seen[i] = 0
  BY DEF Init
<1>7. budget \in [Pipe -> Int] /\ kept \in [Pipe -> [Node -> Seq(Row)]]
  BY QueryAssumption DEF Init
<1>8. canceled = 0 \/ (canceled \in Pipe /\ NeedsNoRows(canceled))
  <2> DEFINE T == EmptyLimits(pipes)
             greatest == CHOOSE i \in T : \A j \in T : j <= i
  <2>1. T \in SUBSET (1..Len(pipes)) /\ Len(pipes) \in Nat
    BY <1>2 DEF EmptyLimits
  <2>2. canceled = IF T = {} THEN 0 ELSE greatest
    BY DEF Init
  <2>3. \A i \in T : i \in Pipe /\ pipes[i] = Limit(0)
    BY DEF EmptyLimits, Pipe
  <2> HIDE DEF T
  <2>4. T # {} => greatest \in T
    BY <2>1, GreatestExists
  <2> HIDE DEF greatest
  <2>5. ASSUME canceled \in T PROVE NeedsNoRows(canceled)
    <3>1. pipes[canceled].op = "limit" /\ pipes[canceled].lim = 0 /\ seen[canceled] = 0
      BY <1>6, <2>3, <2>5 DEF Limit
    <3> QED BY <3>1 DEF NeedsNoRows
  <2>6. CASE T = {}
    BY <2>2, <2>6
  <2>7. CASE T # {}
    <3>1. canceled \in T
      BY <2>2, <2>4, <2>7
    <3> QED BY <2>3, <2>5, <3>1
  <2> QED BY <2>6, <2>7
<1>9. QueryTypeOK
  <2>1. canceled \in 0..Top
    BY <1>3, <1>8
  <2>2. /\ partial \in BOOLEAN /\ stage = 0 /\ netDone \in BOOLEAN /\ clientGone \in BOOLEAN
        /\ flushing \in BOOLEAN /\ result = "none" /\ errs \in [Node -> Fault \cup {"none"}]
        /\ pc \in [Node -> {"request", "read", "pipes", "return", "fail", "idle"}]
    BY DEF Init
  <2> QED BY <1>1, <1>3, <1>5, <2>1, <2>2 DEF QueryTypeOK
<1>10. CancelIsJustified
  <2>1. stage = 0 /\ (canceled \in Pipe => canceled < Top)
    BY <1>3 DEF Init
  <2> QED BY <1>8, <2>1 DEF CancelIsJustified
<1>11. OwedIsJustified /\ NoEarlyResult /\ MissingNodesAreAllowed
  BY <1>6 DEF OwedIsJustified, NoEarlyResult, MissingNodesAreAllowed, Init
<1> QED BY <1>2, <1>4, <1>5, <1>6, <1>7, <1>9, <1>10, <1>11 DEF QueryIInv, QueryTypes

-----------------------------------------------------------------------------
(* Steps which take no rows from the pipes and give none to them *)

PcType == {"request", "read", "pipes", "return", "fail", "idle"}

\* Rows are held inside the pipes only.
HeldInPipes == \A w \in Node : block[w].rows # <<>> => pc[w] \in {"pipes", "return"}

LEMMA TypeParts ==
  QueryTypes <=> /\ query \in Queries /\ partial \in BOOLEAN /\ stage \in 0..Top
                 /\ pc \in [Node -> PcType] /\ HeldInPipes
                 /\ canceled \in 0..Top /\ netDone \in BOOLEAN /\ clientGone \in BOOLEAN
                 /\ flushing \in BOOLEAN /\ errs \in [Node -> Fault \cup {"none"}]
                 /\ result \in Fault \cup {"none", "memory"}
                 /\ pipes \in Seq(LocalPipe)
                 /\ rest \in [Node -> Seq(Row)] /\ block \in [Node -> Blocks] /\ owed \in [Node -> Nat]
                 /\ seen \in [Pipe -> Nat] /\ budget \in [Pipe -> Int] /\ kept \in [Pipe -> [Node -> Seq(Row)]]
BY DEF QueryTypes, QueryTypeOK, HeldInPipes, PcType

LEMMA TypePartsPrime ==
  QueryTypes' <=> /\ query' \in Queries /\ partial' \in BOOLEAN /\ stage' \in 0..Top'
                  /\ pc' \in [Node -> PcType] /\ HeldInPipes'
                  /\ canceled' \in 0..Top' /\ netDone' \in BOOLEAN /\ clientGone' \in BOOLEAN
                  /\ flushing' \in BOOLEAN /\ errs' \in [Node -> Fault \cup {"none"}]
                  /\ result' \in Fault \cup {"none", "memory"}
                  /\ pipes' \in Seq(LocalPipe)
                  /\ rest' \in [Node -> Seq(Row)] /\ block' \in [Node -> Blocks] /\ owed' \in [Node -> Nat]
                  /\ seen' \in [Pipe' -> Nat] /\ budget' \in [Pipe' -> Int] /\ kept' \in [Pipe' -> [Node -> Seq(Row)]]
BY DEF QueryTypes, QueryTypeOK, HeldInPipes, PcType

LEMMA SamePipes ==
  ASSUME pipes' = pipes
  PROVE  Pipe' = Pipe /\ Top' = Top
BY DEF Pipe, Top

LEMMA SameNeeds ==
  ASSUME UNCHANGED <<pipes, pipeVars>>
  PROVE  Spare \subseteq Spare'
BY DEF pipeVars, Spare, Pipe, NeedsNoRows, ShardIsFull

\* What is cancelled while the client waits.
LEMMA SpareCancels ==
  ASSUME QueryTypes
  PROVE  CancelIsJustified <=> (canceled > stage /\ ~ clientGone /\ result = "none" => canceled \in Spare)
<1>1. pipes \in Seq(LocalPipe) /\ canceled \in 0..Top /\ stage \in 0..Top
  BY TypeParts
<1>2. canceled > stage => (canceled < Top <=> canceled \in Pipe)
  BY <1>1, TopFacts
<1> QED BY <1>2 DEF CancelIsJustified, Spare

LEMMA Between ==
  ASSUME NEW t \in Nat, NEW c \in 0..t, NEW s \in 0..t
  PROVE  c > s => (c < t <=> c \in 1..(t - 1))
OBVIOUS

LEMMA SpareCancelsPrime ==
  ASSUME QueryTypes'
  PROVE  CancelIsJustified' <=> (canceled' > stage' /\ ~ clientGone' /\ result' = "none" => canceled' \in Spare')
<1>1. pipes' \in Seq(LocalPipe) /\ canceled' \in 0..Top' /\ stage' \in 0..Top'
  BY TypePartsPrime
<1>2. Top' \in Nat /\ Top' >= 1 /\ Pipe' = 1..(Top' - 1)
  BY <1>1 DEF Top, Pipe
<1>4. canceled' > stage' => (canceled' < Top' <=> canceled' \in 1..(Top' - 1))
  BY <1>1, <1>2, Between
<1>5. canceled' > stage' => (canceled' < Top' <=> canceled' \in Pipe')
  BY <1>2, <1>4
<1> QED BY <1>5 DEF CancelIsJustified, Spare

\* What a step keeps that only moves rows to the pipes or forgets them.
LEMMA SameClaims ==
  ASSUME QueryIInv, UNCHANGED <<pipes, pipeVars, owed, canceled, stage, result, clientGone, partial>>,
         UNCHANGED errs \/ stage = 0, QueryTypes'
  PROVE  QueryIInv'
<1>1. Spare \subseteq Spare'
  BY SameNeeds
<1>3. OwedIsJustified'
  BY <1>1 DEF QueryIInv, OwedIsJustified
<1>4. CancelIsJustified'
  BY <1>1, SpareCancels, SpareCancelsPrime DEF QueryIInv
<1>5. NoEarlyResult'
  BY DEF QueryIInv, NoEarlyResult
<1>6. MissingNodesAreAllowed'
  BY DEF QueryIInv, MissingNodesAreAllowed
<1> QED BY <1>3, <1>4, <1>5, <1>6 DEF QueryIInv

LEMMA ReadBlockKeeps ==
  ASSUME QueryIInv, NEW w \in Node, ReadBlock(w)
  PROVE  QueryIInv'
<1>1. UNCHANGED <<owed, canceled, clientGone, netVars, pipeVars, runVars>>
  BY DEF ReadBlock
<1>2. UNCHANGED <<pipes, owed, canceled, stage, result, clientGone, partial, errs, query, netDone, flushing, seen, kept, budget>>
  BY <1>1 DEF netVars, runVars, pipeVars
<1>4. Pipe' = Pipe /\ Top' = Top
  BY <1>2, SamePipes
<1>5. rest[w] \in Seq(Row) /\ block \in [Node -> Blocks] /\ rest \in [Node -> Seq(Row)] /\ pc \in [Node -> PcType] /\ stage \in 0..Top
  BY TypeParts DEF QueryIInv
<1>6. PICK k \in 1..Len(rest[w]) :
         /\ block' = [block EXCEPT ![w] = [at |-> stage + 1, rows |-> SubSeq(rest[w], 1, k)]]
         /\ rest' = [rest EXCEPT ![w] = SubSeq(@, k + 1, Len(@))]
  BY DEF ReadBlock
<1>7. SubSeq(rest[w], 1, k) \in Seq(Row) /\ SubSeq(rest[w], k + 1, Len(rest[w])) \in Seq(Row)
  <2>1. k \in Nat /\ k \in Int /\ k <= Len(rest[w]) /\ Len(rest[w]) \in Int /\ 0 \in Nat /\ 0 + 1 = 1
    BY <1>5
  <2>2. SubSeq(rest[w], 0 + 1, k) \in Seq(Row)
    BY <1>5, <2>1, PartOfSeq
  <2>3. SubSeq(rest[w], k + 1, Len(rest[w])) \in Seq(Row)
    BY <1>5, <2>1, PartOfSeq
  <2> QED BY <2>1, <2>2, <2>3
<1>8. [at |-> stage + 1, rows |-> SubSeq(rest[w], 1, k)] \in Blocks
  <2>1. stage + 1 \in Nat
    BY <1>5
  <2> QED BY <1>7, <2>1 DEF Blocks
<1>9. block' \in [Node -> Blocks] /\ rest' \in [Node -> Seq(Row)]
  BY <1>5, <1>6, <1>7, <1>8
<1>10. pc' = [pc EXCEPT ![w] = "pipes"]
  BY DEF ReadBlock
<1>11. pc' \in [Node -> PcType]
  BY <1>5, <1>10 DEF PcType
<1>12. HeldInPipes'
  <2> SUFFICES ASSUME NEW v \in Node, block'[v].rows # <<>> PROVE pc'[v] \in {"pipes", "return"}
    BY DEF HeldInPipes
  <2>1. CASE v = w
    BY <1>5, <1>10, <2>1
  <2>2. CASE v # w
    <3>1. block'[v] = block[v] /\ pc'[v] = pc[v]
      BY <1>5, <1>6, <1>10, <2>2
    <3>2. HeldInPipes
      BY TypeParts DEF QueryIInv
    <3> QED BY <3>1, <3>2 DEF HeldInPipes
  <2> QED BY <2>1, <2>2
<1>13. QueryTypes'
  BY <1>2, <1>4, <1>9, <1>11, <1>12, TypeParts, TypePartsPrime DEF QueryIInv
<1> QED BY <1>1, <1>2, <1>13, SameClaims

\* A goroutine that reads or has failed holds no rows; it may stop or go on.
LEMMA MovesKeep ==
  ASSUME QueryIInv, NEW w \in Node, pc[w] \in {"request", "read", "fail"},
         NEW next \in {"idle", "fail"}, pc' = [pc EXCEPT ![w] = next],
         rest' = rest \/ rest' = [rest EXCEPT ![w] = <<>>],
         UNCHANGED <<query, pipes, partial, block, owed, pipeVars, canceled, stage, flushing, result, clientGone>>,
         netDone' \in BOOLEAN, errs' \in [Node -> Fault \cup {"none"}], UNCHANGED errs \/ stage = 0
  PROVE  QueryIInv'
<1>2. Pipe' = Pipe /\ Top' = Top
  BY SamePipes
<1>3. rest \in [Node -> Seq(Row)] /\ pc \in [Node -> PcType] /\ HeldInPipes
  BY TypeParts DEF QueryIInv
<1>4. rest' \in [Node -> Seq(Row)]
  <2>1. <<>> \in Seq(Row)
    OBVIOUS
  <2> QED BY <1>3, <2>1
<1>5. pc' \in [Node -> PcType]
  BY <1>3 DEF PcType
<1>6. HeldInPipes'
  <2> SUFFICES ASSUME NEW v \in Node, block[v].rows # <<>> PROVE pc'[v] \in {"pipes", "return"}
    BY DEF HeldInPipes
  <2>1. pc[v] \in {"pipes", "return"}
    BY <1>3 DEF HeldInPipes
  <2>2. pc'[v] = pc[v]
    BY <1>3, <2>1
  <2> QED BY <2>1, <2>2
<1>7. UNCHANGED <<seen, kept, budget>>
  BY DEF pipeVars
<1>8. QueryTypes'
  BY <1>2, <1>4, <1>5, <1>6, <1>7, TypeParts, TypePartsPrime DEF QueryIInv
<1> QED BY <1>8, SameClaims

LEMMA ReadStepKeeps ==
  ASSUME QueryIInv, NEW w \in Node, ReadStep(w)
  PROVE  QueryIInv'
<1>0. netDone \in BOOLEAN /\ errs \in [Node -> Fault \cup {"none"}]
  BY TypeParts DEF QueryIInv
<1>1. CASE ReadBlock(w)
  BY <1>1, ReadBlockKeeps
<1>2. CASE EndOfRows(w)
  <2>1. /\ pc[w] \in {"request", "read", "fail"} /\ pc' = [pc EXCEPT ![w] = "idle"] /\ rest' = rest
        /\ UNCHANGED <<query, pipes, partial, block, owed, pipeVars, canceled, stage, flushing, result, clientGone, netDone, errs>>
    BY <1>2 DEF EndOfRows, Reading, netVars, runVars
  <2> QED BY <1>0, <2>1, MovesKeep
<1>3. CASE Abort(w)
  <2>1. /\ pc[w] \in {"request", "read", "fail"} /\ pc' = [pc EXCEPT ![w] = "idle"]
        /\ rest' = [rest EXCEPT ![w] = <<>>]
        /\ UNCHANGED <<query, pipes, partial, block, owed, pipeVars, canceled, stage, flushing, result, clientGone, netDone, errs>>
    BY <1>3 DEF Abort, Reading, netVars, runVars
  <2> QED BY <1>0, <2>1, MovesKeep
<1>4. CASE CancelRequests(w)
  <2>1. /\ pc[w] \in {"request", "read", "fail"} /\ pc' = [pc EXCEPT ![w] = "idle"] /\ rest' = rest
        /\ UNCHANGED <<query, pipes, partial, block, owed, pipeVars, canceled, stage, flushing, result, clientGone, errs>>
        /\ netDone' = TRUE
    BY <1>4 DEF CancelRequests, runVars
  <2> QED BY <1>0, <2>1, MovesKeep
<1> QED BY <1>1, <1>2, <1>3, <1>4 DEF ReadStep

LEMMA NodeFailsKeeps ==
  ASSUME QueryIInv, NEW w \in Node, NEW fault \in Fault, NodeFails(w, fault)
  PROVE  QueryIInv'
<1>1. netDone \in BOOLEAN /\ errs \in [Node -> Fault \cup {"none"}]
  BY TypeParts DEF QueryIInv
<1>2. /\ pc[w] \in {"request", "read", "fail"} /\ stage = 0 /\ rest' = [rest EXCEPT ![w] = <<>>]
      /\ UNCHANGED <<query, pipes, partial, block, owed, pipeVars, canceled, stage, flushing, result, clientGone, netDone>>
  BY DEF NodeFails, Reading, runVars
<1>3. errs' = errs \/ errs' = [errs EXCEPT ![w] = fault]
  BY DEF NodeFails
<1>4. errs' \in [Node -> Fault \cup {"none"}]
  BY <1>1, <1>3
<1>5. pc' = [pc EXCEPT ![w] = "idle"] \/ pc' = [pc EXCEPT ![w] = "fail"]
  BY DEF NodeFails
<1> QED BY <1>1, <1>2, <1>4, <1>5, MovesKeep

-----------------------------------------------------------------------------
(* Steps of blocks inside the pipes *)

\* The block of w goes on, or is done with; pipe c may be owed a cancel.
HandsOn(w, c) ==
  /\ block' \in [Node -> Blocks] /\ owed' \in [Node -> Nat] /\ pc' \in [Node -> PcType] /\ HeldInPipes'
  /\ \A v \in Node : owed'[v] = owed[v] \/ owed'[v] = c

LEMMA ForwardHands ==
  ASSUME QueryTypes, NEW w \in Node, NEW rows \in Seq(Row), NEW c \in Nat, Forward(w, rows, c)
  PROVE  HandsOn(w, c)
<1>1. block \in [Node -> Blocks] /\ owed \in [Node -> Nat] /\ pc \in [Node -> PcType] /\ HeldInPipes
  BY TypeParts
<1>2. /\ block' = [block EXCEPT ![w] = [at |-> @.at + 1, rows |-> rows]]
      /\ owed' = [owed EXCEPT ![w] = Greater(@, c)]
      /\ pc' = [pc EXCEPT ![w] = IF rows = <<>> THEN "return" ELSE "pipes"]
  BY DEF Forward
<1>3. [at |-> block[w].at + 1, rows |-> rows] \in Blocks
  <2>1. block[w] \in Blocks
    BY <1>1
  <2> QED BY <2>1 DEF Blocks
<1>4. block' \in [Node -> Blocks]
  BY <1>1, <1>2, <1>3
<1>5. owed' \in [Node -> Nat] /\ \A v \in Node : owed'[v] = owed[v] \/ owed'[v] = c
  BY <1>1, <1>2 DEF Greater
<1>6. pc' \in [Node -> PcType]
  BY <1>1, <1>2 DEF PcType
<1>7. HeldInPipes'
  <2> SUFFICES ASSUME NEW v \in Node, block'[v].rows # <<>> PROVE pc'[v] \in {"pipes", "return"}
    BY DEF HeldInPipes
  <2>1. CASE v = w
    BY <1>1, <1>2, <2>1
  <2>2. CASE v # w
    <3>1. block'[v] = block[v] /\ pc'[v] = pc[v]
      BY <1>1, <1>2, <2>2
    <3> QED BY <1>1, <3>1 DEF HeldInPipes
  <2> QED BY <2>1, <2>2
<1> QED BY <1>4, <1>5, <1>6, <1>7 DEF HandsOn

LEMMA ReturnHands ==
  ASSUME QueryTypes, NEW w \in Node, NEW c \in Nat, Return(w, c)
  PROVE  HandsOn(w, c)
<1>1. block \in [Node -> Blocks] /\ owed \in [Node -> Nat] /\ pc \in [Node -> PcType] /\ HeldInPipes
  BY TypeParts
<1>2. /\ block' = [block EXCEPT ![w] = NoBlock]
      /\ owed' = [owed EXCEPT ![w] = Greater(@, c)]
      /\ pc' = [pc EXCEPT ![w] = "return"]
  BY DEF Return
<1>3. NoBlock \in Blocks
  BY DEF NoBlock, Blocks
<1>4. block' \in [Node -> Blocks]
  BY <1>1, <1>2, <1>3
<1>5. owed' \in [Node -> Nat] /\ \A v \in Node : owed'[v] = owed[v] \/ owed'[v] = c
  BY <1>1, <1>2 DEF Greater
<1>6. pc' \in [Node -> PcType]
  BY <1>1, <1>2 DEF PcType
<1>7. HeldInPipes'
  <2> SUFFICES ASSUME NEW v \in Node, block'[v].rows # <<>> PROVE pc'[v] \in {"pipes", "return"}
    BY DEF HeldInPipes
  <2>1. CASE v = w
    BY <1>1, <1>2, <2>1
  <2>2. CASE v # w
    <3>1. block'[v] = block[v] /\ pc'[v] = pc[v]
      BY <1>1, <1>2, <2>2
    <3> QED BY <1>1, <3>1 DEF HeldInPipes
  <2> QED BY <2>1, <2>2
<1> QED BY <1>4, <1>5, <1>6, <1>7 DEF HandsOn

\* A pipe which needs no rows never needs some again.
NeedsStay == Spare \subseteq Spare'

LEMMA HandsOnKeeps ==
  ASSUME QueryIInv, NEW w \in Node, NEW c \in Nat, HandsOn(w, c), c # 0 => c \in Spare',
         NeedsStay, UNCHANGED <<rest, canceled, clientGone, netVars, runVars>>,
         seen' \in [Pipe -> Nat], budget' \in [Pipe -> Int], kept' \in [Pipe -> [Node -> Seq(Row)]]
  PROVE  QueryIInv'
<1>1. UNCHANGED <<query, pipes, partial, stage, flushing, result, netDone, errs>>
  BY DEF netVars, runVars
<1>2. Pipe' = Pipe /\ Top' = Top /\ pipes \in Seq(LocalPipe) /\ canceled \in 0..Top /\ stage \in 0..Top
  BY <1>1, SamePipes, TypeParts DEF QueryIInv
<1>3. QueryTypes'
  BY <1>1, <1>2, TypeParts, TypePartsPrime DEF QueryIInv, HandsOn
<1>4. OwedIsJustified'
  BY DEF QueryIInv, OwedIsJustified, HandsOn, NeedsStay
<1>5. CancelIsJustified'
  BY <1>1, <1>3, SpareCancels, SpareCancelsPrime DEF QueryIInv, NeedsStay
<1>6. NoEarlyResult' /\ MissingNodesAreAllowed'
  BY <1>1 DEF QueryIInv, NoEarlyResult, MissingNodesAreAllowed
<1> QED BY <1>3, <1>4, <1>5, <1>6 DEF QueryIInv

\* A pipe that counts rows counts on.
LEMMA CountsUp ==
  ASSUME QueryTypes, NEW i \in Pipe, NEW n \in Nat, seen' = [seen EXCEPT ![i] = @ + n],
         UNCHANGED <<pipes, kept, budget>>
  PROVE  NeedsStay /\ seen' \in [Pipe -> Nat]
<1>1. seen \in [Pipe -> Nat] /\ pipes \in Seq(LocalPipe)
  BY TypeParts
<1>2. seen' \in [Pipe -> Nat] /\ \A j \in Pipe : seen'[j] >= seen[j]
  BY <1>1
<1>3. ASSUME NEW j \in Pipe, NeedsNoRows(j) PROVE NeedsNoRows(j)'
  <2>1. CASE pipes[j].op = "limit" /\ seen[j] >= pipes[j].lim
    <3>1. pipes[j].lim \in Nat
      <4>1. pipes[j] \in LocalPipe
        BY <1>1, TopFacts
      <4> QED BY <4>1 DEF LocalPipe, ClientPipe
    <3>2. seen[j] \in Nat /\ seen'[j] \in Nat /\ seen'[j] >= seen[j]
      BY <1>1, <1>2
    <3>3. seen'[j] >= pipes[j].lim
      BY <2>1, <3>1, <3>2
    <3>4. pipes'[j].op = "limit" /\ seen'[j] >= pipes'[j].lim
      BY <2>1, <3>3
    <3> QED BY <3>4 DEF NeedsNoRows
  <2>2. CASE Blocking(pipes[j]) /\ (budget[j] < 0 \/ \E v \in Node : ShardIsFull(j, v))
    BY <2>2 DEF NeedsNoRows, ShardIsFull
  <2> QED BY <1>3, <2>1, <2>2 DEF NeedsNoRows
<1>4. Pipe' = Pipe
  BY SamePipes
<1>5. Spare \subseteq Spare'
  BY <1>3, <1>4 DEF Spare
<1> QED BY <1>2, <1>5 DEF NeedsStay

\* The rows of a block at a pipe.
LEMMA AtPipe ==
  ASSUME QueryTypes, NEW w \in Node, block[w].at \in Pipe
  PROVE  /\ block[w].rows \in Seq(Row) /\ Len(block[w].rows) \in Nat /\ seen[block[w].at] \in Nat
         /\ pipes[block[w].at] \in LocalPipe
         /\ pipes[block[w].at].off \in Nat /\ pipes[block[w].at].lim \in Nat /\ block[w].at \in Nat \ {0}
<1>1. block[w] \in Blocks /\ seen \in [Pipe -> Nat] /\ pipes \in Seq(LocalPipe)
  BY TypeParts
<1>2. block[w].rows \in Seq(Row)
  BY <1>1 DEF Blocks
<1>3. pipes[block[w].at] \in LocalPipe /\ block[w].at \in Nat \ {0}
  BY <1>1, TopFacts
<1> QED BY <1>1, <1>2, <1>3 DEF LocalPipe, ClientPipe

LEMMA FilterBlockKeeps ==
  ASSUME QueryIInv, NEW w \in Node, FilterBlock(w)
  PROVE  QueryIInv'
<1> DEFINE rows == FilterRows(pipes[block[w].at], block[w].rows)
<1>1. QueryTypes
  BY DEF QueryIInv
<1>2. Forward(w, rows, 0) /\ block[w].at \in Pipe
  BY DEF FilterBlock, At
<1>3. rows \in Seq(Row)
  <2>1. block[w].rows \in Seq(Row) /\ Len(block[w].rows) \in 0..Len(block[w].rows)
    BY <1>1, <1>2, AtPipe
  <2> QED BY <2>1, FilterLoop
<1> HIDE DEF rows
<1>4. HandsOn(w, 0)
  BY <1>1, <1>2, <1>3, ForwardHands
<1>5. UNCHANGED <<rest, canceled, clientGone, netVars, runVars>> /\ UNCHANGED <<pipes, pipeVars>>
  BY DEF FilterBlock, runVars
<1>6. NeedsStay
  BY <1>5, SameNeeds DEF NeedsStay
<1>7. seen' \in [Pipe -> Nat] /\ budget' \in [Pipe -> Int] /\ kept' \in [Pipe -> [Node -> Seq(Row)]]
  BY <1>1, <1>5, TypeParts DEF pipeVars
<1> QED BY <1>4, <1>5, <1>6, <1>7, HandsOnKeeps

LEMMA LimitBlockKeeps ==
  ASSUME QueryIInv, NEW w \in Node, LimitBlock(w)
  PROVE  QueryIInv'
<1>0. PICK i \in Pipe : i = block[w].at
  BY DEF LimitBlock, At
<1> DEFINE p == pipes[i]
           rows == block[w].rows
           before == seen[i]
           after == before + Len(rows)
<1>1. QueryTypes
  BY DEF QueryIInv
<1>2. p.op = "limit"
  BY <1>0 DEF LimitBlock, At
<1>3. /\ rows \in Seq(Row) /\ Len(rows) \in Nat /\ before \in Nat /\ p.lim \in Nat /\ i \in Nat /\ i # 0
      /\ seen \in [Pipe -> Nat]
  BY <1>0, <1>1, AtPipe, TypeParts
<1>4. seen' = [seen EXCEPT ![i] = @ + Len(rows)] /\ seen' = [seen EXCEPT ![i] = after]
  BY <1>0 DEF LimitBlock
<1>5. UNCHANGED <<rest, canceled, clientGone, netVars, runVars>> /\ UNCHANGED <<pipes, kept, budget>>
  BY DEF LimitBlock, runVars
<1>6. \/ after <= p.lim /\ Forward(w, rows, IF after = p.lim THEN i ELSE 0)
      \/ after > p.lim /\ before >= p.lim /\ Return(w, 0)
      \/ after > p.lim /\ before < p.lim /\ Forward(w, SubSeq(rows, 1, p.lim - before), i)
  BY <1>0 DEF LimitBlock, TruncateRows
<1>7. NeedsStay /\ seen' \in [Pipe -> Nat]
  BY <1>1, <1>3, <1>4, <1>5, CountsUp
<1>8. budget' \in [Pipe -> Int] /\ kept' \in [Pipe -> [Node -> Seq(Row)]]
  BY <1>1, <1>5, TypeParts
<1>9. after >= p.lim => i \in Spare'
  <2>1. seen'[i] = after /\ pipes' = pipes
    BY <1>3, <1>4, <1>5
  <2>2. after >= p.lim => NeedsNoRows(i)'
    BY <1>2, <2>1 DEF NeedsNoRows
  <2>3. Pipe' = Pipe
    BY <1>5, SamePipes
  <2> QED BY <2>2, <2>3 DEF Spare
<1> HIDE DEF p, rows, before, after
<1>10. CASE after <= p.lim /\ Forward(w, rows, IF after = p.lim THEN i ELSE 0)
  <2> DEFINE c == IF after = p.lim THEN i ELSE 0
  <2>1. c \in Nat /\ (c # 0 => c \in Spare')
    BY <1>3, <1>9
  <2>2. Forward(w, rows, c)
    BY <1>10
  <2> HIDE DEF c
  <2>3. HandsOn(w, c)
    BY <1>1, <1>3, <2>1, <2>2, ForwardHands
  <2> QED BY <1>5, <1>7, <1>8, <2>1, <2>3, HandsOnKeeps
<1>11. CASE after > p.lim /\ before >= p.lim /\ Return(w, 0)
  <2>1. HandsOn(w, 0)
    BY <1>1, <1>11, ReturnHands
  <2> QED BY <1>5, <1>7, <1>8, <2>1, HandsOnKeeps
<1>12. CASE after > p.lim /\ before < p.lim /\ Forward(w, SubSeq(rows, 1, p.lim - before), i)
  <2>1. p.lim - before \in Int /\ p.lim - before <= Len(rows) /\ 0 + 1 = 1 /\ after >= p.lim
    BY <1>3, <1>12 DEF after
  <2>2. SubSeq(rows, 0 + 1, p.lim - before) \in Seq(Row)
    BY <1>3, <2>1, PartOfSeq
  <2>3. HandsOn(w, i)
    BY <1>1, <1>3, <1>12, <2>1, <2>2, ForwardHands
  <2> QED BY <1>3, <1>5, <1>7, <1>8, <1>9, <2>1, <2>3, HandsOnKeeps
<1> QED BY <1>6, <1>10, <1>11, <1>12

LEMMA OffsetBlockKeeps ==
  ASSUME QueryIInv, NEW w \in Node, OffsetBlock(w)
  PROVE  QueryIInv'
<1>0. PICK i \in Pipe : i = block[w].at
  BY DEF OffsetBlock, At
<1> DEFINE p == pipes[i]
           rows == block[w].rows
           before == seen[i]
           after == before + Len(rows)
<1>1. QueryTypes
  BY DEF QueryIInv
<1>3. /\ rows \in Seq(Row) /\ Len(rows) \in Nat /\ before \in Nat /\ p.off \in Nat
      /\ seen \in [Pipe -> Nat]
  BY <1>0, <1>1, AtPipe, TypeParts
<1>4. seen' = [seen EXCEPT ![i] = @ + Len(rows)]
  BY <1>0 DEF OffsetBlock
<1>5. UNCHANGED <<rest, canceled, clientGone, netVars, runVars>> /\ UNCHANGED <<pipes, kept, budget>>
  BY DEF OffsetBlock, runVars
<1>6. \/ Return(w, 0)
      \/ Forward(w, rows, 0)
      \/ before < p.off /\ Forward(w, SubSeq(rows, p.off - before + 1, Len(rows)), 0)
  BY <1>0 DEF OffsetBlock
<1>7. NeedsStay /\ seen' \in [Pipe -> Nat]
  BY <1>1, <1>3, <1>4, <1>5, CountsUp
<1>8. budget' \in [Pipe -> Int] /\ kept' \in [Pipe -> [Node -> Seq(Row)]]
  BY <1>1, <1>5, TypeParts
<1> HIDE DEF p, rows, before, after
<1>9. HandsOn(w, 0)
  <2>1. CASE Return(w, 0)
    BY <1>1, <2>1, ReturnHands
  <2>2. CASE Forward(w, rows, 0)
    BY <1>1, <1>3, <2>2, ForwardHands
  <2>3. CASE before < p.off /\ Forward(w, SubSeq(rows, p.off - before + 1, Len(rows)), 0)
    <3>1. p.off - before \in Nat /\ Len(rows) \in Int /\ Len(rows) <= Len(rows)
      BY <1>3, <2>3
    <3>2. SubSeq(rows, p.off - before + 1, Len(rows)) \in Seq(Row)
      BY <1>3, <3>1, PartOfSeq
    <3> QED BY <1>1, <2>3, <3>2, ForwardHands
  <2> QED BY <1>6, <2>1, <2>2, <2>3
<1> QED BY <1>5, <1>7, <1>8, <1>9, HandsOnKeeps

\* The rows of a block stay in the shard of its goroutine, or are dropped.
LEMMA KeepBlockKeeps ==
  ASSUME QueryIInv, NEW w \in Node, KeepBlock(w)
  PROVE  QueryIInv'
<1>0. PICK i \in Pipe : i = block[w].at
  BY DEF KeepBlock
<1> DEFINE left == IF NeedsChunk(i, w) THEN budget[i] - 1 ELSE budget[i]
           more == [kept EXCEPT ![i][w] = @ \o block[w].rows]
<1>1. QueryTypes
  BY DEF QueryIInv
<1>2. /\ block[w].rows \in Seq(Row) /\ i \in Nat /\ i # 0 /\ pipes \in Seq(LocalPipe)
      /\ budget \in [Pipe -> Int] /\ kept \in [Pipe -> [Node -> Seq(Row)]] /\ seen \in [Pipe -> Nat]
  BY <1>0, <1>1, AtPipe, TypeParts
<1>3. Blocking(pipes[i]) /\ budget' = [budget EXCEPT ![i] = Greater(left, -2)]
  BY <1>0 DEF KeepBlock
<1>4. UNCHANGED <<rest, canceled, clientGone, netVars, runVars>> /\ UNCHANGED <<pipes, seen>>
  BY DEF KeepBlock, runVars
<1>5. \/ left < 0 /\ DropBlock(w, i, left) /\ UNCHANGED kept
      \/ ShardIsFull(i, w) /\ Return(w, i) /\ UNCHANGED kept
      \/ ~ ShardIsFull(i, w) /\ Return(w, 0) /\ kept' = more
  BY <1>0 DEF KeepBlock
<1>6. left \in Int /\ left <= budget[i]
  BY <1>2
<1> HIDE DEF left
<1>7. budget' \in [Pipe -> Int] /\ \A j \in Pipe : budget[j] < 0 => budget'[j] < 0
  <2>1. Greater(left, -2) \in Int /\ (budget[i] < 0 => Greater(left, -2) < 0)
    BY <1>2, <1>6 DEF Greater
  <2> QED BY <1>2, <1>3, <2>1
<1>8. more \in [Pipe -> [Node -> Seq(Row)]] /\ \A j \in Pipe, v \in Node : j # i \/ v # w => more[j][v] = kept[j][v]
  <2>1. kept[i] \in [Node -> Seq(Row)] /\ kept[i][w] \in Seq(Row)
    BY <1>2
  <2>2. kept[i][w] \o block[w].rows \in Seq(Row)
    BY <1>2, <2>1, ConcatProperties
  <2>3. more = [kept EXCEPT ![i] = [kept[i] EXCEPT ![w] = kept[i][w] \o block[w].rows]]
    BY <1>2
  <2>4. [kept[i] EXCEPT ![w] = kept[i][w] \o block[w].rows] \in [Node -> Seq(Row)]
    BY <2>1, <2>2
  <2> QED BY <1>2, <2>1, <2>2, <2>3, <2>4
<1> HIDE DEF more
<1>9. kept' \in [Pipe -> [Node -> Seq(Row)]]
  BY <1>2, <1>5, <1>8
<1>10. \A j \in Pipe, v \in Node : ShardIsFull(j, v) => ShardIsFull(j, v)'
  <2> SUFFICES ASSUME NEW j \in Pipe, NEW v \in Node, ShardIsFull(j, v) PROVE ShardIsFull(j, v)'
    OBVIOUS
  <2>1. kept'[j][v] = kept[j][v]
    <3>1. CASE kept' = kept
      BY <3>1
    <3>2. CASE ~ ShardIsFull(i, w) /\ kept' = more
      BY <1>8, <3>2
    <3> QED BY <1>5, <3>1, <3>2
  <2> QED BY <1>4, <2>1 DEF ShardIsFull
<1>11. Pipe' = Pipe
  BY <1>4, SamePipes
<1>12. NeedsStay
  <2>1. ASSUME NEW j \in Pipe, NeedsNoRows(j) PROVE NeedsNoRows(j)'
    BY <1>4, <1>7, <1>10, <2>1 DEF NeedsNoRows
  <2> QED BY <1>11, <2>1 DEF NeedsStay, Spare
<1>13. CASE left < 0 /\ DropBlock(w, i, left) /\ UNCHANGED kept
  <2> DEFINE c == IF left = -1 THEN i ELSE 0
  <2>1. Return(w, c) /\ c \in Nat
    BY <1>2, <1>13 DEF DropBlock
  <2>2. left = -1 => i \in Spare'
    <3>1. left = -1 => budget'[i] < 0
      BY <1>2, <1>3 DEF Greater
    <3>2. left = -1 => NeedsNoRows(i)'
      BY <1>3, <1>4, <3>1 DEF NeedsNoRows
    <3> QED BY <1>11, <3>2 DEF Spare
  <2>3. c # 0 => c \in Spare'
    BY <2>2
  <2> HIDE DEF c
  <2>4. HandsOn(w, c)
    BY <1>1, <2>1, ReturnHands
  <2> QED BY <1>2, <1>4, <1>7, <1>9, <1>12, <2>1, <2>3, <2>4, HandsOnKeeps
<1>14. CASE ShardIsFull(i, w) /\ Return(w, i) /\ UNCHANGED kept
  <2>1. i \in Spare'
    <3>1. NeedsNoRows(i)'
      BY <1>3, <1>4, <1>10, <1>14 DEF NeedsNoRows
    <3> QED BY <1>11, <3>1 DEF Spare
  <2>2. HandsOn(w, i)
    BY <1>1, <1>2, <1>14, ReturnHands
  <2> QED BY <1>2, <1>4, <1>7, <1>9, <1>12, <2>1, <2>2, HandsOnKeeps
<1>15. CASE ~ ShardIsFull(i, w) /\ Return(w, 0) /\ kept' = more
  <2>1. HandsOn(w, 0)
    BY <1>1, <1>15, ReturnHands
  <2> QED BY <1>2, <1>4, <1>7, <1>9, <1>12, <2>1, HandsOnKeeps
<1> QED BY <1>5, <1>13, <1>14, <1>15

LEMMA WriteBlockKeeps ==
  ASSUME QueryIInv, NEW w \in Node, WriteBlock(w)
  PROVE  QueryIInv'
<1>1. QueryTypes
  BY DEF QueryIInv
<1>2. UNCHANGED <<rest, canceled, clientGone, netVars, runVars>> /\ UNCHANGED <<pipes, pipeVars>> /\ Return(w, 0)
  BY DEF WriteBlock, runVars
<1>3. HandsOn(w, 0)
  BY <1>1, <1>2, ReturnHands
<1>4. NeedsStay
  BY <1>2, SameNeeds DEF NeedsStay
<1>5. seen' \in [Pipe -> Nat] /\ budget' \in [Pipe -> Int] /\ kept' \in [Pipe -> [Node -> Seq(Row)]]
  BY <1>1, <1>2, TypeParts DEF pipeVars
<1> QED BY <1>2, <1>3, <1>4, <1>5, HandsOnKeeps

\* The cancel that is owed is done.
LEMMA ReturnKeeps ==
  ASSUME QueryIInv, NEW w \in Node, ReturnFromPipes(w)
  PROVE  QueryIInv'
<1>1. QueryTypes /\ pipes \in Seq(LocalPipe)
  BY TypeParts DEF QueryIInv
<1>2. /\ block \in [Node -> Blocks] /\ owed \in [Node -> Nat] /\ pc \in [Node -> PcType] /\ HeldInPipes
      /\ canceled \in 0..Top /\ stage \in 0..Top
  BY <1>1, TypeParts
<1>3. /\ block' = [block EXCEPT ![w] = NoBlock] /\ owed' = [owed EXCEPT ![w] = 0]
      /\ pc' = [pc EXCEPT ![w] = "read"] /\ canceled' = Greater(canceled, owed[w])
  BY DEF ReturnFromPipes
<1>4. /\ UNCHANGED <<query, pipes, partial, rest, stage, flushing, result, netDone, errs, clientGone, seen, kept, budget>>
      /\ UNCHANGED <<pipes, pipeVars>>
  BY DEF ReturnFromPipes, netVars, pipeVars, runVars
<1>5. Pipe' = Pipe /\ Top' = Top /\ Spare \subseteq Spare'
  BY <1>4, SamePipes, SameNeeds
<1>6. owed[w] # 0 => owed[w] \in Spare /\ owed[w] \in Pipe
  BY DEF QueryIInv, OwedIsJustified, Spare
<1>7. canceled' \in 0..Top /\ (canceled' = canceled \/ canceled' \in Spare)
  <2>1. Pipe = 1..(Top - 1) /\ Top \in Nat
    BY <1>1, TopFacts
  <2>2. owed[w] \in Nat /\ (owed[w] # 0 => owed[w] <= Top)
    BY <1>2, <1>6, <2>1
  <2> QED BY <1>2, <1>3, <1>6, <2>1, <2>2 DEF Greater
<1>8. NoBlock \in Blocks /\ NoBlock.rows = <<>>
  BY DEF NoBlock, Blocks
<1>9. block' \in [Node -> Blocks] /\ owed' \in [Node -> Nat] /\ pc' \in [Node -> PcType]
  BY <1>2, <1>3, <1>8 DEF PcType
<1>10. HeldInPipes'
  <2> SUFFICES ASSUME NEW v \in Node, block'[v].rows # <<>> PROVE pc'[v] \in {"pipes", "return"}
    BY DEF HeldInPipes
  <2>1. v # w
    BY <1>2, <1>3, <1>8
  <2>2. block'[v] = block[v] /\ pc'[v] = pc[v]
    BY <1>2, <1>3, <2>1
  <2> QED BY <1>2, <2>2 DEF HeldInPipes
<1>11. QueryTypes'
  BY <1>1, <1>4, <1>5, <1>7, <1>9, <1>10, TypeParts, TypePartsPrime
<1>12. OwedIsJustified'
  BY <1>2, <1>3, <1>5 DEF QueryIInv, OwedIsJustified
<1>13. CancelIsJustified'
  BY <1>1, <1>4, <1>5, <1>7, <1>11, SpareCancels, SpareCancelsPrime DEF QueryIInv
<1>14. NoEarlyResult' /\ MissingNodesAreAllowed'
  BY <1>4 DEF QueryIInv, NoEarlyResult, MissingNodesAreAllowed
<1> QED BY <1>11, <1>12, <1>13, <1>14 DEF QueryIInv

LEMMA BlockStepKeeps ==
  ASSUME QueryIInv, NEW w \in Node, BlockStep(w)
  PROVE  QueryIInv'
BY FilterBlockKeeps, LimitBlockKeeps, OffsetBlockKeeps, KeepBlockKeeps, WriteBlockKeeps, ReturnKeeps
   DEF BlockStep

-----------------------------------------------------------------------------
(* The end of the search, the flushes and the client *)

LEMMA EndSearchKeeps ==
  ASSUME QueryIInv, EndSearch
  PROVE  QueryIInv'
<1>1. /\ QueryTypes /\ pipes \in Seq(LocalPipe) /\ errs \in [Node -> Fault \cup {"none"}] /\ partial \in BOOLEAN
      /\ canceled \in 0..Top
  BY TypeParts DEF QueryIInv
<1>2. /\ stage = 0 /\ stage' = 1 /\ result' = FirstError
      /\ canceled' = IF result' # "none" THEN Top ELSE canceled
  BY DEF EndSearch
<1>3. /\ UNCHANGED <<query, pipes, partial, rest, pc, block, owed, netDone, errs, seen, kept, budget, flushing, clientGone>>
      /\ UNCHANGED <<pipes, pipeVars>>
  BY DEF EndSearch, netVars, pipeVars
<1>4. Pipe' = Pipe /\ Top' = Top /\ Spare \subseteq Spare'
  BY <1>3, SamePipes, SameNeeds
<1>5. Top \in Nat /\ Top >= 1
  BY <1>1, TopFacts
<1>6. /\ result' \in Fault \cup {"none"}
      /\ result' = "none" => /\ ~ partial => \A w \in Node : errs[w] = "none"
                             /\ \E w \in Node : errs[w] # "unavailable"
  BY <1>1, <1>2, FirstErrorFacts
<1>7. canceled' \in 0..Top' /\ stage' \in 0..Top'
  BY <1>1, <1>2, <1>4, <1>5
<1>8. HeldInPipes'
  BY <1>1, <1>3, TypeParts DEF HeldInPipes
<1>9. QueryTypes'
  BY <1>1, <1>3, <1>4, <1>6, <1>7, <1>8, TypeParts, TypePartsPrime
<1>10. OwedIsJustified'
  BY <1>3, <1>4 DEF QueryIInv, OwedIsJustified
<1>11. CancelIsJustified'
  <2> SUFFICES ASSUME canceled' > 1, ~ clientGone, result' = "none" PROVE canceled' \in Spare'
    BY <1>2, <1>3, <1>9, SpareCancelsPrime
  <2>1. canceled' = canceled /\ canceled > stage
    BY <1>1, <1>2
  <2>2. result = "none"
    BY <1>2 DEF QueryIInv, NoEarlyResult
  <2>3. canceled \in Spare
    BY <1>1, <2>1, <2>2, SpareCancels DEF QueryIInv
  <2> QED BY <1>4, <2>1, <2>3
<1>12. NoEarlyResult' /\ MissingNodesAreAllowed'
  BY <1>2, <1>3, <1>6 DEF NoEarlyResult, MissingNodesAreAllowed
<1> QED BY <1>9, <1>10, <1>11, <1>12 DEF QueryIInv

\* The workers of a flush emit sequences of rows.
LEMMA EmissionsType ==
  ASSUME NEW i, NEW rows \in Seq(Row), NEW r \in Emissions(i, rows)
  PROVE  r \in [Node -> Seq(Row)]
<1>0. <<>> \in Seq(Row) /\ Len(rows) \in Nat
  OBVIOUS
<1>1. CASE IsSort(pipes[i]) \/ pipes[i].op = "uniq_local"
  <2>1. r = [w \in Node |-> IF w = 1 THEN rows ELSE <<>>]
    BY <1>1 DEF Emissions
  <2> QED BY <1>0, <2>1
<1>2. CASE ~ (IsSort(pipes[i]) \/ pipes[i].op = "uniq_local")
  <2>1. PICK cut \in [1..(N - 1) -> 0..Len(rows)] :
           r = [w \in Node |-> SubSeq(rows, (IF w = 1 THEN 0 ELSE cut[w - 1]) + 1,
                                      IF w = N THEN Len(rows) ELSE cut[w])]
    BY <1>2 DEF Emissions
  <2>2. ASSUME NEW w \in Node
        PROVE  SubSeq(rows, (IF w = 1 THEN 0 ELSE cut[w - 1]) + 1, IF w = N THEN Len(rows) ELSE cut[w]) \in Seq(Row)
    <3> DEFINE a == IF w = 1 THEN 0 ELSE cut[w - 1]
               b == IF w = N THEN Len(rows) ELSE cut[w]
    <3>1. (w # 1 => w - 1 \in 1..(N - 1)) /\ (w # N => w \in 1..(N - 1))
      BY NodeFacts
    <3>2. a \in Nat /\ b \in Int /\ b <= Len(rows)
      BY <1>0, <3>1
    <3> HIDE DEF a, b
    <3>3. SubSeq(rows, a + 1, b) \in Seq(Row)
      BY <3>2, PartOfSeq
    <3> QED BY <3>3 DEF a, b
  <2> QED BY <2>1, <2>2
<1> QED BY <1>1, <1>2

\* Goroutines which are idle hold no rows.
LEMMA IdleHoldNothing ==
  ASSUME QueryTypes, AllIdle
  PROVE  \A w \in Node : block[w].rows = <<>>
BY TypeParts DEF AllIdle, HeldInPipes

LEMMA StartFlushKeeps ==
  ASSUME QueryIInv, StartFlush
  PROVE  QueryIInv'
<1>1. /\ QueryTypes /\ pipes \in Seq(LocalPipe) /\ kept \in [Pipe -> [Node -> Seq(Row)]]
  BY TypeParts DEF QueryIInv
<1>2. stage \in Pipe /\ AllIdle /\ pc' = [w \in Node |-> "read"] /\ flushing' = TRUE
  BY DEF StartFlush
<1>3. PICK rows \in Apply(pipes[stage], AllKept(stage)) : rest' \in Emissions(stage, rows)
  BY DEF StartFlush
<1>4. /\ UNCHANGED <<pipes, pipeVars, owed, canceled, stage, result, clientGone, partial>>
      /\ UNCHANGED <<query, netDone, errs, block, seen, kept, budget>>
  BY DEF StartFlush, netVars, pipeVars
<1>5. rows \in Seq(Row)
  <2>1. pipes[stage] \in LocalPipe
    BY <1>1, <1>2, TopFacts
  <2>2. AllKept(stage) \in Seq(Row)
    BY <1>1, <1>2, AllKeptType
  <2> QED BY <1>3, <2>1, <2>2, ApplyType
<1>6. rest' \in [Node -> Seq(Row)]
  BY <1>3, <1>5, EmissionsType
<1>7. pc' \in [Node -> PcType]
  BY <1>2 DEF PcType
<1>8. HeldInPipes'
  BY <1>1, <1>2, <1>4, IdleHoldNothing DEF HeldInPipes
<1>9. Pipe' = Pipe /\ Top' = Top
  BY <1>4, SamePipes
<1>10. QueryTypes'
  BY <1>1, <1>2, <1>4, <1>6, <1>7, <1>8, <1>9, TypeParts, TypePartsPrime
<1> QED BY <1>4, <1>10, SameClaims

LEMMA EndFlushKeeps ==
  ASSUME QueryIInv, EndFlush
  PROVE  QueryIInv'
<1> DEFINE failed == ~ flushing /\ OutOfMemory(stage)
<1>1. /\ QueryTypes /\ pipes \in Seq(LocalPipe) /\ canceled \in 0..Top /\ result \in Fault \cup {"none", "memory"}
  BY TypeParts DEF QueryIInv
<1>2. /\ stage \in Pipe /\ stage' = stage + 1 /\ flushing' = FALSE
      /\ result' = IF failed /\ result = "none" THEN "memory" ELSE result
      /\ canceled' = IF failed THEN Top ELSE Greater(canceled, stage)
  BY DEF EndFlush
<1>3. /\ UNCHANGED <<query, pipes, partial, rest, pc, block, owed, netDone, errs, seen, kept, budget, clientGone>>
      /\ UNCHANGED <<pipes, pipeVars>>
  BY DEF EndFlush, netVars, pipeVars
<1>4. Pipe' = Pipe /\ Top' = Top /\ Spare \subseteq Spare'
  BY <1>3, SamePipes, SameNeeds
<1>5. Top \in Nat /\ Top >= 1 /\ stage \in Nat /\ stage >= 1 /\ stage < Top
  <2>1. Top \in Nat /\ Top >= 1 /\ Pipe = 1..(Top - 1)
    BY <1>1, TopFacts
  <2> QED BY <1>2, <2>1
<1> HIDE DEF failed
<1>6. canceled' \in 0..Top' /\ stage' \in 0..Top' /\ result' \in Fault \cup {"none", "memory"}
  BY <1>1, <1>2, <1>4, <1>5 DEF Greater
<1>7. HeldInPipes' /\ flushing' \in BOOLEAN
  BY <1>1, <1>2, <1>3, TypeParts DEF HeldInPipes
<1>8. QueryTypes'
  BY <1>1, <1>3, <1>4, <1>6, <1>7, TypeParts, TypePartsPrime
<1>9. OwedIsJustified'
  BY <1>3, <1>4 DEF QueryIInv, OwedIsJustified
<1>10. result' = "none" => result = "none" /\ ~ failed
  BY <1>2
<1>11. CancelIsJustified'
  <2> SUFFICES ASSUME canceled' > stage', ~ clientGone, result' = "none" PROVE canceled' \in Spare'
    BY <1>3, <1>8, SpareCancelsPrime
  <2>1. canceled' = canceled /\ canceled > stage
    BY <1>1, <1>2, <1>5, <1>10 DEF Greater
  <2>2. canceled \in Spare
    BY <1>1, <1>10, <2>1, SpareCancels DEF QueryIInv
  <2> QED BY <1>4, <2>1, <2>2
<1>12. NoEarlyResult'
  BY <1>2, <1>5 DEF NoEarlyResult
<1>13. MissingNodesAreAllowed'
  BY <1>3, <1>5, <1>10 DEF QueryIInv, MissingNodesAreAllowed
<1> QED BY <1>8, <1>9, <1>11, <1>12, <1>13 DEF QueryIInv

LEMMA ClientCancelsKeeps ==
  ASSUME QueryIInv, ClientCancels
  PROVE  QueryIInv'
<1>1. QueryTypes /\ pipes \in Seq(LocalPipe)
  BY TypeParts DEF QueryIInv
<1>2. clientGone' = TRUE /\ canceled' = Top
  BY DEF ClientCancels
<1>3. /\ UNCHANGED <<query, pipes, partial, rest, pc, block, owed, netDone, errs, seen, kept, budget, stage, flushing, result>>
      /\ UNCHANGED <<pipes, pipeVars>>
  BY DEF ClientCancels, netVars, pipeVars, runVars
<1>4. Pipe' = Pipe /\ Top' = Top /\ Spare \subseteq Spare'
  BY <1>3, SamePipes, SameNeeds
<1>5. canceled' \in 0..Top'
  BY <1>1, <1>2, <1>4, TopFacts
<1>6. HeldInPipes'
  BY <1>1, <1>3, TypeParts DEF HeldInPipes
<1>7. QueryTypes'
  BY <1>1, <1>2, <1>3, <1>4, <1>5, <1>6, TypeParts, TypePartsPrime
<1>8. OwedIsJustified'
  BY <1>3, <1>4 DEF QueryIInv, OwedIsJustified
<1>9. CancelIsJustified'
  BY <1>2 DEF CancelIsJustified
<1>10. NoEarlyResult' /\ MissingNodesAreAllowed'
  BY <1>3 DEF QueryIInv, NoEarlyResult, MissingNodesAreAllowed
<1> QED BY <1>7, <1>8, <1>9, <1>10 DEF QueryIInv

LEMMA QueryStepKeepsIInv == QueryIInv /\ [Next]_vars => QueryIInv'
<1> SUFFICES ASSUME QueryIInv, [Next]_vars PROVE QueryIInv'
  OBVIOUS
<1>1. ASSUME NEW w \in Node, ReadStep(w) PROVE QueryIInv'
  BY <1>1, ReadStepKeeps
<1>2. ASSUME NEW w \in Node, BlockStep(w) PROVE QueryIInv'
  BY <1>2, BlockStepKeeps
<1>3. ASSUME NEW w \in Node, NEW fault \in Fault, NodeFails(w, fault) PROVE QueryIInv'
  BY <1>3, NodeFailsKeeps
<1>4. CASE QueryStep
  BY <1>4, EndSearchKeeps, StartFlushKeeps, EndFlushKeeps DEF QueryStep
<1>5. CASE ClientCancels
  BY <1>5, ClientCancelsKeeps
<1>6. CASE UNCHANGED vars
  <2>1. /\ UNCHANGED <<query, pipes, partial, rest, pc, block, owed, netDone, errs, seen, kept, budget, stage,
                       flushing, result, clientGone, canceled>>
        /\ UNCHANGED <<pipes, pipeVars, owed, canceled, stage, result, clientGone, partial>>
    BY <1>6 DEF vars, pipeVars
  <2>2. Pipe' = Pipe /\ Top' = Top
    BY <2>1, SamePipes
  <2>3. HeldInPipes'
    BY <2>1, TypeParts DEF QueryIInv, HeldInPipes
  <2>4. QueryTypes'
    BY <2>1, <2>2, <2>3, TypeParts, TypePartsPrime DEF QueryIInv
  <2> QED BY <2>1, <2>4, SameClaims
<1> QED BY <1>1, <1>2, <1>3, <1>4, <1>5, <1>6 DEF Next

\* The inductive invariant: a goroutine is owed a cancel only of a pipe which
\* needs no rows, and nothing has gone wrong before the search has ended
\* (what OwedIsJustified and NoEarlyResult add to the properties of the runs).
THEOREM QueryIInvHolds == Spec => []QueryIInv
<1>1. Init => QueryIInv
  BY QueryIInit
<1>2. QueryIInv /\ [Next]_vars => QueryIInv'
  BY QueryStepKeepsIInv
<1> QED BY <1>1, <1>2, PTL DEF Spec

\* While the client waits and no error has occurred, a pipe has cancelled the
\* ones before it only because no more rows can change the answer or because
\* it has run out of memory, goroutines outside the pipes hold no rows, and a
\* search that ends without an error misses no node unless the client allows
\* it, and never finds all of them unavailable: for any number of nodes, rows,
\* queries, chunks of memory and failures (runPipes, pipeLimitProcessor,
\* pipeUniqProcessor, handleError and getFirstError).
THEOREM QueryInvHolds == Spec => []QueryInv
<1>1. QueryIInv => QueryInv
  BY DEF QueryIInv, QueryTypes, QueryInv
<1> QED BY <1>1, QueryIInvHolds, PTL

=============================================================================
