----------------------------- MODULE ListLemmas -----------------------------
(***************************************************************************)
(* Lists, positions and finite sets.  Induction over a list is an argument *)
(* about the least counterexample: the theorems about well-founded sets    *)
(* say that a set of numbers has a least element, and a fold of a list is  *)
(* a function of the positions that are left, determined from the last of  *)
(* them.                                                                   *)
(***************************************************************************)
EXTENDS Lists, SequenceTheorems, FiniteSetTheorems, WellFoundedInduction, TLAPS

-----------------------------------------------------------------------------
(* Numbers and positions.                                                  *)

\* A set of numbers has a least one.
LEMMA LeastNumber ==
    ASSUME NEW S \in SUBSET Nat, S # {}
    PROVE  \E n \in S : \A m \in S : n <= m
<1> DEFINE R == {ss \in Nat \X Nat : ss[1] < ss[2]}
<1>1. IsWellFoundedOn(R, Nat)
  BY NatLessThanWellFounded DEF OpToRel
<1> HIDE DEF R
<1>2. PICK n \in S : \A m \in S : ~(<<m, n>> \in R)
  BY <1>1, WFMin
<1>3. ASSUME NEW m \in S PROVE n <= m
  <2>1. m \in Nat /\ n \in Nat
    OBVIOUS
  <2>2. m < n => <<m, n>> \in R
    BY <2>1 DEF R
  <2> QED BY <1>2, <2>1, <2>2
<1> QED BY <1>3

\* The smaller of two numbers.
LEMMA SmallerOfTwo ==
    ASSUME NEW a \in Nat, NEW b \in Nat
    PROVE  Min({a, b}) = IF a <= b THEN a ELSE b
BY DEF Min

\* There are n positions.
LEMMA PositionCount ==
    ASSUME NEW n \in Nat
    PROVE  IsFiniteSet(1..n) /\ Cardinality(1..n) = n
BY FS_Interval

\* Some numbers up to n have a largest one.
LEMMA LargestNumber ==
    ASSUME NEW n \in Nat, NEW S \in SUBSET (0..n), S # {}
    PROVE  Max(S) \in S /\ \A k \in S : k <= Max(S)
<1> DEFINE T == {n - k : k \in S}
<1>1. T \in SUBSET Nat /\ T # {}
  <2>1. \A k \in S : k \in 0..n
    OBVIOUS
  <2>2. \A k \in S : n - k \in Nat
    BY <2>1
  <2> QED BY <2>2
<1>2. PICK t \in T : \A u \in T : t <= u
  <2> HIDE DEF T
  <2> QED BY <1>1, LeastNumber
<1>3. PICK m \in S : t = n - m
  OBVIOUS
<1>4. ASSUME NEW k \in S PROVE m >= k
  <2>1. t <= n - k
    BY <1>2
  <2> QED BY <1>3, <2>1
<1> QED BY <1>4 DEF Max

\* Some positions have a last one.
LEMMA LastPosition ==
    ASSUME NEW n \in Nat, NEW S \in SUBSET (1..n), S # {}
    PROVE  Max(S) \in S /\ \A k \in S : k <= Max(S)
<1>1. S \in SUBSET (0..n)
  OBVIOUS
<1> QED BY <1>1, LargestNumber

\* What holds of no positions, and of positions if it holds without the last
\* of them, holds of all: for the function that a fold of a list computes.
LEMMA PositionInduction ==
    ASSUME NEW n \in Nat, NEW H \in SUBSET SUBSET (1..n),
           {} \in H,
           \A S \in SUBSET (1..n) : S # {} /\ S \ {Max(S)} \in H => S \in H
    PROVE  H = SUBSET (1..n)
<1> DEFINE P(k) == SUBSET (1..k) \subseteq H
           Bad == {k \in Nat : k <= n /\ ~P(k)}
<1>1. P(0)
  <2>1. \A S \in SUBSET (1..0) : S = {}
    OBVIOUS
  <2> QED BY <2>1
<1>2. ASSUME NEW k \in Nat, k < n, P(k)
      PROVE  P(k+1)
  <2> SUFFICES ASSUME NEW S \in SUBSET (1..k+1), S # {}
               PROVE  S \in H
    OBVIOUS
  <2>1. Max(S) \in S /\ \A i \in S : i <= Max(S)
    <3>1. k+1 \in Nat
      OBVIOUS
    <3> QED BY <3>1, LastPosition
  <2>2. ASSUME NEW i \in S, i # Max(S) PROVE i \in 1..k
    <3>1. i \in 1..k+1 /\ Max(S) \in 1..k+1 /\ i <= Max(S)
      BY <2>1
    <3> QED BY <2>2, <3>1
  <2>3. S \ {Max(S)} \in SUBSET (1..k)
    BY <2>2
  <2>4. 1..k+1 \subseteq 1..n
    BY <1>2
  <2>5. S \in SUBSET (1..n)
    BY <2>4
  <2>6. S \ {Max(S)} \in H
    BY <1>2, <2>3
  <2> QED BY <2>5, <2>6
<1>3. Bad = {}
  <2> SUFFICES ASSUME Bad # {} PROVE FALSE
    OBVIOUS
  <2> HIDE DEF P
  <2>1. Bad \in SUBSET Nat
    OBVIOUS
  <2>2. PICK b \in Bad : \A m \in Bad : b <= m
    <3> HIDE DEF Bad
    <3> QED BY <2>1, LeastNumber
  <2>3. b \in Nat /\ b <= n /\ ~P(b)
    OBVIOUS
  <2>4. b # 0
    BY <1>1, <2>3
  <2>5. b - 1 \in Nat /\ b - 1 < n /\ b - 1 \notin Bad
    BY <2>2, <2>3, <2>4
  <2>6. P(b - 1)
    BY <2>5, <2>3
  <2>7. P((b - 1) + 1)
    BY <1>2, <2>5, <2>6
  <2>8. (b - 1) + 1 = b
    BY <2>3
  <2> QED BY <2>3, <2>7, <2>8
<1>4. P(n)
  BY <1>3
<1> QED BY <1>4

\* What a fold of op over the positions computes.
Folds(g, n, base, op) ==
    \A S \in SUBSET (1..n) :
        g[S] = IF S = {} THEN base ELSE op[<<g[S \ {Max(S)}], Max(S)>>]

\* There is a function that a fold of a list over the positions 1..n can be:
\* for each step there is.
LEMMA PositionRecursion ==
    ASSUME NEW n \in Nat, NEW A, NEW base \in A, NEW op \in [A \X (1..n) -> A]
    PROVE  \E g \in [SUBSET (1..n) -> A] : Folds(g, n, base, op)
<1> DEFINE Good(g, k) == Folds(g, k, base, op)
           P(k) == \E g \in [SUBSET (1..k) -> A] : Good(g, k)
           Bad == {k \in Nat : k <= n /\ ~P(k)}
<1>1. P(0)
  <2> DEFINE g == [S \in SUBSET (1..0) |-> base]
  <2>1. g \in [SUBSET (1..0) -> A]
    OBVIOUS
  <2>2. \A S \in SUBSET (1..0) : S = {}
    OBVIOUS
  <2>3. Good(g, 0)
    BY <2>2 DEF Folds
  <2> QED BY <2>1, <2>3
<1>2. ASSUME NEW k \in Nat, k < n, P(k)
      PROVE  P(k+1)
  <2>1. PICK g \in [SUBSET (1..k) -> A] : Good(g, k)
    BY <1>2
  <2> DEFINE h == [S \in SUBSET (1..k+1) |->
                     IF k+1 \in S THEN op[<<g[S \ {k+1}], k+1>>] ELSE g[S]]
  <2>2. ASSUME NEW S \in SUBSET (1..k+1)
        PROVE  /\ S \ {k+1} \in SUBSET (1..k)
               /\ k+1 \notin S => S \in SUBSET (1..k)
    OBVIOUS
  <2>3. h \in [SUBSET (1..k+1) -> A]
    BY <2>1, <2>2, <1>2
  <2>4. ASSUME NEW S \in SUBSET (1..k+1)
        PROVE  h[S] = IF S = {} THEN base ELSE op[<<h[S \ {Max(S)}], Max(S)>>]
    <3>1. CASE k+1 \in S
      <4>1. k+1 \in Nat /\ S # {}
        BY <3>1
      <4>2. Max(S) \in S /\ k+1 <= Max(S)
        BY <3>1, <4>1, LastPosition
      <4>5. Max(S) \in 1..k+1
        BY <4>2
      <4>6. Max(S) = k+1
        BY <4>2, <4>5
      <4>3. k+1 \notin S \ {k+1} /\ S \ {k+1} \in SUBSET (1..k+1)
        OBVIOUS
      <4>4. h[S \ {k+1}] = g[S \ {k+1}]
        BY <4>3
      <4> QED BY <3>1, <4>6, <4>4
    <3>2. CASE k+1 \notin S
      <4>1. S \in SUBSET (1..k) /\ h[S] = g[S]
        BY <3>2, <2>2
      <4>2. g[S] = IF S = {} THEN base ELSE op[<<g[S \ {Max(S)}], Max(S)>>]
        BY <2>1, <4>1 DEF Folds
      <4>3. S \ {Max(S)} \in SUBSET (1..k+1) /\ k+1 \notin S \ {Max(S)}
        BY <3>2
      <4>4. h[S \ {Max(S)}] = g[S \ {Max(S)}]
        BY <4>3
      <4> QED BY <4>1, <4>2, <4>4
    <3> QED BY <3>1, <3>2
  <2> QED BY <2>3, <2>4 DEF Folds
<1>3. Bad = {}
  <2> SUFFICES ASSUME Bad # {} PROVE FALSE
    OBVIOUS
  <2> HIDE DEF P
  <2>1. Bad \in SUBSET Nat
    OBVIOUS
  <2>2. PICK b \in Bad : \A m \in Bad : b <= m
    <3> HIDE DEF Bad
    <3> QED BY <2>1, LeastNumber
  <2>3. b \in Nat /\ b <= n /\ ~P(b)
    OBVIOUS
  <2>4. b # 0
    BY <1>1, <2>3
  <2>5. b - 1 \in Nat /\ b - 1 < n /\ b - 1 \notin Bad
    BY <2>2, <2>3, <2>4
  <2>6. P(b - 1)
    BY <2>5, <2>3
  <2>7. P((b - 1) + 1)
    BY <1>2, <2>5, <2>6
  <2>8. (b - 1) + 1 = b
    BY <2>3
  <2> QED BY <2>3, <2>7, <2>8
<1>4. P(n)
  <2> HIDE DEF P
  <2> QED BY <1>3
<1> QED BY <1>4

-----------------------------------------------------------------------------
(* Lists.                                                                  *)

\* A function from 1..n is a list.
LEMMA FunctionIsList ==
    ASSUME NEW n \in Nat, NEW T, NEW f \in [1..n -> T]
    PROVE  f \in Seq(T) /\ Len(f) = n /\ DOMAIN f = 1..n
<1>1. f \in Seq(T)
  BY SeqDef
<1> QED BY <1>1

\* The elements of a list.
LEMMA MembersTyped ==
    ASSUME NEW T, NEW list \in Seq(T)
    PROVE  ToSet(list) \subseteq T
<1>1. \A k \in DOMAIN list : list[k] \in T
  BY LenProperties, ElementOfSeq
<1> QED BY <1>1 DEF ToSet

\* A list of one.
LEMMA OneMember ==
    ASSUME NEW T, NEW x \in T
    PROVE  <<x>> \in Seq(T) /\ ToSet(<<x>>) = {x}
BY DEF ToSet

\* Two lists, one after the other.
LEMMA Concatenated ==
    ASSUME NEW T, NEW a \in Seq(T), NEW b \in Seq(T)
    PROVE  /\ a \o b \in Seq(T) /\ Len(a \o b) = Len(a) + Len(b)
           /\ \A i \in 1..Len(a) : (a \o b)[i] = a[i]
           /\ \A i \in 1..Len(b) : (a \o b)[Len(a) + i] = b[i]
           /\ ToSet(a \o b) = ToSet(a) \cup ToSet(b)
<1> DEFINE c == a \o b
<1>1. c \in Seq(T) /\ Len(c) = Len(a) + Len(b)
      /\ \A i \in 1..Len(a) + Len(b) : c[i] = IF i <= Len(a) THEN a[i] ELSE b[i - Len(a)]
  BY ConcatProperties
<1>2. Len(a) \in Nat /\ Len(b) \in Nat
      /\ DOMAIN a = 1..Len(a) /\ DOMAIN b = 1..Len(b) /\ DOMAIN c = 1..Len(a) + Len(b)
  BY <1>1, LenProperties
<1> HIDE DEF c
<1>3. ASSUME NEW i \in 1..Len(a) PROVE c[i] = a[i] /\ i \in DOMAIN c
  BY <1>1, <1>2
<1>4. ASSUME NEW i \in 1..Len(b) PROVE c[Len(a) + i] = b[i] /\ Len(a) + i \in DOMAIN c
  <2>1. Len(a) + i \in 1..Len(a) + Len(b) /\ ~(Len(a) + i <= Len(a)) /\ Len(a) + i - Len(a) = i
    BY <1>2
  <2> QED BY <1>1, <1>2, <2>1
<1>5. ASSUME NEW i \in DOMAIN c PROVE c[i] \in ToSet(a) \cup ToSet(b)
  <2>1. CASE i <= Len(a)
    <3>1. i \in DOMAIN a /\ c[i] = a[i]
      BY <1>1, <1>2, <2>1
    <3> QED BY <3>1 DEF ToSet
  <2>2. CASE ~(i <= Len(a))
    <3>1. i - Len(a) \in DOMAIN b /\ c[i] = b[i - Len(a)]
      BY <1>1, <1>2, <2>2
    <3> QED BY <3>1 DEF ToSet
  <2> QED BY <2>1, <2>2
<1>6. ToSet(c) = ToSet(a) \cup ToSet(b)
  <2>1. ToSet(c) \subseteq ToSet(a) \cup ToSet(b)
    BY <1>5 DEF ToSet
  <2>2. ASSUME NEW i \in DOMAIN a PROVE a[i] \in ToSet(c)
    <3>1. c[i] = a[i] /\ i \in DOMAIN c
      BY <1>2, <1>3
    <3> QED BY <3>1 DEF ToSet
  <2>3. ASSUME NEW i \in DOMAIN b PROVE b[i] \in ToSet(c)
    <3>1. c[Len(a) + i] = b[i] /\ Len(a) + i \in DOMAIN c
      BY <1>2, <1>4
    <3> QED BY <3>1 DEF ToSet
  <2> QED BY <2>1, <2>2, <2>3 DEF ToSet
<1> QED BY <1>1, <1>3, <1>4, <1>6 DEF c

\* A part of a list.
LEMMA PartOfList ==
    ASSUME NEW T, NEW list \in Seq(T), NEW m \in Nat \ {0}, NEW n \in Int, n <= Len(list)
    PROVE  /\ SubSeq(list, m, n) \in Seq(T)
           /\ Len(SubSeq(list, m, n)) = IF m <= n THEN n-m+1 ELSE 0
           /\ \A i \in 1..n-m+1 : SubSeq(list, m, n)[i] = list[m+i-1]
           /\ ToSet(SubSeq(list, m, n)) \subseteq ToSet(list)
<1> DEFINE p == SubSeq(list, m, n)
<1>1. Len(list) \in Nat /\ DOMAIN list = 1..Len(list)
  BY LenProperties
<1>2. \A i \in m..n : list[i] \in T
  BY <1>1, ElementOfSeq
<1>3. p \in Seq(T) /\ Len(p) = (IF m <= n THEN n-m+1 ELSE 0)
      /\ \A i \in 1..n-m+1 : p[i] = list[m+i-1]
  BY <1>2, SubSeqProperties
<1>4. DOMAIN p = 1..Len(p)
  BY <1>3, LenProperties
<1> HIDE DEF p
<1>5. ASSUME NEW i \in DOMAIN p PROVE p[i] \in ToSet(list)
  <2>1. i \in 1..n-m+1 /\ m+i-1 \in 1..Len(list)
    BY <1>1, <1>3, <1>4
  <2>2. p[i] = list[m+i-1] /\ m+i-1 \in DOMAIN list
    BY <1>1, <1>3, <2>1
  <2> QED BY <2>2 DEF ToSet
<1>6. ToSet(p) \subseteq ToSet(list)
  BY <1>5 DEF ToSet
<1> QED BY <1>3, <1>6 DEF p

\* A list without one of its elements.
LEMMA RemoveAtMembers ==
    ASSUME NEW T, NEW list \in Seq(T), NEW k \in DOMAIN list
    PROVE  /\ RemoveAt(list, k) \in Seq(T)
           /\ Len(RemoveAt(list, k)) = Len(list) - 1
           /\ ToSet(RemoveAt(list, k)) \subseteq ToSet(list)
<1> DEFINE a == SubSeq(list, 1, k-1)
           b == SubSeq(list, k+1, Len(list))
<1>1. Len(list) \in Nat /\ k \in 1..Len(list)
  BY LenProperties
<1>2. a \in Seq(T) /\ Len(a) = k-1 /\ ToSet(a) \subseteq ToSet(list)
  BY <1>1, PartOfList
<1>3. b \in Seq(T) /\ Len(b) = Len(list) - k /\ ToSet(b) \subseteq ToSet(list)
  BY <1>1, PartOfList
<1> HIDE DEF a, b
<1>4. a \o b \in Seq(T) /\ Len(a \o b) = Len(list) - 1 /\ ToSet(a \o b) \subseteq ToSet(list)
  BY <1>1, <1>2, <1>3, Concatenated
<1> QED BY <1>4 DEF RemoveAt, a, b

\* A list turned round.
LEMMA Reversed ==
    ASSUME NEW T, NEW list \in Seq(T)
    PROVE  Reverse(list) \in Seq(T) /\ ToSet(Reverse(list)) = ToSet(list)
<1> DEFINE n == Len(list)
           r == Reverse(list)
<1>1. n \in Nat /\ DOMAIN list = 1..n /\ \A i \in 1..n : list[i] \in T
  OBVIOUS
<1>2. r \in [1..n -> T] /\ \A i \in 1..n : r[i] = list[n - i + 1]
  BY <1>1 DEF Reverse
<1>3. \A i \in 1..n : n - i + 1 \in 1..n /\ n - (n - i + 1) + 1 = i
  BY <1>1
<1>4. r \in Seq(T) /\ DOMAIN r = 1..n
  BY <1>1, <1>2, FunctionIsList
<1> HIDE DEF r
<1>5. \A i \in 1..n : r[i] \in ToSet(list) /\ list[i] \in ToSet(r)
  <2> SUFFICES ASSUME NEW i \in 1..n PROVE r[i] \in ToSet(list) /\ list[i] \in ToSet(r)
    OBVIOUS
  <2>1. r[i] = list[n - i + 1] /\ n - i + 1 \in DOMAIN list
    BY <1>1, <1>2, <1>3
  <2>2. r[n - i + 1] = list[i] /\ n - i + 1 \in DOMAIN r
    BY <1>2, <1>3, <1>4
  <2> QED BY <2>1, <2>2 DEF ToSet
<1>6. ToSet(r) = ToSet(list)
  BY <1>1, <1>4, <1>5 DEF ToSet
<1> QED BY <1>4, <1>6 DEF r

\* What is kept of a list is of the list and of what is to be kept, and all of
\* it.
LEMMA KeepMembers ==
    ASSUME NEW T, NEW list \in Seq(T), NEW K
    PROVE  /\ Keep(list, K) \in Seq(T)
           /\ ToSet(Keep(list, K)) = ToSet(list) \cap K
<1> DEFINE n == Len(list)
           Of(S) == {list[k] : k \in S} \cap K
           put(kept, x) == IF x \in K THEN Append(kept, x) ELSE kept
           op == [p \in Seq(T) \X (1..n) |-> put(p[1], list[p[2]])]
           Rec(g) == g = [S \in SUBSET (1..n) |->
                            IF S = {} THEN <<>> ELSE put(g[S \ {Max(S)}], list[Max(S)])]
           iter == CHOOSE g : Rec(g)
           H == {S \in SUBSET (1..n) : iter[S] \in Seq(T) /\ ToSet(iter[S]) = Of(S)}
<1>1. n \in Nat /\ DOMAIN list = 1..n /\ \A k \in 1..n : list[k] \in T
  OBVIOUS
<1>2. ASSUME NEW kept \in Seq(T), NEW x \in T
      PROVE  put(kept, x) \in Seq(T) /\ ToSet(put(kept, x)) = ToSet(kept) \cup ({x} \cap K)
  <2>1. CASE x \in K
    <3> DEFINE a == Append(kept, x)
    <3>1. a \in Seq(T) /\ Len(a) = Len(kept) + 1 /\ a[Len(kept) + 1] = x
          /\ \A i \in 1..Len(kept) : a[i] = kept[i]
      OBVIOUS
    <3>2. DOMAIN a = 1..Len(kept) + 1 /\ DOMAIN kept = 1..Len(kept) /\ Len(kept) \in Nat
      BY <3>1
    <3> HIDE DEF a
    <3>3. ToSet(a) = ToSet(kept) \cup {x}
      <4>1. ASSUME NEW i \in DOMAIN a PROVE a[i] \in ToSet(kept) \cup {x}
        BY <3>1, <3>2 DEF ToSet
      <4>2. ASSUME NEW i \in DOMAIN kept PROVE kept[i] \in ToSet(a)
        BY <3>1, <3>2 DEF ToSet
      <4>3. x \in ToSet(a)
        BY <3>1, <3>2 DEF ToSet
      <4> QED BY <4>1, <4>2, <4>3 DEF ToSet
    <3> QED BY <2>1, <3>1, <3>3 DEF a
  <2>2. CASE x \notin K
    BY <2>2
  <2> QED BY <2>1, <2>2
<1> HIDE DEF put
<1>3. op \in [Seq(T) \X (1..n) -> Seq(T)] /\ <<>> \in Seq(T)
  BY <1>1, <1>2
<1>4. PICK g \in [SUBSET (1..n) -> Seq(T)] : Folds(g, n, <<>>, op)
  <2> HIDE DEF op, n
  <2> QED BY <1>1, <1>3, PositionRecursion
<1>5. ASSUME NEW S \in SUBSET (1..n), S # {}
      PROVE  Max(S) \in S /\ Max(S) \in 1..n /\ S \ {Max(S)} \in SUBSET (1..n)
  BY <1>1, <1>5, LastPosition
<1>6. Rec(g)
  <2>1. ASSUME NEW S \in SUBSET (1..n), S # {}
        PROVE  g[S] = put(g[S \ {Max(S)}], list[Max(S)])
    BY <1>4, <1>5, <2>1 DEF Folds
  <2> QED BY <1>4, <2>1 DEF Folds
<1>7. Rec(iter)
  BY <1>6
<1>8. Keep(list, K) = iter[1..n]
  BY <1>1 DEF Keep, FoldLeft, MapThenFoldSet, put
<1> HIDE DEF iter
<1>9. {} \in H
  BY <1>7 DEF ToSet
<1>10. ASSUME NEW S \in SUBSET (1..n), S # {}, S \ {Max(S)} \in H
       PROVE  S \in H
  <2>1. iter[S] = put(iter[S \ {Max(S)}], list[Max(S)])
    BY <1>7, <1>10
  <2>2. Of(S) = Of(S \ {Max(S)}) \cup ({list[Max(S)]} \cap K)
    BY <1>5, <1>10
  <2>3. iter[S \ {Max(S)}] \in Seq(T) /\ ToSet(iter[S \ {Max(S)}]) = Of(S \ {Max(S)})
    BY <1>10
  <2>4. list[Max(S)] \in T
    BY <1>1, <1>5, <1>10
  <2> HIDE DEF Of
  <2>5. iter[S] \in Seq(T) /\ ToSet(iter[S]) = Of(S \ {Max(S)}) \cup ({list[Max(S)]} \cap K)
    BY <1>2, <2>1, <2>3, <2>4
  <2> QED BY <1>10, <2>2, <2>5
<1>11. H = SUBSET (1..n)
  <2>1. H \in SUBSET SUBSET (1..n)
    OBVIOUS
  <2> HIDE DEF H, n
  <2> QED BY <1>1, <1>9, <1>10, <2>1, PositionInduction
<1>12. iter[1..n] \in Seq(T) /\ ToSet(iter[1..n]) = Of(1..n)
  BY <1>11
<1>13. Of(1..n) = ToSet(list) \cap K
  BY <1>1 DEF ToSet
<1> QED BY <1>8, <1>12, <1>13

-----------------------------------------------------------------------------
(* Finite sets.                                                            *)

\* A set of one.
LEMMA OneElement == ASSUME NEW a PROVE IsFiniteSet({a}) /\ Cardinality({a}) = 1
BY FS_Singleton, Zenon

\* A set of two.
LEMMA TwoElements ==
    ASSUME NEW a, NEW b, a # b
    PROVE  IsFiniteSet({a, b}) /\ Cardinality({a, b}) = 2
<1>1. {a, b} = {a} \cup {b} /\ b \notin {a}
  OBVIOUS
<1>2. IsFiniteSet({a}) /\ Cardinality({a}) = 1
  BY OneElement
<1>3. /\ IsFiniteSet({a} \cup {b})
      /\ Cardinality({a} \cup {b}) = IF b \in {a} THEN Cardinality({a}) ELSE Cardinality({a}) + 1
  BY <1>2, FS_AddElement, Zenon
<1> QED BY <1>1, <1>2, <1>3

\* A finite set of what is made of the members of another.
LEMMA ImageFinite ==
    ASSUME NEW S, IsFiniteSet(S), NEW f, DOMAIN f = S
    PROVE  IsFiniteSet({f[x] : x \in S})
<1> DEFINE T == {f[x] : x \in S}
<1>1. [x \in S |-> f[x]] \in Surjection(S, T)
  BY DEF Surjection
<1> QED BY <1>1, FS_Surjection

\* A finite set as a list.
LEMMA SetAsList ==
    ASSUME NEW S, IsFiniteSet(S), NEW T, S \subseteq T
    PROVE  SetToSeq(S) \in Seq(T) /\ ToSet(SetToSeq(S)) = S
<1> DEFINE n == Cardinality(S)
           f == SetToSeq(S)
<1>1. n \in Nat /\ ExistsBijection(1..n, S)
  BY FS_CardinalityType
<1>2. PICK b \in Bijection(1..n, S) : TRUE
  BY <1>1 DEF ExistsBijection
<1>3. b \in [1..n -> S] /\ IsInjective(b)
  BY <1>2 DEF Bijection, Injection, Surjection, IsInjective
<1>4. f \in [1..n -> S] /\ IsInjective(f)
  BY <1>3 DEF SetToSeq
<1> HIDE DEF f
<1>5. f \in Surjection(1..n, S)
  <2>1. f \in Injection(1..n, S)
    BY <1>4 DEF Injection, IsInjective
  <2>2. IsFiniteSet(1..n) /\ Cardinality(1..n) = n
    BY <1>1, FS_Interval
  <2> QED BY <2>1, <2>2, FS_Injection
<1>6. ToSet(f) = S
  BY <1>4, <1>5 DEF Surjection, ToSet
<1>7. f \in Seq(S)
  BY <1>1, <1>4, FunctionIsList
<1> QED BY <1>6, <1>7, SeqMonotonic DEF f

\* A list of all of a finite set has its elements.
LEMMA ListingMembers ==
    ASSUME NEW S, IsFiniteSet(S), NEW list \in SetToSeqs(S)
    PROVE  list \in Seq(S) /\ ToSet(list) = S
<1> DEFINE n == Cardinality(S)
<1>1. n \in Nat /\ list \in [1..n -> S] /\ \A i, j \in 1..n : i # j => list[i] # list[j]
  BY FS_CardinalityType DEF SetToSeqs
<1>2. list \in Injection(1..n, S)
  BY <1>1 DEF Injection, IsInjective
<1>3. IsFiniteSet(1..n) /\ Cardinality(1..n) = n
  BY <1>1, FS_Interval
<1>4. list \in Surjection(1..n, S)
  BY <1>2, <1>3, FS_Injection
<1>5. ToSet(list) = S
  BY <1>1, <1>4 DEF Surjection, ToSet
<1> QED BY <1>1, <1>5, FunctionIsList

\* Lists of all of S, by rank.
SortedBy(S, rank) ==
    {list \in SetToSeqs(S) : \A i, j \in DOMAIN list : rank[list[i]] < rank[list[j]] => i < j}

\* A finite set can be sorted: the list starts with one of the least rank.
LEMMA SortedListing ==
    ASSUME NEW S, IsFiniteSet(S), NEW rank \in [S -> Nat]
    PROVE  SortedBy(S, rank) # {}
<1> DEFINE Sortable(k) == \A X \in SUBSET S : Cardinality(X) = k => SortedBy(X, rank) # {}
           Bad == {k \in Nat : ~Sortable(k)}
<1>1. Bad = {}
  <2> SUFFICES ASSUME Bad # {} PROVE FALSE
    OBVIOUS
  <2>1. PICK b \in Bad : \A k \in Bad : b <= k
    <3>1. Bad \in SUBSET Nat
      OBVIOUS
    <3> HIDE DEF Bad
    <3> QED BY <3>1, LeastNumber
  <2>2. PICK X \in SUBSET S : Cardinality(X) = b /\ SortedBy(X, rank) = {}
    BY <2>1
  <2>3. IsFiniteSet(X) /\ b \in Nat
    BY <2>1, FS_Subset
  <2>4. CASE X = {}
    <3> DEFINE f == [i \in 1..b |-> 0]
    <3>1. b = 0
      BY <2>2, <2>4, FS_EmptySet
    <3>2. f \in SetToSeqs(X) /\ DOMAIN f = {}
      BY <2>2, <3>1 DEF SetToSeqs
    <3>3. f \in SortedBy(X, rank)
      BY <3>2 DEF SortedBy
    <3> QED BY <2>2, <3>3
  <2>5. CASE X # {}
    <3> DEFINE R == {rank[y] : y \in X}
    <3>1. PICK m \in R : \A k \in R : m <= k
      <4>1. R \in SUBSET Nat /\ R # {}
        BY <2>5
      <4> HIDE DEF R
      <4> QED BY <4>1, LeastNumber
    <3>2. PICK x \in X : \A y \in X : rank[x] <= rank[y]
      BY <3>1
    <3> DEFINE Y == X \ {x}
    <3>3. IsFiniteSet(Y) /\ Cardinality(Y) = b - 1 /\ b - 1 \in Nat
      <4>1. Cardinality(Y) = b - 1
        BY <2>2, <2>3, FS_RemoveElement
      <4>2. IsFiniteSet(Y)
        BY <2>3, FS_RemoveElement
      <4>3. Cardinality(Y) \in Nat
        BY <4>2, FS_CardinalityType
      <4> QED BY <4>1, <4>2, <4>3
    <3>4. Sortable(b - 1)
      <4>1. b - 1 \notin Bad
        BY <2>1, <2>3, <3>3
      <4> QED BY <3>3, <4>1
    <3>5. PICK l \in SetToSeqs(Y) : \A i, j \in DOMAIN l : rank[l[i]] < rank[l[j]] => i < j
      <4>1. Y \in SUBSET S
        OBVIOUS
      <4>2. SortedBy(Y, rank) # {}
        BY <3>3, <3>4, <4>1
      <4> QED BY <4>2 DEF SortedBy
    <3>6. /\ l \in [1..b-1 -> Y] /\ DOMAIN l = 1..b-1
          /\ \A i, j \in 1..b-1 : i # j => l[i] # l[j]
      BY <3>3, <3>5 DEF SetToSeqs
    <3> DEFINE f == [i \in 1..b |-> IF i = 1 THEN x ELSE l[i-1]]
    <3>7. ASSUME NEW i \in 2..b
          PROVE  i-1 \in 1..b-1 /\ f[i] = l[i-1] /\ f[i] \in Y /\ i \in 1..b
      BY <2>3, <3>6
    <3>8. f[1] = x /\ 1 \in 1..b /\ \A i \in 1..b : i = 1 \/ i \in 2..b
      BY <2>3, <3>3
    <3>9. f \in [1..b -> X]
      BY <3>7, <3>8
    <3> HIDE DEF f
    <3>10. ASSUME NEW i \in 1..b, NEW j \in 1..b
           PROVE  /\ i # j => f[i] # f[j]
                  /\ rank[f[i]] < rank[f[j]] => i < j
      <4>1. CASE i = 1
        <5>1. CASE j = 1
          BY <3>8, <4>1, <5>1
        <5>2. CASE j \in 2..b
          BY <3>7, <3>8, <4>1, <5>2
        <5> QED BY <3>8, <5>1, <5>2
      <4>2. CASE i \in 2..b /\ j = 1
        <5>1. f[i] \in X /\ f[i] # f[j] /\ rank[f[j]] <= rank[f[i]]
          BY <3>2, <3>7, <3>8, <4>2
        <5>2. rank[f[j]] \in Nat /\ rank[f[i]] \in Nat
          BY <3>9
        <5> QED BY <5>1, <5>2
      <4>3. CASE i \in 2..b /\ j \in 2..b
        <5>1. /\ f[i] = l[i-1] /\ f[j] = l[j-1] /\ i-1 \in 1..b-1 /\ j-1 \in 1..b-1
          BY <3>7, <4>3
        <5>2. i # j => i-1 # j-1
          OBVIOUS
        <5>3. rank[l[i-1]] < rank[l[j-1]] => i-1 < j-1
          BY <3>5, <3>6, <5>1
        <5> QED BY <3>6, <5>1, <5>2, <5>3
      <4> QED BY <3>8, <4>1, <4>2, <4>3
    <3>11. f \in SetToSeqs(X) /\ DOMAIN f = 1..b
      BY <2>2, <3>9, <3>10 DEF SetToSeqs
    <3>12. f \in SortedBy(X, rank)
      BY <3>10, <3>11 DEF SortedBy
    <3> QED BY <2>2, <3>12
  <2> QED BY <2>4, <2>5
<1>2. Cardinality(S) \in Nat
  BY FS_CardinalityType
<1> QED BY <1>1, <1>2
=============================================================================
