---------------------------- MODULE ReplayProofs ----------------------------
(***************************************************************************)
(* Buying the missing data, for every session, evidence, tariff and number *)
(* of runs and attempts: the plan buys what is missing and nothing else,   *)
(* data that was bought is kept, what a run requests is within the limit   *)
(* it was held against, and a run that reports completion has all of it.   *)
(*                                                                         *)
(* The plan is computed by folds over windows in order.  A fold is brought *)
(* to the sequence of its intermediate results (FoldTrace), about which    *)
(* induction over the numbers proves what each step keeps: the points that *)
(* are left (SubtractCoveredPoints), the blocks so far (MergedUpTo).  From *)
(* there on the plan is only ever carried along, which PlanInv, BoughtInv, *)
(* ProgressInv and BillInv say.                                            *)
(***************************************************************************)
EXTENDS ReplayDownload, FiniteSetTheorems, WellFoundedInduction, TLAPS

-----------------------------------------------------------------------------
\* Induction

(* A set of numbers has a smallest one.                                    *)
LEMMA SmallestNumber ==
    ASSUME NEW T \in SUBSET Nat, T # {}
    PROVE  \E n \in T : \A m \in T : n <= m
<1> DEFINE Less == {ss \in Nat \X Nat : ss[1] < ss[2]}
<1>1. IsWellFoundedOn(Less, Nat)
  <2>1. IsWellFoundedOn(OpToRel(<, Nat), Nat)
    BY NatLessThanWellFounded
  <2>2. OpToRel(<, Nat) = Less
    BY DEF OpToRel
  <2> QED BY <2>1, <2>2
<1>2. PICK n \in T : \A m \in T : <<m, n>> \notin Less
  <2> HIDE DEF Less
  <2> QED BY <1>1, WFMin
<1>3. \A m \in T : ~(m < n)
  BY <1>2
<1> QED BY <1>3

(* A property of the numbers that holds of 0 and is passed on holds of all. *)
LEMMA NumberInduction ==
    ASSUME NEW T \in SUBSET Nat, 0 \in T, \A n \in T : n + 1 \in T
    PROVE  T = Nat
<1>1. SUFFICES ASSUME Nat \ T # {} PROVE FALSE
  OBVIOUS
<1>2. PICK n \in Nat \ T : \A m \in Nat \ T : n <= m
  BY <1>1, SmallestNumber
<1>3. n # 0 /\ n - 1 \in Nat /\ ~(n <= n - 1)
  BY <1>2
<1>4. n - 1 \in T
  BY <1>2, <1>3
<1>5. n = (n - 1) + 1
  BY <1>2
<1> QED BY <1>2, <1>4, <1>5

(* What holds of the empty set, and of a set when it holds of the set      *)
(* without any one of its members, holds of every subset of a finite set.  *)
LEMMA SubsetInduction ==
    ASSUME NEW S, IsFiniteSet(S), NEW P, {} \in P,
           \A s \in SUBSET S :
             s # {} /\ (\A x \in s : s \ {x} \in P) => s \in P
    PROVE  SUBSET S \subseteq P
<1>1. \A s \in SUBSET S : IsFiniteSet(s) /\ Cardinality(s) \in Nat
  BY FS_Subset, FS_CardinalityType
<1> DEFINE T == {n \in Nat : \A s \in SUBSET S : Cardinality(s) = n => s \in P}
<1>2. 0 \in T
  BY <1>1, FS_EmptySet
<1>3. ASSUME NEW n \in T PROVE n + 1 \in T
  <2>1. SUFFICES ASSUME NEW s \in SUBSET S, Cardinality(s) = n + 1
                 PROVE  s \in P
    OBVIOUS
  <2>2. s # {}
    BY <2>1, FS_EmptySet
  <2>3. ASSUME NEW x \in s PROVE s \ {x} \in P
    <3>1. Cardinality(s \ {x}) = n
      BY <1>1, <2>1, FS_RemoveElement
    <3> QED BY <3>1
  <2> QED BY <2>2, <2>3
<1>4. T = Nat
  <2>1. T \in SUBSET Nat
    OBVIOUS
  <2> HIDE DEF T
  <2> QED BY <1>2, <1>3, <2>1, NumberInduction
<1> QED BY <1>1, <1>4

\* g is computed from h by taking out of a set what c chooses from it.
IsRecursion(S, base, c, h, g) ==
    /\ g[{}] = base
    /\ \A s \in SUBSET S : s # {} => g[s] = h[<<c[s], g[s \ {c[s]}]>>]

(* A function over the subsets of a finite set that is computed element by  *)
(* element, in the order c takes them out, exists.                         *)
LEMMA RecursionExists ==
    ASSUME NEW S, IsFiniteSet(S), NEW B, NEW base \in B,
           NEW c, \A s \in SUBSET S : s # {} => c[s] \in s,
           NEW h \in [S \X B -> B]
    PROVE  \E g \in [SUBSET S -> B] : IsRecursion(S, base, c, h, g)
<1> DEFINE Once(g) == [s \in SUBSET S |->
                         IF s = {} THEN base ELSE h[<<c[s], g[s \ {c[s]}]>>]]
           UpTo(n, g) == \A s \in SUBSET S :
                           Cardinality(s) <= n => g[s] = Once(g)[s]
           T == {n \in Nat : \E g \in [SUBSET S -> B] : UpTo(n, g)}
<1>1. \A s \in SUBSET S : IsFiniteSet(s) /\ Cardinality(s) \in Nat
  BY FS_Subset, FS_CardinalityType
<1>2. 0 \in T
  <2> DEFINE g == [s \in SUBSET S |-> base]
  <2>1. g \in [SUBSET S -> B]
    OBVIOUS
  <2>2. ASSUME NEW s \in SUBSET S, Cardinality(s) <= 0
        PROVE  g[s] = Once(g)[s]
    <3>1. Cardinality(s) = 0
      BY <1>1, <2>2
    <3>2. s = {}
      BY <1>1, <3>1, FS_EmptySet
    <3> QED BY <3>2
  <2>3. UpTo(0, g)
    BY <2>2
  <2> QED BY <2>1, <2>3
<1>3. ASSUME NEW n \in T PROVE n + 1 \in T
  <2>1. PICK g \in [SUBSET S -> B] : UpTo(n, g)
    OBVIOUS
  <2>2. Once(g) \in [SUBSET S -> B]
    OBVIOUS
  <2>3. ASSUME NEW s \in SUBSET S, Cardinality(s) <= n + 1
        PROVE  Once(g)[s] = Once(Once(g))[s]
    <3>1. CASE s = {}
      BY <3>1
    <3>2. CASE s # {}
      <4>1. c[s] \in s
        BY <3>2
      <4>2. Cardinality(s \ {c[s]}) = Cardinality(s) - 1
        BY <1>1, <4>1, FS_RemoveElement
      <4>3. s \ {c[s]} \in SUBSET S /\ Cardinality(s \ {c[s]}) <= n
        BY <1>1, <2>3, <4>2
      <4>4. g[s \ {c[s]}] = Once(g)[s \ {c[s]}]
        BY <2>1, <4>3
      <4>5. Once(g)[s] = h[<<c[s], g[s \ {c[s]}]>>]
        BY <3>2
      <4>6. Once(Once(g))[s] = h[<<c[s], Once(g)[s \ {c[s]}]>>]
        BY <3>2
      <4> QED BY <4>4, <4>5, <4>6
    <3> QED BY <3>1, <3>2
  <2>4. UpTo(n + 1, Once(g))
    BY <2>3
  <2> HIDE DEF Once, UpTo
  <2> QED BY <2>2, <2>4
<1>4. Cardinality(S) \in T
  <2> HIDE DEF T
  <2>1. T \in SUBSET Nat
    BY DEF T
  <2>2. T = Nat
    BY <1>2, <1>3, <2>1, NumberInduction
  <2> QED BY <1>1, <2>2
<1>5. PICK g \in [SUBSET S -> B] : UpTo(Cardinality(S), g)
  BY <1>4
<1>6. \A s \in SUBSET S : Cardinality(s) <= Cardinality(S)
  BY FS_Subset
<1> QED BY <1>5, <1>6 DEF IsRecursion

-----------------------------------------------------------------------------
\* Folds

(* A set of indices has a largest one.                                     *)
LEMMA LargestIndex ==
    ASSUME NEW n \in Nat, NEW S, S \subseteq 1..n, S # {}
    PROVE  Max(S) \in S /\ \A i \in S : i <= Max(S)
<1> DEFINE T == {m \in Nat : \A i \in S : i <= m}
<1>1. T \in SUBSET Nat /\ n \in T
  OBVIOUS
<1>2. PICK m \in T : \A k \in T : m <= k
  <2> HIDE DEF T
  <2> QED BY <1>1, SmallestNumber
<1>3. m \in S
  <2> SUFFICES ASSUME m \notin S PROVE FALSE
    OBVIOUS
  <2>0. m \in Nat /\ \A i \in S : i <= m
    BY <1>2
  <2> HIDE DEF T
  <2>1. \A i \in S : i \in Nat /\ 1 <= i /\ i <= m /\ i # m
    BY <2>0
  <2>2. \A i \in S : i <= m - 1
    BY <2>0, <2>1
  <2>3. m - 1 \in Nat
    <3>1. PICK i \in S : TRUE
      OBVIOUS
    <3> QED BY <2>0, <2>1, <3>1
  <2>4. m - 1 \in T
    BY <2>2, <2>3 DEF T
  <2>5. m <= m - 1
    BY <1>2, <2>4
  <2> QED BY <2>0, <2>5
<1>4. \A i \in S : m >= i
  BY <1>2
<1> QED BY <1>3, <1>4 DEF Max

\* What a fold from the left computes for every part of the indices of s.
IsFold(s, base, h, g) ==
    /\ g[{}] = base
    /\ \A S \in SUBSET DOMAIN s :
         S # {} => g[S] = h[<<g[S \ {Max(S)}], s[Max(S)]>>]

(* The fold of a typed function over a sequence exists.                    *)
LEMMA FoldExists ==
    ASSUME NEW E, NEW s \in Seq(E), NEW B, NEW base \in B,
           NEW h \in [B \X E -> B]
    PROVE  \E g \in [SUBSET DOMAIN s -> B] : IsFold(s, base, h, g)
<1> DEFINE D == DOMAIN s
           c == [S \in SUBSET D |-> Max(S)]
           k == [p \in D \X B |-> h[<<p[2], s[p[1]]>>]]
<1>1. D = 1..Len(s) /\ Len(s) \in Nat
  OBVIOUS
<1>2. IsFiniteSet(D)
  BY <1>1, FS_Interval
<1>3. \A S \in SUBSET D : S # {} => c[S] \in S
  BY <1>1, LargestIndex
<1>4. k \in [D \X B -> B]
  OBVIOUS
<1>5. \A i \in D, b \in B : k[<<i, b>>] = h[<<b, s[i]>>]
  OBVIOUS
<1>6. \A S \in SUBSET D : c[S] = Max(S)
  OBVIOUS
<1> HIDE DEF c, k, D
<1>7. PICK g \in [SUBSET D -> B] : IsRecursion(D, base, c, k, g)
  BY <1>2, <1>3, <1>4, RecursionExists
<1>8. ASSUME NEW S \in SUBSET D, S # {}
      PROVE  g[S] = h[<<g[S \ {Max(S)}], s[Max(S)]>>]
  <2>1. g[S] = k[<<c[S], g[S \ {c[S]}]>>]
    BY <1>7, <1>8 DEF IsRecursion
  <2>2. c[S] = Max(S) /\ Max(S) \in D
    BY <1>3, <1>6, <1>8
  <2>3. g[S \ {Max(S)}] \in B
    OBVIOUS
  <2> QED BY <1>5, <2>1, <2>2, <2>3
<1>9. g[{}] = base
  BY <1>7 DEF IsRecursion
<1> QED BY <1>8, <1>9 DEF IsFold, D

\* t holds the results of the fold g after every element of s.
IsTrace(s, base, h, g, t) ==
    /\ t[0] = base /\ t[Len(s)] = g[DOMAIN s]
    /\ \A k \in 1..Len(s) : t[k] = h[<<t[k - 1], s[k]>>]

\* g computes as the fold of h does where the results are in B.
FoldsIn(B, s, base, h, g) ==
    /\ g[{}] = base
    /\ \A S \in SUBSET DOMAIN s :
         S # {} /\ g[S \ {Max(S)}] \in B
           => g[S] = h[<<g[S \ {Max(S)}], s[Max(S)]>>]

(* Whatever computes as a fold does where the results are of their type    *)
(* goes through the elements of s one by one.                              *)
LEMMA FoldTrace ==
    ASSUME NEW E, NEW s \in Seq(E), NEW B, NEW base \in B,
           NEW h \in [B \X E -> B],
           NEW g, FoldsIn(B, s, base, h, g)
    PROVE  \E t \in [0..Len(s) -> B] : IsTrace(s, base, h, g, t)
<1> DEFINE t == [k \in 0..Len(s) |-> g[1..k]]
           P == {k \in Nat : k <= Len(s) => g[1..k] \in B}
<1>1. Len(s) \in Nat /\ DOMAIN s = 1..Len(s)
  OBVIOUS
<1>2. ASSUME NEW k \in 1..Len(s), g[1..(k - 1)] \in B
      PROVE  /\ g[1..k] = h[<<g[1..(k - 1)], s[k]>>]
             /\ g[1..k] \in B
  <2>1. 1..k \in SUBSET DOMAIN s /\ 1..k # {} /\ k \in Nat
    <3>1. k \in Nat /\ k <= Len(s) /\ 1 \in 1..k
      BY <1>1
    <3>2. 1..k \subseteq DOMAIN s
      BY <1>1, <3>1
    <3> QED BY <3>1, <3>2
  <2>2. Max(1..k) = k
    <3>1. Max(1..k) \in 1..k /\ \A i \in 1..k : i <= Max(1..k)
      BY <2>1, LargestIndex
    <3> QED BY <2>1, <3>1
  <2>3. (1..k) \ {k} = 1..(k - 1)
    BY <1>1
  <2>4. g[1..k] = h[<<g[1..(k - 1)], s[k]>>]
    BY <1>2, <2>1, <2>2, <2>3 DEF FoldsIn
  <2>5. s[k] \in E
    OBVIOUS
  <2> QED BY <1>2, <2>4, <2>5
<1>3. 1..0 = {}
  OBVIOUS
<1>4. P = Nat
  <2>1. 0 \in P
    BY <1>3 DEF FoldsIn
  <2>2. ASSUME NEW k \in P PROVE k + 1 \in P
    <3>1. k \in Nat /\ (k + 1) - 1 = k
      OBVIOUS
    <3>2. CASE k + 1 <= Len(s)
      <4>1. k + 1 \in 1..Len(s) /\ g[1..k] \in B
        BY <1>1, <3>1, <3>2
      <4>2. g[1..((k + 1) - 1)] \in B
        BY <3>1, <4>1
      <4>3. g[1..(k + 1)] \in B
        BY <1>2, <4>1, <4>2
      <4> QED BY <3>1, <4>3
    <3>3. CASE ~(k + 1 <= Len(s))
      BY <3>1, <3>3
    <3> QED BY <3>2, <3>3
  <2>3. P \in SUBSET Nat
    OBVIOUS
  <2> HIDE DEF P
  <2> QED BY <2>1, <2>2, <2>3, NumberInduction
<1>5. t \in [0..Len(s) -> B]
  BY <1>4
<1>6. t[0] = base /\ t[Len(s)] = g[DOMAIN s]
  BY <1>1, <1>3 DEF FoldsIn
<1>7. ASSUME NEW k \in 1..Len(s) PROVE t[k] = h[<<t[k - 1], s[k]>>]
  <2>1. k - 1 \in 0..Len(s) /\ k \in 0..Len(s)
    BY <1>1
  <2>2. g[1..(k - 1)] \in B
    BY <1>4, <2>1
  <2> QED BY <1>2, <2>1, <2>2
<1> HIDE DEF t
<1> QED BY <1>5, <1>6, <1>7 DEF IsTrace

-----------------------------------------------------------------------------
\* Sums

TakenFirst(s) == CHOOSE x \in s : TRUE

IsSum(v, S, g) ==
    g = [s \in SUBSET S |-> IF s = {} THEN 0
           ELSE v[TakenFirst(s)] + g[s \ {TakenFirst(s)}]]

\* The sum of v over S as SumFunctionOnSet computes it.
SumOver(v, S) == (CHOOSE g : IsSum(v, S, g))[S]

\* Of integers, it is an integer for every part of S.
IsIntSum(v, S, g) == IsSum(v, S, g) /\ g \in [SUBSET S -> Int]

(* Integers over a finite set have one.                                   *)
LEMMA SumExists ==
    ASSUME NEW S, IsFiniteSet(S), NEW v, \A x \in S : v[x] \in Int
    PROVE  \E g : IsIntSum(v, S, g)
<1> DEFINE c == [s \in SUBSET S |-> TakenFirst(s)]
           h == [p \in S \X Int |-> v[p[1]] + p[2]]
<1>1. \A s \in SUBSET S : s # {} => c[s] \in s
  BY DEF TakenFirst
<1>2. h \in [S \X Int -> Int]
  OBVIOUS
<1>3. \A x \in S, b \in Int : h[<<x, b>>] = v[x] + b
  OBVIOUS
<1>0. 0 \in Int
  OBVIOUS
<1> HIDE DEF h, c
<1>4. PICK g \in [SUBSET S -> Int] : IsRecursion(S, 0, c, h, g)
  BY <1>0, <1>1, <1>2, RecursionExists, Zenon
<1>5. ASSUME NEW s \in SUBSET S
      PROVE  g[s] = IF s = {} THEN 0
                    ELSE v[TakenFirst(s)] + g[s \ {TakenFirst(s)}]
  <2>1. CASE s # {}
    <3>1. c[s] = TakenFirst(s) /\ c[s] \in S
      BY <1>1, <2>1 DEF c
    <3>2. g[s \ {c[s]}] \in Int
      OBVIOUS
    <3> QED BY <1>3, <1>4, <2>1, <3>1, <3>2 DEF IsRecursion
  <2> QED BY <1>4, <2>1 DEF IsRecursion
<1> QED BY <1>5 DEF IsIntSum, IsSum

(* SumOver is one, and an integer.                                         *)
LEMMA SumChosen ==
    ASSUME NEW S, IsFiniteSet(S), NEW v, \A x \in S : v[x] \in Int
    PROVE  \E g : IsIntSum(v, S, g) /\ SumOver(v, S) = g[S]
<1> DEFINE g == CHOOSE g : IsSum(v, S, g)
<1>1. PICK e : IsIntSum(v, S, e)
  BY SumExists
<1>2. IsSum(v, S, g)
  BY <1>1 DEF IsIntSum
<1>3. SumOver(v, S) = g[S]
  BY DEF SumOver
<1> HIDE DEF g
<1>4. DOMAIN g = SUBSET S /\ g = [s \in SUBSET S |-> g[s]]
  BY <1>2 DEF IsIntSum, IsSum
<1> DEFINE P == {s \in SUBSET S : g[s] \in Int}
<1>5. SUBSET S \subseteq P
  <2>1. {} \in P
    BY <1>2 DEF IsIntSum, IsSum
  <2>2. ASSUME NEW s \in SUBSET S, s # {}, \A x \in s : s \ {x} \in P
        PROVE  s \in P
    <3>1. TakenFirst(s) \in s
      BY <2>2 DEF TakenFirst
    <3>2. g[s \ {TakenFirst(s)}] \in Int
      BY <2>2, <3>1
    <3>3. g[s] = v[TakenFirst(s)] + g[s \ {TakenFirst(s)}]
      BY <1>2, <2>2 DEF IsIntSum, IsSum
    <3> QED BY <3>1, <3>2, <3>3
  <2> HIDE DEF P
  <2> QED BY <2>1, <2>2, SubsetInduction
<1>6. g \in [SUBSET S -> Int]
  BY <1>4, <1>5
<1> QED BY <1>2, <1>3, <1>6 DEF IsIntSum

(* The order in which a sum is taken does not matter: any element may come *)
(* first.                                                                  *)
LEMMA SumInAnyOrder ==
    ASSUME NEW S, IsFiniteSet(S), NEW v, \A x \in S : v[x] \in Int,
           NEW g, IsIntSum(v, S, g),
           NEW x \in S
    PROVE  g[S] = v[x] + g[S \ {x}]
<1> DEFINE P == {q \in SUBSET S : \A y \in q : g[q] = v[y] + g[q \ {y}]}
<1>1. \A q \in SUBSET S : q # {} =>
        TakenFirst(q) \in q /\ g[q] = v[TakenFirst(q)] + g[q \ {TakenFirst(q)}]
  BY DEF IsIntSum, IsSum, TakenFirst
<1>2. \A q \in SUBSET S : g[q] \in Int
  BY DEF IsIntSum
<1>3. ASSUME NEW q \in SUBSET S, q # {}, \A y \in q : q \ {y} \in P
      PROVE  q \in P
  <2>1. SUFFICES ASSUME NEW y \in q PROVE g[q] = v[y] + g[q \ {y}]
    BY <1>3
  <2>2. PICK z \in q : g[q] = v[z] + g[q \ {z}]
    BY <1>1, <1>3
  <2>3. CASE y = z
    BY <2>2, <2>3
  <2>4. CASE y # z
    <3>1. g[q \ {z}] = v[y] + g[(q \ {z}) \ {y}]
      BY <1>3, <2>4
    <3>2. g[q \ {y}] = v[z] + g[(q \ {y}) \ {z}]
      BY <1>3, <2>4
    <3>3. (q \ {z}) \ {y} = (q \ {y}) \ {z}
      OBVIOUS
    <3>4. /\ v[y] \in Int /\ v[z] \in Int
          /\ g[(q \ {y}) \ {z}] \in Int
      BY <1>2
    <3>5. /\ v[z] + (v[y] + g[(q \ {y}) \ {z}])
               = v[y] + (v[z] + g[(q \ {y}) \ {z}])
      BY <3>4
    <3> QED BY <2>2, <3>1, <3>2, <3>3, <3>4, <3>5, Zenon
  <2> QED BY <2>3, <2>4
<1>4. {} \in P
  OBVIOUS
<1>5. SUBSET S \subseteq P
  <2> HIDE DEF P
  <2> QED BY <1>3, <1>4, SubsetInduction
<1> QED BY <1>5

(* Sums over a set and over a part of it agree on what they have in common. *)
LEMMA SumsAgree ==
    ASSUME NEW S, IsFiniteSet(S), NEW R, R \subseteq S, NEW v,
           NEW g, IsIntSum(v, S, g),
           NEW e, IsIntSum(v, R, e)
    PROVE  e[R] = g[R]
<1> DEFINE P == {s \in SUBSET R : e[s] = g[s]}
<1>1. {} \in P
  BY DEF IsIntSum, IsSum
<1>2. ASSUME NEW s \in SUBSET R, s # {}, \A x \in s : s \ {x} \in P
      PROVE  s \in P
  <2>1. TakenFirst(s) \in s
    BY <1>2 DEF TakenFirst
  <2>2. e[s] = v[TakenFirst(s)] + e[s \ {TakenFirst(s)}]
    BY <1>2 DEF IsIntSum, IsSum
  <2>3. g[s] = v[TakenFirst(s)] + g[s \ {TakenFirst(s)}]
    BY <1>2 DEF IsIntSum, IsSum
  <2> QED BY <1>2, <2>1, <2>2, <2>3
<1>3. SUBSET R \subseteq P
  <2>1. IsFiniteSet(R)
    BY FS_Subset
  <2> HIDE DEF P
  <2> QED BY <1>1, <1>2, <2>1, SubsetInduction
<1> QED BY <1>3

(* The sum over nothing is 0.                                              *)
LEMMA SumOfNone ==
    ASSUME NEW v PROVE SumOver(v, {}) = 0
<1>1. PICK g : IsIntSum(v, {}, g) /\ SumOver(v, {}) = g[{}]
  BY FS_EmptySet, SumChosen
<1> QED BY <1>1 DEF IsIntSum, IsSum

(* And an element more adds its value.                                     *)
LEMMA SumOfOneMore ==
    ASSUME NEW S, IsFiniteSet(S), NEW x \in S,
           NEW v, \A y \in S : v[y] \in Int
    PROVE  /\ SumOver(v, S) \in Int /\ SumOver(v, S \ {x}) \in Int
           /\ SumOver(v, S) = SumOver(v, S \ {x}) + v[x]
<1> DEFINE R == S \ {x}
<1>1. IsFiniteSet(R) /\ R \subseteq S /\ \A y \in R : v[y] \in Int
  BY FS_Subset
<1>2. PICK g : IsIntSum(v, S, g) /\ SumOver(v, S) = g[S]
  BY SumChosen
<1> HIDE DEF R
<1>3. PICK e : IsIntSum(v, R, e) /\ SumOver(v, R) = e[R]
  BY <1>1, SumChosen
<1>4. e[R] = g[R]
  BY <1>1, <1>2, <1>3, SumsAgree
<1>5. g[S] = v[x] + g[R]
  BY <1>1, <1>2, SumInAnyOrder DEF R
<1>6. v[x] \in Int /\ g[S] \in Int /\ g[R] \in Int
  BY <1>1, <1>2 DEF IsIntSum
<1> QED BY <1>2, <1>3, <1>4, <1>5, <1>6 DEF R

(* The sum is the one of the community modules.                            *)
LEMMA SumIsSumOver ==
    ASSUME NEW v, NEW S PROVE SumFunctionOnSet(v, S) = SumOver(v, S)
BY Zenon DEF SumFunctionOnSet, FoldFunctionOnSet, MapThenFoldSet, SumOver,
   IsSum, TakenFirst

(* Of natural numbers, part of a set adds up to no more than all of it.    *)
LEMMA SumOfPart ==
    ASSUME NEW S, IsFiniteSet(S), NEW R, R \subseteq S,
           NEW v, \A x \in S : v[x] \in Nat
    PROVE  /\ SumOver(v, R) \in Int /\ SumOver(v, S) \in Int
           /\ SumOver(v, R) <= SumOver(v, S)
<1> DEFINE P == {q \in SUBSET (S \ R) :
                   /\ SumOver(v, R \cup q) \in Int
                   /\ SumOver(v, R) <= SumOver(v, R \cup q)}
<1>1. \A q \in SUBSET S : IsFiniteSet(q) /\ \A x \in q : v[x] \in Int
  BY FS_Subset
<1>2. SumOver(v, R) \in Int
  <2>1. CASE R = {}
    BY <2>1, SumOfNone
  <2>2. CASE R # {}
    <3>1. PICK x \in R : TRUE
      BY <2>2
    <3> QED BY <1>1, <3>1, SumOfOneMore
  <2> QED BY <2>1, <2>2
<1>3. {} \in P
  <2>1. R \cup {} = R
    OBVIOUS
  <2> QED BY <1>2, <2>1
<1>4. ASSUME NEW q \in SUBSET (S \ R), q # {}, \A x \in q : q \ {x} \in P
      PROVE  q \in P
  <2>1. PICK x \in q : TRUE
    BY <1>4
  <2>2. (R \cup q) \ {x} = R \cup (q \ {x}) /\ x \in R \cup q
    BY <2>1
  <2>3. R \cup q \in SUBSET S /\ v[x] \in Nat
    BY <2>1
  <2>4. /\ SumOver(v, R \cup q) \in Int
        /\ SumOver(v, R \cup q) = SumOver(v, (R \cup q) \ {x}) + v[x]
    BY <1>1, <2>2, <2>3, SumOfOneMore
  <2>5. /\ SumOver(v, R \cup (q \ {x})) \in Int
        /\ SumOver(v, R) <= SumOver(v, R \cup (q \ {x}))
    BY <1>4, <2>1
  <2> QED BY <1>2, <2>2, <2>3, <2>4, <2>5
<1>5. S \ R \in P
  <2>1. IsFiniteSet(S \ R)
    BY <1>1
  <2>2. SUBSET (S \ R) \subseteq P
    <3> HIDE DEF P
    <3> QED BY <1>3, <1>4, <2>1, SubsetInduction
  <2> QED BY <2>2
<1>6. R \cup (S \ R) = S
  OBVIOUS
<1> QED BY <1>2, <1>5, <1>6

-----------------------------------------------------------------------------
\* The order of windows

(* A window is a pair of times of the session, the first before the second. *)
LEMMA WindowTyped ==
    ASSUME NEW w \in Windows
    PROVE  /\ w[1] \in 0..Horizon /\ w[2] \in 0..Horizon /\ w[1] < w[2]
           /\ w = <<w[1], w[2]>>
BY DEF Windows

(* A session has finitely many windows.                                    *)
LEMMA WindowsFinite == IsFiniteSet(Windows)
<1>1. IsFiniteSet(0..Horizon)
  BY ReplayDownloadAssumption, FS_Interval
<1>2. IsFiniteSet((0..Horizon) \X (0..Horizon))
  BY <1>1, FS_Product
<1> QED BY <1>2, FS_Subset DEF Windows

(* Windows have a first one among them.                                    *)
LEMMA FirstWindow ==
    ASSUME NEW S, S \subseteq Windows, S # {}
    PROVE  \E w \in S : \A v \in S : v # w => Before(w, v)
<1> DEFINE starts == {w[1] : w \in S}
<1>1. starts \in SUBSET Nat /\ starts # {}
  BY WindowTyped
<1>2. PICK a \in starts : \A b \in starts : a <= b
  <2> HIDE DEF starts
  <2> QED BY <1>1, SmallestNumber
<1> DEFINE ends == {w[2] : w \in {x \in S : x[1] = a}}
<1>3. ends \in SUBSET Nat /\ ends # {}
  BY WindowTyped
<1>4. PICK e \in ends : \A b \in ends : e <= b
  <2> HIDE DEF ends
  <2> QED BY <1>3, SmallestNumber
<1>5. PICK w \in S : w[1] = a /\ w[2] = e
  OBVIOUS
<1>6. ASSUME NEW v \in S, v # w PROVE Before(w, v)
  <2>1. /\ v[1] \in Nat /\ v[2] \in Nat /\ w[1] \in Nat /\ w[2] \in Nat
        /\ v = <<v[1], v[2]>> /\ w = <<w[1], w[2]>>
    BY WindowTyped
  <2>2. w[1] <= v[1]
    BY <1>2, <1>5
  <2>3. v[1] = w[1] => w[2] <= v[2]
    BY <1>4, <1>5
  <2>4. v[1] = w[1] => v[2] # w[2]
    BY <1>6, <2>1
  <2> QED BY <2>1, <2>2, <2>3, <2>4 DEF Before
<1> QED BY <1>6

\* s lists the elements of S in order, each once.
IsListing(S, s) ==
    /\ s \in SetToSeqs(S)
    /\ \A i, j \in DOMAIN s : i < j => Before(s[i], s[j])

(* A listing is begun with a window that is before all the others.         *)
LEMMA ListingExtended ==
    ASSUME NEW S, S \subseteq Windows, IsFiniteSet(S),
           NEW w \in S, \A v \in S : v # w => Before(w, v),
           NEW r, IsListing(S \ {w}, r)
    PROVE  \E s : IsListing(S, s)
<1> DEFINE n == Cardinality(S)
           s == [i \in 1..n |-> IF i = 1 THEN w ELSE r[i - 1]]
<1>1. n \in Nat \ {0} /\ Cardinality(S \ {w}) = n - 1
  <2>1. Cardinality(S \ {w}) = n - 1 /\ IsFiniteSet(S \ {w})
    BY FS_RemoveElement
  <2>2. n \in Nat /\ n # 0
    BY FS_CardinalityType, FS_EmptySet
  <2> QED BY <2>1, <2>2
<1>2. /\ r \in [1..(n - 1) -> S \ {w}]
      /\ \A i, j \in 1..(n - 1) : i # j => r[i] # r[j]
  BY <1>1 DEF IsListing, SetToSeqs
<1>3. \A i, j \in 1..(n - 1) : i < j => Before(r[i], r[j])
  BY <1>2 DEF IsListing
<1> HIDE DEF n
<1>4. \A i \in 1..n : i = 1 \/ (i # 1 /\ i - 1 \in 1..(n - 1))
  BY <1>1
<1>5. s \in [1..n -> S]
  BY <1>2, <1>4
<1>6. \A i, j \in 1..n : i # j => s[i] # s[j]
  BY <1>2, <1>4
<1>7. ASSUME NEW i \in 1..n, NEW j \in 1..n, i < j PROVE Before(s[i], s[j])
  <2>1. j # 1 /\ j - 1 \in 1..(n - 1) /\ s[j] = r[j - 1]
    BY <1>1, <1>7
  <2>2. CASE i = 1
    <3>1. s[i] = w /\ s[j] \in S /\ s[j] # w
      BY <1>2, <2>1, <2>2
    <3> QED BY <3>1
  <2>3. CASE i # 1
    <3>1. i - 1 \in 1..(n - 1) /\ s[i] = r[i - 1] /\ i - 1 < j - 1
      BY <1>1, <1>7, <2>3
    <3> QED BY <1>3, <2>1, <3>1
  <2> QED BY <2>2, <2>3
<1>8. s \in SetToSeqs(S)
  BY <1>5, <1>6 DEF SetToSeqs, n
<1>9. DOMAIN s = 1..n
  OBVIOUS
<1> HIDE DEF s
<1>10. IsListing(S, s)
  BY <1>7, <1>8, <1>9 DEF IsListing
<1> QED BY <1>10

(* Every set of windows can be sorted.                                     *)
LEMMA ListingExists ==
    ASSUME NEW S, S \subseteq Windows
    PROVE  \E s : IsListing(S, s)
<1> DEFINE T == {n \in Nat : \A R \in SUBSET Windows :
                   Cardinality(R) = n => \E s : IsListing(R, s)}
<1>1. \A R \in SUBSET Windows : IsFiniteSet(R) /\ Cardinality(R) \in Nat
  BY WindowsFinite, FS_Subset, FS_CardinalityType
<1>2. 0 \in T
  <2> SUFFICES ASSUME NEW R \in SUBSET Windows, Cardinality(R) = 0
               PROVE  \E s : IsListing(R, s)
    OBVIOUS
  <2> DEFINE s == [i \in 1..0 |-> i]
  <2>1. R = {}
    BY <1>1, FS_EmptySet
  <2>2. 1..0 = {}
    OBVIOUS
  <2>3. s \in [1..0 -> R]
    BY <2>2
  <2>4. s \in SetToSeqs(R)
    BY <2>2, <2>3 DEF SetToSeqs
  <2>5. DOMAIN s = {}
    BY <2>2
  <2> HIDE DEF s
  <2>6. IsListing(R, s)
    BY <2>4, <2>5 DEF IsListing
  <2> QED BY <2>6
<1>3. ASSUME NEW n \in T PROVE n + 1 \in T
  <2> SUFFICES ASSUME NEW R \in SUBSET Windows, Cardinality(R) = n + 1
               PROVE  \E s : IsListing(R, s)
    OBVIOUS
  <2>1. R # {}
    BY FS_EmptySet
  <2>2. PICK w \in R : \A v \in R : v # w => Before(w, v)
    BY <2>1, FirstWindow
  <2>3. Cardinality(R \ {w}) = n /\ R \ {w} \in SUBSET Windows
    <3>1. Cardinality(R \ {w}) = (n + 1) - 1
      BY <1>1, FS_RemoveElement
    <3>2. (n + 1) - 1 = n
      OBVIOUS
    <3> QED BY <3>1, <3>2
  <2>4. PICK r : IsListing(R \ {w}, r)
    BY <2>3
  <2> HIDE DEF T
  <2> QED BY <1>1, <2>2, <2>4, ListingExtended
<1>4. T = Nat
  <2>1. T \in SUBSET Nat
    OBVIOUS
  <2> HIDE DEF T
  <2> QED BY <1>2, <1>3, <2>1, NumberInduction
<1> QED BY <1>1, <1>4

(* InOrder lists all the windows, and they start one after the other.      *)
LEMMA InOrderLists ==
    ASSUME NEW S, S \subseteq Windows
    PROVE  /\ InOrder(S) \in Seq(Windows)
           /\ S = {InOrder(S)[i] : i \in DOMAIN InOrder(S)}
           /\ \A i, j \in DOMAIN InOrder(S) :
                i < j => InOrder(S)[i][1] <= InOrder(S)[j][1]
<1>1. PICK e : IsListing(S, e)
  BY ListingExists
<1>2. PICK s : s = InOrder(S)
  OBVIOUS
<1>3. IsListing(S, s)
  BY <1>1, <1>2, Zenon DEF InOrder, IsListing
<1>4. IsFiniteSet(S) /\ Cardinality(S) \in Nat
  BY WindowsFinite, FS_Subset, FS_CardinalityType
<1>5. PICK n \in Nat : n = Cardinality(S)
  BY <1>4
<1>6. /\ s \in [1..n -> S]
      /\ \A i, j \in 1..n : i # j => s[i] # s[j]
  BY <1>3, <1>5 DEF IsListing, SetToSeqs
<1>7. s \in Seq(Windows) /\ DOMAIN s = 1..n
  BY <1>6
<1>8. s \in Surjection(1..n, S)
  <2>1. s \in Injection(1..n, S)
    BY <1>6 DEF Injection, IsInjective
  <2>2. IsFiniteSet(1..n) /\ Cardinality(1..n) = n
    BY FS_Interval
  <2> QED BY <1>4, <1>5, <2>1, <2>2, FS_Injection
<1>9. S = {s[i] : i \in DOMAIN s}
  BY <1>6, <1>7, <1>8 DEF Surjection
<1>10. ASSUME NEW i \in DOMAIN s, NEW j \in DOMAIN s, i < j
       PROVE  s[i][1] <= s[j][1]
  <2>1. Before(s[i], s[j])
    BY <1>3, <1>10 DEF IsListing
  <2>2. s[i] \in Windows /\ s[j] \in Windows
    BY <1>6, <1>7
  <2>3. s[i][1] \in Nat /\ s[j][1] \in Nat
    BY <2>2, WindowTyped
  <2> QED BY <2>1, <2>3 DEF Before
<1> QED BY <1>2, <1>7, <1>9, <1>10

-----------------------------------------------------------------------------
\* What a plan is made of

PointsOf(W) == UNION {Points(w) : w \in W}

(* What it is to be in one of the windows of W.                            *)
LEMMA PointsMember ==
    ASSUME NEW W, NEW x
    PROVE  x \in PointsOf(W) <=> \E w \in W : x \in Points(w)
BY DEF PointsOf

(* What is left of a window outside of c.                                  *)
LEMMA CutOutPoints ==
    ASSUME NEW w \in Windows, NEW c \in Windows
    PROVE  /\ CutOut(w, c) \subseteq Windows
           /\ \A x : x \in PointsOf(CutOut(w, c))
                       <=> x \in Points(w) /\ x \notin Points(c)
<1>1. /\ w[1] \in Nat /\ w[2] \in Nat /\ w[1] < w[2] /\ w = <<w[1], w[2]>>
      /\ c[1] \in Nat /\ c[2] \in Nat /\ c[1] < c[2]
      /\ w[2] <= Horizon /\ c[2] <= Horizon /\ Horizon \in Nat
  BY WindowTyped, ReplayDownloadAssumption
<1>2. CASE c[2] <= w[1] \/ c[1] >= w[2]
  <2>1. CutOut(w, c) = {w}
    BY <1>2 DEF CutOut
  <2>2. \A x \in Points(w) : x \notin Points(c)
    BY <1>1, <1>2 DEF Points
  <2> QED BY <2>1, <2>2, PointsMember
<1>3. CASE ~(c[2] <= w[1] \/ c[1] >= w[2])
  <2> DEFINE l == <<w[1], c[1]>>
             r == <<c[2], w[2]>>
  <2>1. CutOut(w, c) = {v \in {l, r} : v \in Windows}
    BY <1>3 DEF CutOut
  <2>2. l \in Windows <=> w[1] < c[1]
    BY <1>1, <1>3 DEF Windows
  <2>3. r \in Windows <=> c[2] < w[2]
    BY <1>1, <1>3 DEF Windows
  <2>4. Points(l) = w[1]..(c[1] - 1) /\ Points(r) = c[2]..(w[2] - 1)
    BY DEF Points
  <2>5. ~(w[1] < c[1]) => Points(l) = {}
    BY <1>1, <2>4
  <2>6. ~(c[2] < w[2]) => Points(r) = {}
    BY <1>1, <2>4
  <2> HIDE DEF l, r
  <2>7. \A x : x \in PointsOf(CutOut(w, c)) <=> x \in Points(l) \/ x \in Points(r)
    BY <2>1, <2>2, <2>3, <2>5, <2>6, PointsMember
  <2>8. \A x : x \in Points(l) \/ x \in Points(r)
                 <=> x \in Points(w) /\ x \notin Points(c)
    <3> SUFFICES ASSUME NEW x
                 PROVE  x \in Points(l) \/ x \in Points(r)
                          <=> x \in Points(w) /\ x \notin Points(c)
      OBVIOUS
    <3>1. /\ x \in Points(l) <=> x \in Int /\ w[1] <= x /\ x < c[1]
          /\ x \in Points(r) <=> x \in Int /\ c[2] <= x /\ x < w[2]
      BY <1>1, <2>4
    <3>2. /\ x \in Points(w) <=> x \in Int /\ w[1] <= x /\ x < w[2]
          /\ x \in Points(c) <=> x \in Int /\ c[1] <= x /\ x < c[2]
      BY <1>1 DEF Points
    <3> QED BY <1>1, <1>3, <3>1, <3>2
  <2> QED BY <2>1, <2>7, <2>8
<1> QED BY <1>2, <1>3

(* Cutting c out of all windows of W takes the points of c away.           *)
LEMMA UncoveredPoints ==
    ASSUME NEW W, W \subseteq Windows, NEW c \in Windows
    PROVE  /\ Uncovered(W, c) \subseteq Windows
           /\ PointsOf(Uncovered(W, c)) = PointsOf(W) \ Points(c)
<1>1. Uncovered(W, c) \subseteq Windows
  BY CutOutPoints DEF Uncovered
<1>2. ASSUME NEW x
      PROVE  x \in PointsOf(Uncovered(W, c))
               <=> \E w \in W : x \in PointsOf(CutOut(w, c))
  <2>1. x \in PointsOf(Uncovered(W, c))
          <=> \E v \in Uncovered(W, c) : x \in Points(v)
    BY PointsMember
  <2>2. \A v : v \in Uncovered(W, c) <=> \E w \in W : v \in CutOut(w, c)
    BY DEF Uncovered
  <2>3. \A w \in W : x \in PointsOf(CutOut(w, c))
                       <=> \E v \in CutOut(w, c) : x \in Points(v)
    BY PointsMember
  <2> QED BY <2>1, <2>2, <2>3
<1>3. ASSUME NEW x
      PROVE  x \in PointsOf(Uncovered(W, c))
               <=> x \in PointsOf(W) /\ x \notin Points(c)
  <2>1. \A w \in W : x \in PointsOf(CutOut(w, c))
                       <=> x \in Points(w) /\ x \notin Points(c)
    BY CutOutPoints
  <2> QED BY <1>2, <2>1, PointsMember
<1> QED BY <1>1, <1>3

\* The fold behind SubtractCovered.
CutFold(W, s, g) ==
    g = [S \in SUBSET DOMAIN s |->
           IF S = {} THEN W ELSE Uncovered(g[S \ {Max(S)}], s[Max(S)])]

(* Cutting the windows of C out of those of W leaves exactly the points of *)
(* W that are not in C.                                                    *)
LEMMA SubtractCoveredPoints ==
    ASSUME NEW W, W \subseteq Windows, NEW C, C \subseteq Windows
    PROVE  /\ SubtractCovered(W, C) \subseteq Windows
           /\ PointsOf(SubtractCovered(W, C)) = PointsOf(W) \ PointsOf(C)
<1> DEFINE s == InOrder(C)
           B == SUBSET Windows
           h == [p \in B \X Windows |-> Uncovered(p[1], p[2])]
           it == CHOOSE g : CutFold(W, s, g)
<1>1. s \in Seq(Windows) /\ C = {s[i] : i \in DOMAIN s}
  BY InOrderLists
<1>2. SubtractCovered(W, C) = it[DOMAIN s]
  BY Zenon DEF SubtractCovered, FoldLeft, MapThenFoldSet, CutFold
<1>3. h \in [B \X Windows -> B] /\ W \in B
  BY UncoveredPoints
<1>4. \A b \in B, c \in Windows : h[<<b, c>>] = Uncovered(b, c)
  OBVIOUS
<1> HIDE DEF s, h, B
<1>5. \A S \in SUBSET DOMAIN s : S # {} => Max(S) \in DOMAIN s
  <2>1. DOMAIN s = 1..Len(s) /\ Len(s) \in Nat
    BY <1>1
  <2> QED BY <2>1, LargestIndex
<1>6. CutFold(W, s, it)
  <2>1. PICK g \in [SUBSET DOMAIN s -> B] : IsFold(s, W, h, g)
    BY <1>1, <1>3, FoldExists
  <2>2. ASSUME NEW S \in SUBSET DOMAIN s
        PROVE  g[S] = IF S = {} THEN W
                      ELSE Uncovered(g[S \ {Max(S)}], s[Max(S)])
    <3>1. CASE S # {}
      <4>1. g[S] = h[<<g[S \ {Max(S)}], s[Max(S)]>>]
        BY <2>1, <3>1 DEF IsFold
      <4>2. g[S \ {Max(S)}] \in B /\ s[Max(S)] \in Windows
        BY <1>1, <1>5, <3>1
      <4> QED BY <1>4, <3>1, <4>1, <4>2
    <3> QED BY <2>1, <3>1 DEF IsFold
  <2>3. CutFold(W, s, g)
    BY <2>2 DEF CutFold
  <2> QED BY <2>3
<1> HIDE DEF it
<1>7. PICK t \in [0..Len(s) -> B] : IsTrace(s, W, h, it, t)
  <2>1. it[{}] = W
    BY <1>6 DEF CutFold
  <2>2. ASSUME NEW S \in SUBSET DOMAIN s, S # {}, it[S \ {Max(S)}] \in B
        PROVE  it[S] = h[<<it[S \ {Max(S)}], s[Max(S)]>>]
    <3>1. it[S] = Uncovered(it[S \ {Max(S)}], s[Max(S)])
      BY <1>6, <2>2 DEF CutFold
    <3>2. s[Max(S)] \in Windows
      BY <1>1, <1>5, <2>2
    <3> QED BY <1>4, <2>2, <3>1, <3>2
  <2>3. FoldsIn(B, s, W, h, it)
    BY <2>1, <2>2 DEF FoldsIn
  <2> QED BY <1>1, <1>3, <2>3, FoldTrace
<1> DEFINE P == {k \in Nat : k <= Len(s) =>
                   \A x : x \in PointsOf(t[k]) <=>
                     x \in PointsOf(W) /\ \A i \in 1..k : x \notin Points(s[i])}
<1>8. Len(s) \in Nat /\ DOMAIN s = 1..Len(s)
  BY <1>1
<1>9. 0 \in P
  BY <1>7 DEF IsTrace
<1>10. ASSUME NEW k \in P PROVE k + 1 \in P
  <2> SUFFICES ASSUME k + 1 <= Len(s), NEW x
               PROVE  x \in PointsOf(t[k + 1]) <=>
                 x \in PointsOf(W) /\ \A i \in 1..(k + 1) : x \notin Points(s[i])
    OBVIOUS
  <2>1. k \in Nat /\ k + 1 \in 1..Len(s) /\ (k + 1) - 1 = k /\ k \in 0..Len(s)
    BY <1>8
  <2>2. t[k + 1] = h[<<t[k], s[k + 1]>>]
    BY <1>7, <2>1 DEF IsTrace
  <2>3. t[k] \in B /\ s[k + 1] \in Windows
    BY <1>1, <2>1
  <2>4. t[k + 1] = Uncovered(t[k], s[k + 1])
    BY <1>4, <2>2, <2>3
  <2>5. PointsOf(t[k + 1]) = PointsOf(t[k]) \ Points(s[k + 1])
    BY <2>3, <2>4, UncoveredPoints DEF B
  <2>6. x \in PointsOf(t[k]) <=>
          x \in PointsOf(W) /\ \A i \in 1..k : x \notin Points(s[i])
    BY <1>8, <2>1
  <2>7. (\A i \in 1..(k + 1) : x \notin Points(s[i]))
          <=> (\A i \in 1..k : x \notin Points(s[i])) /\ x \notin Points(s[k + 1])
    <3>1. \A i : i \in 1..(k + 1) <=> i \in 1..k \/ i = k + 1
      BY <2>1
    <3> QED BY <3>1
  <2> QED BY <2>5, <2>6, <2>7
<1>11. P = Nat
  <2>1. P \in SUBSET Nat
    OBVIOUS
  <2> HIDE DEF P
  <2> QED BY <1>9, <1>10, <2>1, NumberInduction
<1>12. \A x : x \in PointsOf(t[Len(s)]) <=>
         x \in PointsOf(W) /\ \A i \in 1..Len(s) : x \notin Points(s[i])
  BY <1>8, <1>11
<1>13. \A x : x \in PointsOf(C) <=> \E i \in DOMAIN s : x \in Points(s[i])
  BY <1>1, PointsMember
<1>14. t[Len(s)] \in B
  BY <1>8
<1> QED BY <1>2, <1>7, <1>8, <1>12, <1>13, <1>14 DEF B, IsTrace

-----------------------------------------------------------------------------
\* Merging

\* b is block l extended to the end of w.
Extends(b, l, w) ==
    /\ b[1] = l[1] /\ b[2] \in {l[2], w[2]}
    /\ l[2] <= b[2] /\ w[2] <= b[2]

\* A window is a block of its own or extends the last one.
LEMMA MergeNextCases ==
    ASSUME NEW m \in Seq(Windows), NEW w \in Windows, NEW gap \in Nat
    PROVE  \/ /\ m = <<>> \/ w[1] - m[Len(m)][2] > gap
              /\ MergeNext(m, w, gap) = Append(m, w)
           \/ /\ m # <<>> /\ ~(w[1] - m[Len(m)][2] > gap)
              /\ \E b \in Windows :
                   /\ Extends(b, m[Len(m)], w)
                   /\ MergeNext(m, w, gap) = [m EXCEPT ![Len(m)] = b]
<1>1. CASE m = <<>> \/ w[1] - m[Len(m)][2] > gap
  BY <1>1 DEF MergeNext
<1>2. CASE ~(m = <<>> \/ w[1] - m[Len(m)][2] > gap)
  <2> DEFINE l == m[Len(m)]
             b == <<l[1], IF w[2] > l[2] THEN w[2] ELSE l[2]>>
  <2>1. l \in Windows
    BY <1>2
  <2>2. /\ l[1] \in Nat /\ l[2] \in Nat /\ l[1] < l[2] /\ l[2] <= Horizon
        /\ w[2] \in Nat /\ w[2] <= Horizon /\ Horizon \in Nat
    BY <2>1, WindowTyped, ReplayDownloadAssumption
  <2>3. MergeNext(m, w, gap) = [m EXCEPT ![Len(m)] = b]
    BY <1>2 DEF MergeNext
  <2> HIDE DEF l
  <2>4. b[1] = l[1] /\ b[2] = IF w[2] > l[2] THEN w[2] ELSE l[2]
    OBVIOUS
  <2>5. Extends(b, l, w)
    BY <2>2, <2>4 DEF Extends
  <2>6. b \in Windows
    BY <2>2, <2>4 DEF Windows
  <2> HIDE DEF b
  <2> QED BY <1>2, <2>3, <2>5, <2>6 DEF l
<1> QED BY <1>1, <1>2

(* Blocks are windows.                                                     *)
LEMMA MergeNextTyped ==
    ASSUME NEW m \in Seq(Windows), NEW w \in Windows, NEW gap \in Nat
    PROVE  MergeNext(m, w, gap) \in Seq(Windows)
<1>1. CASE m = <<>> \/ w[1] - m[Len(m)][2] > gap
  BY <1>1 DEF MergeNext
<1>2. CASE ~(m = <<>> \/ w[1] - m[Len(m)][2] > gap)
  <2>1. PICK b \in Windows : MergeNext(m, w, gap) = [m EXCEPT ![Len(m)] = b]
    BY <1>2, MergeNextCases
  <2>2. PICK n \in Nat : n = Len(m) /\ m \in [1..n -> Windows]
    OBVIOUS
  <2>3. [m EXCEPT ![n] = b] \in [1..n -> Windows]
    BY <2>2
  <2>4. [m EXCEPT ![n] = b] \in Seq(Windows)
    BY <2>3
  <2> QED BY <2>1, <2>2, <2>4
<1> QED BY <1>1, <1>2

\* The blocks lie one after the other, with something between them.
Separated(m) == \A i, j \in DOMAIN m : i < j => m[i][2] < m[j][1]

\* m is what the first k windows of s are merged into.
MergedUpTo(s, k, m) ==
    /\ m \in Seq(Windows) /\ Separated(m)
    /\ k = 0 => m = <<>>
    /\ k # 0 => m # <<>> /\ m[Len(m)][1] <= s[k][1]
    /\ \A i \in 1..k : \E j \in DOMAIN m : m[j][1] <= s[i][1] /\ s[i][2] <= m[j][2]
    /\ \A j \in DOMAIN m : /\ \E i \in 1..k : m[j][1] = s[i][1]
                           /\ \E i \in 1..k : m[j][2] = s[i][2]

\* The next window begins a block.
LEMMA MergeBegins ==
    ASSUME NEW s \in Seq(Windows), NEW k \in Nat, k + 1 <= Len(s),
           NEW m, MergedUpTo(s, k, m),
           m = <<>> \/ m[Len(m)][2] < s[k + 1][1]
    PROVE  MergedUpTo(s, k + 1, Append(m, s[k + 1]))
<1> DEFINE w == s[k + 1]
           n == Append(m, w)
<1>1. w \in Windows
  OBVIOUS
<1>2. m \in Seq(Windows) /\ Len(m) \in Nat /\ DOMAIN m = 1..Len(m)
  BY DEF MergedUpTo
<1> HIDE DEF w
<1>3. /\ n \in Seq(Windows) /\ Len(n) = Len(m) + 1 /\ n # <<>>
      /\ n[Len(n)] = w /\ \A i \in DOMAIN m : n[i] = m[i]
      /\ DOMAIN n = 1..(Len(m) + 1)
  BY <1>1, <1>2
<1>4. \A i : i \in DOMAIN n <=> i \in DOMAIN m \/ i = Len(n)
  BY <1>2, <1>3
<1>5. \A i : i \in 1..(k + 1) <=> i \in 1..k \/ i = k + 1
  OBVIOUS
<1> HIDE DEF n
<1>6. Separated(n)
  <2> SUFFICES ASSUME NEW i \in DOMAIN n, NEW j \in DOMAIN n, i < j
               PROVE  n[i][2] < n[j][1]
    BY DEF Separated
  <2>1. i \in DOMAIN m
    BY <1>2, <1>3, <1>4
  <2>2. CASE j \in DOMAIN m
    BY <1>3, <2>1, <2>2 DEF Separated, MergedUpTo
  <2>3. CASE j = Len(n)
    <3>1. m # <<>> /\ Len(m) \in DOMAIN m
      BY <1>2, <2>1
    <3>2. m[Len(m)][2] < w[1]
      BY <3>1 DEF w
    <3>3. i = Len(m) \/ i < Len(m)
      BY <1>2, <2>1
    <3>4. m[i][2] <= m[Len(m)][2]
      <4>1. /\ m[Len(m)] \in Windows /\ m[i] \in Windows
        BY <1>2, <2>1, <3>1
      <4>2. /\ m[Len(m)][1] \in Nat /\ m[Len(m)][2] \in Nat
            /\ m[Len(m)][1] < m[Len(m)][2] /\ m[i][2] \in Nat
        BY <4>1, WindowTyped
      <4>3. i < Len(m) => m[i][2] < m[Len(m)][1]
        BY <2>1, <3>1 DEF MergedUpTo, Separated
      <4> QED BY <3>3, <4>2, <4>3
    <3>5. m[i][2] \in Nat /\ m[Len(m)][2] \in Nat /\ w[1] \in Nat
      BY <1>1, <1>2, <2>1, <3>1, WindowTyped
    <3>6. n[i] = m[i] /\ n[j] = w
      BY <1>3, <2>1, <2>3
    <3> QED BY <3>2, <3>4, <3>5, <3>6
  <2> QED BY <1>4, <2>2, <2>3
<1>7. n[Len(n)][1] <= s[k + 1][1]
  BY <1>1, <1>3, WindowTyped DEF w
<1>8. ASSUME NEW i \in 1..(k + 1)
      PROVE  \E j \in DOMAIN n : n[j][1] <= s[i][1] /\ s[i][2] <= n[j][2]
  <2>1. CASE i \in 1..k
    <3>1. PICK j \in DOMAIN m : m[j][1] <= s[i][1] /\ s[i][2] <= m[j][2]
      BY <2>1 DEF MergedUpTo
    <3>2. j \in DOMAIN n /\ n[j] = m[j]
      BY <1>3, <1>4
    <3> QED BY <3>1, <3>2
  <2>2. CASE i = k + 1
    <3>1. w[1] \in Nat /\ w[2] \in Nat
      BY <1>1, WindowTyped
    <3>2. Len(n) \in DOMAIN n /\ n[Len(n)] = s[i]
      BY <1>3, <1>4, <2>2 DEF w
    <3> QED BY <1>3, <3>1, <3>2
  <2> QED BY <1>5, <2>1, <2>2
<1>9. ASSUME NEW j \in DOMAIN n
      PROVE  /\ \E i \in 1..(k + 1) : n[j][1] = s[i][1]
             /\ \E i \in 1..(k + 1) : n[j][2] = s[i][2]
  <2>1. CASE j \in DOMAIN m
    <3>1. PICK i \in 1..k : m[j][1] = s[i][1]
      BY <2>1 DEF MergedUpTo
    <3>2. PICK i2 \in 1..k : m[j][2] = s[i2][2]
      BY <2>1 DEF MergedUpTo
    <3>3. n[j] = m[j]
      BY <1>3, <2>1
    <3> QED BY <1>5, <3>1, <3>2, <3>3
  <2>2. CASE j = Len(n)
    BY <1>3, <1>5, <2>2 DEF w
  <2> QED BY <1>4, <2>1, <2>2
<1>10. k + 1 # 0
  OBVIOUS
<1> QED BY <1>3, <1>6, <1>7, <1>8, <1>9, <1>10 DEF MergedUpTo, n, w

\* The next window extends the last block.
LEMMA MergeExtends ==
    ASSUME NEW s \in Seq(Windows), NEW k \in Nat, k + 1 <= Len(s),
           NEW m, MergedUpTo(s, k, m), m # <<>>,
           \A i, j \in DOMAIN s : i < j => s[i][1] <= s[j][1],
           NEW b \in Windows, Extends(b, m[Len(m)], s[k + 1])
    PROVE  MergedUpTo(s, k + 1, [m EXCEPT ![Len(m)] = b])
<1> DEFINE w == s[k + 1]
           l == m[Len(m)]
           n == [m EXCEPT ![Len(m)] = b]
<1>1. w \in Windows /\ b \in Windows
  OBVIOUS
<1>2. /\ m \in Seq(Windows) /\ Len(m) \in Nat /\ DOMAIN m = 1..Len(m)
      /\ Len(m) \in DOMAIN m
  <2>1. m \in Seq(Windows)
    BY DEF MergedUpTo
  <2>2. Len(m) \in Nat /\ DOMAIN m = 1..Len(m)
    BY <2>1
  <2>3. Len(m) # 0
    BY <2>1
  <2> QED BY <2>1, <2>2, <2>3
<1>3. l \in Windows /\ k # 0
  BY <1>2 DEF MergedUpTo
<1>4. /\ n \in Seq(Windows) /\ n # <<>>
      /\ DOMAIN n = DOMAIN m /\ Len(n) = Len(m)
      /\ n[Len(m)] = b /\ \A i \in DOMAIN m : i # Len(m) => n[i] = m[i]
  BY <1>1, <1>2
<1>5. /\ b[1] = l[1] /\ b[2] \in {l[2], w[2]}
      /\ l[2] <= b[2] /\ w[2] <= b[2]
  BY DEF Extends
<1>6. l[1] <= w[1]
  <2>1. l[1] <= s[k][1]
    BY <1>3 DEF MergedUpTo
  <2>2. k \in DOMAIN s /\ k + 1 \in DOMAIN s /\ k < k + 1
    BY <1>3
  <2>3. s[k][1] <= w[1] /\ s[k] \in Windows
    BY <2>2
  <2>4. l[1] \in Nat /\ s[k][1] \in Nat /\ w[1] \in Nat
    <3>1. \A v \in Windows : v[1] \in Nat
      BY WindowTyped
    <3> HIDE DEF w, l
    <3> QED BY <1>1, <1>3, <2>3, <3>1
  <2> QED BY <2>1, <2>3, <2>4
<1>7. /\ l[1] \in Nat /\ l[2] \in Nat /\ w[1] \in Nat /\ w[2] \in Nat
      /\ b[1] \in Nat /\ b[2] \in Nat
  <2>1. \A v \in Windows : v[1] \in Nat /\ v[2] \in Nat
    BY WindowTyped
  <2> HIDE DEF w, l
  <2> QED BY <1>1, <1>3, <2>1
<1>8. \A i : i \in 1..(k + 1) <=> i \in 1..k \/ i = k + 1
  OBVIOUS
<1> HIDE DEF w, n
<1>9. Separated(n)
  <2> SUFFICES ASSUME NEW i \in DOMAIN m, NEW j \in DOMAIN m, i < j
               PROVE  n[i][2] < n[j][1]
    BY <1>4 DEF Separated
  <2>0. m[i][2] < m[j][1]
    BY DEF MergedUpTo, Separated
  <2>1. m[i][2] < m[j][1] /\ i # Len(m)
    BY <1>2, <2>0
  <2>2. n[i] = m[i] /\ n[j][1] = m[j][1]
    BY <1>4, <1>5, <2>1
  <2> QED BY <2>1, <2>2
<1>10. n[Len(n)][1] <= s[k + 1][1]
  BY <1>4, <1>5, <1>6 DEF w
<1>11. ASSUME NEW i \in 1..(k + 1)
       PROVE  \E j \in DOMAIN n : n[j][1] <= s[i][1] /\ s[i][2] <= n[j][2]
  <2>1. CASE i \in 1..k
    <3>1. PICK j \in DOMAIN m : m[j][1] <= s[i][1] /\ s[i][2] <= m[j][2]
      BY <2>1 DEF MergedUpTo
    <3>2. CASE j # Len(m)
      BY <1>4, <3>1, <3>2
    <3>3. CASE j = Len(m)
      <4>1. s[i] \in Windows
        BY <1>8
      <4>2. s[i][2] \in Nat
        BY <4>1, WindowTyped
      <4>3. l[1] <= s[i][1] /\ s[i][2] <= l[2]
        BY <3>1, <3>3
      <4>4. b[1] <= s[i][1] /\ s[i][2] <= b[2]
        BY <1>5, <1>7, <4>2, <4>3
      <4> QED BY <1>2, <1>4, <4>4
    <3> QED BY <3>2, <3>3
  <2>2. CASE i = k + 1
    <3>1. b[1] <= s[i][1] /\ s[i][2] <= b[2]
      BY <1>5, <1>6, <1>7, <2>2 DEF w
    <3> QED BY <1>2, <1>4, <3>1
  <2> QED BY <1>8, <2>1, <2>2
<1>12. ASSUME NEW j \in DOMAIN n
       PROVE  /\ \E i \in 1..(k + 1) : n[j][1] = s[i][1]
              /\ \E i \in 1..(k + 1) : n[j][2] = s[i][2]
  <2>1. PICK i \in 1..k : m[j][1] = s[i][1]
    BY <1>4 DEF MergedUpTo
  <2>2. PICK i2 \in 1..k : m[j][2] = s[i2][2]
    BY <1>4 DEF MergedUpTo
  <2>3. CASE j # Len(m)
    BY <1>4, <1>8, <2>1, <2>2, <2>3
  <2>4. CASE j = Len(m)
    <3>1. n[j][1] = s[i][1]
      BY <1>4, <1>5, <2>1, <2>4
    <3>2. n[j][2] = s[i2][2] \/ n[j][2] = s[k + 1][2]
      BY <1>4, <1>5, <2>2, <2>4 DEF w
    <3> QED BY <1>8, <3>1, <3>2
  <2> QED BY <2>3, <2>4
<1>13. k + 1 # 0
  OBVIOUS
<1> QED BY <1>4, <1>9, <1>10, <1>11, <1>12, <1>13 DEF MergedUpTo, n

\* The fold behind MergeMissing.
MergeFold(s, gap, g) ==
    g = [S \in SUBSET DOMAIN s |->
           IF S = {} THEN <<>>
           ELSE MergeNext(g[S \ {Max(S)}], s[Max(S)], gap)]

(* The next window leaves the blocks separate, and is in one of them.      *)
LEMMA MergeStep ==
    ASSUME NEW s \in Seq(Windows), NEW k \in Nat, k + 1 <= Len(s),
           \A i, j \in DOMAIN s : i < j => s[i][1] <= s[j][1],
           NEW gap \in Nat, NEW m, MergedUpTo(s, k, m)
    PROVE  MergedUpTo(s, k + 1, MergeNext(m, s[k + 1], gap))
<1>1. m \in Seq(Windows)
  BY DEF MergedUpTo
<1>2. PICK w \in Windows : w = s[k + 1]
  OBVIOUS
<1>3. CASE /\ m = <<>> \/ w[1] - m[Len(m)][2] > gap
           /\ MergeNext(m, w, gap) = Append(m, w)
  <2>1. m = <<>> \/ m[Len(m)][2] < w[1]
    <3>1. m # <<>> => m[Len(m)] \in Windows
      BY <1>1
    <3>2. m # <<>> => m[Len(m)][2] \in Nat
      BY <3>1, WindowTyped
    <3>3. w[1] \in Nat
      BY WindowTyped
    <3> QED BY <1>3, <3>2, <3>3
  <2> QED BY <1>2, <1>3, <2>1, MergeBegins
<1>4. CASE /\ m # <<>>
           /\ \E b \in Windows :
                /\ Extends(b, m[Len(m)], w)
                /\ MergeNext(m, w, gap) = [m EXCEPT ![Len(m)] = b]
  <2>1. PICK b \in Windows :
          /\ Extends(b, m[Len(m)], w)
          /\ MergeNext(m, w, gap) = [m EXCEPT ![Len(m)] = b]
    BY <1>4
  <2> QED BY <1>2, <1>4, <2>1, MergeExtends
<1> QED BY <1>1, <1>3, <1>4, MergeNextCases

(* What the windows of W are merged into.                                  *)
LEMMA MergeMissingBlocks ==
    ASSUME NEW W, W \subseteq Windows, NEW gap \in Nat
    PROVE  MergedUpTo(InOrder(W), Len(InOrder(W)), MergeMissing(W, gap))
<1> DEFINE s == InOrder(W)
           B == Seq(Windows)
           h == [p \in B \X Windows |-> MergeNext(p[1], p[2], gap)]
           it == CHOOSE g : MergeFold(s, gap, g)
<1>1. /\ s \in Seq(Windows)
      /\ \A i, j \in DOMAIN s : i < j => s[i][1] <= s[j][1]
  BY InOrderLists
<1>2. MergeMissing(W, gap) = it[DOMAIN s]
  BY Zenon DEF MergeMissing, FoldLeft, MapThenFoldSet, MergeFold
<1>3. h \in [B \X Windows -> B] /\ <<>> \in B
  BY MergeNextTyped
<1>4. \A b \in B, w \in Windows : h[<<b, w>>] = MergeNext(b, w, gap)
  OBVIOUS
<1> HIDE DEF s, h, B
<1>5. \A S \in SUBSET DOMAIN s : S # {} => Max(S) \in DOMAIN s
  <2>1. DOMAIN s = 1..Len(s) /\ Len(s) \in Nat
    BY <1>1
  <2> QED BY <2>1, LargestIndex
<1>6. MergeFold(s, gap, it)
  <2>1. PICK g \in [SUBSET DOMAIN s -> B] : IsFold(s, <<>>, h, g)
    BY <1>1, <1>3, FoldExists
  <2>2. ASSUME NEW S \in SUBSET DOMAIN s
        PROVE  g[S] = IF S = {} THEN <<>>
                      ELSE MergeNext(g[S \ {Max(S)}], s[Max(S)], gap)
    <3>1. CASE S # {}
      <4>1. g[S] = h[<<g[S \ {Max(S)}], s[Max(S)]>>]
        BY <2>1, <3>1 DEF IsFold
      <4>2. g[S \ {Max(S)}] \in B /\ s[Max(S)] \in Windows
        BY <1>1, <1>5, <3>1
      <4> QED BY <1>4, <3>1, <4>1, <4>2
    <3> QED BY <2>1, <3>1 DEF IsFold
  <2>3. MergeFold(s, gap, g)
    BY <2>2 DEF MergeFold
  <2> QED BY <2>3
<1> HIDE DEF it
<1>7. PICK t \in [0..Len(s) -> B] : IsTrace(s, <<>>, h, it, t)
  <2>1. it[{}] = <<>>
    BY <1>6 DEF MergeFold
  <2>2. ASSUME NEW S \in SUBSET DOMAIN s, S # {}, it[S \ {Max(S)}] \in B
        PROVE  it[S] = h[<<it[S \ {Max(S)}], s[Max(S)]>>]
    <3>1. it[S] = MergeNext(it[S \ {Max(S)}], s[Max(S)], gap)
      BY <1>6, <2>2 DEF MergeFold
    <3>2. s[Max(S)] \in Windows
      BY <1>1, <1>5, <2>2
    <3> QED BY <1>4, <2>2, <3>1, <3>2
  <2>3. FoldsIn(B, s, <<>>, h, it)
    BY <2>1, <2>2 DEF FoldsIn
  <2> QED BY <1>1, <1>3, <2>3, FoldTrace
<1> DEFINE P == {k \in Nat : k <= Len(s) => MergedUpTo(s, k, t[k])}
<1>8. Len(s) \in Nat
  BY <1>1
<1>9. 0 \in P
  <2>1. t[0] = <<>>
    BY <1>7 DEF IsTrace
  <2>2. MergedUpTo(s, 0, <<>>)
    BY DEF MergedUpTo, Separated
  <2> QED BY <2>1, <2>2
<1>10. ASSUME NEW k \in P PROVE k + 1 \in P
  <2> SUFFICES ASSUME k + 1 <= Len(s) PROVE MergedUpTo(s, k + 1, t[k + 1])
    OBVIOUS
  <2>1. k \in Nat /\ k + 1 \in 1..Len(s) /\ (k + 1) - 1 = k /\ k \in 0..Len(s)
    BY <1>8
  <2>2. t[k + 1] = h[<<t[k], s[k + 1]>>]
    BY <1>7, <2>1 DEF IsTrace
  <2>3. t[k] \in B /\ s[k + 1] \in Windows
    BY <1>1, <2>1
  <2>4. t[k + 1] = MergeNext(t[k], s[k + 1], gap)
    BY <1>4, <2>2, <2>3
  <2>5. MergedUpTo(s, k, t[k])
    BY <1>8, <2>1
  <2> HIDE DEF P
  <2> QED BY <1>1, <2>1, <2>4, <2>5, MergeStep
<1>11. P = Nat
  <2>1. P \in SUBSET Nat
    OBVIOUS
  <2> HIDE DEF P
  <2> QED BY <1>9, <1>10, <2>1, NumberInduction
<1>12. MergedUpTo(s, Len(s), t[Len(s)])
  BY <1>8, <1>11
<1>13. t[Len(s)] = it[DOMAIN s]
  BY <1>7 DEF IsTrace
<1> QED BY <1>2, <1>12, <1>13 DEF s

-----------------------------------------------------------------------------
\* The plan

\* A plan that buys what is missing, and only that.
PlanGood(p) ==
    /\ p \in Seq(Windows)
    /\ Missing \subseteq UNION {Points(p[i]) : i \in DOMAIN p}
    /\ \A i \in DOMAIN p : {p[i][1], p[i][2] - 1} \subseteq Missing
    /\ Separated(p)

(* Separate blocks are no more than there are units of time.               *)
LEMMA PlanLength ==
    ASSUME NEW p \in Seq(Windows), Separated(p)
    PROVE  DOMAIN p \subseteq 1..MaxBlocks
<1> DEFINE P == {k \in Nat : k \in 1..Len(p) => k <= p[k][2]}
<1>1. Len(p) \in Nat /\ DOMAIN p = 1..Len(p) /\ Horizon \in Nat
  BY ReplayDownloadAssumption
<1>2. \A k \in 1..Len(p) :
        p[k][1] \in Nat /\ p[k][2] \in Nat /\ p[k][1] < p[k][2] /\ p[k][2] <= Horizon
  <2>1. \A k \in 1..Len(p) : p[k] \in Windows
    BY <1>1
  <2> QED BY <1>1, <2>1, WindowTyped
<1>3. 0 \in P
  OBVIOUS
<1>4. ASSUME NEW k \in P PROVE k + 1 \in P
  <2> SUFFICES ASSUME k + 1 \in 1..Len(p) PROVE k + 1 <= p[k + 1][2]
    OBVIOUS
  <2>1. k \in Nat /\ (k = 0 \/ k \in 1..Len(p)) /\ k < k + 1
    BY <1>1
  <2>2. p[k + 1][1] \in Nat /\ p[k + 1][2] \in Nat /\ p[k + 1][1] < p[k + 1][2]
    BY <1>2
  <2>3. CASE k = 0
    BY <2>2, <2>3
  <2>4. CASE k \in 1..Len(p)
    <3>1. k <= p[k][2] /\ p[k][2] \in Nat
      BY <1>2, <2>4
    <3>2. p[k][2] < p[k + 1][1]
      BY <1>1, <2>1, <2>4 DEF Separated
    <3> QED BY <2>1, <2>2, <3>1, <3>2
  <2> QED BY <2>1, <2>3, <2>4
<1>5. P = Nat
  <2>1. P \in SUBSET Nat
    OBVIOUS
  <2> HIDE DEF P
  <2> QED BY <1>3, <1>4, <2>1, NumberInduction
<1>6. Len(p) \in 1..Len(p) => Len(p) <= Horizon
  <2>1. Len(p) \in 1..Len(p) => Len(p) <= p[Len(p)][2]
    BY <1>1, <1>5
  <2> QED BY <1>1, <1>2, <2>1
<1> QED BY <1>1, <1>6 DEF MaxBlocks

(* A candidate is a plan for what is missing.                              *)
LEMMA CandidateGood ==
    ASSUME gaps \in Evidence, held \in Holdings,
           NEW level \in MergeLevels
    PROVE  PlanGood(Candidate(level))
<1>1. gaps \subseteq Windows /\ held \subseteq Windows /\ level \in Nat
  BY ReplayDownloadAssumption
<1>2. PICK W : W = SubtractCovered(gaps, held)
  OBVIOUS
<1>3. W \subseteq Windows /\ PointsOf(W) = Missing
  BY <1>1, <1>2, SubtractCoveredPoints DEF Missing, PointsOf
<1>4. PICK s : s = InOrder(W)
  OBVIOUS
<1>5. s \in Seq(Windows) /\ W = {s[i] : i \in DOMAIN s}
  BY <1>3, <1>4, InOrderLists
<1>6. PICK m : m = Candidate(level)
  OBVIOUS
<1>7. MergedUpTo(s, Len(s), m)
  BY <1>1, <1>2, <1>3, <1>4, <1>6, MergeMissingBlocks DEF Candidate
<1>8. m \in Seq(Windows) /\ Separated(m)
  BY <1>7 DEF MergedUpTo
<1>9. DOMAIN s = 1..Len(s)
  BY <1>5
<1>10. ASSUME NEW x \in Missing PROVE \E j \in DOMAIN m : x \in Points(m[j])
  <2>1. PICK i \in DOMAIN s : x \in Points(s[i])
    BY <1>3, <1>5, PointsMember
  <2>2. PICK j \in DOMAIN m : m[j][1] <= s[i][1] /\ s[i][2] <= m[j][2]
    BY <1>7, <1>9 DEF MergedUpTo
  <2>3. s[i] \in Windows /\ m[j] \in Windows
    BY <1>5, <1>8
  <2>4. /\ s[i][1] \in Nat /\ s[i][2] \in Nat
        /\ m[j][1] \in Nat /\ m[j][2] \in Nat
    BY <2>3, WindowTyped
  <2>5. x \in Points(m[j])
    BY <2>1, <2>2, <2>4 DEF Points
  <2> QED BY <2>5
<1>11. ASSUME NEW i \in 1..Len(s) PROVE {s[i][1], s[i][2] - 1} \subseteq Missing
  <2>1. s[i] \in Windows /\ s[i] \in W
    BY <1>5, <1>9
  <2>2. s[i][1] \in Nat /\ s[i][2] \in Nat /\ s[i][1] < s[i][2]
    BY <2>1, WindowTyped
  <2>3. s[i][1] \in Points(s[i]) /\ s[i][2] - 1 \in Points(s[i])
    BY <2>2 DEF Points
  <2> QED BY <1>3, <2>1, <2>3, PointsMember
<1>12. ASSUME NEW j \in DOMAIN m PROVE {m[j][1], m[j][2] - 1} \subseteq Missing
  <2>1. PICK i \in 1..Len(s) : m[j][1] = s[i][1]
    BY <1>7 DEF MergedUpTo
  <2>2. PICK k \in 1..Len(s) : m[j][2] = s[k][2]
    BY <1>7 DEF MergedUpTo
  <2> QED BY <1>11, <2>1, <2>2
<1> QED BY <1>6, <1>8, <1>10, <1>12 DEF PlanGood

-----------------------------------------------------------------------------
\* What is bought

\* What was received and not deleted is in one of the two files of its request,
\* and a request that is issued has none of it there.
BoughtInv ==
    /\ target \in [1..MaxBlocks -> Content] /\ partial \in [1..MaxBlocks -> Content]
    /\ received \in [1..MaxBlocks -> Nat] /\ deleted \in [1..MaxBlocks -> Nat]
    /\ BoughtIsKept
    /\ pc = "fetch" => at \notin {i \in 1..MaxBlocks : OnDisk(i)}

(* A valid .part file is moved into place.                                 *)
LEMMA MovePartialKeeps ==
    ASSUME BoughtInv, MovePartial, partial[at] = "good" PROVE BoughtInv'
<1>1. /\ target' = [target EXCEPT ![at] = "good"]
      /\ partial' = [partial EXCEPT ![at] = "none"]
      /\ UNCHANGED bought /\ pc' = "record"
  BY DEF MovePartial
<1>2. /\ target' \in [1..MaxBlocks -> Content]
      /\ partial' \in [1..MaxBlocks -> Content]
  BY <1>1 DEF BoughtInv, Content
<1>3. ASSUME NEW i \in 1..MaxBlocks PROVE OnDisk(i)' <=> OnDisk(i)
  <2>1. CASE i = at
    BY <1>1, <2>1 DEF BoughtInv, OnDisk
  <2>2. CASE i # at
    BY <1>1, <2>2 DEF BoughtInv, OnDisk
  <2> QED BY <2>1, <2>2
<1> QED BY <1>1, <1>2, <1>3 DEF BoughtInv, BoughtIsKept, bought

(* What a transfer brings is counted.                                      *)
LEMMA Counted ==
    ASSUME NEW f, f \in [1..MaxBlocks -> Nat], NEW content, NEW g,
           g = [f EXCEPT ![at] = IF content = "good" THEN @ + 1 ELSE @]
    PROVE  /\ g \in [1..MaxBlocks -> Nat]
           /\ \A i \in 1..MaxBlocks :
                g[i] = IF i = at /\ content = "good" THEN f[i] + 1 ELSE f[i]
<1>1. DOMAIN f = 1..MaxBlocks /\ \A i \in 1..MaxBlocks : f[i] \in Nat
  OBVIOUS
<1>2. g = [i \in 1..MaxBlocks |->
             IF i = at /\ content = "good" THEN f[i] + 1 ELSE f[i]]
  BY <1>1
<1>3. \A i \in 1..MaxBlocks :
        (IF i = at /\ content = "good" THEN f[i] + 1 ELSE f[i]) \in Nat
  BY <1>1
<1> QED BY <1>2, <1>3

(* What a transfer brings is kept where there was nothing before.          *)
LEMMA PartialWritten ==
    ASSUME BoughtInv, NEW content \in Content,
           partial' = [partial EXCEPT ![at] = content], Arrives(content),
           UNCHANGED <<target, deleted>>, pc = "fetch", pc' # "fetch"
    PROVE  BoughtInv'
<1>1. /\ partial' \in [1..MaxBlocks -> Content]
      /\ received' \in [1..MaxBlocks -> Nat]
  <2>1. received' \in [1..MaxBlocks -> Nat]
    BY Counted DEF BoughtInv, Arrives
  <2> QED BY <2>1 DEF BoughtInv
<1>2. ASSUME NEW i \in 1..MaxBlocks
      PROVE  received'[i] = deleted[i] + (IF OnDisk(i)' THEN 1 ELSE 0)
  <2>0. /\ received[i] = deleted[i] + (IF OnDisk(i) THEN 1 ELSE 0)
        /\ deleted[i] \in Nat
    BY DEF BoughtInv, BoughtIsKept
  <2>1. CASE i = at
    <3>1. ~OnDisk(i) /\ target'[i] # "good" /\ partial'[i] = content
      BY <2>1 DEF BoughtInv, OnDisk
    <3>2. received'[i] = IF content = "good" THEN received[i] + 1 ELSE received[i]
      BY <2>1 DEF BoughtInv, Arrives
    <3>3. OnDisk(i)' <=> content = "good"
      BY <3>1 DEF OnDisk
    <3> QED BY <2>0, <3>1, <3>2, <3>3
  <2>2. CASE i # at
    <3>1. partial'[i] = partial[i] /\ target'[i] = target[i] /\ received'[i] = received[i]
      BY <2>2 DEF BoughtInv, Arrives
    <3>2. OnDisk(i)' <=> OnDisk(i)
      BY <3>1 DEF OnDisk
    <3> QED BY <2>0, <3>1, <3>2
  <2> QED BY <2>1, <2>2
<1> QED BY <1>1, <1>2 DEF BoughtInv, BoughtIsKept

(* Only a transfer adds to what was received, and only a retry deletes it. *)
LEMMA BoughtStep == BoughtInv /\ [Next]_vars => BoughtInv'
<1> SUFFICES ASSUME BoughtInv, [Next]_vars PROVE BoughtInv'
  OBVIOUS
<1>0. {"none", "bad", "good"} = Content
  BY DEF Content
<1>1. ASSUME UNCHANGED <<files, bought>>, pc' # "fetch" \/ UNCHANGED <<pc, at>>
      PROVE  BoughtInv'
  BY <1>1 DEF BoughtInv, BoughtIsKept, OnDisk, files, bought
<1>2. CASE Choose \/ ResumePlan \/ QuoteFails
  <2>1. pc' \in {"save", "idle"}
    BY <1>2 DEF Choose, ResumePlan, QuoteFails, RunEnds
  <2> QED BY <1>1, <1>2, <2>1 DEF Choose, ResumePlan, QuoteFails, RunBegins
<1>3. CASE Save \/ SaveProgress
  BY <1>1, <1>3 DEF Save, SaveProgress
<1>4. CASE SkipVerified \/ AdoptVerified
  BY <1>1, <1>4 DEF SkipVerified, AdoptVerified, AtRequest
<1>5. CASE Promote \/ Place
  BY <1>5, MovePartialKeeps DEF Promote, Place, Valid, PartialVerified
<1>6. CASE BeginDownload
  <2>1. /\ partial' = [partial EXCEPT ![at] = "none"]
        /\ UNCHANGED <<target, bought, at>>
        /\ target[at] # "good" /\ partial[at] # "good"
    BY <1>6 DEF BeginDownload, TargetVerified, PartialVerified
  <2>2. partial' \in [1..MaxBlocks -> Content]
    BY <1>0, <2>1 DEF BoughtInv
  <2>3. ASSUME NEW i \in 1..MaxBlocks
        PROVE  (OnDisk(i)' <=> OnDisk(i)) /\ (i = at => ~OnDisk(i)')
    <3>1. CASE i = at
      BY <2>1, <3>1 DEF BoughtInv, OnDisk
    <3>2. CASE i # at
      BY <2>1, <3>2 DEF BoughtInv, OnDisk
    <3> QED BY <3>1, <3>2
  <2> QED BY <2>1, <2>2, <2>3 DEF BoughtInv, BoughtIsKept, bought
<1>7. CASE Fetch
  <2>1. PICK content \in Content :
          partial' = [partial EXCEPT ![at] = content] /\ Arrives(content)
    BY <1>7 DEF Fetch
  <2>2. UNCHANGED <<target, deleted>> /\ pc = "fetch" /\ pc' = "fetched"
    BY <1>7 DEF Fetch
  <2> QED BY <2>1, <2>2, PartialWritten
<1>8. CASE Retry
  <2>1. PICK content \in Content :
          /\ Arrives(content)
          /\ deleted' = [deleted EXCEPT ![at] =
                           IF content = "good" THEN @ + 1 ELSE @]
    BY <1>8 DEF Retry
  <2>2. UNCHANGED <<target, partial, pc, at>>
    BY <1>8 DEF Retry, files
  <2>3. received' \in [1..MaxBlocks -> Nat] /\ deleted' \in [1..MaxBlocks -> Nat]
    <3>1. received' \in [1..MaxBlocks -> Nat]
      BY <2>1, Counted DEF BoughtInv, Arrives
    <3>2. deleted' \in [1..MaxBlocks -> Nat]
      BY <2>1, Counted DEF BoughtInv
    <3> QED BY <3>1, <3>2
  <2>4. ASSUME NEW i \in 1..MaxBlocks
        PROVE  /\ OnDisk(i)' <=> OnDisk(i)
               /\ received'[i] = deleted'[i] + (IF OnDisk(i) THEN 1 ELSE 0)
    <3>1. /\ received[i] = deleted[i] + (IF OnDisk(i) THEN 1 ELSE 0)
          /\ deleted[i] \in Nat
      BY DEF BoughtInv, BoughtIsKept
    <3>2. \/ received'[i] = received[i] + 1 /\ deleted'[i] = deleted[i] + 1
          \/ received'[i] = received[i] /\ deleted'[i] = deleted[i]
      BY <2>1 DEF BoughtInv, Arrives
    <3>3. OnDisk(i)' <=> OnDisk(i)
      BY <2>2 DEF OnDisk
    <3> QED BY <3>1, <3>2, <3>3
  <2> QED BY <2>2, <2>3, <2>4 DEF BoughtInv, BoughtIsKept
<1>9. CASE GiveUp
  <2>1. PICK content \in Content :
          partial' = [partial EXCEPT ![at] = content] /\ Arrives(content)
    BY <1>9 DEF GiveUp
  <2>2. UNCHANGED <<target, deleted>> /\ pc = "fetch" /\ pc' = "idle"
    BY <1>9 DEF GiveUp
  <2> QED BY <2>1, <2>2, PartialWritten
<1>10. CASE Refuse \/ Record \/ List
  BY <1>1, <1>10 DEF Refuse, Record, List
<1>11. CASE Finish \/ FinishProgress
  BY <1>1, <1>11 DEF Finish, FinishProgress
<1>12. CASE Crash
  <2>1. UNCHANGED <<target, deleted>> /\ pc' = "idle"
    BY <1>12 DEF Crash
  <2>2. CASE pc = "fetch"
    <3>1. PICK content \in Content :
            partial' = [partial EXCEPT ![at] = content] /\ Arrives(content)
      BY <1>12, <2>2 DEF Crash
    <3> QED BY <2>1, <2>2, <3>1, PartialWritten
  <2>3. CASE pc # "fetch"
    BY <1>1, <1>12, <2>1, <2>3 DEF Crash, files, bought
  <2> QED BY <2>2, <2>3
<1>13. CASE UNCHANGED vars
  BY <1>1, <1>13 DEF vars
<1> QED BY <1>2, <1>3, <1>4, <1>5, <1>6, <1>7, <1>8, <1>9, <1>10, <1>11, <1>12,
           <1>13 DEF Next

(* Before the first run nothing is bought.                                 *)
LEMMA InitBought == Init => BoughtInv
BY DEF Init, Zero, BoughtInv, BoughtIsKept, OnDisk, Content

(* What was received is there, unless the retry of a transfer has deleted  *)
(* it, over any number of runs and crashes and whatever transfers leave.   *)
THEOREM ReplayBoughtIsKept == Spec => []BoughtIsKept
<1>1. BoughtInv => BoughtIsKept
  BY DEF BoughtInv
<1> QED BY <1>1, InitBought, BoughtStep, PTL DEF Spec

-----------------------------------------------------------------------------
\* The plan of the manifest

\* A run works on the plan of the manifest, which is frozen once it is there.
PlanInv ==
    /\ gaps \in Evidence /\ held \in Holdings
    /\ saved = <<>> \/ PlanGood(saved)
    /\ plan = <<>> \/ PlanGood(plan)
    /\ pc \notin {"idle", "save"} => plan = saved
    /\ pc = "save" => saved = <<>> \/ plan = saved

(* What is missing does not change, and a plan stays as good as it was.    *)
LEMMA GoodKept ==
    ASSUME UNCHANGED <<gaps, held>>, NEW p, PlanGood(p)
    PROVE  /\ saved' = p => PlanGood(saved)'
           /\ plan' = p => PlanGood(plan)'
<1>1. Missing' = Missing
  BY DEF Missing
<1>2. ASSUME saved' = p PROVE PlanGood(saved)'
  BY <1>1, <1>2 DEF PlanGood, Separated
<1>3. ASSUME plan' = p PROVE PlanGood(plan)'
  BY <1>1, <1>3 DEF PlanGood, Separated
<1> QED BY <1>2, <1>3

(* A plan is made where the manifest has none, and otherwise resumed.      *)
LEMMA PlanStep == PlanInv /\ [Next]_vars => PlanInv'
<1> SUFFICES ASSUME PlanInv, [Next]_vars PROVE PlanInv'
  OBVIOUS
<1>1. ASSUME UNCHANGED <<gaps, held, saved, plan>>,
             pc' # "save", pc' # "idle" => pc \notin {"idle", "save"}
      PROVE  PlanInv'
  BY <1>1, GoodKept DEF PlanInv
<1>2. CASE Choose
  <2>1. UNCHANGED <<gaps, held, saved>> /\ saved = <<>>
    BY <1>2 DEF Choose, RunBegins, manifest
  <2>2. ASSUME NEW level \in MergeLevels, plan' = Candidate(level), pc' = "save"
        PROVE  PlanInv'
    <3>1. PlanGood(Candidate(level))
      BY CandidateGood DEF PlanInv
    <3>2. PlanGood(plan)'
      BY <2>1, <2>2, <3>1, GoodKept
    <3> QED BY <2>1, <2>2, <3>2 DEF PlanInv
  <2>3. CASE RunEnds
    BY <1>1, <2>1, <2>3 DEF RunEnds
  <2> QED BY <1>2, <2>2, <2>3 DEF Choose
<1>3. CASE ResumePlan \/ QuoteFails
  <2>1. UNCHANGED <<gaps, held, saved>>
    BY <1>3 DEF ResumePlan, QuoteFails, RunBegins, manifest
  <2>2. CASE plan' = saved /\ pc' = "save" /\ saved # <<>>
    <3>1. PlanGood(saved)
      BY <2>2 DEF PlanInv
    <3>2. PlanGood(saved)' /\ PlanGood(plan)'
      BY <2>1, <2>2, <3>1, GoodKept
    <3> QED BY <2>1, <2>2, <3>2 DEF PlanInv
  <2>3. CASE RunEnds
    BY <1>1, <2>1, <2>3 DEF RunEnds
  <2> QED BY <1>3, <2>2, <2>3 DEF ResumePlan, QuoteFails
<1>4. CASE Save
  <2>1. /\ UNCHANGED <<gaps, held, plan>> /\ saved' = plan
        /\ pc' = "saveProgress"
    BY <1>4 DEF Save
  <2>2. plan = <<>> \/ PlanGood(plan)
    BY DEF PlanInv
  <2>3. PlanGood(plan) => PlanGood(saved)' /\ PlanGood(plan)'
    BY <2>1, GoodKept
  <2> QED BY <2>1, <2>2, <2>3 DEF PlanInv
<1>5. CASE SaveProgress
  BY <1>1, <1>5 DEF SaveProgress, manifest
<1>6. CASE SkipVerified \/ AdoptVerified \/ Promote \/ BeginDownload
  BY <1>1, <1>6 DEF SkipVerified, AdoptVerified, Promote, MovePartial,
     BeginDownload, AtRequest, manifest
<1>7. CASE Fetch \/ Retry \/ GiveUp
  BY <1>1, <1>7 DEF Fetch, Retry, GiveUp, manifest
<1>8. CASE Place \/ Refuse
  BY <1>1, <1>8 DEF Place, MovePartial, Refuse, manifest
<1>9. CASE Record \/ List
  BY <1>1, <1>9 DEF Record, List, manifest
<1>10. CASE Finish \/ FinishProgress
  BY <1>1, <1>10 DEF Finish, FinishProgress, manifest
<1>11. CASE Crash
  BY <1>1, <1>11 DEF Crash, manifest
<1>12. CASE UNCHANGED vars
  <2>1. UNCHANGED <<gaps, held, saved, plan, pc>>
    BY <1>12 DEF vars, manifest
  <2>2. PlanGood(saved) => PlanGood(saved)'
    BY <2>1, GoodKept
  <2>3. PlanGood(plan) => PlanGood(plan)'
    BY <2>1, GoodKept
  <2> QED BY <2>1, <2>2, <2>3 DEF PlanInv
<1> QED BY <1>2, <1>3, <1>4, <1>5, <1>6, <1>7, <1>8, <1>9, <1>10, <1>11, <1>12
        DEF Next

(* The plan is sound in every run.                                         *)
LEMMA PlanAlways == Spec => []PlanInv
<1>1. Init => PlanInv
  BY DEF Init, PlanInv
<1> QED BY <1>1, PlanStep, PTL DEF Spec

(* The plan that is saved buys what is missing and nothing that is held:   *)
(* its blocks cover it, begin and end with it, and are apart.              *)
THEOREM ReplayPlanFillsGaps == Spec => []PlanFillsGaps
<1>1. PlanInv => PlanFillsGaps
  BY DEF PlanInv, PlanGood, Separated, PlanFillsGaps
<1> QED BY <1>1, PlanAlways, PTL

-----------------------------------------------------------------------------
\* What is recorded

\* What is recorded is in place, and a run has passed by recorded requests only.
ProgressInv ==
    /\ target \in [1..MaxBlocks -> Content]
    /\ recorded \subseteq {i \in DOMAIN saved : TargetVerified(i)}
    /\ pc \notin {"idle", "save", "saveProgress"} =>
         /\ at \in Nat \ {0}
         /\ \A i \in DOMAIN plan : i < at => i \in recorded
    /\ pc \in {"fetch", "fetched", "record", "list"} => at \in DOMAIN plan
    /\ pc = "record" => TargetVerified(at)
    /\ pc = "list" => at \in recorded
    /\ pc \in {"finish", "done"} => complete /\ at \notin DOMAIN plan

(* A request of a plan has files.                                          *)
LEMMA PlanFits ==
    ASSUME PlanInv
    PROVE  /\ plan \in Seq(Windows) /\ DOMAIN plan \subseteq 1..MaxBlocks
           /\ DOMAIN plan = 1..Len(plan) /\ Len(plan) \in Nat
<1>1. CASE plan = <<>>
  BY <1>1
<1>2. CASE PlanGood(plan)
  <2>1. plan \in Seq(Windows) /\ Separated(plan)
    BY <1>2 DEF PlanGood
  <2> QED BY <2>1, PlanLength
<1> QED BY <1>1, <1>2 DEF PlanInv

(* A file is moved into place where it is valid.                           *)
LEMMA MovedIntoPlace ==
    ASSUME PlanInv, ProgressInv, MovePartial, partial[at] = "good",
           at \in DOMAIN plan, pc \in {"loop", "fetched"}
    PROVE  ProgressInv'
<1>1. at \in 1..MaxBlocks
  BY PlanFits
<1>2. /\ target' = [target EXCEPT ![at] = "good"] /\ pc' = "record"
      /\ UNCHANGED <<plan, at, saved, recorded, complete>>
  BY DEF MovePartial, manifest
<1>3. target' \in [1..MaxBlocks -> Content] /\ target'[at] = "good"
  BY <1>1, <1>2 DEF ProgressInv, Content
<1>4. \A i : i \in recorded => target'[i] = "good"
  <2> SUFFICES ASSUME NEW i \in recorded PROVE target'[i] = "good"
    OBVIOUS
  <2>1. CASE i = at
    BY <1>3, <2>1
  <2>2. CASE i # at
    <3>1. target[i] = "good"
      BY DEF ProgressInv, TargetVerified
    <3> QED BY <1>1, <1>2, <2>2, <3>1 DEF ProgressInv
  <2> QED BY <2>1, <2>2
<1> QED BY <1>2, <1>3, <1>4 DEF ProgressInv, TargetVerified

(* Requests are recorded once their file is in place, and passed by once   *)
(* they are recorded.                                                      *)
LEMMA ProgressStep == PlanInv /\ ProgressInv /\ [Next]_vars => ProgressInv'
<1> SUFFICES ASSUME PlanInv, ProgressInv, [Next]_vars PROVE ProgressInv'
  OBVIOUS
<1>1. ASSUME UNCHANGED <<target, saved, recorded>>, pc' \in {"idle", "save"}
      PROVE  ProgressInv'
  BY <1>1 DEF ProgressInv, TargetVerified
<1>2. CASE Choose
  BY <1>1, <1>2 DEF Choose, RunBegins, RunEnds, manifest, files
<1>3. CASE ResumePlan \/ QuoteFails
  BY <1>1, <1>3 DEF ResumePlan, QuoteFails, RunBegins, RunEnds, manifest, files
<1>4. CASE Save
  <2>1. /\ UNCHANGED <<target, recorded>> /\ saved' = plan
        /\ pc' = "saveProgress" /\ pc = "save"
    BY <1>4 DEF Save, files
  <2>2. saved = <<>> => recorded = {}
    BY DEF ProgressInv
  <2>3. saved = <<>> \/ saved' = saved
    BY <2>1 DEF PlanInv
  <2> QED BY <2>1, <2>2, <2>3 DEF ProgressInv, TargetVerified
<1>5. CASE SaveProgress
  <2>1. /\ UNCHANGED <<target, saved, recorded, plan>>
        /\ at' = 1 /\ pc' = "loop"
    BY <1>5 DEF SaveProgress, manifest, files
  <2>2. \A i \in DOMAIN plan : ~(i < 1)
    BY PlanFits
  <2> QED BY <2>1, <2>2 DEF ProgressInv, TargetVerified
<1>6. CASE SkipVerified \/ List
  <2>1. /\ UNCHANGED <<target, saved, recorded, plan>>
        /\ at' = at + 1 /\ pc' = "loop" /\ pc \in {"loop", "list"}
    BY <1>6 DEF SkipVerified, List, AtRequest, manifest, files
  <2>2. at \in recorded /\ at \in Nat \ {0}
    BY <1>6 DEF SkipVerified, List, AtRequest, ProgressInv
  <2>3. ASSUME NEW i \in DOMAIN plan, i < at + 1 PROVE i \in recorded
    <3>1. i < at \/ i = at
      BY <2>2, <2>3, PlanFits
    <3> QED BY <2>1, <2>2, <3>1 DEF ProgressInv
  <2> QED BY <2>1, <2>2, <2>3 DEF ProgressInv, TargetVerified
<1>7. CASE AdoptVerified
  BY <1>7 DEF AdoptVerified, AtRequest, manifest, files, ProgressInv,
     TargetVerified
<1>8. CASE Promote \/ Place
  <2>1. /\ MovePartial /\ partial[at] = "good" /\ at \in DOMAIN plan
        /\ pc \in {"loop", "fetched"}
    BY <1>8 DEF Promote, Place, AtRequest, PartialVerified, Valid, ProgressInv
  <2> QED BY <2>1, MovedIntoPlace
<1>9. CASE BeginDownload
  BY <1>9 DEF BeginDownload, AtRequest, manifest, ProgressInv, TargetVerified
<1>10. CASE Fetch \/ Retry
  BY <1>10 DEF Fetch, Retry, manifest, files, ProgressInv, TargetVerified
<1>11. CASE GiveUp \/ Refuse \/ Crash
  BY <1>1, <1>11 DEF GiveUp, Refuse, Crash, manifest, files
<1>12. CASE Record
  <2>1. /\ recorded' = recorded \cup {at} /\ pc' = "list" /\ pc = "record"
        /\ UNCHANGED <<target, saved, plan, at>>
    BY <1>12 DEF Record, files
  <2>2. at \in DOMAIN saved /\ TargetVerified(at)
    BY <2>1 DEF PlanInv, ProgressInv
  <2> QED BY <2>1, <2>2 DEF ProgressInv, TargetVerified
<1>13. CASE Finish
  BY <1>13 DEF Finish, files, ProgressInv, TargetVerified
<1>14. CASE FinishProgress
  BY <1>14 DEF FinishProgress, manifest, files, ProgressInv, TargetVerified
<1>15. CASE UNCHANGED vars
  BY <1>15 DEF vars, manifest, files, ProgressInv, TargetVerified
<1> QED BY <1>2, <1>3, <1>4, <1>5, <1>6, <1>7, <1>8, <1>9, <1>10, <1>11, <1>12,
           <1>13, <1>14, <1>15 DEF Next

(* Before the first run nothing is recorded.                               *)
LEMMA InitProgress == Init => ProgressInv
BY DEF Init, ProgressInv, Content

(* A run that reports completion has every block of the plan in place,     *)
(* validated and recorded, whatever earlier runs had done and left.        *)
THEOREM ReplayFinishedIsVerified == Spec => []FinishedIsVerified
<1>1. PlanInv /\ ProgressInv => FinishedIsVerified
  <2> SUFFICES ASSUME PlanInv, ProgressInv, pc = "done"
               PROVE  /\ complete /\ plan = saved
                      /\ \A i \in DOMAIN plan : target[i] = "good" /\ i \in recorded
    BY DEF FinishedIsVerified
  <2>1. complete /\ plan = saved /\ at \notin DOMAIN plan /\ at \in Nat \ {0}
    BY DEF PlanInv, ProgressInv
  <2>2. ASSUME NEW i \in DOMAIN plan PROVE i \in recorded
    <3>1. i < at
      BY <2>1, PlanFits
    <3> QED BY <3>1 DEF ProgressInv
  <2> QED BY <2>1, <2>2 DEF ProgressInv, TargetVerified
<1> QED BY <1>1, InitProgress, PlanAlways, ProgressStep, PTL DEF Spec

-----------------------------------------------------------------------------
\* What a run may spend

\* A run requests what it has quoted, and what it has not quoted is on disk.
\* Requests are issued in order, each as often as it is attempted.
BillInv ==
    /\ DOMAIN quotes \subseteq DOMAIN plan /\ quotes \in [DOMAIN quotes -> Nat]
    /\ limit \in Nat /\ SumFunction(quotes) <= limit
    /\ issued \in [1..MaxBlocks -> 0..MaxAttempts]
    /\ Issued \subseteq DOMAIN quotes
    /\ pc \notin {"idle", "done"} =>
         \A i \in DOMAIN plan : i \in DOMAIN quotes \/ OnDisk(i)
    /\ pc \in {"save", "saveProgress"} => issued = Zero
    /\ pc = "loop" => \A i \in 1..MaxBlocks : i >= at => issued[i] = 0
    /\ pc \in {"fetch", "fetched", "record", "list"} =>
         \A i \in 1..MaxBlocks : i > at => issued[i] = 0
    /\ pc = "fetch" =>
         at \in DOMAIN quotes /\ issued[at] = attempt /\ attempt \in 1..MaxAttempts

(* What was issued costs no more than what was quoted.                     *)
LEMMA BillWithinLimit ==
    ASSUME PlanInv, BillInv PROVE RunWithinLimit
<1>1. DOMAIN quotes \subseteq 1..Len(plan) /\ Len(plan) \in Nat
  BY PlanFits DEF BillInv
<1>2. IsFiniteSet(DOMAIN quotes)
  <2>1. IsFiniteSet(1..Len(plan))
    BY <1>1, FS_Interval
  <2> QED BY <1>1, <2>1, FS_Subset
<1>3. Issued \subseteq DOMAIN quotes /\ \A i \in DOMAIN quotes : quotes[i] \in Nat
  BY DEF BillInv
<1>4. /\ SumOver(quotes, Issued) \in Int
      /\ SumOver(quotes, DOMAIN quotes) \in Int
      /\ SumOver(quotes, Issued) <= SumOver(quotes, DOMAIN quotes)
  BY <1>2, <1>3, SumOfPart
<1>5. SumFunction(quotes) = SumOver(quotes, DOMAIN quotes)
  BY SumIsSumOver DEF SumFunction
<1>6. SumFunctionOnSet(quotes, Issued) = SumOver(quotes, Issued)
  BY SumIsSumOver
<1>7. limit \in Nat /\ SumFunction(quotes) <= limit
  BY DEF BillInv
<1>8. SumFunctionOnSet(quotes, Issued) <= limit
  BY <1>4, <1>5, <1>6, <1>7
<1>9. \A i \in Issued : issued[i] <= MaxAttempts
  BY ReplayDownloadAssumption DEF BillInv, Issued
<1> QED BY <1>3, <1>8, <1>9 DEF RunWithinLimit

(* A run that begins has its quotes and has issued nothing.                *)
LEMMA BillBegins ==
    ASSUME quotes' \in [DOMAIN quotes' -> Nat], DOMAIN quotes' \subseteq DOMAIN plan',
           limit' \in Nat, SumFunction(quotes') <= limit',
           issued' = Zero, pc' = "save",
           \A i \in DOMAIN plan' : i \in DOMAIN quotes' \/ OnDisk(i)'
    PROVE  BillInv'
<1>1. \A i \in 1..MaxBlocks : issued'[i] = 0
  BY DEF Zero
<1>2. issued' \in [1..MaxBlocks -> 0..MaxAttempts]
  <2>1. 0 \in 0..MaxAttempts
    BY ReplayDownloadAssumption
  <2> QED BY <2>1 DEF Zero
<1>3. Issued' = {}
  BY <1>1 DEF Issued
<1>4. SumFunction(quotes)' = SumFunction(quotes')
  OBVIOUS
<1> QED BY <1>2, <1>3, <1>4 DEF BillInv

(* As long as the run goes on with the files it has, its bill stands.      *)
LEMMA BillStands ==
    ASSUME BillInv, UNCHANGED <<plan, bill, issued>>,
           pc \notin {"idle", "done"} \/ pc' \in {"idle", "done"},
           \A i \in DOMAIN plan : OnDisk(i) => OnDisk(i)',
           pc' = "fetch" => UNCHANGED <<pc, at, attempt>>,
           pc' = "save" => pc = "save",
           pc' = "saveProgress" => pc \in {"save", "saveProgress"},
           pc' = "loop" => \A i \in 1..MaxBlocks : i >= at' => issued[i] = 0,
           pc' \in {"fetched", "record", "list"} =>
             \A i \in 1..MaxBlocks : i > at' => issued[i] = 0
    PROVE  BillInv'
<1>1. UNCHANGED <<quotes, limit>>
  BY DEF bill
<1>2. SumFunction(quotes)' = SumFunction(quotes) /\ Issued' = Issued
  BY <1>1 DEF Issued
<1>3. /\ (DOMAIN quotes \subseteq DOMAIN plan)'
      /\ (quotes \in [DOMAIN quotes -> Nat])'
      /\ (limit \in Nat /\ SumFunction(quotes) <= limit)'
      /\ (issued \in [1..MaxBlocks -> 0..MaxAttempts])'
      /\ (Issued \subseteq DOMAIN quotes)'
  BY <1>1, <1>2 DEF BillInv
<1>4. pc' \notin {"idle", "done"} =>
        \A i \in DOMAIN plan' : i \in DOMAIN quotes' \/ OnDisk(i)'
  BY <1>1 DEF BillInv
<1>5. pc' \in {"save", "saveProgress"} => issued' = Zero
  BY DEF BillInv
<1>6. pc' = "fetch" =>
        /\ \A i \in 1..MaxBlocks : i > at' => issued'[i] = 0
        /\ at' \in DOMAIN quotes' /\ issued'[at'] = attempt'
        /\ attempt' \in 1..MaxAttempts
  BY <1>1 DEF BillInv
<1> QED BY <1>3, <1>4, <1>5, <1>6 DEF BillInv

(* The request at hand is issued once more.                                *)
LEMMA BillIssues ==
    ASSUME BillInv, NEW n \in 1..MaxAttempts,
           at \in 1..MaxBlocks, at \in DOMAIN quotes, issued[at] + 1 = n,
           issued' = [issued EXCEPT ![at] = @ + 1],
           attempt' = n, pc' = "fetch", UNCHANGED <<plan, bill, at>>,
           \A i \in DOMAIN plan : i \in DOMAIN quotes \/ OnDisk(i),
           \A i \in DOMAIN plan : OnDisk(i) => OnDisk(i)',
           \A i \in 1..MaxBlocks : i > at => issued[i] = 0
    PROVE  BillInv'
<1>1. UNCHANGED <<quotes, limit>>
  BY DEF bill
<1>2. SumFunction(quotes)' = SumFunction(quotes)
  BY <1>1
<1>3. issued \in [1..MaxBlocks -> 0..MaxAttempts] /\ MaxAttempts \in Nat
      /\ MaxBlocks \in Nat
  BY ReplayDownloadAssumption DEF BillInv, MaxBlocks
<1>4. issued'[at] = n /\ \A i \in 1..MaxBlocks : i # at => issued'[i] = issued[i]
  BY <1>3
<1>5. issued' \in [1..MaxBlocks -> 0..MaxAttempts]
  BY <1>3
<1>6. Issued' \subseteq DOMAIN quotes
  <2>1. Issued' \subseteq Issued \cup {at}
    BY <1>4 DEF Issued
  <2> QED BY <2>1 DEF BillInv
<1>7. \A i \in 1..MaxBlocks : i > at' => issued'[i] = 0
  BY <1>3, <1>4
<1>8. /\ (DOMAIN quotes \subseteq DOMAIN plan)'
      /\ (quotes \in [DOMAIN quotes -> Nat])'
      /\ (limit \in Nat /\ SumFunction(quotes) <= limit)'
  BY <1>1, <1>2 DEF BillInv
<1>9. \A i \in DOMAIN plan' : i \in DOMAIN quotes' \/ OnDisk(i)'
  BY <1>1
<1>10. at' \in DOMAIN quotes' /\ issued'[at'] = attempt' /\ attempt' \in 1..MaxAttempts
  BY <1>1, <1>4
<1> QED BY <1>1, <1>5, <1>6, <1>7, <1>8, <1>9, <1>10 DEF BillInv

(* A plan is held against the budget, and what is pending against the cap. *)
LEMMA BillStep ==
    PlanInv /\ BoughtInv /\ ProgressInv /\ BillInv /\ [Next]_vars => BillInv'
<1> SUFFICES ASSUME PlanInv, BoughtInv, ProgressInv, BillInv, [Next]_vars
             PROVE  BillInv'
  OBVIOUS
<1>1. ASSUME UNCHANGED <<files, plan, bill, issued>>, pc' \in {"idle", "done"}
      PROVE  BillInv'
  BY <1>1, BillStands DEF files, OnDisk
<1>2. CASE Choose
  <2>1. CASE RunEnds
    BY <1>1, <1>2, <2>1 DEF Choose, RunBegins, RunEnds
  <2>2. ASSUME NEW tariff \in Tariffs, NEW level \in MergeLevels,
               Fits(level, tariff), plan' = Candidate(level),
               quotes' = Quoted(Candidate(level), tariff),
               limit' = RemainingBudget, issued' = Zero, pc' = "save"
        PROVE  BillInv'
    <3>1. Candidate(level) \in Seq(Windows)
      BY CandidateGood DEF PlanInv, PlanGood
    <3>2. tariff \in [Windows -> Nat] /\ RemainingBudget \in Nat
      BY ReplayDownloadAssumption
    <3>3. PICK c : c = Candidate(level)
      OBVIOUS
    <3>4. c \in Seq(Windows) /\ quotes' = [i \in DOMAIN c |-> tariff[c[i]]]
      BY <2>2, <3>1, <3>3 DEF Quoted
    <3>5. DOMAIN quotes' = DOMAIN c /\ quotes' \in [DOMAIN quotes' -> Nat]
      BY <3>2, <3>4
    <3>6. SumFunction(quotes') <= limit'
      BY <2>2 DEF Fits
    <3> QED BY <2>2, <3>2, <3>3, <3>5, <3>6, BillBegins
  <2> QED BY <1>2, <2>1, <2>2 DEF Choose, Chosen
<1>3. CASE ResumePlan \/ QuoteFails
  <2>1. UNCHANGED files
    BY <1>3 DEF ResumePlan, QuoteFails, RunBegins
  <2>2. CASE RunEnds
    BY <1>1, <2>1, <2>2 DEF RunEnds
  <2>3. ASSUME NEW tariff \in Tariffs, saved # <<>>,
               SumFunction(PendingQuoted(saved, tariff)) <= HardCap,
               plan' = saved, quotes' = PendingQuoted(saved, tariff),
               limit' = HardCap, issued' = Zero, pc' = "save"
        PROVE  BillInv'
    <3>1. saved \in Seq(Windows)
      BY <2>3 DEF PlanInv, PlanGood
    <3>2. tariff \in [Windows -> Nat] /\ HardCap \in Nat
      BY ReplayDownloadAssumption
    <3>3. quotes' = [i \in Pending(saved) |-> tariff[saved[i]]]
      BY <2>3 DEF PendingQuoted
    <3>4. Pending(saved) \subseteq DOMAIN saved
      BY DEF Pending
    <3>5. \A i \in Pending(saved) : tariff[saved[i]] \in Nat
      BY <3>1, <3>2, <3>4
    <3>6. DOMAIN quotes' = Pending(saved) /\ quotes' \in [DOMAIN quotes' -> Nat]
      BY <3>3, <3>5
    <3>7. \A i \in DOMAIN saved : i \in Pending(saved) \/ OnDisk(i)'
      BY <2>1 DEF Pending, TargetVerified, PartialVerified, OnDisk, files
    <3>8. SumFunction(quotes') <= limit'
      BY <2>3
    <3> QED BY <2>3, <3>2, <3>4, <3>6, <3>7, <3>8, BillBegins
  <2> QED BY <1>3, <2>2, <2>3 DEF ResumePlan, QuoteFails
<1>4. CASE Save
  BY <1>4, BillStands DEF Save, files, OnDisk
<1>5. CASE SaveProgress
  <2>1. issued = Zero /\ UNCHANGED <<plan, bill, issued, files>>
        /\ pc = "saveProgress" /\ pc' = "loop"
    BY <1>5 DEF SaveProgress, BillInv
  <2>2. \A i \in 1..MaxBlocks : issued[i] = 0
    BY <2>1 DEF Zero
  <2> QED BY <2>1, <2>2, BillStands DEF files, OnDisk
<1>6. CASE SkipVerified \/ List
  <2>1. /\ UNCHANGED <<plan, bill, issued, files>> /\ at' = at + 1
        /\ pc \in {"loop", "list"} /\ pc' = "loop"
    BY <1>6 DEF SkipVerified, List, AtRequest
  <2>2. at \in Nat
    BY <2>1 DEF ProgressInv
  <2>3. \A i \in 1..MaxBlocks : i >= at + 1 => issued[i] = 0
    <3>1. \A i \in 1..MaxBlocks : i >= at + 1 => i >= at /\ i > at
      BY <2>2
    <3> QED BY <2>1, <3>1 DEF BillInv
  <2> QED BY <2>1, <2>3, BillStands DEF files, OnDisk
<1>7. CASE AdoptVerified
  <2>1. /\ UNCHANGED <<plan, bill, issued, files, at>>
        /\ pc = "loop" /\ pc' = "record"
    BY <1>7 DEF AdoptVerified, AtRequest
  <2>2. \A i \in 1..MaxBlocks : i > at => issued[i] = 0
    <3>1. \A i \in 1..MaxBlocks : i > at => i >= at
      BY <2>1 DEF ProgressInv
    <3> QED BY <2>1, <3>1 DEF BillInv
  <2> QED BY <2>1, <2>2, BillStands DEF files, OnDisk
<1>8. CASE Promote \/ Place
  <2>1. /\ UNCHANGED <<plan, bill, issued, at>> /\ partial[at] = "good"
        /\ target' = [target EXCEPT ![at] = partial[at]]
        /\ partial' = [partial EXCEPT ![at] = "none"]
        /\ pc \in {"loop", "fetched"} /\ pc' = "record"
    BY <1>8 DEF Promote, Place, MovePartial, AtRequest, PartialVerified, Valid
  <2>2. \A i \in 1..MaxBlocks : i > at => issued[i] = 0
    <3>1. \A i \in 1..MaxBlocks : i > at => i >= at
      BY <2>1 DEF ProgressInv
    <3> QED BY <2>1, <3>1 DEF BillInv
  <2>3. ASSUME NEW i \in DOMAIN plan, OnDisk(i) PROVE OnDisk(i)'
    <3>1. i \in 1..MaxBlocks
      BY PlanFits
    <3>2. CASE i = at
      BY <2>1, <3>1, <3>2 DEF BoughtInv, OnDisk
    <3>3. CASE i # at
      BY <2>1, <2>3, <3>1, <3>3 DEF BoughtInv, OnDisk
    <3> QED BY <3>2, <3>3
  <2> QED BY <2>1, <2>2, <2>3, BillStands
<1>9. CASE BeginDownload
  <2>1. /\ UNCHANGED <<plan, bill, at, target>> /\ at \in DOMAIN plan
        /\ pc = "loop" /\ pc' = "fetch" /\ attempt' = 1
        /\ partial' = [partial EXCEPT ![at] = "none"]
        /\ issued' = [issued EXCEPT ![at] = @ + 1]
        /\ target[at] # "good" /\ partial[at] # "good"
    BY <1>9 DEF BeginDownload, AtRequest, TargetVerified, PartialVerified
  <2>2. at \in 1..MaxBlocks /\ ~OnDisk(at)
    BY <2>1, PlanFits DEF OnDisk
  <2>3. at \in DOMAIN quotes
    BY <2>1, <2>2 DEF BillInv
  <2>4. \A i \in 1..MaxBlocks : i >= at => issued[i] = 0
    BY <2>1 DEF BillInv
  <2>5. at \in Nat /\ issued[at] = 0 /\ \A i \in 1..MaxBlocks : i > at => issued[i] = 0
    BY <2>2, <2>4
  <2>6. ASSUME NEW i \in DOMAIN plan, OnDisk(i) PROVE OnDisk(i)'
    <3>1. i # at /\ i \in 1..MaxBlocks
      BY <2>2, <2>6, PlanFits
    <3> QED BY <2>1, <2>6, <3>1 DEF BoughtInv, OnDisk
  <2>7. \A i \in DOMAIN plan : i \in DOMAIN quotes \/ OnDisk(i)
    BY <2>1 DEF BillInv
  <2>8. 1 \in 1..MaxAttempts /\ issued[at] + 1 = 1
    BY <2>5, ReplayDownloadAssumption
  <2> QED BY <2>1, <2>2, <2>3, <2>5, <2>6, <2>7, <2>8, BillIssues
<1>10. CASE Retry
  <2>1. /\ UNCHANGED <<plan, bill, at, files>> /\ pc = "fetch" /\ pc' = "fetch"
        /\ attempt' = attempt + 1 /\ attempt < MaxAttempts
        /\ issued' = [issued EXCEPT ![at] = @ + 1]
    BY <1>10 DEF Retry, MayRetry
  <2>2. /\ at \in DOMAIN quotes /\ issued[at] = attempt
        /\ attempt \in 1..MaxAttempts
        /\ \A i \in 1..MaxBlocks : i > at => issued[i] = 0
        /\ \A i \in DOMAIN plan : i \in DOMAIN quotes \/ OnDisk(i)
    BY <2>1 DEF BillInv
  <2>3. at \in 1..MaxBlocks
    BY <2>2, PlanFits DEF BillInv
  <2>4. \A i \in DOMAIN plan : OnDisk(i) => OnDisk(i)'
    BY <2>1 DEF files, OnDisk
  <2>5. attempt + 1 \in 1..MaxAttempts /\ issued[at] + 1 = attempt + 1
    BY <2>1, <2>2, ReplayDownloadAssumption
  <2> QED BY <2>1, <2>2, <2>3, <2>4, <2>5, BillIssues
<1>11. CASE Fetch \/ GiveUp \/ (Crash /\ pc = "fetch")
  <2>1. PICK content \in Content : partial' = [partial EXCEPT ![at] = content]
    BY <1>11 DEF Fetch, GiveUp, Crash
  <2>2. /\ UNCHANGED <<plan, bill, issued, at, target>> /\ pc = "fetch"
        /\ pc' \in {"fetched", "idle"}
    BY <1>11 DEF Fetch, GiveUp, Crash
  <2>3. \A i \in 1..MaxBlocks : i > at => issued[i] = 0
    BY <2>2 DEF BillInv
  <2>4. ASSUME NEW i \in DOMAIN plan, OnDisk(i) PROVE OnDisk(i)'
    <3>1. i \in 1..MaxBlocks /\ i # at
      BY <2>2, <2>4, PlanFits DEF BoughtInv
    <3> QED BY <2>1, <2>2, <2>4, <3>1 DEF BoughtInv, OnDisk
  <2> QED BY <2>2, <2>3, <2>4, BillStands
<1>12. CASE Refuse \/ (Crash /\ pc # "fetch")
  BY <1>1, <1>12 DEF Refuse, Crash, files
<1>13. CASE Record
  <2>1. /\ UNCHANGED <<plan, bill, issued, at, files>>
        /\ pc = "record" /\ pc' = "list"
    BY <1>13 DEF Record
  <2>2. \A i \in 1..MaxBlocks : i > at => issued[i] = 0
    BY <2>1 DEF BillInv
  <2> QED BY <2>1, <2>2, BillStands DEF files, OnDisk
<1>14. CASE Finish
  BY <1>14, BillStands DEF Finish, files, OnDisk
<1>15. CASE FinishProgress
  BY <1>1, <1>15 DEF FinishProgress
<1>16. CASE UNCHANGED vars
  <2>1. UNCHANGED <<plan, bill, issued, files, pc, at, attempt>>
    BY <1>16 DEF vars
  <2>2. /\ pc = "loop" => \A i \in 1..MaxBlocks : i >= at => issued[i] = 0
        /\ pc \in {"fetched", "record", "list"} =>
             \A i \in 1..MaxBlocks : i > at => issued[i] = 0
    BY DEF BillInv
  <2>3. \A i \in DOMAIN plan : OnDisk(i) => OnDisk(i)'
    BY <2>1 DEF files, OnDisk
  <2> QED BY <2>1, <2>2, <2>3, BillStands
<1> QED BY <1>2, <1>3, <1>4, <1>5, <1>6, <1>7, <1>8, <1>9, <1>10, <1>11, <1>12,
           <1>13, <1>14, <1>15, <1>16 DEF Next

(* Before the first run nothing is quoted.                                 *)
LEMMA BillInit == Init => BillInv
<1> SUFFICES ASSUME Init PROVE BillInv
  OBVIOUS
<1>1. /\ quotes = <<>> /\ plan = <<>> /\ limit = 0 /\ issued = Zero /\ pc = "idle"
  BY DEF Init
<1>2. DOMAIN quotes = {}
  BY <1>1
<1>3. SumFunction(quotes) = 0
  BY <1>2, SumIsSumOver, SumOfNone DEF SumFunction
<1>4. issued \in [1..MaxBlocks -> 0..MaxAttempts] /\ Issued = {}
  <2>1. 0 \in 0..MaxAttempts
    BY ReplayDownloadAssumption
  <2> QED BY <1>1, <2>1 DEF Zero, Issued
<1>5. quotes \in [DOMAIN quotes -> Nat]
  BY <1>1, <1>2
<1> QED BY <1>1, <1>2, <1>3, <1>4, <1>5 DEF BillInv

(* Whatever the provider asks from run to run, a run requests only what it *)
(* has quoted, within the limit it held the quotes against, and nothing    *)
(* more often than it may retry.                                           *)
THEOREM ReplayRunWithinLimit == Spec => []RunWithinLimit
<1>1. Init => BoughtInv /\ ProgressInv
  BY InitBought, InitProgress
<1> QED BY <1>1, BillInit, BillWithinLimit, PlanAlways, BoughtStep, ProgressStep,
           BillStep, PTL DEF Spec

-----------------------------------------------------------------------------
\* Types

\* The variables no other invariant speaks of.
RestTyped ==
    /\ listed \subseteq DOMAIN saved
    /\ complete \in BOOLEAN /\ allListed \in BOOLEAN
    /\ pc \in {"idle", "save", "saveProgress", "loop", "fetch", "fetched",
               "record", "list", "finish", "done"}
    /\ at \in 0..MaxBlocks + 1 /\ attempt \in 0..MaxAttempts /\ runs \in 0..MaxRuns
    /\ limit \in {0, RemainingBudget, HardCap}

(* Every step keeps the types.                                             *)
LEMMA RestStep ==
    PlanInv /\ ProgressInv /\ RestTyped /\ [Next]_vars => RestTyped'
<1> SUFFICES ASSUME PlanInv, ProgressInv, RestTyped, [Next]_vars
             PROVE  RestTyped'
  OBVIOUS
<1>1. MaxBlocks \in Nat /\ MaxAttempts \in Nat \ {0} /\ MaxRuns \in Nat
  BY ReplayDownloadAssumption DEF MaxBlocks
<1>2. CASE Choose \/ ResumePlan \/ QuoteFails
  <2>1. /\ runs' = runs + 1 /\ runs < MaxRuns /\ pc' \in {"idle", "save"}
        /\ limit' \in {limit, RemainingBudget, HardCap}
        /\ UNCHANGED <<listed, saved, complete, allListed, at, attempt>>
    BY <1>2 DEF Choose, ResumePlan, QuoteFails, RunBegins, RunEnds, bill,
       manifest, progress
  <2> QED BY <1>1, <2>1 DEF RestTyped
<1>3. CASE Save
  <2>1. saved = <<>> \/ saved' = saved
    BY <1>3 DEF Save, PlanInv
  <2>2. saved = <<>> => listed = {}
    BY DEF RestTyped
  <2> QED BY <1>3, <2>1, <2>2 DEF Save, progress, bill, RestTyped
<1>4. CASE SaveProgress
  BY <1>1, <1>4 DEF SaveProgress, manifest, progress, bill, RestTyped
<1>5. CASE SkipVerified \/ List
  <2>1. /\ at \in DOMAIN plan /\ plan = saved
        /\ at' = at + 1 /\ pc' = "loop" /\ listed' \in {listed, listed \cup {at}}
        /\ UNCHANGED <<saved, complete, allListed, attempt, runs, limit>>
    BY <1>5 DEF SkipVerified, List, AtRequest, manifest, progress, bill,
       PlanInv, ProgressInv
  <2>2. at \in 1..MaxBlocks
    BY <2>1, PlanFits
  <2> QED BY <1>1, <2>1, <2>2 DEF RestTyped
<1>6. CASE AdoptVerified \/ Promote \/ Place
  BY <1>6 DEF AdoptVerified, Promote, Place, MovePartial, manifest, progress, bill,
     RestTyped
<1>7. CASE BeginDownload
  BY <1>1, <1>7 DEF BeginDownload, manifest, progress, bill, RestTyped
<1>8. CASE Fetch \/ GiveUp \/ Refuse
  BY <1>8 DEF Fetch, GiveUp, Refuse, manifest, progress, bill, RestTyped
<1>9. CASE Retry
  <2>1. attempt + 1 \in 0..MaxAttempts
    BY <1>1, <1>9 DEF Retry, MayRetry, RestTyped
  <2> QED BY <1>9, <2>1 DEF Retry, manifest, progress, bill, RestTyped
<1>10. CASE Record
  BY <1>10 DEF Record, progress, bill, RestTyped
<1>11. CASE Finish \/ FinishProgress
  BY <1>11 DEF Finish, FinishProgress, manifest, progress, bill, RestTyped
<1>12. CASE Crash
  BY <1>12 DEF Crash, manifest, progress, bill, RestTyped
<1>13. CASE UNCHANGED vars
  BY <1>13 DEF vars, manifest, progress, bill, RestTyped
<1> QED BY <1>2, <1>3, <1>4, <1>5, <1>6, <1>7, <1>8, <1>9, <1>10, <1>11, <1>12,
           <1>13 DEF Next

(* The manifest, the progress file, the files and the run are what the     *)
(* program takes them for, whatever the session and its evidence.          *)
THEOREM ReplayTyped == Spec => []TypeOK
<1>1. Init => RestTyped
  <2>1. 0 \in 0..MaxBlocks + 1 /\ 0 \in 0..MaxAttempts /\ 0 \in 0..MaxRuns
    BY ReplayDownloadAssumption DEF MaxBlocks
  <2> QED BY <2>1 DEF Init, RestTyped
<1>2. PlanInv /\ BoughtInv /\ ProgressInv /\ BillInv /\ RestTyped => TypeOK
  <2> SUFFICES ASSUME PlanInv, BoughtInv, ProgressInv, BillInv, RestTyped
               PROVE  TypeOK
    OBVIOUS
  <2>1. saved \in Seq(Windows)
    <3>1. <<>> \in Seq(Windows)
      OBVIOUS
    <3> QED BY <3>1 DEF PlanInv, PlanGood
  <2>2. /\ DOMAIN quotes \subseteq 1..MaxBlocks /\ quotes \in [DOMAIN quotes -> Nat]
        /\ issued \in [1..MaxBlocks -> 0..MaxAttempts]
    BY PlanFits DEF BillInv
  <2>3. /\ target \in [1..MaxBlocks -> Content]
        /\ partial \in [1..MaxBlocks -> Content]
        /\ received \in [1..MaxBlocks -> Nat]
        /\ deleted \in [1..MaxBlocks -> Nat]
    BY DEF BoughtInv
  <2> QED BY <2>1, <2>2, <2>3, PlanFits
          DEF TypeOK, PlanInv, ProgressInv, RestTyped
<1> QED BY <1>1, <1>2, InitBought, InitProgress, BillInit, PlanAlways,
           BoughtStep, ProgressStep, BillStep, RestStep, PTL DEF Spec
=============================================================================
