------------------------------ MODULE FiniteLemmas ------------------------------
(***************************************************************************)
(* Facts the proofs about several modules rest on: least and greatest       *)
(* numbers, minimal finite sets, and sums over finite sets.                 *)
(*                                                                         *)
(* An induction is a minimal counterexample here: a set without a minimal   *)
(* element is empty, by the library's WFMin, which takes no operator.       *)
(***************************************************************************)
EXTENDS Integers, FiniteSets, FiniteSetsExt, FiniteSetTheorems, WellFoundedInduction, TLAPS

-----------------------------------------------------------------------------
(* Minimal elements *)

\* A set of naturals has a least element.
LEMMA LeastNat ==
  ASSUME NEW T, T \subseteq Nat, T # {}
  PROVE  \E n \in T : \A m \in T : n <= m
<1>1. PICK x \in T : \A y \in T : ~ (<<y, x>> \in OpToRel(<, Nat))
  BY NatLessThanWellFounded, WFMin, Zenon
<1>2. ASSUME NEW y \in T PROVE x <= y
  <2>1. <<y, x>> \notin OpToRel(<, Nat)
    BY <1>1
  <2>2. ~(y < x)
    BY <2>1 DEF OpToRel
  <2> QED
    BY <2>2
<1> QED
  BY <1>2

\* A bounded set of naturals has a greatest element.
LEMMA GreatestNat ==
  ASSUME NEW T, T \subseteq Nat, T # {}, NEW bound \in Nat, \A n \in T : n <= bound
  PROVE  \E n \in T : \A m \in T : m <= n
<1> DEFINE gaps == {bound - n : n \in T}
<1>1. gaps \subseteq Nat /\ gaps # {}
  <2>1. \A n \in T : bound - n \in Nat
    OBVIOUS
  <2> QED
    BY <2>1
<1>2. PICK g \in gaps : \A h \in gaps : g <= h
  BY <1>1, LeastNat, Zenon
<1>3. PICK n \in T : g = bound - n
  BY <1>2
<1>4. ASSUME NEW m \in T PROVE m <= n
  <2>1. g <= bound - m
    BY <1>2
  <2> QED
    BY <2>1, <1>3
<1> QED
  BY <1>4

\* A family of finite sets has a member none of whose proper subsets belongs to it.
LEMMA MinimalSet ==
  ASSUME NEW S, NEW F, F \subseteq FiniteSubsetsOf(S), F # {}
  PROVE  \E A \in F : \A B \in F : ~(B \subseteq A /\ B # A)
<1>1. PICK A \in F : \A B \in F : ~ (<<B, A>> \in StrictSubsetOrdering(S))
  BY FS_StrictSubsetOrderingWellFounded, WFMin, Zenon
<1> QED
  BY <1>1 DEF StrictSubsetOrdering, FiniteSubsetsOf

\* The same for the subsets of a finite set.
LEMMA MinimalSubset ==
  ASSUME NEW S, IsFiniteSet(S), NEW F, F \subseteq SUBSET S, F # {}
  PROVE  \E A \in F : \A B \in F : ~(B \subseteq A /\ B # A)
<1>1. F \subseteq FiniteSubsetsOf(S)
  BY FS_FiniteSubsetsOfFinite
<1> QED
  BY <1>1, MinimalSet

-----------------------------------------------------------------------------
(* Greatest elements *)

\* Max is the greatest element of a bounded set of naturals.
LEMMA MaxIs ==
  ASSUME NEW T, T \subseteq Nat, T # {}, NEW bound \in Nat, \A n \in T : n <= bound
  PROVE  /\ Max(T) \in T
         /\ \A n \in T : n <= Max(T)
<1>1. \E n \in T : \A m \in T : n >= m
  BY GreatestNat
<1> QED
  BY <1>1 DEF Max

\* The greater of two.
LEMMA MaxOfTwo ==
  ASSUME NEW a \in Nat, NEW b \in Nat
  PROVE  /\ Max({a, b}) \in Nat /\ Max({a, b}) >= a /\ Max({a, b}) >= b
         /\ Max({a, b}) = a \/ Max({a, b}) = b
<1>1. \E n \in Nat : n >= a /\ n >= b
  OBVIOUS
<1> QED
  BY <1>1, MaxIs

\* A finite set of integers has a greatest element.
LEMMA FiniteHasGreatest ==
  ASSUME NEW T, IsFiniteSet(T)
  PROVE  T \subseteq Int /\ T # {} => \E n \in T : \A m \in T : m <= n
<1> DEFINE Great(A) == \E n \in A : \A m \in A : m <= n
           Bad == {A \in SUBSET T : A # {} /\ ~Great(A)}
<1>1. Bad # {} => \E A \in Bad : \A B \in Bad : ~(B \subseteq A /\ B # A)
  <2>1. Bad \subseteq SUBSET T
    OBVIOUS
  <2> HIDE DEF Bad
  <2> QED
    BY <2>1, MinimalSubset
<1> SUFFICES ASSUME T \subseteq Int, T # {}, ~Great(T) PROVE FALSE
  OBVIOUS
<1>2. Bad # {}
  <2>1. T \in SUBSET T
    OBVIOUS
  <2> QED
    BY <2>1
<1>3. PICK A \in Bad : \A B \in Bad : ~(B \subseteq A /\ B # A)
  BY <1>1, <1>2
<1>4. A \in SUBSET T /\ A # {} /\ ~Great(A)
  BY <1>3
<1>5. PICK x \in A : TRUE
  BY <1>4
<1> DEFINE B == A \ {x}
<1>6. x \in Int /\ A \subseteq Int
  BY <1>4, <1>5
<1>7. B # {}
  BY <1>4, <1>5, <1>6
<1>8. B \notin Bad /\ B \in SUBSET T
  BY <1>3, <1>4, <1>5
<1>9. PICK y \in B : \A m \in B : m <= y
  BY <1>7, <1>8
<1>10. y \in Int /\ y \in A
  BY <1>6, <1>9
<1>11. ~(x <= y)
  BY <1>4, <1>9, <1>10
<1>12. \A m \in A : m <= x
  BY <1>6, <1>9, <1>10, <1>11
<1> QED
  BY <1>4, <1>5, <1>12

\* Max is it.
LEMMA MaxFinite ==
  ASSUME NEW T, IsFiniteSet(T), T \subseteq Int, T # {}
  PROVE  Max(T) \in T /\ \A n \in T : n <= Max(T)
<1>1. PICK n \in T : \A m \in T : m <= n
  BY FiniteHasGreatest
<1>2. \A m \in T : n >= m
  BY <1>1
<1> QED
  BY <1>1, <1>2 DEF Max

\* The indices of a sequence.
LEMMA IndicesAre == \A d \in Nat : IsFiniteSet(1 .. d) /\ Cardinality(1 .. d) = d
BY FS_Interval

-----------------------------------------------------------------------------
(* Sums *)

SumOver(f, S) == MapThenSumSet(LAMBDA x : f[x], S)

AnyOf(s) == CHOOSE x \in s : TRUE

\* The recursive function behind the sum.
IsSum(g, f, S) ==
  g = [s \in SUBSET S |-> IF s = {} THEN 0 ELSE f[AnyOf(s)] + g[s \ {AnyOf(s)}]]
SumFcn(f, S) == CHOOSE g : IsSum(g, f, S)

\* The sum is that function's value for the whole set.
LEMMA SumOverIsSum == \A f, S : SumOver(f, S) = SumFcn(f, S)[S]
BY DEF SumOver, MapThenSumSet, MapThenFoldSet, SumFcn, IsSum, AnyOf

\* The element it takes next is one of the set's.
LEMMA AnyOfIn == \A s : s # {} => AnyOf(s) \in s
BY DEF AnyOf

\* Two such functions agree where both are defined.
LEMMA SumUnique ==
  ASSUME NEW f, NEW S, IsFiniteSet(S), NEW T \in SUBSET S,
         NEW g, IsSum(g, f, S), NEW h, IsSum(h, f, T)
  PROVE  \A s \in SUBSET T : g[s] = h[s]
<1> DEFINE Bad == {s \in SUBSET T : g[s] # h[s]}
<1> SUFFICES ASSUME Bad # {} PROVE FALSE
  OBVIOUS
<1>1. Bad \subseteq SUBSET S
  OBVIOUS
<1>2. PICK A \in Bad : \A B \in Bad : ~(B \subseteq A /\ B # A)
  <2> HIDE DEF Bad
  <2> QED
    BY <1>1, MinimalSubset
<1>3. A \in SUBSET T /\ A \in SUBSET S /\ g[A] # h[A]
  BY <1>2
<1>4. A # {}
  BY <1>3 DEF IsSum
<1> DEFINE B == A \ {AnyOf(A)}
<1>5. B \subseteq A /\ B # A /\ B \in SUBSET T
  BY <1>3, <1>4, AnyOfIn
<1>6. g[B] = h[B]
  BY <1>2, <1>5
<1>7. g[A] = f[AnyOf(A)] + g[B] /\ h[A] = f[AnyOf(A)] + h[B]
  BY <1>3, <1>4 DEF IsSum
<1> QED
  BY <1>3, <1>6, <1>7

\* There is one for every finite set.
LEMMA SumExists ==
  ASSUME NEW f, NEW S, IsFiniteSet(S)
  PROVE  IsSum(SumFcn(f, S), f, S)
<1> DEFINE Bad == {T \in SUBSET S : ~ IsSum(SumFcn(f, T), f, T)}
<1> SUFFICES ASSUME Bad # {} PROVE FALSE
  OBVIOUS
<1>1. Bad \subseteq SUBSET S
  OBVIOUS
<1>2. PICK A \in Bad : \A B \in Bad : ~(B \subseteq A /\ B # A)
  <2> HIDE DEF Bad
  <2> QED
    BY <1>1, MinimalSubset
<1> DEFINE G(T) == SumFcn(f, T)
           g == [s \in SUBSET A |->
                    IF s = {} THEN 0 ELSE f[AnyOf(s)] + G(s \ {AnyOf(s)})[s \ {AnyOf(s)}]]
<1>3. A \in SUBSET S /\ ~IsSum(G(A), f, A)
  BY <1>2
<1>4. ASSUME NEW T \in SUBSET A, T # A PROVE IsSum(G(T), f, T)
  BY <1>2, <1>3, <1>4
<1>5. ASSUME NEW T \in SUBSET A, T # A PROVE g[T] = G(T)[T]
  <2>1. CASE T = {}
    BY <2>1, <1>4, <1>5 DEF IsSum
  <2>2. CASE T # {}
    <3> DEFINE B == T \ {AnyOf(T)}
    <3>1. B \subseteq T /\ B # T /\ B \in SUBSET A /\ B # A
      BY <2>2, <1>5, AnyOfIn
    <3>2. IsSum(G(T), f, T) /\ IsSum(G(B), f, B)
      BY <3>1, <1>4, <1>5
    <3>3. IsFiniteSet(T)
      BY <1>3, <1>5, FS_Subset
    <3>4. G(T)[B] = G(B)[B]
      BY <3>1, <3>2, <3>3, SumUnique
    <3>5. G(T)[T] = f[AnyOf(T)] + G(T)[B]
      BY <3>2, <2>2 DEF IsSum
    <3> QED
      BY <3>4, <3>5, <2>2
  <2> QED
    BY <2>1, <2>2
<1>6. ASSUME NEW s \in SUBSET A, s # {}
      PROVE  s \ {AnyOf(s)} \in SUBSET A /\ s \ {AnyOf(s)} # A
  BY <1>6, AnyOfIn
<1>7. ASSUME NEW s \in SUBSET A
      PROVE  g[s] = IF s = {} THEN 0 ELSE f[AnyOf(s)] + g[s \ {AnyOf(s)}]
  BY <1>5, <1>6
<1>8. g = [s \in SUBSET A |-> g[s]]
  OBVIOUS
<1>9. IsSum(g, f, A)
  <2> HIDE DEF g
  <2> QED
    BY <1>7, <1>8 DEF IsSum
<1>10. IsSum(G(A), f, A)
  <2> HIDE DEF g
  <2> QED
    BY <1>9 DEF SumFcn
<1> QED
  BY <1>3, <1>10

\* Nothing sums up to 0.
LEMMA SumOverEmpty == \A f : SumOver(f, {}) = 0
<1> SUFFICES ASSUME NEW f PROVE SumOver(f, {}) = 0
  OBVIOUS
<1>1. IsSum(SumFcn(f, {}), f, {})
  BY SumExists, FS_EmptySet
<1> QED
  BY <1>1, SumOverIsSum DEF IsSum

\* One element is taken out, of the recursion's choice.
LEMMA SumOverAny ==
  ASSUME NEW f, NEW S, IsFiniteSet(S), S # {}
  PROVE  SumOver(f, S) = f[AnyOf(S)] + SumOver(f, S \ {AnyOf(S)})
<1> DEFINE T == S \ {AnyOf(S)}
<1>1. IsFiniteSet(T) /\ T \in SUBSET S
  BY FS_Subset
<1>2. IsSum(SumFcn(f, S), f, S) /\ IsSum(SumFcn(f, T), f, T)
  BY <1>1, SumExists
<1>3. SumFcn(f, S)[T] = SumFcn(f, T)[T]
  <2> HIDE DEF T
  <2> QED
    BY <1>1, <1>2, SumUnique
<1>4. SumFcn(f, S)[S] = f[AnyOf(S)] + SumFcn(f, S)[T]
  BY <1>2 DEF IsSum
<1> QED
  BY <1>3, <1>4, SumOverIsSum

\* A sum of integers is one.
LEMMA SumOverInt ==
  ASSUME NEW f, NEW S, IsFiniteSet(S), \A x \in S : f[x] \in Int
  PROVE  SumOver(f, S) \in Int
<1> DEFINE Bad == {T \in SUBSET S : SumOver(f, T) \notin Int}
<1> SUFFICES ASSUME Bad # {} PROVE FALSE
  OBVIOUS
<1>1. PICK A \in Bad : \A B \in Bad : ~(B \subseteq A /\ B # A)
  <2>1. Bad \subseteq SUBSET S
    OBVIOUS
  <2> HIDE DEF Bad
  <2> QED
    BY <2>1, MinimalSubset
<1>2. A \in SUBSET S /\ SumOver(f, A) \notin Int /\ IsFiniteSet(A)
  BY <1>1, FS_Subset
<1>3. A # {}
  BY <1>2, SumOverEmpty
<1>4. SumOver(f, A \ {AnyOf(A)}) \in Int
  BY <1>1, <1>2, <1>3, AnyOfIn
<1> QED
  BY <1>2, <1>3, <1>4, SumOverAny, AnyOfIn

\* Which element is taken out makes no difference.
LEMMA SumOverRemove ==
  ASSUME NEW f, NEW S, IsFiniteSet(S), \A x \in S : f[x] \in Int, NEW e \in S
  PROVE  SumOver(f, S) = f[e] + SumOver(f, S \ {e})
<1> DEFINE Bad == {T \in SUBSET S : \E x \in T : SumOver(f, T) # f[x] + SumOver(f, T \ {x})}
<1> SUFFICES ASSUME Bad # {} PROVE FALSE
  OBVIOUS
<1>1. PICK A \in Bad : \A B \in Bad : ~(B \subseteq A /\ B # A)
  <2>1. Bad \subseteq SUBSET S
    OBVIOUS
  <2> HIDE DEF Bad
  <2> QED
    BY <2>1, MinimalSubset
<1>2. A \in SUBSET S /\ IsFiniteSet(A)
  BY <1>1, FS_Subset
<1>3. PICK x \in A : SumOver(f, A) # f[x] + SumOver(f, A \ {x})
  BY <1>1
<1> DEFINE a == AnyOf(A)
           B == A \ {a}
           C == A \ {x}
           D == B \ {x}
<1>4. a \in A /\ SumOver(f, A) = f[a] + SumOver(f, B)
  BY <1>2, <1>3, SumOverAny, AnyOfIn
<1>5. a # x
  BY <1>3, <1>4
<1>6. B \in SUBSET S /\ B \notin Bad /\ C \in SUBSET S /\ C \notin Bad
  BY <1>1, <1>2, <1>3, <1>4
<1>7. SumOver(f, B) = f[x] + SumOver(f, D)
  BY <1>3, <1>5, <1>6
<1>8. SumOver(f, C) = f[a] + SumOver(f, D)
  <2>1. C \ {a} = D
    OBVIOUS
  <2> QED
    BY <2>1, <1>4, <1>5, <1>6
<1>9. SumOver(f, D) \in Int /\ f[x] \in Int /\ f[a] \in Int
  <2>1. IsFiniteSet(D)
    BY <1>2, FS_Subset
  <2> QED
    BY <2>1, <1>2, <1>4, SumOverInt
<1> QED
  BY <1>3, <1>4, <1>7, <1>8, <1>9

\* One more element.
LEMMA SumOverAdd ==
  ASSUME NEW f, NEW S, IsFiniteSet(S), \A x \in S : f[x] \in Int,
         NEW e, e \notin S, f[e] \in Int
  PROVE  SumOver(f, S \cup {e}) = f[e] + SumOver(f, S)
<1>1. IsFiniteSet(S \cup {e}) /\ (S \cup {e}) \ {e} = S
  BY FS_AddElement
<1> QED
  BY <1>1, SumOverRemove

\* The sum grows with its terms.
LEMMA SumOverMonotonic ==
  ASSUME NEW f, NEW g, NEW S, IsFiniteSet(S),
         \A x \in S : f[x] \in Int /\ g[x] \in Int /\ f[x] <= g[x]
  PROVE  SumOver(f, S) <= SumOver(g, S)
<1> DEFINE Bad == {T \in SUBSET S : ~(SumOver(f, T) <= SumOver(g, T))}
<1> SUFFICES ASSUME Bad # {} PROVE FALSE
  OBVIOUS
<1>1. PICK A \in Bad : \A B \in Bad : ~(B \subseteq A /\ B # A)
  <2>1. Bad \subseteq SUBSET S
    OBVIOUS
  <2> HIDE DEF Bad
  <2> QED
    BY <2>1, MinimalSubset
<1>2. A \in SUBSET S /\ ~(SumOver(f, A) <= SumOver(g, A)) /\ IsFiniteSet(A)
  BY <1>1, FS_Subset
<1>3. A # {}
  BY <1>2, SumOverEmpty
<1> DEFINE B == A \ {AnyOf(A)}
<1>4. B \in SUBSET S /\ IsFiniteSet(B) /\ AnyOf(A) \in A
  BY <1>2, <1>3, AnyOfIn, FS_Subset
<1>5. SumOver(f, B) <= SumOver(g, B)
  BY <1>1, <1>2, <1>4
<1>6. SumOver(f, B) \in Int /\ SumOver(g, B) \in Int
  BY <1>4, SumOverInt
<1> QED
  BY <1>2, <1>3, <1>4, <1>5, <1>6, SumOverAny

\* Only the terms matter.
LEMMA SumOverAgrees ==
  ASSUME NEW f, NEW g, NEW S, IsFiniteSet(S), \A x \in S : f[x] \in Int /\ f[x] = g[x]
  PROVE  SumOver(f, S) = SumOver(g, S)
<1>1. SumOver(f, S) <= SumOver(g, S) /\ SumOver(g, S) <= SumOver(f, S)
  BY SumOverMonotonic
<1>2. SumOver(f, S) \in Int /\ SumOver(g, S) \in Int
  BY SumOverInt
<1> QED
  BY <1>1, <1>2

\* A sum of naturals is one.
LEMMA SumOverNat ==
  ASSUME NEW f, NEW S, IsFiniteSet(S), \A x \in S : f[x] \in Nat
  PROVE  SumOver(f, S) \in Nat
<1> DEFINE Bad == {T \in SUBSET S : SumOver(f, T) \notin Nat}
<1> SUFFICES ASSUME Bad # {} PROVE FALSE
  OBVIOUS
<1>1. PICK A \in Bad : \A B \in Bad : ~(B \subseteq A /\ B # A)
  <2>1. Bad \subseteq SUBSET S
    OBVIOUS
  <2> HIDE DEF Bad
  <2> QED
    BY <2>1, MinimalSubset
<1>2. A \in SUBSET S /\ SumOver(f, A) \notin Nat /\ IsFiniteSet(A)
  BY <1>1, FS_Subset
<1>3. A # {}
  BY <1>2, SumOverEmpty
<1>4. SumOver(f, A \ {AnyOf(A)}) \in Nat
  BY <1>1, <1>2, <1>3, AnyOfIn
<1> QED
  BY <1>2, <1>3, <1>4, SumOverAny, AnyOfIn

\* One term grows.
LEMMA SumOverUpdate ==
  ASSUME NEW f, NEW g, NEW S, IsFiniteSet(S), NEW e \in S, NEW d \in Int,
         \A x \in S : f[x] \in Int,
         g[e] = f[e] + d, \A x \in S \ {e} : g[x] = f[x]
  PROVE  SumOver(g, S) = SumOver(f, S) + d
<1> DEFINE T == S \ {e}
<1>1. IsFiniteSet(T)
  BY FS_Subset
<1>2. SumOver(g, T) = SumOver(f, T)
  <2>1. \A x \in T : f[x] \in Int /\ f[x] = g[x]
    OBVIOUS
  <2> QED
    BY <1>1, <2>1, SumOverAgrees
<1>3. f[e] \in Int /\ \A x \in S : g[x] \in Int
  OBVIOUS
<1>4. SumOver(f, S) = f[e] + SumOver(f, T) /\ SumOver(g, S) = g[e] + SumOver(g, T)
  BY <1>3, SumOverRemove
<1>5. SumOver(f, T) \in Int
  BY <1>1, SumOverInt
<1> QED
  BY <1>2, <1>3, <1>4, <1>5

\* A sum of sums.
LEMMA SumOverPlus ==
  ASSUME NEW f, NEW g, NEW h, NEW S, IsFiniteSet(S),
         \A x \in S : f[x] \in Int /\ g[x] \in Int /\ h[x] = f[x] + g[x]
  PROVE  SumOver(h, S) = SumOver(f, S) + SumOver(g, S)
<1> DEFINE Bad == {T \in SUBSET S : SumOver(h, T) # SumOver(f, T) + SumOver(g, T)}
<1> SUFFICES ASSUME Bad # {} PROVE FALSE
  OBVIOUS
<1>1. PICK A \in Bad : \A B \in Bad : ~(B \subseteq A /\ B # A)
  <2>1. Bad \subseteq SUBSET S
    OBVIOUS
  <2> HIDE DEF Bad
  <2> QED
    BY <2>1, MinimalSubset
<1>2. A \in SUBSET S /\ SumOver(h, A) # SumOver(f, A) + SumOver(g, A) /\ IsFiniteSet(A)
  BY <1>1, FS_Subset
<1>3. A # {}
  <2> SUFFICES ASSUME A = {} PROVE FALSE
    OBVIOUS
  <2>1. SumOver(h, A) = 0 /\ SumOver(f, A) = 0 /\ SumOver(g, A) = 0
    BY SumOverEmpty
  <2> QED
    BY <1>2, <2>1
<1> DEFINE e == AnyOf(A)
           B == A \ {e}
<1>4. B \in SUBSET S /\ IsFiniteSet(B) /\ e \in A
  BY <1>2, <1>3, AnyOfIn, FS_Subset
<1>5. SumOver(h, B) = SumOver(f, B) + SumOver(g, B)
  BY <1>1, <1>2, <1>4
<1>6. /\ SumOver(h, A) = h[e] + SumOver(h, B)
      /\ SumOver(f, A) = f[e] + SumOver(f, B) /\ SumOver(g, A) = g[e] + SumOver(g, B)
  BY <1>2, <1>3, SumOverAny
<1>7. SumOver(f, B) \in Int /\ SumOver(g, B) \in Int
  BY <1>4, SumOverInt
<1> QED
  BY <1>2, <1>4, <1>5, <1>6, <1>7

\* A sum of multiples.
LEMMA SumOverTimes ==
  ASSUME NEW f, NEW h, NEW S, IsFiniteSet(S), NEW c \in Int,
         \A x \in S : f[x] \in Int /\ h[x] = c * f[x]
  PROVE  SumOver(h, S) = c * SumOver(f, S)
<1> DEFINE Bad == {T \in SUBSET S : SumOver(h, T) # c * SumOver(f, T)}
<1> SUFFICES ASSUME Bad # {} PROVE FALSE
  OBVIOUS
<1>1. PICK A \in Bad : \A B \in Bad : ~(B \subseteq A /\ B # A)
  <2>1. Bad \subseteq SUBSET S
    OBVIOUS
  <2> HIDE DEF Bad
  <2> QED
    BY <2>1, MinimalSubset
<1>2. A \in SUBSET S /\ SumOver(h, A) # c * SumOver(f, A) /\ IsFiniteSet(A)
  BY <1>1, FS_Subset
<1>3. A # {}
  <2> SUFFICES ASSUME A = {} PROVE FALSE
    OBVIOUS
  <2>1. SumOver(h, A) = 0 /\ SumOver(f, A) = 0 /\ c * 0 = 0
    BY SumOverEmpty
  <2> QED
    BY <1>2, <2>1
<1> DEFINE e == AnyOf(A)
           B == A \ {e}
<1>4. B \in SUBSET S /\ IsFiniteSet(B) /\ e \in A
  BY <1>2, <1>3, AnyOfIn, FS_Subset
<1>5. SumOver(h, B) = c * SumOver(f, B)
  BY <1>1, <1>2, <1>4
<1>6. PICK x \in Int, y \in Int : x = SumOver(f, B) /\ y = f[e] /\ h[e] = c * y
  BY <1>2, <1>4, SumOverInt
<1>7. SumOver(h, A) = h[e] + SumOver(h, B) /\ SumOver(f, A) = y + x
  BY <1>2, <1>3, <1>6, SumOverAny
<1>8. c * (y + x) = c * y + c * x
  OBVIOUS
<1> QED
  BY <1>2, <1>5, <1>6, <1>7, <1>8

\* The same term for every element.
LEMMA SumOverConst ==
  ASSUME NEW f, NEW S, IsFiniteSet(S), NEW c \in Int, \A x \in S : f[x] = c
  PROVE  SumOver(f, S) = c * Cardinality(S)
<1> DEFINE Bad == {T \in SUBSET S : SumOver(f, T) # c * Cardinality(T)}
<1> SUFFICES ASSUME Bad # {} PROVE FALSE
  OBVIOUS
<1>1. PICK A \in Bad : \A B \in Bad : ~(B \subseteq A /\ B # A)
  <2>1. Bad \subseteq SUBSET S
    OBVIOUS
  <2> HIDE DEF Bad
  <2> QED
    BY <2>1, MinimalSubset
<1>2. A \in SUBSET S /\ SumOver(f, A) # c * Cardinality(A) /\ IsFiniteSet(A)
  BY <1>1, FS_Subset
<1>3. A # {}
  <2> SUFFICES ASSUME A = {} PROVE FALSE
    OBVIOUS
  <2>1. SumOver(f, A) = 0 /\ Cardinality(A) = 0 /\ c * 0 = 0
    BY SumOverEmpty, FS_EmptySet
  <2> QED
    BY <1>2, <2>1
<1> DEFINE e == AnyOf(A)
           B == A \ {e}
<1>4. B \in SUBSET S /\ IsFiniteSet(B) /\ e \in A
  BY <1>2, <1>3, AnyOfIn, FS_Subset
<1>5. SumOver(f, B) = c * Cardinality(B)
  BY <1>1, <1>2, <1>4
<1>6. PICK n \in Nat : n = Cardinality(B) /\ Cardinality(A) = n + 1
  <2>1. Cardinality(B) \in Nat /\ Cardinality(A) \in Nat
    BY <1>2, <1>4, FS_CardinalityType
  <2>2. Cardinality(B) = Cardinality(A) - 1
    BY <1>2, <1>4, FS_RemoveElement
  <2> QED
    BY <2>1, <2>2
<1>7. SumOver(f, A) = c + SumOver(f, B)
  BY <1>2, <1>3, <1>4, SumOverAny
<1>8. c * (n + 1) = c + c * n
  OBVIOUS
<1> QED
  BY <1>2, <1>5, <1>6, <1>7, <1>8

\* Two parts are summed apart.
LEMMA SumOverUnion ==
  ASSUME NEW f, NEW S, NEW T, IsFiniteSet(S), IsFiniteSet(T), S \cap T = {},
         \A x \in S \cup T : f[x] \in Int
  PROVE  SumOver(f, S \cup T) = SumOver(f, S) + SumOver(f, T)
<1> DEFINE Bad == {P \in SUBSET S : SumOver(f, P \cup T) # SumOver(f, P) + SumOver(f, T)}
<1> SUFFICES ASSUME Bad # {} PROVE FALSE
  OBVIOUS
<1>1. PICK A \in Bad : \A B \in Bad : ~(B \subseteq A /\ B # A)
  <2>1. Bad \subseteq SUBSET S
    OBVIOUS
  <2> HIDE DEF Bad
  <2> QED
    BY <2>1, MinimalSubset
<1>2. A \in SUBSET S /\ SumOver(f, A \cup T) # SumOver(f, A) + SumOver(f, T) /\ IsFiniteSet(A)
  BY <1>1, FS_Subset
<1>3. SumOver(f, T) \in Int
  BY SumOverInt
<1>4. A # {}
  <2> SUFFICES ASSUME A = {} PROVE FALSE
    OBVIOUS
  <2>1. A \cup T = T /\ SumOver(f, A) = 0
    BY SumOverEmpty
  <2> QED
    BY <1>2, <1>3, <2>1
<1> DEFINE e == AnyOf(A)
           B == A \ {e}
<1>5. B \in SUBSET S /\ IsFiniteSet(B) /\ e \in A /\ IsFiniteSet(A \cup T)
  BY <1>2, <1>4, AnyOfIn, FS_Subset, FS_Union
<1>6. SumOver(f, B \cup T) = SumOver(f, B) + SumOver(f, T)
  BY <1>1, <1>2, <1>5
<1>7. (A \cup T) \ {e} = B \cup T
  BY <1>2, <1>5
<1>8. SumOver(f, A \cup T) = f[e] + SumOver(f, B \cup T)
  BY <1>2, <1>5, <1>7, SumOverRemove
<1>9. SumOver(f, A) = f[e] + SumOver(f, B)
  BY <1>2, <1>5, SumOverRemove
<1>10. SumOver(f, B) \in Int /\ f[e] \in Int
  BY <1>2, <1>5, SumOverInt
<1> QED
  BY <1>2, <1>3, <1>6, <1>8, <1>9, <1>10

\* The same terms under other names.
LEMMA SumOverRenamed ==
  ASSUME NEW f, NEW g, NEW S, NEW p, IsFiniteSet(S),
         \A x, y \in S : p[x] = p[y] => x = y,
         \A x \in S : f[x] \in Int /\ g[p[x]] = f[x]
  PROVE  SumOver(g, {p[x] : x \in S}) = SumOver(f, S)
<1> DEFINE Image(P) == {p[x] : x \in P}
           Bad == {P \in SUBSET S : ~(IsFiniteSet(Image(P)) /\ SumOver(g, Image(P)) = SumOver(f, P))}
<1> SUFFICES ASSUME Bad # {} PROVE FALSE
  OBVIOUS
<1>1. PICK A \in Bad : \A B \in Bad : ~(B \subseteq A /\ B # A)
  <2>1. Bad \subseteq SUBSET S
    OBVIOUS
  <2> HIDE DEF Bad
  <2> QED
    BY <2>1, MinimalSubset
<1>2. /\ A \in SUBSET S /\ IsFiniteSet(A)
      /\ ~(IsFiniteSet(Image(A)) /\ SumOver(g, Image(A)) = SumOver(f, A))
  BY <1>1, FS_Subset
<1>3. A # {}
  <2> SUFFICES ASSUME A = {} PROVE FALSE
    OBVIOUS
  <2>1. Image(A) = {}
    OBVIOUS
  <2> QED
    BY <1>2, <2>1, SumOverEmpty, FS_EmptySet
<1> DEFINE e == AnyOf(A)
           B == A \ {e}
<1>4. B \in SUBSET S /\ IsFiniteSet(B) /\ e \in A /\ e \in S
  BY <1>2, <1>3, AnyOfIn, FS_Subset
<1>5. IsFiniteSet(Image(B)) /\ SumOver(g, Image(B)) = SumOver(f, B)
  BY <1>1, <1>2, <1>4
<1> DEFINE R == Image(B)
           z == p[e]
<1>6. z \notin R /\ Image(A) = R \cup {z}
  BY <1>2, <1>4
<1>7. IsFiniteSet(Image(A))
  <2> HIDE DEF Image, z, R
  <2>1. IsFiniteSet(R)
    BY <1>5 DEF R
  <2> QED
    BY <2>1, <1>6, FS_AddElement
<1>8. \A y \in R : g[y] \in Int
  BY <1>4
<1>9. g[p[e]] = f[e] /\ f[e] \in Int
  BY <1>4
<1>10. SumOver(g, Image(A)) = f[e] + SumOver(f, B)
  <2>1. g[z] = f[e] /\ g[z] \in Int
    BY <1>9
  <2>2. IsFiniteSet(R) /\ SumOver(g, R) = SumOver(f, B)
    BY <1>5
  <2> HIDE DEF Image, z, R
  <2> QED
    BY <2>1, <2>2, <1>6, <1>8, SumOverAdd
<1>11. SumOver(f, A) = f[e] + SumOver(f, B)
  BY <1>2, <1>4, SumOverRemove
<1> QED
  BY <1>2, <1>7, <1>10, <1>11

-----------------------------------------------------------------------------
(* Recursion over 0 .. n *)

\* Every value comes from the one before it.
IsIteration(h, n, a, G) == h[0] = a /\ \A i \in 1 .. n : h[i] = G[<<i, h[i - 1]>>]

\* A step function on V, iterated from a value of V, has a history in V.
LEMMA Iterates ==
  \A n, V, a, G : n \in Nat /\ a \in V /\ G \in [(1 .. n) \X V -> V]
                    => \E h \in [0 .. n -> V] : IsIteration(h, n, a, G)
<1> SUFFICES ASSUME NEW n, NEW V, NEW a, NEW G,
                    n \in Nat, a \in V, G \in [(1 .. n) \X V -> V]
             PROVE  \E h \in [0 .. n -> V] : IsIteration(h, n, a, G)
  BY Zenon
<1> USE DEF IsIteration
<1> DEFINE Good(m) == \E h \in [0 .. m -> V] :
                         h[0] = a /\ \A i \in 1 .. m : h[i] = G[<<i, h[i - 1]>>]
           Bad == {m \in 0 .. n : ~Good(m)}
<1> SUFFICES ASSUME Bad # {} PROVE FALSE
  <2>1. ASSUME Good(n) PROVE \E h \in [0 .. n -> V] :
                         h[0] = a /\ \A i \in 1 .. n : h[i] = G[<<i, h[i - 1]>>]
    BY <2>1
  <2>2. n \in 0 .. n
    OBVIOUS
  <2> HIDE DEF Good
  <2> QED
    BY <2>1, <2>2
<1>1. PICK m \in Bad : \A l \in Bad : m <= l
  <2>1. Bad \subseteq Nat
    OBVIOUS
  <2> HIDE DEF Bad
  <2> QED
    BY <2>1, LeastNat
<1>2. m \in 0 .. n /\ ~Good(m)
  BY <1>1
<1>3. m # 0
  <2> SUFFICES ASSUME m = 0 PROVE FALSE
    OBVIOUS
  <2>1. Good(0)
    <3> DEFINE h == [i \in 0 .. 0 |-> a]
    <3>1. h \in [0 .. 0 -> V] /\ h[0] = a /\ \A i \in 1 .. 0 : h[i] = G[<<i, h[i - 1]>>]
      OBVIOUS
    <3> QED
      BY <3>1
  <2> QED
    BY <2>1, <1>2
<1>4. m - 1 \in 0 .. n /\ Good(m - 1)
  BY <1>1, <1>2, <1>3
<1>5. PICK h \in [0 .. m - 1 -> V] : h[0] = a /\ \A i \in 1 .. m - 1 : h[i] = G[<<i, h[i - 1]>>]
  BY <1>4
<1> DEFINE g == [i \in 0 .. m |-> IF i = m THEN G[<<m, h[m - 1]>>] ELSE h[i]]
<1>6. G[<<m, h[m - 1]>>] \in V
  BY <1>2, <1>3
<1>7. g \in [0 .. m -> V] /\ g[0] = a
  BY <1>2, <1>3, <1>5, <1>6
<1>8. ASSUME NEW i \in 1 .. m PROVE g[i] = G[<<i, g[i - 1]>>]
  <2>1. CASE i = m
    <3>1. m - 1 \in 0 .. m /\ m - 1 # m
      BY <1>2, <1>3
    <3> QED
      BY <2>1, <3>1
  <2>2. CASE i # m
    <3>1. i \in 1 .. m - 1 /\ i \in 0 .. m /\ i - 1 \in 0 .. m /\ i - 1 # m
      BY <1>2, <1>3, <2>2
    <3> QED
      BY <3>1, <2>2, <1>5
  <2> QED
    BY <2>1, <2>2
<1>9. Good(m)
  <2> HIDE DEF g
  <2> QED
    BY <1>7, <1>8
<1> QED
  BY <1>2, <1>9

=============================================================================
