----------------------------- MODULE Ledger_proofs -----------------------------
(***************************************************************************)
(* What TLAPS proves of the ledger, for any accounts and entries: lemmas   *)
(* about a posting that the components which move money rest on.  The      *)
(* entries are added up by the fold of the community modules; the first    *)
(* part says what such a sum is.  The library's induction theorems are of  *)
(* no use here, so induction over a finite set is done on a smallest       *)
(* counterexample.                                                         *)
(***************************************************************************)
EXTENDS Ledger, FiniteSetTheorems, TLAPS

-----------------------------------------------------------------------------
(* Sums over finite sets.                                                  *)

\* The element that the fold takes off a set.
First(S) == CHOOSE x \in S : TRUE

\* g is the fold of f on the subsets of S.
FoldsOn(g, f, S) ==
  g = [s \in SUBSET S |-> IF s = {} THEN 0 ELSE f[First(s)] + g[s \ {First(s)}]]

TheFold(f, S) == CHOOSE g : FoldsOn(g, f, S)
SumOn(f, S) == SumFunctionOnSet(f, S)

-----------------------------------------------------------------------------

\* A set of subsets of a finite set has a member with no other member below it.
LEMMA SmallestSubset ==
  ASSUME NEW S, IsFiniteSet(S), NEW B \in SUBSET SUBSET S, B # {}
  PROVE  \E T \in B : \A U \in B : U \subseteq T => U = T
<1>1. \A T \in SUBSET S : IsFiniteSet(T)
  BY FS_Subset
<1>2. B \subseteq FiniteSubsetsOf(S)
  BY <1>1 DEF FiniteSubsetsOf
<1>3. IsWellFoundedOn(StrictSubsetOrdering(S), FiniteSubsetsOf(S))
  BY FS_StrictSubsetOrderingWellFounded
<1>4. PICK T \in B : \A U \in B : ~(<<U, T>> \in StrictSubsetOrdering(S))
  BY <1>2, <1>3, WFMin
<1> QED BY <1>4 DEF StrictSubsetOrdering

\* The image of a finite set is finite.
LEMMA FiniteImage ==
  ASSUME NEW m, NEW S, IsFiniteSet(S)
  PROVE  IsFiniteSet({m[a] : a \in S})
<1> DEFINE n == [a \in S |-> m[a]]
<1>1. n \in Surjection(S, {m[a] : a \in S})
  BY DEF Surjection
<1> HIDE DEF n
<1> QED BY <1>1, FS_Surjection

\* A pair.
LEMMA PairIsFinite ==
  ASSUME NEW a, NEW b
  PROVE  IsFiniteSet({a, b}) /\ (a # b => Cardinality({a, b}) = 2)
<1> DEFINE S == {a}
<1>1. IsFiniteSet(S) /\ Cardinality(S) = 1
  BY FS_Singleton
<1>2. {a, b} = S \cup {b} /\ (a # b => b \notin S)
  OBVIOUS
<1> HIDE DEF S
<1>3. /\ IsFiniteSet(S \cup {b})
      /\ Cardinality(S \cup {b}) = IF b \in S THEN Cardinality(S) ELSE Cardinality(S) + 1
  BY <1>1, FS_AddElement
<1> QED BY <1>1, <1>2, <1>3

\* The community module's sum is the value of the fold on the whole set.
LEMMA SumIsFold ==
  ASSUME NEW f, NEW S
  PROVE  SumOn(f, S) = TheFold(f, S)[S]
BY DEF SumOn, SumFunctionOnSet, FoldFunctionOnSet, MapThenFoldSet, TheFold,
       FoldsOn, First

\* What a fold is on one subset.
LEMMA FoldValue ==
  ASSUME NEW f, NEW S, NEW g, FoldsOn(g, f, S), NEW s \in SUBSET S
  PROVE  /\ s = {} => g[s] = 0
         /\ s # {} => /\ First(s) \in s
                      /\ g[s] = f[First(s)] + g[s \ {First(s)}]
<1>1. g[s] = IF s = {} THEN 0 ELSE f[First(s)] + g[s \ {First(s)}]
  BY DEF FoldsOn
<1>2. s # {} => First(s) \in s
  BY DEF First
<1> QED BY <1>1, <1>2

\* Two folds of the same function agree where both are defined.
LEMMA FoldsAgree ==
  ASSUME NEW f, NEW S, IsFiniteSet(S), NEW T, NEW g, NEW h,
         FoldsOn(g, f, S), FoldsOn(h, f, T), NEW s \in SUBSET S, s \in SUBSET T
  PROVE  g[s] = h[s]
<1> DEFINE B == {u \in SUBSET S : u \in SUBSET T /\ g[u] # h[u]}
<1> SUFFICES ASSUME B # {} PROVE FALSE
  OBVIOUS
<1>1. PICK u \in B : \A v \in B : v \subseteq u => v = u
  <2>1. B \in SUBSET SUBSET S
    OBVIOUS
  <2> HIDE DEF B
  <2> QED BY <2>1, SmallestSubset
<1>2. u \in SUBSET S /\ u \in SUBSET T /\ g[u] # h[u]
  BY <1>1
<1>3. u # {} /\ First(u) \in u
  BY <1>2, FoldValue
<1>4. u \ {First(u)} \notin B
  BY <1>1, <1>3
<1>5. g[u \ {First(u)}] = h[u \ {First(u)}]
  BY <1>2, <1>4
<1> HIDE DEF B
<1>6. g[u] = f[First(u)] + g[u \ {First(u)}]
  <2>1. u \in SUBSET S /\ u # {}
    BY <1>2, <1>3
  <2> QED BY <2>1, FoldValue
<1>7. h[u] = f[First(u)] + h[u \ {First(u)}]
  <2>1. u \in SUBSET T /\ u # {}
    BY <1>2, <1>3
  <2> QED BY <2>1, FoldValue
<1> QED BY <1>2, <1>5, <1>6, <1>7

\* The recursive definition of the fold has a solution on every finite set.
LEMMA FoldExists ==
  ASSUME NEW f, NEW S, IsFiniteSet(S)
  PROVE  FoldsOn(TheFold(f, S), f, S)
<1> DEFINE B == {T \in SUBSET S : ~ \E g : FoldsOn(g, f, T)}
<1>1. SUFFICES ASSUME B # {} PROVE FALSE
  BY DEF TheFold
<1>2. PICK T \in B : \A v \in B : v \subseteq T => v = T
  <2>1. B \in SUBSET SUBSET S
    OBVIOUS
  <2> HIDE DEF B
  <2> QED BY <1>1, <2>1, SmallestSubset
<1>3. \A u \in SUBSET T : u # T => FoldsOn(TheFold(f, u), f, u)
  BY <1>2 DEF TheFold
<1> DEFINE on(u) == TheFold(f, u)[u]
           g == [s \in SUBSET T |->
                   IF s = {} THEN 0
                   ELSE f[First(s)] + on(s \ {First(s)})]
<1>4. \A s \in SUBSET T : s # {} => First(s) \in s
  BY DEF First
<1>5. \A u \in SUBSET T : u # T => g[u] = on(u)
  <2> SUFFICES ASSUME NEW u \in SUBSET T, u # T PROVE g[u] = on(u)
    OBVIOUS
  <2>1. FoldsOn(TheFold(f, u), f, u) /\ IsFiniteSet(u)
    BY <1>3, FS_Subset
  <2>2. CASE u = {}
    BY <2>1, <2>2, FoldValue
  <2>3. CASE u # {}
    <3> DEFINE v == u \ {First(u)}
    <3>1. v \in SUBSET u /\ v \in SUBSET T /\ v # T
      BY <1>4, <2>3
    <3>2. FoldsOn(TheFold(f, v), f, v)
      BY <1>3, <3>1
    <3>3. TheFold(f, u)[v] = on(v)
      BY <2>1, <3>1, <3>2, FoldsAgree
    <3>4. on(u) = f[First(u)] + TheFold(f, u)[v]
      BY <2>1, <2>3, FoldValue
    <3> QED BY <2>3, <3>3, <3>4
  <2> QED BY <2>2, <2>3
<1>6. \A s \in SUBSET T : s # {} => on(s \ {First(s)}) = g[s \ {First(s)}]
  BY <1>4, <1>5
<1>7. FoldsOn(g, f, T)
  BY <1>6 DEF FoldsOn
<1> QED BY <1>2, <1>7

-----------------------------------------------------------------------------
(* What a sum is.                                                          *)

\* The sum over nothing is zero, over more the first term and the rest.
LEMMA SumUnfolds ==
  ASSUME NEW f, NEW S, IsFiniteSet(S)
  PROVE  /\ S = {} => SumOn(f, S) = 0
         /\ S # {} => /\ First(S) \in S
                      /\ SumOn(f, S) = f[First(S)] + SumOn(f, S \ {First(S)})
<1>1. FoldsOn(TheFold(f, S), f, S) /\ SumOn(f, S) = TheFold(f, S)[S]
  BY FoldExists, SumIsFold
<1>2. CASE S = {}
  BY <1>1, <1>2, FoldValue
<1>3. CASE S # {}
  <2> DEFINE R == S \ {First(S)}
  <2>1. First(S) \in S /\ TheFold(f, S)[S] = f[First(S)] + TheFold(f, S)[R]
    BY <1>1, <1>3, FoldValue
  <2>2. R \in SUBSET S /\ IsFiniteSet(R)
    BY FS_Subset
  <2>3. FoldsOn(TheFold(f, R), f, R) /\ SumOn(f, R) = TheFold(f, R)[R]
    BY <2>2, FoldExists, SumIsFold
  <2>4. TheFold(f, S)[R] = TheFold(f, R)[R]
    BY <1>1, <2>2, <2>3, FoldsAgree
  <2> QED BY <1>1, <1>3, <2>1, <2>3, <2>4
<1> QED BY <1>2, <1>3

\* The sum of integers is an integer.
LEMMA SumType ==
  ASSUME NEW f, NEW S, IsFiniteSet(S), \A a \in S : f[a] \in Int
  PROVE  SumOn(f, S) \in Int
<1> DEFINE B == {T \in SUBSET S : SumOn(f, T) \notin Int}
<1> SUFFICES ASSUME B # {} PROVE FALSE
  OBVIOUS
<1>1. PICK T \in B : \A v \in B : v \subseteq T => v = T
  <2>1. B \in SUBSET SUBSET S
    OBVIOUS
  <2> HIDE DEF B
  <2> QED BY <2>1, SmallestSubset
<1>2. T \in SUBSET S /\ IsFiniteSet(T) /\ SumOn(f, T) \notin Int
  BY <1>1, FS_Subset
<1>3. T # {}
  BY <1>2, SumUnfolds
<1>4. First(T) \in T /\ SumOn(f, T) = f[First(T)] + SumOn(f, T \ {First(T)})
  BY <1>2, <1>3, SumUnfolds
<1>5. SumOn(f, T \ {First(T)}) \in Int
  BY <1>1, <1>4
<1> QED BY <1>2, <1>4, <1>5

\* A sum of amounts that are not negative is not negative.
LEMMA SumIsNatural ==
  ASSUME NEW f, NEW S, IsFiniteSet(S), \A a \in S : f[a] \in Nat
  PROVE  SumOn(f, S) \in Nat
<1> DEFINE B == {T \in SUBSET S : SumOn(f, T) \notin Nat}
<1> SUFFICES ASSUME B # {} PROVE FALSE
  OBVIOUS
<1>1. PICK T \in B : \A v \in B : v \subseteq T => v = T
  <2>1. B \in SUBSET SUBSET S
    OBVIOUS
  <2> HIDE DEF B
  <2> QED BY <2>1, SmallestSubset
<1>2. T \in SUBSET S /\ IsFiniteSet(T) /\ SumOn(f, T) \notin Nat
  BY <1>1, FS_Subset
<1>3. T # {}
  <2>1. T = {} => SumOn(f, T) = 0
    BY <1>2, SumUnfolds
  <2>2. 0 \in Nat
    OBVIOUS
  <2> QED BY <1>2, <2>1, <2>2
<1>4. First(T) \in T /\ SumOn(f, T) = f[First(T)] + SumOn(f, T \ {First(T)})
  BY <1>2, <1>3, SumUnfolds
<1>5. SumOn(f, T \ {First(T)}) \in Nat
  BY <1>1, <1>4
<1> QED BY <1>2, <1>4, <1>5

\* Any term may be taken off first: the order of the fold does not matter.
LEMMA SumPeels ==
  ASSUME NEW f, NEW S, IsFiniteSet(S), \A a \in S : f[a] \in Int, NEW x \in S
  PROVE  SumOn(f, S) = f[x] + SumOn(f, S \ {x})
<1> DEFINE B == {T \in SUBSET S :
                   \E y \in T : SumOn(f, T) # f[y] + SumOn(f, T \ {y})}
<1>1. SUFFICES ASSUME B # {} PROVE FALSE
  <2>1. S \in SUBSET S
    OBVIOUS
  <2> QED BY <2>1
<1>2. PICK T \in B : \A v \in B : v \subseteq T => v = T
  <2>1. B \in SUBSET SUBSET S
    OBVIOUS
  <2> HIDE DEF B
  <2> QED BY <1>1, <2>1, SmallestSubset
<1>3. PICK y \in T : SumOn(f, T) # f[y] + SumOn(f, T \ {y})
  BY <1>2
<1> DEFINE z == First(T)
<1>4. T \in SUBSET S /\ IsFiniteSet(T)
  BY <1>2, FS_Subset
<1>5. z \in T /\ SumOn(f, T) = f[z] + SumOn(f, T \ {z})
  BY <1>3, <1>4, SumUnfolds
<1> HIDE DEF z
<1>6. z # y
  BY <1>3, <1>5
<1>7. T \ {z} \notin B /\ T \ {y} \notin B
  BY <1>2, <1>3, <1>5
<1>8. SumOn(f, T \ {z}) = f[y] + SumOn(f, (T \ {z}) \ {y})
  BY <1>3, <1>4, <1>6, <1>7
<1>9. SumOn(f, T \ {y}) = f[z] + SumOn(f, (T \ {y}) \ {z})
  BY <1>4, <1>5, <1>6, <1>7
<1> DEFINE rest == SumOn(f, (T \ {z}) \ {y})
<1>10. SumOn(f, T \ {z}) = f[y] + rest /\ SumOn(f, T \ {y}) = f[z] + rest
  <2>1. (T \ {z}) \ {y} = (T \ {y}) \ {z}
    OBVIOUS
  <2> QED BY <1>8, <1>9, <2>1
<1>11. rest \in Int
  <2>1. IsFiniteSet((T \ {z}) \ {y}) /\ \A a \in (T \ {z}) \ {y} : f[a] \in Int
    BY <1>4, FS_Subset
  <2> QED BY <2>1, SumType
<1>12. f[y] \in Int /\ f[z] \in Int
  BY <1>3, <1>4, <1>5
<1> HIDE DEF rest
<1> QED BY <1>3, <1>5, <1>10, <1>11, <1>12

\* Functions that agree on a set have the same sum over it.
LEMMA SumAgrees ==
  ASSUME NEW f, NEW g, NEW S, IsFiniteSet(S), \A a \in S : f[a] = g[a]
  PROVE  SumOn(f, S) = SumOn(g, S)
<1> DEFINE B == {T \in SUBSET S : SumOn(f, T) # SumOn(g, T)}
<1> SUFFICES ASSUME B # {} PROVE FALSE
  OBVIOUS
<1>1. PICK T \in B : \A v \in B : v \subseteq T => v = T
  <2>1. B \in SUBSET SUBSET S
    OBVIOUS
  <2> HIDE DEF B
  <2> QED BY <2>1, SmallestSubset
<1>2. T \in SUBSET S /\ IsFiniteSet(T) /\ SumOn(f, T) # SumOn(g, T)
  BY <1>1, FS_Subset
<1>3. T # {}
  BY <1>2, SumUnfolds
<1>4. First(T) \in T /\ SumOn(f, T) = f[First(T)] + SumOn(f, T \ {First(T)})
  BY <1>2, <1>3, SumUnfolds
<1>5. SumOn(g, T) = g[First(T)] + SumOn(g, T \ {First(T)})
  BY <1>2, <1>3, SumUnfolds
<1>6. SumOn(f, T \ {First(T)}) = SumOn(g, T \ {First(T)})
  BY <1>1, <1>4
<1> QED BY <1>2, <1>4, <1>5, <1>6

\* The sum of the terms' sums.
LEMMA SumAdds ==
  ASSUME NEW f, NEW g, NEW h, NEW S, IsFiniteSet(S),
         \A a \in S : f[a] \in Int /\ g[a] \in Int /\ h[a] = f[a] + g[a]
  PROVE  SumOn(h, S) = SumOn(f, S) + SumOn(g, S)
<1> DEFINE B == {T \in SUBSET S : SumOn(h, T) # SumOn(f, T) + SumOn(g, T)}
<1> SUFFICES ASSUME B # {} PROVE FALSE
  OBVIOUS
<1>1. PICK T \in B : \A v \in B : v \subseteq T => v = T
  <2>1. B \in SUBSET SUBSET S
    OBVIOUS
  <2> HIDE DEF B
  <2> QED BY <2>1, SmallestSubset
<1>2. T \in SUBSET S /\ IsFiniteSet(T) /\ SumOn(h, T) # SumOn(f, T) + SumOn(g, T)
  BY <1>1, FS_Subset
<1>3. T # {}
  <2> SUFFICES ASSUME T = {} PROVE FALSE
    OBVIOUS
  <2>1. SumOn(f, T) = 0 /\ SumOn(g, T) = 0
    BY <1>2, SumUnfolds
  <2>2. SumOn(h, T) = 0
    BY <1>2, SumUnfolds
  <2> QED BY <1>2, <2>1, <2>2
<1> DEFINE x == First(T)
           R == T \ {x}
<1>4. x \in T /\ SumOn(f, T) = f[x] + SumOn(f, R)
  BY <1>2, <1>3, SumUnfolds
<1>5. SumOn(g, T) = g[x] + SumOn(g, R)
  BY <1>2, <1>3, SumUnfolds
<1>6. SumOn(h, T) = h[x] + SumOn(h, R)
  BY <1>2, <1>3, SumUnfolds
<1>7. SumOn(h, R) = SumOn(f, R) + SumOn(g, R)
  BY <1>1, <1>4
<1>8. IsFiniteSet(R) /\ R \subseteq S
  BY <1>2, FS_Subset
<1>9. SumOn(f, R) \in Int /\ SumOn(g, R) \in Int
  BY <1>8, SumType
<1>10. f[x] \in Int /\ g[x] \in Int /\ h[x] = f[x] + g[x]
  BY <1>2, <1>4
<1> HIDE DEF x, R
<1> QED BY <1>2, <1>4, <1>5, <1>6, <1>7, <1>9, <1>10

\* What is smaller everywhere adds up to no more.
LEMMA SumMonotone ==
  ASSUME NEW f, NEW g, NEW S, IsFiniteSet(S),
         \A a \in S : f[a] \in Int /\ g[a] \in Int /\ f[a] <= g[a]
  PROVE  SumOn(f, S) <= SumOn(g, S)
<1> DEFINE d == [a \in S |-> g[a] - f[a]]
<1>1. \A a \in S : d[a] \in Nat /\ d[a] \in Int /\ f[a] \in Int /\ g[a] = f[a] + d[a]
  OBVIOUS
<1> HIDE DEF d
<1>2. SumOn(g, S) = SumOn(f, S) + SumOn(d, S)
  BY <1>1, SumAdds
<1>3. SumOn(d, S) \in Nat /\ SumOn(f, S) \in Int
  BY <1>1, SumIsNatural, SumType
<1> QED BY <1>2, <1>3

\* An inequality between multiples that holds of the terms holds of the sums.
LEMMA SumKeepsBound ==
  ASSUME NEW f, NEW g, NEW h, NEW S, IsFiniteSet(S),
         NEW c \in Int, NEW d \in Int, NEW e \in Int,
         \A a \in S : /\ f[a] \in Int /\ g[a] \in Int /\ h[a] \in Int
                     /\ c * f[a] + d * g[a] >= e * h[a]
  PROVE  c * SumOn(f, S) + d * SumOn(g, S) >= e * SumOn(h, S)
<1> DEFINE Bound(T) == c * SumOn(f, T) + d * SumOn(g, T) >= e * SumOn(h, T)
           B == {T \in SUBSET S : ~Bound(T)}
<1> SUFFICES ASSUME B # {} PROVE FALSE
  OBVIOUS
<1>1. PICK T \in B : \A v \in B : v \subseteq T => v = T
  <2>1. B \in SUBSET SUBSET S
    OBVIOUS
  <2> HIDE DEF B
  <2> QED BY <2>1, SmallestSubset
<1>2. T \in SUBSET S /\ IsFiniteSet(T) /\ ~Bound(T)
  BY <1>1, FS_Subset
<1>3. T # {}
  <2> SUFFICES ASSUME T = {} PROVE FALSE
    OBVIOUS
  <2>1. SumOn(f, T) = 0 /\ SumOn(g, T) = 0
    BY <1>2, SumUnfolds
  <2>2. SumOn(h, T) = 0
    BY <1>2, SumUnfolds
  <2> QED BY <1>2, <2>1, <2>2
<1> DEFINE x == First(T)
           R == T \ {x}
           F == SumOn(f, R)
           G == SumOn(g, R)
           H == SumOn(h, R)
<1>4. x \in T /\ SumOn(f, T) = f[x] + F
  BY <1>2, <1>3, SumUnfolds
<1>5. SumOn(g, T) = g[x] + G
  BY <1>2, <1>3, SumUnfolds
<1>6. SumOn(h, T) = h[x] + H
  BY <1>2, <1>3, SumUnfolds
<1>7. c * F + d * G >= e * H
  BY <1>1, <1>4
<1>8. IsFiniteSet(R) /\ R \subseteq S
  BY <1>2, FS_Subset
<1>9. F \in Int /\ G \in Int /\ H \in Int
  BY <1>8, SumType
<1>10. f[x] \in Int /\ g[x] \in Int /\ h[x] \in Int
  BY <1>2, <1>4
<1>11. c * f[x] + d * g[x] >= e * h[x]
  BY <1>2, <1>4
<1>12. ~(c * (f[x] + F) + d * (g[x] + G) >= e * (h[x] + H))
  BY <1>2, <1>4, <1>5, <1>6
<1> HIDE DEF x, F, G, H
<1>13. /\ c * (f[x] + F) = c * f[x] + c * F
       /\ d * (g[x] + G) = d * g[x] + d * G
       /\ e * (h[x] + H) = e * h[x] + e * H
  BY <1>9, <1>10
<1> QED BY <1>7, <1>9, <1>10, <1>11, <1>12, <1>13

\* Terms that are zero may be left out.
LEMMA SumOfSupport ==
  ASSUME NEW f, NEW S, IsFiniteSet(S), \A a \in S : f[a] \in Int,
         NEW T \in SUBSET S, \A a \in S \ T : f[a] = 0
  PROVE  SumOn(f, S) = SumOn(f, T)
<1> DEFINE B == {U \in SUBSET S : T \subseteq U /\ SumOn(f, U) # SumOn(f, T)}
<1>1. SUFFICES ASSUME B # {} PROVE FALSE
  <2>1. S \in SUBSET S
    OBVIOUS
  <2> QED BY <2>1
<1>2. PICK U \in B : \A v \in B : v \subseteq U => v = U
  <2>1. B \in SUBSET SUBSET S
    OBVIOUS
  <2> HIDE DEF B
  <2> QED BY <1>1, <2>1, SmallestSubset
<1>3. U \in SUBSET S /\ T \subseteq U /\ IsFiniteSet(U)
  BY <1>2, FS_Subset
<1>4. PICK x \in U : x \notin T
  <2>1. U # T
    BY <1>2
  <2> QED BY <1>3, <2>1
<1>5. SumOn(f, U \ {x}) = SumOn(f, T)
  BY <1>2, <1>3, <1>4
<1>6. IsFiniteSet(U \ {x}) /\ \A a \in U \ {x} : f[a] \in Int
  BY <1>3, FS_Subset
<1>7. SumOn(f, U \ {x}) \in Int
  BY <1>6, SumType
<1>8. SumOn(f, U) = f[x] + SumOn(f, U \ {x})
  BY <1>3, SumPeels
<1>9. f[x] = 0
  BY <1>3, <1>4
<1> QED BY <1>2, <1>5, <1>7, <1>8, <1>9

\* A sum does not depend on what its terms are called.
LEMMA SumReindexes ==
  ASSUME NEW f, NEW g, NEW m, NEW S, IsFiniteSet(S), \A a \in S : f[a] \in Int,
         \A a, b \in S : m[a] = m[b] => a = b,
         \A a \in S : g[m[a]] = f[a]
  PROVE  SumOn(g, {m[a] : a \in S}) = SumOn(f, S)
<1> DEFINE image(T) == {m[a] : a \in T}
           B == {T \in SUBSET S : SumOn(g, image(T)) # SumOn(f, T)}
<1>1. SUFFICES ASSUME B # {} PROVE FALSE
  <2>1. S \in SUBSET S
    OBVIOUS
  <2> QED BY <2>1
<1>2. PICK T \in B : \A v \in B : v \subseteq T => v = T
  <2>1. B \in SUBSET SUBSET S
    OBVIOUS
  <2> HIDE DEF B
  <2> QED BY <1>1, <2>1, SmallestSubset
<1>3. T \in SUBSET S /\ IsFiniteSet(T) /\ SumOn(g, image(T)) # SumOn(f, T)
  BY <1>2, FS_Subset
<1>4. IsFiniteSet(image(T))
  BY <1>3, FiniteImage
<1>5. T # {}
  <2> SUFFICES ASSUME T = {} PROVE FALSE
    OBVIOUS
  <2>1. image(T) = {}
    OBVIOUS
  <2>2. SumOn(g, image(T)) = 0
    BY <1>4, <2>1, SumUnfolds
  <2>3. SumOn(f, T) = 0
    BY <1>3, SumUnfolds
  <2> QED BY <1>3, <2>2, <2>3
<1>6. PICK x \in T : TRUE
  BY <1>5
<1> DEFINE R == T \ {x}
<1>7. image(T) \ {m[x]} = image(R)
  BY <1>3
<1>8. SumOn(f, T) = f[x] + SumOn(f, R)
  BY <1>3, <1>6, SumPeels
<1>9. SumOn(g, image(T)) = g[m[x]] + SumOn(g, image(R))
  <2>1. \A b \in image(T) : g[b] \in Int
    BY <1>3
  <2>2. m[x] \in image(T)
    BY <1>6
  <2>3. SumOn(g, image(T)) = g[m[x]] + SumOn(g, image(T) \ {m[x]})
    BY <1>4, <2>1, <2>2, SumPeels
  <2> QED BY <1>7, <2>3
<1>10. SumOn(g, image(R)) = SumOn(f, R)
  BY <1>2, <1>3, <1>6
<1>11. g[m[x]] = f[x]
  BY <1>3, <1>6
<1> QED BY <1>3, <1>8, <1>9, <1>10, <1>11

\* One term more.
LEMMA SumGrows ==
  ASSUME NEW f, NEW S, IsFiniteSet(S), NEW x, x \notin S,
         \A a \in S \cup {x} : f[a] \in Int
  PROVE  /\ IsFiniteSet(S \cup {x})
         /\ SumOn(f, S \cup {x}) = f[x] + SumOn(f, S)
<1>1. IsFiniteSet(S \cup {x})
  BY FS_AddElement
<1>2. (S \cup {x}) \ {x} = S
  OBVIOUS
<1>3. x \in S \cup {x}
  OBVIOUS
<1> QED BY <1>1, <1>2, <1>3, SumPeels

\* The sum of two terms.
LEMMA SumOfTwo ==
  ASSUME NEW f, NEW a, NEW b, a # b, f[a] \in Int, f[b] \in Int
  PROVE  IsFiniteSet({a, b}) /\ SumOn(f, {a, b}) = f[a] + f[b]
<1>1. IsFiniteSet({}) /\ SumOn(f, {}) = 0
  BY FS_EmptySet, SumUnfolds
<1> DEFINE S == {} \cup {a}
<1>2. IsFiniteSet(S) /\ SumOn(f, S) = f[a] + SumOn(f, {})
  BY <1>1, SumGrows
<1>3. b \notin S /\ {a, b} = S \cup {b} /\ \A c \in S \cup {b} : f[c] \in Int
  OBVIOUS
<1> HIDE DEF S
<1>4. IsFiniteSet(S \cup {b}) /\ SumOn(f, S \cup {b}) = f[b] + SumOn(f, S)
  BY <1>2, <1>3, SumGrows
<1>5. SumOn(f, S) = f[a]
  BY <1>1, <1>2
<1> DEFINE P == {a, b}
<1>6. P = S \cup {b}
  BY <1>3
<1> HIDE DEF P
<1>7. IsFiniteSet(P) /\ SumOn(f, P) = f[a] + f[b]
  BY <1>4, <1>5, <1>6
<1> QED BY <1>7 DEF P

-----------------------------------------------------------------------------
(* Postings.                                                               *)

\* What a caller hands to post: amounts in cents for accounts that exist.
IsEntryList(entries) ==
  /\ DOMAIN entries \subseteq Accounts
  /\ \A a \in DOMAIN entries : entries[a] \in Int

\* No wallet is in the red.
WalletsNonNegative == \A u \in Users : balance[Wallet(u)] >= 0

\* Double entry: all the balances together come to nothing.
BooksBalance == SumFunction(balance) = 0

LedgerInv == LedgerTypeOK /\ WalletsNonNegative /\ BooksBalance

-----------------------------------------------------------------------------
(* Accounts and numbers.                                                   *)

\* n / d rounded is a whole number (RoundHalfEven).
LEMMA RoundHalfEvenType ==
  ASSUME NEW n \in Int, NEW d \in Nat \ {0}
  PROVE  RoundHalfEven(n, d) \in Int
<1>1. n \div d \in Int
  OBVIOUS
<1> QED BY <1>1 DEF RoundHalfEven

\* Rounding moves a fraction by half a unit at most.
LEMMA RoundBounds ==
  ASSUME NEW n \in Int, NEW d \in Nat \ {0}
  PROVE  LET r == RoundHalfEven(n, d) IN
         r \in Int /\ 2 * (r * d) <= 2 * n + d /\ 2 * (r * d) >= 2 * n - d
<1> DEFINE down == n \div d
           rest == n % d
<1>1. down \in Int /\ rest \in 0 .. (d - 1) /\ n = d * down + rest
  OBVIOUS
<1>2. \/ RoundHalfEven(n, d) = down + 1 /\ 2 * rest >= d
      \/ RoundHalfEven(n, d) = down /\ 2 * rest <= d
  BY <1>1 DEF RoundHalfEven
<1> HIDE DEF down, rest
<1>3. d * down \in Int /\ down * d = d * down /\ (down + 1) * d = d * down + d
  BY <1>1
<1>4. CASE RoundHalfEven(n, d) = down + 1 /\ 2 * rest >= d
  BY <1>1, <1>3, <1>4
<1>5. CASE RoundHalfEven(n, d) = down /\ 2 * rest <= d
  BY <1>1, <1>3, <1>5
<1> QED BY <1>2, <1>4, <1>5

\* What is at least, or at most, k units stays so when it is rounded.
LEMMA RoundKeepsOrder ==
  ASSUME NEW n \in Int, NEW d \in Nat \ {0}, NEW k \in Int
  PROVE  /\ n >= k * d => RoundHalfEven(n, d) >= k
         /\ n <= k * d => RoundHalfEven(n, d) <= k
<1> DEFINE r == RoundHalfEven(n, d)
<1>1. r \in Int /\ 2 * (r * d) <= 2 * n + d /\ 2 * (r * d) >= 2 * n - d
  BY RoundBounds
<1> HIDE DEF r
<1>2. r < k => r * d <= k * d - d
  BY <1>1
<1>3. r > k => r * d >= k * d + d
  BY <1>1
<1>4. r * d \in Int /\ k * d \in Int
  BY <1>1
<1>5. n >= k * d => r >= k
  BY <1>1, <1>2, <1>4
<1>6. n <= k * d => r <= k
  BY <1>1, <1>3, <1>4
<1> QED BY <1>5, <1>6 DEF r

\* Wallets, payable accounts and the platform's own never coincide.
LEMMA AccountNames ==
  /\ \A u : Wallet(u)[1] = "user_wallet" /\ Wallet(u)[2] = u
  /\ \A p : Payable(p)[1] = "promoter_payable" /\ Payable(p)[2] = p
  /\ \A type : System(type)[1] = type
  /\ \A u \in Users : Wallet(u) \in Accounts
  /\ \A p \in Promoters : Payable(p) \in Accounts
  /\ \A type \in SystemTypes : System(type) \in Accounts
  /\ \A a \in Accounts : a[1] = "user_wallet" => \E u \in Users : a = Wallet(u)
<1>1. /\ \A u : Wallet(u)[1] = "user_wallet" /\ Wallet(u)[2] = u
      /\ \A p : Payable(p)[1] = "promoter_payable" /\ Payable(p)[2] = p
      /\ \A type : System(type)[1] = type
  BY DEF Wallet, Payable, System
<1>2. \A type \in SystemTypes : type # "user_wallet"
  BY DEF SystemTypes
<1>3. \A a \in Accounts : a[1] = "user_wallet" => \E u \in Users : a = Wallet(u)
  BY <1>1, <1>2 DEF Accounts
<1> QED BY <1>1, <1>3 DEF Accounts

\* There are finitely many accounts.
LEMMA AccountsFinite == IsFiniteSet(Accounts)
<1> DEFINE W == {Wallet(u) : u \in Users}
           P == {Payable(p) : p \in Promoters}
           S == {System(type) : type \in SystemTypes}
<1>1. IsFiniteSet(W)
  <2> DEFINE m == [u \in Users |-> Wallet(u)]
  <2>1. W = {m[u] : u \in Users}
    OBVIOUS
  <2> HIDE DEF m
  <2> QED BY <2>1, FiniteImage, LedgerAssumption
<1>2. IsFiniteSet(P)
  <2> DEFINE m == [p \in Promoters |-> Payable(p)]
  <2>1. P = {m[p] : p \in Promoters}
    OBVIOUS
  <2> HIDE DEF m
  <2> QED BY <2>1, FiniteImage, LedgerAssumption
<1>3. IsFiniteSet(S)
  <2> DEFINE m == [type \in SystemTypes |-> System(type)]
  <2>1. S = {m[type] : type \in SystemTypes}
    OBVIOUS
  <2> HIDE DEF m
  <2>2. IsFiniteSet({"platform_revenue", "tax_payable"})
    BY PairIsFinite
  <2>3. IsFiniteSet({"gateway_clearing", "payment_holding"})
    BY PairIsFinite
  <2>4. IsFiniteSet({"payout_pending", "payout_settled"})
    BY PairIsFinite
  <2>5. SystemTypes = ({"platform_revenue", "tax_payable"} \cup
                       {"gateway_clearing", "payment_holding"}) \cup
                       {"payout_pending", "payout_settled"}
    BY DEF SystemTypes
  <2>6. IsFiniteSet(SystemTypes)
    BY <2>2, <2>3, <2>4, <2>5, FS_Union
  <2> QED BY <2>1, <2>6, FiniteImage
<1>4. Accounts = (W \cup P) \cup S
  BY DEF Accounts
<1> HIDE DEF W, P, S
<1> QED BY <1>1, <1>2, <1>3, <1>4, FS_Union

-----------------------------------------------------------------------------
(* The start.                                                              *)

\* At the start wallets hold what was credited, and the clearing account
\* carries the other side.
LEMMA LedgerInitInv ==
  ASSUME LedgerInit
  PROVE  LedgerInv /\ \A kind, ref : ~Posted(kind, ref)
<1> DEFINE c == System("gateway_clearing")
           W == {Wallet(u) : u \in Users}
<1>1. SumFunction(Opening) = SumOn(Opening, Users)
  BY LedgerAssumption DEF SumFunction, SumOn
<1>2. SumOn(Opening, Users) \in Int
  BY LedgerAssumption, SumType
<1>3. \A u \in Users : Wallet(u) \in Accounts /\ balance[Wallet(u)] = Opening[u]
  BY AccountNames DEF LedgerInit
<1>4. c \in Accounts /\ c \notin W /\ balance[c] = -SumFunction(Opening)
  BY AccountNames DEF LedgerInit, SystemTypes
<1>5. \A a \in Accounts : a \notin W /\ a # c => balance[a] = 0
  BY AccountNames DEF LedgerInit
<1>6. \A a \in Accounts : balance[a] \in Int
  <2> SUFFICES ASSUME NEW a \in Accounts PROVE balance[a] \in Int
    OBVIOUS
  <2>1. CASE a \in W
    BY <1>3, <2>1, LedgerAssumption
  <2>2. CASE a = c
    BY <1>1, <1>2, <1>4, <2>2
  <2> QED BY <1>5, <2>1, <2>2
<1>7. DOMAIN balance = Accounts /\ balance \in [Accounts -> Int]
  <2>1. balance = [a \in Accounts |-> balance[a]]
    BY DEF LedgerInit
  <2> QED BY <1>6, <2>1
<1>8. LedgerTypeOK /\ \A kind, ref : ~Posted(kind, ref)
  BY <1>7 DEF LedgerInit, LedgerTypeOK, Posted
<1>9. WalletsNonNegative
  BY <1>3, LedgerAssumption DEF WalletsNonNegative
<1>10. BooksBalance
  <2>1. SumOn(balance, Accounts) = balance[c] + SumOn(balance, Accounts \ {c})
    BY <1>4, <1>6, AccountsFinite, SumPeels
  <2>2. SumOn(balance, Accounts \ {c}) = SumOn(balance, W)
    <3>1. IsFiniteSet(Accounts \ {c})
      BY AccountsFinite, FS_RemoveElement
    <3>2. W \in SUBSET (Accounts \ {c})
      BY <1>3, <1>4
    <3>3. \A a \in (Accounts \ {c}) \ W : balance[a] = 0
      BY <1>5
    <3> HIDE DEF W, c
    <3> QED BY <1>6, <3>1, <3>2, <3>3, SumOfSupport
  <2>3. SumOn(balance, W) = SumOn(Opening, Users)
    <3> DEFINE m == [u \in Users |-> Wallet(u)]
    <3>1. W = {m[u] : u \in Users}
      OBVIOUS
    <3>2. \A u, v \in Users : m[u] = m[v] => u = v
      BY AccountNames
    <3>3. \A u \in Users : balance[m[u]] = Opening[u]
      BY <1>3
    <3> HIDE DEF m
    <3>4. SumOn(balance, {m[u] : u \in Users}) = SumOn(Opening, Users)
      BY <3>2, <3>3, LedgerAssumption, SumReindexes
    <3> QED BY <3>1, <3>4
  <2>4. SumOn(balance, Accounts) = 0
    BY <1>1, <1>2, <1>4, <2>1, <2>2, <2>3
  <2> QED BY <1>7, <2>4 DEF BooksBalance, SumFunction, SumOn
<1> QED BY <1>8, <1>9, <1>10 DEF LedgerInv

-----------------------------------------------------------------------------
(* A posting.                                                              *)

\* A posting keeps the types (post: balances and transaction together).
LEMMA RecordType ==
  ASSUME LedgerTypeOK, NEW kind \in Kinds, NEW ref \in References,
         NEW entries, IsEntryList(entries), Record(kind, ref, entries)
  PROVE  LedgerTypeOK'
BY DEF LedgerTypeOK, Record, IsEntryList

\* A posting that the wallets can pay leaves none in the red.
LEMMA RecordCovered ==
  ASSUME LedgerTypeOK, WalletsNonNegative, NEW kind, NEW ref,
         NEW entries, Covered(entries), Record(kind, ref, entries)
  PROVE  WalletsNonNegative'
<1> SUFFICES ASSUME NEW u \in Users PROVE balance'[Wallet(u)] >= 0
  BY DEF WalletsNonNegative, Wallet
<1> DEFINE w == Wallet(u)
<1>1. w \in Accounts /\ w[1] = "user_wallet"
  BY AccountNames
<1>2. balance[w] \in Int /\ balance[w] >= 0
  BY <1>1 DEF LedgerTypeOK, WalletsNonNegative
<1>3. balance'[w] = balance[w] + IF w \in DOMAIN entries THEN entries[w] ELSE 0
  BY <1>1 DEF Record
<1>4. CASE w \in DOMAIN entries
  BY <1>1, <1>3, <1>4 DEF Covered
<1>5. CASE w \notin DOMAIN entries
  BY <1>2, <1>3, <1>5
<1> QED BY <1>4, <1>5

\* Entries that add up to nothing leave the books as balanced as they were.
LEMMA RecordBalanced ==
  ASSUME LedgerTypeOK, BooksBalance, NEW kind, NEW ref, NEW entries,
         IsEntryList(entries), SumFunction(entries) = 0,
         Record(kind, ref, entries)
  PROVE  BooksBalance'
<1> DEFINE moved == [a \in Accounts |-> IF a \in DOMAIN entries THEN entries[a] ELSE 0]
<1>1. \A a \in Accounts : /\ balance[a] \in Int /\ moved[a] \in Int
                          /\ balance'[a] = balance[a] + moved[a]
  BY DEF LedgerTypeOK, Record, IsEntryList
<1>2. DOMAIN balance = Accounts /\ DOMAIN balance' = Accounts
  BY DEF LedgerTypeOK, Record
<1>3. SumOn(balance, Accounts) = 0
  BY <1>2 DEF BooksBalance, SumFunction, SumOn
<1>4. SumOn(moved, Accounts) = 0
  <2>1. DOMAIN entries \in SUBSET Accounts
    BY DEF IsEntryList
  <2>2. \A a \in Accounts \ DOMAIN entries : moved[a] = 0
    OBVIOUS
  <2>3. \A a \in DOMAIN entries : moved[a] = entries[a]
    BY <2>1
  <2>4. IsFiniteSet(DOMAIN entries)
    BY <2>1, AccountsFinite, FS_Subset
  <2>5. SumOn(entries, DOMAIN entries) = 0
    BY DEF SumFunction, SumOn
  <2> HIDE DEF moved
  <2>6. SumOn(moved, Accounts) = SumOn(moved, DOMAIN entries)
    BY <1>1, <2>1, <2>2, AccountsFinite, SumOfSupport
  <2>7. SumOn(moved, DOMAIN entries) = SumOn(entries, DOMAIN entries)
    BY <2>3, <2>4, SumAgrees
  <2> QED BY <2>5, <2>6, <2>7
<1> HIDE DEF moved
<1>5. SumOn(balance', Accounts) = SumOn(balance, Accounts) + SumOn(moved, Accounts)
  BY <1>1, AccountsFinite, SumAdds
<1>6. SumOn(balance', Accounts) = 0
  BY <1>3, <1>4, <1>5
<1> QED BY <1>2, <1>6 DEF BooksBalance, SumFunction, SumOn

\* What a posting adds to the journal is that posting, and nothing goes.
LEMMA RecordJournal ==
  ASSUME NEW kind, NEW ref, NEW entries, Record(kind, ref, entries)
  PROVE  \A k, r : Posted(k, r)' <=> Posted(k, r) \/ (k = kind /\ r = ref)
BY DEF Record, Posted

\* post without `idempotent`.
LEMMA PostKeeps ==
  ASSUME LedgerInv, NEW kind \in Kinds, NEW ref \in References,
         NEW entries, IsEntryList(entries), Post(kind, ref, entries)
  PROVE  /\ LedgerInv'
         /\ \A k, r : Posted(k, r)' <=> Posted(k, r) \/ (k = kind /\ r = ref)
BY RecordType, RecordCovered, RecordBalanced, RecordJournal
DEF LedgerInv, Post, Acceptable, WellFormed

\* An untouched ledger.
LEMMA LedgerUntouched ==
  ASSUME LedgerInv, UNCHANGED ledgerVars
  PROVE  LedgerInv' /\ \A k, r : Posted(k, r)' <=> Posted(k, r)
BY DEF LedgerInv, ledgerVars, LedgerTypeOK, WalletsNonNegative, BooksBalance,
       Posted, Wallet

\* post with `idempotent`: the same of a posting that is made or found.
LEMMA PostOnceKeeps ==
  ASSUME LedgerInv, NEW kind \in Kinds, NEW ref \in References,
         NEW entries, IsEntryList(entries), PostOnce(kind, ref, entries)
  PROVE  /\ LedgerInv'
         /\ \A k, r : Posted(k, r)' <=> Posted(k, r) \/ (k = kind /\ r = ref)
<1>1. CASE Posted(kind, ref)
  <2>1. UNCHANGED ledgerVars
    BY <1>1 DEF PostOnce
  <2> QED BY <1>1, <2>1, LedgerUntouched
<1>2. CASE ~Posted(kind, ref)
  <2>1. WellFormed(entries) /\ Covered(entries) /\ Record(kind, ref, entries)
    BY <1>2 DEF PostOnce, Refused
  <2> QED
    BY <2>1, RecordType, RecordCovered, RecordBalanced, RecordJournal
    DEF LedgerInv, WellFormed
<1> QED BY <1>1, <1>2
=============================================================================
