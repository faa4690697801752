----------------------------- MODULE SumLemmas -----------------------------
(***************************************************************************)
(* Lemmas about SumFunctionOnSet for the modules that add up amounts: a    *)
(* sum exists, does not depend on the order of its indices, and changes by *)
(* the one term that changes.  Each claim is proved by looking at a        *)
(* smallest set of indices for which it fails.                             *)
(***************************************************************************)
EXTENDS Integers, FiniteSetsExt, FiniteSetTheorems, WellFoundedInduction, TLAPS

-----------------------------------------------------------------------------
(* Sums over finite sets.                                                  *)

\* The index that the recursion of a sum takes next.
Pick(s) == CHOOSE x \in s : TRUE

\* The recursion of SumFunctionOnSet, as a function of the subsets of S.
Recursion(f, S, iter) ==
    iter = [s \in SUBSET S |->
              IF s = {} THEN 0 ELSE f[Pick(s)] + iter[s \ {Pick(s)}]]

SumsOf(f, S) == CHOOSE iter : Recursion(f, S, iter)

\* A sum is the value of that recursion at its whole set of indices.
LEMMA SumUnfolded ==
    ASSUME NEW f, NEW S
    PROVE  SumFunctionOnSet(f, S) = SumsOf(f, S)[S]
BY DEF SumFunctionOnSet, FoldFunctionOnSet, MapThenFoldSet, SumsOf, Recursion, Pick

\* A non-empty set of subsets of a finite set has a smallest member.
LEMMA MinimalSubset ==
    ASSUME NEW S, IsFiniteSet(S), NEW B, B \subseteq SUBSET S, B # {}
    PROVE  \E T \in B : \A U \in B : U \subseteq T => U = T
<1>1. B \subseteq FiniteSubsetsOf(S)
  BY FS_FiniteSubsetsOfFinite
<1>2. PICK T \in B : \A U \in B : ~ (<<U, T>> \in StrictSubsetOrdering(S))
  BY <1>1, FS_StrictSubsetOrderingWellFounded, WFMin
<1> QED BY <1>2 DEF StrictSubsetOrdering

\* The index taken is one of the indices.
LEMMA PickIn ==
    ASSUME NEW s, s # {}
    PROVE  Pick(s) \in s
BY DEF Pick

\* Recursions over S and over a superset of S agree at S.
LEMMA SumsUnique ==
    ASSUME NEW f, NEW S, IsFiniteSet(S), NEW g, NEW h, Recursion(f, S, g),
           NEW T, S \subseteq T, Recursion(f, T, h)
    PROVE  g[S] = h[S]
<1> DEFINE B == {s \in SUBSET S : g[s] # h[s]}
<1>1. SUFFICES ASSUME B # {} PROVE FALSE
  OBVIOUS
<1>2. PICK s \in B : \A u \in B : u \subseteq s => u = s
  <2> HIDE DEF B
  <2>1. B \subseteq SUBSET S
    BY DEF B
  <2> QED BY <1>1, <2>1, MinimalSubset
<1>3. g[s] = (IF s = {} THEN 0 ELSE f[Pick(s)] + g[s \ {Pick(s)}])
  BY <1>2 DEF Recursion
<1>4. h[s] = (IF s = {} THEN 0 ELSE f[Pick(s)] + h[s \ {Pick(s)}])
  BY <1>2 DEF Recursion
<1>5. CASE s = {}
  BY <1>2, <1>3, <1>4, <1>5
<1>6. CASE s # {}
  <2>1. s \ {Pick(s)} \notin B
    BY <1>2, <1>6, PickIn
  <2>2. g[s \ {Pick(s)}] = h[s \ {Pick(s)}]
    BY <2>1, <1>2
  <2> QED BY <1>2, <1>3, <1>4, <1>6, <2>2
<1> QED BY <1>5, <1>6

\* The recursion has a solution.
LEMMA SumsExist ==
    ASSUME NEW f, NEW S, IsFiniteSet(S)
    PROVE  Recursion(f, S, SumsOf(f, S))
<1> DEFINE Good(s) == \E iter : Recursion(f, s, iter)
           B == {s \in SUBSET S : ~Good(s)}
<1>1. SUFFICES ASSUME B # {} PROVE FALSE
  BY DEF SumsOf
<1>2. PICK T \in B : \A u \in B : u \subseteq T => u = T
  <2> HIDE DEF B
  <2>1. B \subseteq SUBSET S
    BY DEF B
  <2> QED BY <1>1, <2>1, MinimalSubset
<1>3. IsFiniteSet(T)
  BY <1>2, FS_Subset
<1>4. \A s \in SUBSET T : s # T => Recursion(f, s, SumsOf(f, s)) /\ IsFiniteSet(s)
  BY <1>2, <1>3, FS_Subset DEF SumsOf
<1> DEFINE rest(s) == s \ {Pick(s)}
           h == [s \in SUBSET T |->
                   IF s = {} THEN 0 ELSE f[Pick(s)] + SumsOf(f, rest(s))[rest(s)]]
<1>5. ASSUME NEW u \in SUBSET T, u # T PROVE h[u] = SumsOf(f, u)[u]
  <2>1. SumsOf(f, u)[u] = IF u = {} THEN 0 ELSE f[Pick(u)] + SumsOf(f, u)[rest(u)]
    BY <1>4, <1>5 DEF Recursion
  <2>2. CASE u = {}
    BY <2>1, <2>2
  <2>3. CASE u # {}
    <3>1. rest(u) \in SUBSET T /\ rest(u) # T /\ rest(u) \subseteq u
      BY <1>5, <2>3, PickIn
    <3>2. SumsOf(f, rest(u))[rest(u)] = SumsOf(f, u)[rest(u)]
      <4> HIDE DEF rest, h
      <4> QED BY <1>4, <1>5, <3>1, SumsUnique
    <3> QED BY <2>1, <2>3, <3>2
  <2> QED BY <2>2, <2>3
<1>6. \A s \in SUBSET T : s # {} => h[rest(s)] = SumsOf(f, rest(s))[rest(s)]
  <2> TAKE s \in SUBSET T
  <2> HAVE s # {}
  <2>1. rest(s) \in SUBSET T /\ rest(s) # T
    BY PickIn
  <2> HIDE DEF h, rest
  <2> QED BY <1>5, <2>1
<1>7. \A s \in SUBSET T :
        (IF s = {} THEN 0 ELSE f[Pick(s)] + SumsOf(f, rest(s))[rest(s)])
        = IF s = {} THEN 0 ELSE f[Pick(s)] + h[s \ {Pick(s)}]
  BY <1>6
<1>8. Recursion(f, T, h)
  BY <1>7 DEF Recursion
<1> QED BY <1>2, <1>8

\* A sum of nothing is zero.
LEMMA SumEmpty ==
    ASSUME NEW f
    PROVE  SumFunctionOnSet(f, {}) = 0
<1>1. Recursion(f, {}, SumsOf(f, {}))
  BY SumsExist, FS_EmptySet
<1>2. SumsOf(f, {})[{}] = 0
  BY <1>1 DEF Recursion
<1>3. SumFunctionOnSet(f, {}) = SumsOf(f, {})[{}]
  BY SumUnfolded
<1> QED BY <1>2, <1>3

\* A sum is the term of the index taken and the sum of the rest.
LEMMA SumPick ==
    ASSUME NEW f, NEW S, IsFiniteSet(S), S # {}
    PROVE  SumFunctionOnSet(f, S) = f[Pick(S)] + SumFunctionOnSet(f, S \ {Pick(S)})
<1> DEFINE R == S \ {Pick(S)}
<1>0. Recursion(f, S, SumsOf(f, S))
  BY SumsExist
<1>1. SumsOf(f, S)[S] = f[Pick(S)] + SumsOf(f, S)[R]
  BY <1>0 DEF Recursion
<1>2. IsFiniteSet(R) /\ R \subseteq S
  BY FS_Subset
<1>3. Recursion(f, S, SumsOf(f, S)) /\ Recursion(f, R, SumsOf(f, R))
  <2> HIDE DEF R
  <2> QED BY <1>2, SumsExist
<1>4. SumsOf(f, R)[R] = SumsOf(f, S)[R]
  <2> HIDE DEF R
  <2> QED BY <1>2, <1>3, SumsUnique
<1> QED BY <1>1, <1>4, SumUnfolded

-----------------------------------------------------------------------------
(* What a sum is, and how it changes.                                      *)

\* A sum stays in any set that has 0, the terms, and the sums of its members.
LEMMA SumIn ==
    ASSUME NEW S, IsFiniteSet(S), NEW f, NEW V, 0 \in V, \A a, b \in V : a + b \in V,
           \A x \in S : f[x] \in V, NEW T \in SUBSET S
    PROVE  SumFunctionOnSet(f, T) \in V
<1> DEFINE B == {s \in SUBSET S : SumFunctionOnSet(f, s) \notin V}
<1>1. SUFFICES ASSUME B # {} PROVE FALSE
  OBVIOUS
<1>2. PICK s \in B : \A u \in B : u \subseteq s => u = s
  <2> HIDE DEF B
  <2>1. B \subseteq SUBSET S
    BY DEF B
  <2> QED BY <1>1, <2>1, MinimalSubset
<1>3. s # {}
  <2>1. SumFunctionOnSet(f, {}) \in V
    BY SumEmpty
  <2>2. SumFunctionOnSet(f, s) \notin V
    BY <1>2
  <2> QED BY <2>1, <2>2, Zenon
<1>4. Pick(s) \in s /\ IsFiniteSet(s)
  BY <1>2, <1>3, PickIn, FS_Subset
<1>5. s \ {Pick(s)} \notin B
  BY <1>2, <1>4
<1>6. SumFunctionOnSet(f, s \ {Pick(s)}) \in V /\ f[Pick(s)] \in V
  BY <1>2, <1>4, <1>5
<1>7. SumFunctionOnSet(f, s) = f[Pick(s)] + SumFunctionOnSet(f, s \ {Pick(s)})
  BY <1>3, <1>4, SumPick
<1> QED BY <1>2, <1>6, <1>7

\* A sum of integers is one.
LEMMA SumType ==
    ASSUME NEW S, IsFiniteSet(S), NEW f, \A x \in S : f[x] \in Int
    PROVE  SumFunctionOnSet(f, S) \in Int
<1>1. 0 \in Int /\ \A a, b \in Int : a + b \in Int
  OBVIOUS
<1> QED BY <1>1, SumIn

\* A sum of zeros is zero.
LEMMA SumZero ==
    ASSUME NEW S, IsFiniteSet(S), NEW f, \A x \in S : f[x] = 0
    PROVE  SumFunctionOnSet(f, S) = 0
<1> DEFINE V == {0}
<1>1. 0 \in V /\ (\A a, b \in V : a + b \in V) /\ \A x \in S : f[x] \in V
  OBVIOUS
<1>2. SumFunctionOnSet(f, S) \in V
  <2> HIDE DEF V
  <2> QED BY <1>1, SumIn
<1> QED BY <1>2

\* A sum does not depend on the order in which the recursion takes its terms.
LEMMA SumRemove ==
    ASSUME NEW S, IsFiniteSet(S), NEW f, \A x \in S : f[x] \in Int, NEW y \in S
    PROVE  SumFunctionOnSet(f, S) = f[y] + SumFunctionOnSet(f, S \ {y})
<1> DEFINE Bad(s) == \E x \in s : SumFunctionOnSet(f, s) # f[x] + SumFunctionOnSet(f, s \ {x})
           B == {s \in SUBSET S : Bad(s)}
<1>1. SUFFICES ASSUME B # {} PROVE FALSE
  OBVIOUS
<1>2. PICK s \in B : \A u \in B : u \subseteq s => u = s
  <2> HIDE DEF B
  <2>1. B \subseteq SUBSET S
    BY DEF B
  <2> QED BY <1>1, <2>1, MinimalSubset
<1>3. PICK x \in s : SumFunctionOnSet(f, s) # f[x] + SumFunctionOnSet(f, s \ {x})
  BY <1>2
<1> DEFINE p == Pick(s)
<1>4. s # {} /\ p \in s /\ IsFiniteSet(s) /\ s \subseteq S
  BY <1>2, <1>3, PickIn, FS_Subset
<1>5. SumFunctionOnSet(f, s) = f[p] + SumFunctionOnSet(f, s \ {p})
  BY <1>4, SumPick
<1>6. p # x
  BY <1>3, <1>5
<1> HIDE DEF p
<1>7. ~Bad(s \ {p}) /\ ~Bad(s \ {x})
  <2>1. s \ {p} \notin B /\ s \ {x} \notin B
    BY <1>2, <1>3, <1>4
  <2> QED BY <1>4, <2>1
<1>8. /\ SumFunctionOnSet(f, s \ {p}) = f[x] + SumFunctionOnSet(f, (s \ {p}) \ {x})
      /\ SumFunctionOnSet(f, s \ {x}) = f[p] + SumFunctionOnSet(f, (s \ {x}) \ {p})
  BY <1>3, <1>4, <1>6, <1>7
<1>9. SumFunctionOnSet(f, (s \ {p}) \ {x}) = SumFunctionOnSet(f, (s \ {x}) \ {p})
  <2>1. (s \ {p}) \ {x} = (s \ {x}) \ {p}
    OBVIOUS
  <2> QED BY <2>1, Zenon
<1>10. SumFunctionOnSet(f, (s \ {x}) \ {p}) \in Int
  <2>1. IsFiniteSet((s \ {x}) \ {p}) /\ (s \ {x}) \ {p} \subseteq S
    BY <1>4, FS_Subset
  <2> QED BY <2>1, SumType
<1>11. f[p] \in Int /\ f[x] \in Int
  BY <1>3, <1>4
<1>12. \A a, b, c \in Int : a + (b + c) = b + (a + c)
  OBVIOUS
<1>13. SumFunctionOnSet(f, s) = f[x] + SumFunctionOnSet(f, s \ {x})
  <2> HIDE DEF B
  <2> QED BY <1>5, <1>8, <1>9, <1>10, <1>11, <1>12
<1> QED BY <1>3, <1>13

\* It depends on the terms over its indices only.
LEMMA SumCong ==
    ASSUME NEW S, IsFiniteSet(S), NEW f, NEW g, \A x \in S : f[x] = g[x]
    PROVE  SumFunctionOnSet(f, S) = SumFunctionOnSet(g, S)
<1> DEFINE B == {s \in SUBSET S : SumFunctionOnSet(f, s) # SumFunctionOnSet(g, s)}
<1>1. SUFFICES ASSUME B # {} PROVE FALSE
  OBVIOUS
<1>2. PICK s \in B : \A u \in B : u \subseteq s => u = s
  <2> HIDE DEF B
  <2>1. B \subseteq SUBSET S
    BY DEF B
  <2> QED BY <1>1, <2>1, MinimalSubset
<1>3. s # {}
  BY <1>2, SumEmpty
<1>4. Pick(s) \in s /\ IsFiniteSet(s)
  BY <1>2, <1>3, PickIn, FS_Subset
<1>5. s \ {Pick(s)} \notin B
  BY <1>2, <1>4
<1>6. SumFunctionOnSet(f, s \ {Pick(s)}) = SumFunctionOnSet(g, s \ {Pick(s)})
  BY <1>2, <1>5
<1>7. f[Pick(s)] = g[Pick(s)]
  BY <1>2, <1>4
<1> QED BY <1>2, <1>3, <1>4, <1>6, <1>7, SumPick

\* Changing one term changes the sum by as much.
LEMMA SumChange ==
    ASSUME NEW S, IsFiniteSet(S), NEW y \in S, NEW f, NEW g,
           \A x \in S : f[x] \in Int /\ g[x] \in Int,
           \A x \in S \ {y} : f[x] = g[x]
    PROVE  SumFunctionOnSet(g, S) = SumFunctionOnSet(f, S) + g[y] - f[y]
<1>1. IsFiniteSet(S \ {y})
  BY FS_Subset
<1>2. SumFunctionOnSet(f, S \ {y}) = SumFunctionOnSet(g, S \ {y})
  BY <1>1, SumCong
<1>3. SumFunctionOnSet(f, S \ {y}) \in Int
  BY <1>1, SumType
<1>4. /\ SumFunctionOnSet(f, S) = f[y] + SumFunctionOnSet(f, S \ {y})
      /\ SumFunctionOnSet(g, S) = g[y] + SumFunctionOnSet(g, S \ {y})
  BY SumRemove
<1>5. f[y] \in Int /\ g[y] \in Int
  OBVIOUS
<1> QED BY <1>2, <1>3, <1>4, <1>5

\* An index that is new adds its term.
LEMMA SumAppend ==
    ASSUME NEW S, IsFiniteSet(S), NEW y, y \notin S, NEW f, NEW g,
           \A x \in S : f[x] \in Int, \A x \in S \cup {y} : g[x] \in Int,
           \A x \in S : f[x] = g[x]
    PROVE  SumFunctionOnSet(g, S \cup {y}) = SumFunctionOnSet(f, S) + g[y]
<1>1. IsFiniteSet(S \cup {y}) /\ (S \cup {y}) \ {y} = S
  BY FS_AddElement
<1>2. SumFunctionOnSet(g, S \cup {y}) = g[y] + SumFunctionOnSet(g, S)
  BY <1>1, SumRemove
<1>3. SumFunctionOnSet(g, S) = SumFunctionOnSet(f, S) /\ SumFunctionOnSet(f, S) \in Int
  BY SumCong, SumType
<1> QED BY <1>2, <1>3

\* A sum of natural numbers is one.
LEMMA SumOfNaturals ==
    ASSUME NEW S, IsFiniteSet(S), NEW f, \A x \in S : f[x] \in Nat
    PROVE  SumFunctionOnSet(f, S) \in Nat
<1>1. 0 \in Nat /\ \A a, b \in Nat : a + b \in Nat
  OBVIOUS
<1> QED BY <1>1, SumIn

\* Of natural numbers, a part of the terms is not more than all of them.
LEMMA SumSubset ==
    ASSUME NEW S, IsFiniteSet(S), NEW f, \A x \in S : f[x] \in Nat, NEW T \in SUBSET S
    PROVE  SumFunctionOnSet(f, T) <= SumFunctionOnSet(f, S)
<1> DEFINE More(s) == \E u \in SUBSET s : ~(SumFunctionOnSet(f, u) <= SumFunctionOnSet(f, s))
           B == {s \in SUBSET S : More(s)}
<1>0. ASSUME NEW s \in SUBSET S PROVE IsFiniteSet(s) /\ SumFunctionOnSet(f, s) \in Nat
  <2>1. IsFiniteSet(s)
    BY FS_Subset
  <2> QED BY <2>1, SumOfNaturals
<1>1. SUFFICES ASSUME B # {} PROVE FALSE
  OBVIOUS
<1>2. PICK s \in B : \A u \in B : u \subseteq s => u = s
  <2> HIDE DEF B
  <2>1. B \subseteq SUBSET S
    BY DEF B
  <2> QED BY <1>1, <2>1, MinimalSubset
<1>3. PICK u \in SUBSET s : ~(SumFunctionOnSet(f, u) <= SumFunctionOnSet(f, s))
  BY <1>2
<1>4. s \in SUBSET S /\ u \in SUBSET S
  BY <1>2, <1>3
<1>5. PICK y \in s : y \notin u
  <2>1. u # s
    BY <1>0, <1>3, <1>4
  <2> QED BY <1>3, <2>1
<1>6. s \ {y} \notin B
  BY <1>2, <1>5
<1>7. SumFunctionOnSet(f, u) <= SumFunctionOnSet(f, s \ {y})
  BY <1>3, <1>4, <1>5, <1>6
<1>8. SumFunctionOnSet(f, s) = f[y] + SumFunctionOnSet(f, s \ {y})
  <2>1. \A x \in s : f[x] \in Int
    BY <1>4
  <2> QED BY <1>0, <1>4, <1>5, <2>1, SumRemove
<1>9. f[y] \in Nat /\ s \ {y} \in SUBSET S
  BY <1>4, <1>5
<1> HIDE DEF B
<1> QED BY <1>0, <1>3, <1>4, <1>7, <1>8, <1>9

=============================================================================
