--------------------------------- MODULE Sums ---------------------------------
(***************************************************************************)
(* Sums over finite sets: what SumFunctionOnSet computes.  The fold of the *)
(* library picks the elements in an order of its own; the laws below say   *)
(* that the order does not matter, so that a sum can be taken apart at any *)
(* element.  The induction over the set is the argument of the least       *)
(* counterexample: a set of naturals that is not empty has a least element.*)
(***************************************************************************)
EXTENDS Integers, FiniteSets, Functions, FiniteSetTheorems, NaturalsInduction,
        WellFoundedInduction, TLAPS

(* The element the fold takes first.                                       *)
FirstOf(s) == CHOOSE x \in s : TRUE

(* g is the recursive function of the fold, on the sets of D.              *)
FoldOf(f, g, D) ==
    g = [s \in D |-> IF s = {} THEN 0 ELSE f[FirstOf(s)] + g[s \ {FirstOf(s)}]]

LEMMA FirstIn ==
    ASSUME NEW s, s # {}
    PROVE  FirstOf(s) \in s
BY DEF FirstOf

LEMMA SumIsFold ==
    ASSUME NEW f, NEW S
    PROVE  SumFunctionOnSet(f, S) = (CHOOSE g : FoldOf(f, g, SUBSET S))[S]
BY DEF SumFunctionOnSet, FoldFunctionOnSet, MapThenFoldSet, FoldOf, FirstOf

LEMMA LeastNatural ==
    ASSUME NEW T, T \subseteq Nat, T # {}
    PROVE  \E m \in T : \A n \in T : m <= n
<1> DEFINE R == OpToRel(<, Nat)
<1>1. IsWellFoundedOn(R, Nat)
  BY NatLessThanWellFounded
<1> HIDE DEF R
<1>2. PICK m \in T : \A n \in T : ~(<<n, m>> \in R)
  BY <1>1, WFMin
<1>3. ASSUME NEW n \in T PROVE m <= n
  <2>1. ~(n < m)
    BY <1>2 DEF R, OpToRel
  <2> QED
    BY <2>1
<1> QED
  BY <1>3

(* A set of sets that is not empty has a smallest member.                  *)
LEMMA SmallestSet ==
    ASSUME NEW B, B # {}, \A s \in B : IsFiniteSet(s)
    PROVE  \E s \in B : \A t \in B : ~(Cardinality(t) < Cardinality(s))
<1> DEFINE T == {Cardinality(s) : s \in B}
<1>1. T \subseteq Nat /\ T # {}
  BY FS_CardinalityType
<1>2. PICK m \in T : \A n \in T : m <= n
  BY <1>1, LeastNatural
<1>3. PICK s \in B : m = Cardinality(s)
  BY <1>2
<1>4. ASSUME NEW t \in B PROVE ~(Cardinality(t) < Cardinality(s))
  <2>1. Cardinality(t) \in Nat /\ Cardinality(s) \in Nat /\ m <= Cardinality(t)
    BY <1>1, <1>2
  <2> QED
    BY <1>3, <2>1
<1> QED
  BY <1>4

LEMMA Smaller ==
    ASSUME NEW s, IsFiniteSet(s), NEW x \in s
    PROVE  /\ IsFiniteSet(s \ {x}) /\ Cardinality(s) \in Nat
           /\ Cardinality(s \ {x}) = Cardinality(s) - 1
           /\ Cardinality(s \ {x}) < Cardinality(s)
<1>1. /\ IsFiniteSet(s \ {x}) /\ Cardinality(s) \in Nat
      /\ Cardinality(s \ {x}) = Cardinality(s) - 1
  BY FS_RemoveElement, FS_CardinalityType
<1> QED
  BY <1>1

(* Two folds agree on the sets they both have.                             *)
LEMMA FoldsAgree ==
    ASSUME NEW f, NEW g, NEW h, NEW S, NEW T,
           FoldOf(f, g, SUBSET S), FoldOf(f, h, SUBSET T),
           NEW s, s \subseteq S, s \subseteq T, IsFiniteSet(s)
    PROVE  g[s] = h[s]
<1> DEFINE B == {t \in SUBSET s : g[t] # h[t]}
<1> SUFFICES ASSUME B # {} PROVE FALSE
  OBVIOUS
<1>1. \A t \in B : IsFiniteSet(t)
  BY FS_Subset
<1>2. PICK t \in B : \A u \in B : ~(Cardinality(u) < Cardinality(t))
  BY <1>1, SmallestSet
<1>3. t \in SUBSET S /\ t \in SUBSET T /\ IsFiniteSet(t) /\ g[t] # h[t]
  BY <1>1, <1>2
<1>4. /\ g[t] = IF t = {} THEN 0 ELSE f[FirstOf(t)] + g[t \ {FirstOf(t)}]
      /\ h[t] = IF t = {} THEN 0 ELSE f[FirstOf(t)] + h[t \ {FirstOf(t)}]
  BY <1>3 DEF FoldOf
<1>5. CASE t = {}
  BY <1>3, <1>4, <1>5
<1>6. CASE t # {}
  <2>1. FirstOf(t) \in t
    BY <1>6, FirstIn
  <2>2. Cardinality(t \ {FirstOf(t)}) < Cardinality(t)
    BY <1>3, <2>1, Smaller
  <2>3. t \ {FirstOf(t)} \notin B /\ t \ {FirstOf(t)} \in SUBSET s
    BY <1>2, <2>2
  <2>4. g[t \ {FirstOf(t)}] = h[t \ {FirstOf(t)}]
    BY <2>3
  <2> QED
    BY <1>3, <1>4, <1>6, <2>4
<1> QED
  BY <1>5, <1>6

(* The fold exists.                                                        *)
LEMMA FoldExists ==
    ASSUME NEW f, NEW S, IsFiniteSet(S)
    PROVE  \E g : FoldOf(f, g, SUBSET S)
<1> DEFINE Small(n) == {t \in SUBSET S : Cardinality(t) <= n}
           Good(n) == \E g : FoldOf(f, g, Small(n))
           B == {n \in Nat : ~Good(n)}
<1>0. \A t \in SUBSET S : IsFiniteSet(t) /\ Cardinality(t) \in Nat
  BY FS_Subset, FS_CardinalityType
<1>1. ASSUME B # {} PROVE FALSE
  <2>1. PICK n \in B : \A k \in B : n <= k
    BY <1>1, LeastNatural
  <2>2. n \in Nat /\ ~Good(n)
    BY <2>1
  <2>3. CASE n = 0
    <3>1. \A t \in Small(0) : t = {}
      BY <1>0, FS_EmptySet
    <3> DEFINE g == [t \in Small(0) |-> 0]
    <3>2. FoldOf(f, g, Small(0))
      BY <3>1 DEF FoldOf
    <3> QED
      BY <2>2, <2>3, <3>2
  <2>4. CASE n # 0
    <3>1. n - 1 \in Nat /\ ~(n <= n - 1)
      BY <2>2, <2>4
    <3>2. Good(n - 1)
      BY <2>1, <3>1
    <3>3. PICK g : FoldOf(f, g, Small(n - 1))
      BY <3>2
    <3> DEFINE h == [t \in Small(n) |->
                        IF t = {} THEN 0 ELSE f[FirstOf(t)] + g[t \ {FirstOf(t)}]]
    <3>4. \A t \in Small(n - 1) : t \in Small(n)
      BY <1>0, <3>1
    <3>5. \A t \in Small(n - 1) : h[t] = g[t]
      BY <3>3, <3>4 DEF FoldOf
    <3>6. ASSUME NEW t \in Small(n), t # {}
          PROVE  t \ {FirstOf(t)} \in Small(n - 1)
      <4>1. FirstOf(t) \in t /\ t \in SUBSET S /\ IsFiniteSet(t) /\ Cardinality(t) <= n
        BY <1>0, <3>6, FirstIn
      <4>2. /\ Cardinality(t) \in Nat
            /\ Cardinality(t \ {FirstOf(t)}) = Cardinality(t) - 1
        BY <4>1, Smaller
      <4>3. Cardinality(t \ {FirstOf(t)}) <= n - 1
        BY <2>2, <4>1, <4>2
      <4> QED
        BY <4>1, <4>3
    <3>7. \A t \in Small(n) : h[t] =
              IF t = {} THEN 0 ELSE f[FirstOf(t)] + h[t \ {FirstOf(t)}]
      BY <3>5, <3>6
    <3>8. h = [t \in Small(n) |-> IF t = {} THEN 0 ELSE f[FirstOf(t)] + h[t \ {FirstOf(t)}]]
      BY <3>7
    <3> HIDE DEF h, Small
    <3>9. FoldOf(f, h, Small(n))
      BY <3>8 DEF FoldOf
    <3> QED
      BY <2>2, <3>9
  <2> QED
    BY <2>3, <2>4
<1>2. Cardinality(S) \in Nat
  BY FS_CardinalityType
<1>3. Good(Cardinality(S))
  BY <1>1, <1>2
<1>4. Small(Cardinality(S)) = SUBSET S
  BY FS_Subset
<1> QED
  BY <1>3, <1>4

(* A sum is 0 over the empty set, and otherwise what the first element     *)
(* adds to the sum over the others.                                        *)
LEMMA SumByFirst ==
    ASSUME NEW f, NEW S, IsFiniteSet(S)
    PROVE  SumFunctionOnSet(f, S) =
               IF S = {} THEN 0
               ELSE f[FirstOf(S)] + SumFunctionOnSet(f, S \ {FirstOf(S)})
<1> DEFINE g == CHOOSE g : FoldOf(f, g, SUBSET S)
           T == S \ {FirstOf(S)}
           h == CHOOSE h : FoldOf(f, h, SUBSET T)
<1>1. IsFiniteSet(T) /\ T \subseteq S
  BY FS_Subset
<1>2. FoldOf(f, g, SUBSET S)
  BY FoldExists
<1>3. FoldOf(f, h, SUBSET T)
  BY <1>1, FoldExists
<1>4. SumFunctionOnSet(f, S) = g[S] /\ SumFunctionOnSet(f, T) = h[T]
  BY SumIsFold
<1> HIDE DEF g, h, T
<1>5. g[T] = h[T]
  BY <1>1, <1>2, <1>3, FoldsAgree
<1>6. g[S] = IF S = {} THEN 0 ELSE f[FirstOf(S)] + g[T]
  BY <1>2 DEF FoldOf, T
<1> QED
  BY <1>4, <1>5, <1>6 DEF T

LEMMA SumEmpty ==
    ASSUME NEW f
    PROVE  SumFunctionOnSet(f, {}) = 0
BY SumByFirst, FS_EmptySet

(* A sum of integers is an integer, and a sum of naturals a natural.       *)
LEMMA SumType ==
    ASSUME NEW f, NEW S, IsFiniteSet(S), NEW N, N = Int \/ N = Nat, \A x \in S : f[x] \in N
    PROVE  SumFunctionOnSet(f, S) \in N
<1> DEFINE B == {t \in SUBSET S : SumFunctionOnSet(f, t) \notin N}
<1> SUFFICES ASSUME B # {} PROVE FALSE
  OBVIOUS
<1>1. \A t \in B : IsFiniteSet(t)
  BY FS_Subset
<1>2. PICK t \in B : \A u \in B : ~(Cardinality(u) < Cardinality(t))
  BY <1>1, SmallestSet
<1>3. t \in SUBSET S /\ IsFiniteSet(t) /\ SumFunctionOnSet(f, t) \notin N
  BY <1>1, <1>2
<1>4. t # {}
  BY <1>3, SumEmpty
<1>5. FirstOf(t) \in t
  BY <1>4, FirstIn
<1>6. Cardinality(t \ {FirstOf(t)}) < Cardinality(t)
  BY <1>3, <1>5, Smaller
<1>7. SumFunctionOnSet(f, t \ {FirstOf(t)}) \in N
  BY <1>2, <1>3, <1>6
<1>8. SumFunctionOnSet(f, t) = f[FirstOf(t)] + SumFunctionOnSet(f, t \ {FirstOf(t)})
  BY <1>3, <1>4, SumByFirst
<1>9. f[FirstOf(t)] \in N
  BY <1>3, <1>5
<1> QED
  BY <1>3, <1>7, <1>8, <1>9

(* A sum can be taken apart at any element.                                *)
LEMMA SumAt ==
    ASSUME NEW f, NEW S, IsFiniteSet(S), \A y \in S : f[y] \in Int, NEW x \in S
    PROVE  SumFunctionOnSet(f, S) = f[x] + SumFunctionOnSet(f, S \ {x})
<1> DEFINE B == {t \in SUBSET S : \E y \in t :
                    SumFunctionOnSet(f, t) # f[y] + SumFunctionOnSet(f, t \ {y})}
<1> SUFFICES ASSUME B # {} PROVE FALSE
  OBVIOUS
<1>1. \A t \in B : IsFiniteSet(t)
  BY FS_Subset
<1>2. PICK t \in B : \A u \in B : ~(Cardinality(u) < Cardinality(t))
  BY <1>1, SmallestSet
<1>3. t \in SUBSET S /\ IsFiniteSet(t)
  BY <1>1, <1>2
<1>4. PICK y \in t : SumFunctionOnSet(f, t) # f[y] + SumFunctionOnSet(f, t \ {y})
  BY <1>2
<1>5. PICK c \in t : c = FirstOf(t)
  BY <1>4, FirstIn
<1>6. SumFunctionOnSet(f, t) = f[c] + SumFunctionOnSet(f, t \ {c})
  BY <1>3, <1>4, <1>5, SumByFirst
<1>7. c # y
  BY <1>4, <1>6
<1>8. /\ t \ {c} \notin B /\ t \ {c} \in SUBSET S
      /\ t \ {y} \notin B /\ t \ {y} \in SUBSET S
  BY <1>2, <1>3, Smaller
<1>9. SumFunctionOnSet(f, t \ {c}) = f[y] + SumFunctionOnSet(f, (t \ {c}) \ {y})
  BY <1>7, <1>8
<1>10. SumFunctionOnSet(f, t \ {y}) = f[c] + SumFunctionOnSet(f, (t \ {y}) \ {c})
  BY <1>7, <1>8
<1>11. (t \ {c}) \ {y} = (t \ {y}) \ {c}
  OBVIOUS
<1>12. /\ f[c] \in Int /\ f[y] \in Int
       /\ SumFunctionOnSet(f, (t \ {y}) \ {c}) \in Int
  <2>1. (t \ {y}) \ {c} \in SUBSET S /\ IsFiniteSet((t \ {y}) \ {c})
    BY <1>3, FS_Subset
  <2>2. \A z \in (t \ {y}) \ {c} : f[z] \in Int
    BY <2>1
  <2> QED
    BY <1>3, <2>1, <2>2, SumType
<1>13. PICK k \in Int : k = SumFunctionOnSet(f, (t \ {y}) \ {c})
  BY <1>12
<1>14. SumFunctionOnSet(f, t) = f[c] + (f[y] + k)
  BY <1>6, <1>9, <1>11, <1>13
<1>15. SumFunctionOnSet(f, t \ {y}) = f[c] + k
  BY <1>10, <1>13
<1>16. f[c] + (f[y] + k) = f[y] + (f[c] + k)
  BY <1>12
<1> QED
  BY <1>4, <1>14, <1>15, <1>16

(* What a new element adds.                                                *)
LEMMA SumAdd ==
    ASSUME NEW f, NEW S, IsFiniteSet(S), NEW x, x \notin S, \A y \in S \cup {x} : f[y] \in Int
    PROVE  SumFunctionOnSet(f, S \cup {x}) = SumFunctionOnSet(f, S) + f[x]
<1>1. IsFiniteSet(S \cup {x}) /\ x \in S \cup {x} /\ (S \cup {x}) \ {x} = S
  BY FS_AddElement
<1>2. SumFunctionOnSet(f, S \cup {x}) = f[x] + SumFunctionOnSet(f, S)
  BY <1>1, SumAt
<1>3. SumFunctionOnSet(f, S) \in Int /\ f[x] \in Int
  BY SumType
<1> QED
  BY <1>2, <1>3

(* Functions that agree on the set have the same sum.                      *)
LEMMA SumSame ==
    ASSUME NEW f, NEW g, NEW S, IsFiniteSet(S), \A x \in S : f[x] = g[x]
    PROVE  SumFunctionOnSet(f, S) = SumFunctionOnSet(g, S)
<1> DEFINE B == {t \in SUBSET S : SumFunctionOnSet(f, t) # SumFunctionOnSet(g, t)}
<1> SUFFICES ASSUME B # {} PROVE FALSE
  OBVIOUS
<1>1. \A t \in B : IsFiniteSet(t)
  BY FS_Subset
<1>2. PICK t \in B : \A u \in B : ~(Cardinality(u) < Cardinality(t))
  BY <1>1, SmallestSet
<1>3. t \in SUBSET S /\ IsFiniteSet(t) /\ SumFunctionOnSet(f, t) # SumFunctionOnSet(g, t)
  BY <1>1, <1>2
<1>4. t # {}
  BY <1>3, SumEmpty
<1>5. FirstOf(t) \in t
  BY <1>4, FirstIn
<1>6. Cardinality(t \ {FirstOf(t)}) < Cardinality(t)
  BY <1>3, <1>5, Smaller
<1>7. SumFunctionOnSet(f, t \ {FirstOf(t)}) = SumFunctionOnSet(g, t \ {FirstOf(t)})
  BY <1>2, <1>3, <1>6
<1>8. /\ SumFunctionOnSet(f, t) = f[FirstOf(t)] + SumFunctionOnSet(f, t \ {FirstOf(t)})
      /\ SumFunctionOnSet(g, t) = g[FirstOf(t)] + SumFunctionOnSet(g, t \ {FirstOf(t)})
  BY <1>3, <1>4, SumByFirst
<1>9. f[FirstOf(t)] = g[FirstOf(t)]
  BY <1>3, <1>5
<1> QED
  BY <1>3, <1>7, <1>8, <1>9

(* Without negative terms a part is no more than the whole.                *)
LEMMA SumPart ==
    ASSUME NEW f, NEW S, IsFiniteSet(S), \A x \in S : f[x] \in Nat, NEW T, T \subseteq S
    PROVE  SumFunctionOnSet(f, T) <= SumFunctionOnSet(f, S)
<1> DEFINE B == {t \in SUBSET S : ~(SumFunctionOnSet(f, t \cap T) <= SumFunctionOnSet(f, t))}
<1>0. S \cap T = T
  OBVIOUS
<1> SUFFICES ASSUME B # {} PROVE FALSE
  BY <1>0
<1>1. \A t \in B : IsFiniteSet(t)
  BY FS_Subset
<1>2. PICK t \in B : \A u \in B : ~(Cardinality(u) < Cardinality(t))
  BY <1>1, SmallestSet
<1>3. /\ t \in SUBSET S /\ IsFiniteSet(t) /\ IsFiniteSet(t \cap T)
      /\ ~(SumFunctionOnSet(f, t \cap T) <= SumFunctionOnSet(f, t))
  BY <1>1, <1>2, FS_Subset
<1>4. t # {}
  BY <1>3, SumEmpty
<1>5. PICK x \in t : TRUE
  BY <1>4
<1>6. Cardinality(t \ {x}) < Cardinality(t) /\ IsFiniteSet(t \ {x})
  BY <1>3, <1>5, Smaller
<1> DEFINE u == t \ {x}
<1>7. SumFunctionOnSet(f, u \cap T) <= SumFunctionOnSet(f, u)
  BY <1>2, <1>3, <1>6
<1>8. SumFunctionOnSet(f, t) = f[x] + SumFunctionOnSet(f, u)
  BY <1>3, <1>5, SumAt
<1>9. /\ SumFunctionOnSet(f, u) \in Nat /\ f[x] \in Nat
      /\ SumFunctionOnSet(f, u \cap T) \in Nat
  <2>1. IsFiniteSet(u) /\ IsFiniteSet(u \cap T) /\ u \subseteq S /\ u \cap T \subseteq S
    BY <1>3, <1>6, FS_Subset
  <2>2. (\A z \in u : f[z] \in Nat) /\ \A z \in u \cap T : f[z] \in Nat
    BY <2>1
  <2> QED
    BY <1>3, <1>5, <2>1, <2>2, SumType
<1>10. CASE x \in T
  <2>1. x \in t \cap T /\ (t \cap T) \ {x} = u \cap T
    BY <1>5, <1>10
  <2>2. \A z \in t \cap T : f[z] \in Int
    BY <1>3
  <2>3. SumFunctionOnSet(f, t \cap T) = f[x] + SumFunctionOnSet(f, u \cap T)
    BY <1>3, <2>1, <2>2, SumAt
  <2> HIDE DEF u
  <2> QED
    BY <1>3, <1>7, <1>8, <1>9, <2>3
<1>11. CASE x \notin T
  <2>1. t \cap T = u \cap T
    BY <1>11
  <2>2. PICK k \in Nat : k = SumFunctionOnSet(f, u)
    BY <1>9
  <2>3. PICK j \in Nat : j = SumFunctionOnSet(f, u \cap T)
    BY <1>9
  <2>4. SumFunctionOnSet(f, t) = f[x] + k /\ SumFunctionOnSet(f, t \cap T) = j
    BY <1>8, <2>1, <2>2, <2>3
  <2>5. j <= f[x] + k
    BY <1>7, <1>9, <2>2, <2>3
  <2> QED
    BY <1>3, <2>4, <2>5
<1> QED
  BY <1>10, <1>11

(* What changing one term changes.                                         *)
LEMMA SumChange ==
    ASSUME NEW f, NEW g, NEW S, IsFiniteSet(S), NEW x \in S,
           \A y \in S : f[y] \in Int /\ g[y] \in Int,
           \A y \in S \ {x} : f[y] = g[y]
    PROVE  SumFunctionOnSet(g, S) = SumFunctionOnSet(f, S) - f[x] + g[x]
<1>1. IsFiniteSet(S \ {x})
  BY FS_Subset
<1>2. /\ SumFunctionOnSet(f, S) = f[x] + SumFunctionOnSet(f, S \ {x})
      /\ SumFunctionOnSet(g, S) = g[x] + SumFunctionOnSet(g, S \ {x})
  BY SumAt
<1>3. SumFunctionOnSet(f, S \ {x}) = SumFunctionOnSet(g, S \ {x})
  BY <1>1, SumSame
<1>4. SumFunctionOnSet(g, S \ {x}) \in Int
  BY <1>1, SumType
<1> QED
  BY <1>2, <1>3, <1>4

(* One more element, of which only the part in R is counted.               *)
LEMMA SumWithin ==
    ASSUME NEW f, NEW S, IsFiniteSet(S), NEW R, NEW x, x \notin S,
           \A y \in S \cup {x} : f[y] \in Int,
           NEW T, T = (S \cup {x}) \cap R, NEW U, U = S \cap R
    PROVE  SumFunctionOnSet(f, T) =
               SumFunctionOnSet(f, U) + (IF x \in R THEN f[x] ELSE 0)
<1>1. IsFiniteSet(S \cap R) /\ x \notin S \cap R
  BY FS_Subset
<1>2. SumFunctionOnSet(f, S \cap R) \in Int
  BY <1>1, SumType
<1>3. CASE x \in R
  <2>1. (S \cup {x}) \cap R = (S \cap R) \cup {x}
    BY <1>3
  <2>2. SumFunctionOnSet(f, (S \cap R) \cup {x}) = SumFunctionOnSet(f, S \cap R) + f[x]
    <3>1. PICK V : V = S \cap R
      OBVIOUS
    <3>2. IsFiniteSet(V) /\ x \notin V /\ \A y \in V \cup {x} : f[y] \in Int
      BY <1>1, <3>1
    <3>3. SumFunctionOnSet(f, V \cup {x}) = SumFunctionOnSet(f, V) + f[x]
      BY <3>2, SumAdd
    <3> QED
      BY <3>1, <3>3
  <2> QED
    BY <1>3, <2>1, <2>2
<1>4. CASE x \notin R
  <2>1. (S \cup {x}) \cap R = S \cap R
    BY <1>4
  <2>2. PICK k \in Int : k = SumFunctionOnSet(f, S \cap R)
    BY <1>2
  <2>3. k = k + 0
    BY <2>2
  <2> QED
    BY <1>4, <2>1, <2>2, <2>3
<1> QED
  BY <1>3, <1>4
================================================================================
