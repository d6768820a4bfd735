---------------------------- MODULE ThreadCounting ---------------------------
(***************************************************************************)
(* How the number of threads at a place changes, and how the sum of what   *)
(* each thread has counted does, for finitely many threads.                *)
(***************************************************************************)
EXTENDS Places, Integers, FiniteSets, Functions, FiniteSetTheorems, TLAPS

-----------------------------------------------------------------------------
(* Threads at a place *)

\* pc2 counts one thread less at `from' and one more at `to' than pc.
Recounts(pc, pc2, from, to) ==
    \A place :
      Cardinality(At(pc2, place)) =
        Cardinality(At(pc, place)) + (IF to = place THEN 1 ELSE 0)
                                   - (IF from = place THEN 1 ELSE 0)

\* The threads at a place are finitely many.
LEMMA AtFinite ==
    ASSUME NEW S, IsFiniteSet(S), NEW pc, DOMAIN pc = S, NEW place
    PROVE  /\ IsFiniteSet(At(pc, place))
           /\ Cardinality(At(pc, place)) \in Nat
<1>1. At(pc, place) \subseteq S
  BY DEF At
<1>2. IsFiniteSet(At(pc, place))
  BY <1>1, FS_Subset
<1> QED
  BY <1>2, FS_CardinalityType

\* When one thread moves from one place to another, the first loses one thread,
\* the second gains one and no other place changes.
LEMMA AtMoves ==
    ASSUME NEW S, IsFiniteSet(S), NEW pc, DOMAIN pc = S, NEW t \in S, NEW v,
           NEW pc2, pc2 = [pc EXCEPT ![t] = v]
    PROVE  Recounts(pc, pc2, pc[t], v)
<1> SUFFICES ASSUME NEW place
             PROVE  Cardinality(At(pc2, place)) =
                      Cardinality(At(pc, place))
                        + (IF v = place THEN 1 ELSE 0)
                        - (IF pc[t] = place THEN 1 ELSE 0)
  BY DEF Recounts
<1>1. /\ IsFiniteSet(At(pc, place))
      /\ Cardinality(At(pc, place)) \in Nat
  BY AtFinite
<1>2. CASE v = place /\ pc[t] # place
  <2>1. At(pc2, place) = At(pc, place) \cup {t} /\ t \notin At(pc, place)
    BY <1>2 DEF At
  <2>2. Cardinality(At(pc2, place)) = Cardinality(At(pc, place)) + 1
    BY <1>1, <2>1, FS_AddElement
  <2> QED
    BY <1>1, <1>2, <2>2
<1>3. CASE v # place /\ pc[t] = place
  <2>1. At(pc2, place) = At(pc, place) \ {t} /\ t \in At(pc, place)
    BY <1>3 DEF At
  <2>2. Cardinality(At(pc2, place)) = Cardinality(At(pc, place)) - 1
    BY <1>1, <2>1, FS_RemoveElement
  <2> QED
    BY <1>1, <1>3, <2>2
<1>4. CASE (v = place) <=> (pc[t] = place)
  <2>1. At(pc2, place) = At(pc, place)
    BY <1>4 DEF At
  <2> QED
    BY <1>1, <1>4, <2>1
<1> QED
  BY <1>2, <1>3, <1>4

\* A place where a thread is has at least one.
LEMMA AtSome ==
    ASSUME NEW S, IsFiniteSet(S), NEW pc, DOMAIN pc = S, NEW t \in S
    PROVE  Cardinality(At(pc, pc[t])) > 0
<1>1. t \in At(pc, pc[t])
  BY DEF At
<1>2. IsFiniteSet(At(pc, pc[t])) /\ Cardinality(At(pc, pc[t])) \in Nat
  BY AtFinite
<1> QED
  BY <1>1, <1>2, FS_EmptySet

\* A place where nobody is counts zero, and one where nobody is counted is empty.
LEMMA AtNone ==
    ASSUME NEW S, IsFiniteSet(S), NEW pc, DOMAIN pc = S, NEW place
    PROVE  Cardinality(At(pc, place)) = 0 <=> At(pc, place) = {}
  BY AtFinite, FS_EmptySet

\* A set of numbers that is not empty has a least one.
LEMMA LeastNumber ==
    ASSUME NEW S \in SUBSET Nat, S # {}
    PROVE  \E n \in S : \A m \in S : n <= m
<1>1. \E n \in S : \A m \in S : <<m, n>> \notin OpToRel(<, Nat)
  BY NatLessThanWellFounded, WFMin
<1>2. PICK n \in S : \A m \in S : <<m, n>> \notin OpToRel(<, Nat)
  BY <1>1
<1>3. \A m \in S : ~(m < n)
  BY <1>2 DEF OpToRel
<1> QED
  BY <1>3

\* A set of threads that misses one of them is smaller than the set of all; when
\* it is smaller by one, nobody else is missing.
LEMMA AllButOne ==
    ASSUME NEW S, IsFiniteSet(S), NEW x \in S, NEW T \in SUBSET (S \ {x})
    PROVE  /\ IsFiniteSet(T) /\ Cardinality(T) \in Nat /\ Cardinality(S) \in Nat
           /\ Cardinality(T) + 1 <= Cardinality(S)
           /\ Cardinality(T) + 1 = Cardinality(S) => T = S \ {x}
<1>1. /\ IsFiniteSet(S \ {x})
      /\ Cardinality(S \ {x}) = Cardinality(S) - 1
  BY FS_RemoveElement
<1>2. /\ IsFiniteSet(T)
      /\ Cardinality(T) <= Cardinality(S \ {x})
      /\ Cardinality(S \ {x}) = Cardinality(T) => S \ {x} = T
  BY <1>1, FS_Subset
<1>3. Cardinality(S) \in Nat /\ Cardinality(T) \in Nat
  BY <1>2, FS_CardinalityType
<1> QED
  BY <1>1, <1>2, <1>3

-----------------------------------------------------------------------------
(* Sums over threads                                                       *)
(*                                                                         *)
(* Induction over the subsets of a finite set needs no predicate as a      *)
(* parameter when it is stated with the set of those for which it holds:   *)
(* a smallest subset that is not in it exists by WFMin.                    *)

\* Every set of subsets of a finite set that contains a set whenever it contains
\* all its strict subsets contains all of them.
LEMMA SubsetInduction ==
    ASSUME NEW S, IsFiniteSet(S), NEW Good,
           \A T \in SUBSET S : (\A U \in SUBSET T : U # T => U \in Good) => T \in Good
    PROVE  \A T \in SUBSET S : T \in Good
<1> DEFINE Bad == {T \in SUBSET S : T \notin Good}
<1> SUFFICES ASSUME Bad # {}
             PROVE  FALSE
  OBVIOUS
<1>1. IsWellFoundedOn(StrictSubsetOrdering(S), FiniteSubsetsOf(S))
  BY FS_StrictSubsetOrderingWellFounded
<1>2. Bad \subseteq FiniteSubsetsOf(S)
  BY FS_FiniteSubsetsOfFinite
<1>3. \E T \in Bad : \A U \in Bad : <<U, T>> \notin StrictSubsetOrdering(S)
  <2> HIDE DEF Bad
  <2> QED
    BY <1>1, <1>2, WFMin
<1>4. PICK T \in Bad : \A U \in Bad : <<U, T>> \notin StrictSubsetOrdering(S)
  BY <1>3
<1>5. \A U \in SUBSET T : U # T => U \in Good
  <2> SUFFICES ASSUME NEW U \in SUBSET T, U # T, U \notin Good
               PROVE  FALSE
    OBVIOUS
  <2>1. U \in Bad /\ T \in SUBSET S
    OBVIOUS
  <2>2. <<U, T>> \in StrictSubsetOrdering(S)
    BY <2>1 DEF StrictSubsetOrdering
  <2> QED
    BY <1>4, <2>1, <2>2
<1> QED
  BY <1>5

\* The recursive function within SumFunction: the sums of f over the subsets of
\* T, whose elements are taken in the order in which CHOOSE picks them.
Picked(s) == CHOOSE x \in s : TRUE

IsSums(f, T, g) ==
    g = [s \in SUBSET T |-> IF s = {} THEN 0 ELSE f[Picked(s)] + g[s \ {Picked(s)}]]

\* A set that is not empty has its picked element.
LEMMA PickedElement == \A s : s # {} => Picked(s) \in s
  BY DEF Picked

\* Two sets of sums agree where both are defined.
LEMMA SumsUnique ==
    ASSUME NEW S, IsFiniteSet(S), NEW f, NEW T \in SUBSET S, NEW U \in SUBSET S,
           NEW g, IsSums(f, T, g), NEW h, IsSums(f, U, h)
    PROVE  \A s \in SUBSET T : s \in SUBSET U => g[s] = h[s]
<1> DEFINE Good == {s \in SUBSET S : s \in SUBSET T /\ s \in SUBSET U => g[s] = h[s]}
<1>1. ASSUME NEW s \in SUBSET S, \A v \in SUBSET s : v # s => v \in Good
      PROVE  s \in Good
  <2> SUFFICES ASSUME s \in SUBSET T, s \in SUBSET U
               PROVE  g[s] = h[s]
    OBVIOUS
  <2>1. /\ g[s] = IF s = {} THEN 0 ELSE f[Picked(s)] + g[s \ {Picked(s)}]
        /\ h[s] = IF s = {} THEN 0 ELSE f[Picked(s)] + h[s \ {Picked(s)}]
    BY DEF IsSums
  <2>2. CASE s # {}
    <3>1. s \ {Picked(s)} \in SUBSET s /\ s \ {Picked(s)} # s
      BY <2>2, PickedElement
    <3>2. g[s \ {Picked(s)}] = h[s \ {Picked(s)}]
      BY <1>1, <3>1
    <3> QED
      BY <2>1, <2>2, <3>2
  <2> QED
    BY <2>1, <2>2
<1> HIDE DEF Good
<1>2. \A s \in SUBSET S : s \in Good
  BY <1>1, SubsetInduction
<1> QED
  BY <1>2 DEF Good

\* The recursive definition defines a function.
LEMMA SumsExist ==
    ASSUME NEW S, IsFiniteSet(S), NEW f
    PROVE  \E g : IsSums(f, S, g)
<1> DEFINE Good == {T \in SUBSET S : \E g : IsSums(f, T, g)}
           G(T) == CHOOSE g : IsSums(f, T, g)
<1>1. ASSUME NEW T \in SUBSET S, \A U \in SUBSET T : U # T => U \in Good
      PROVE  T \in Good
  <2> DEFINE h == [s \in SUBSET T |->
                     IF s = {} THEN 0
                     ELSE f[Picked(s)] + G(s \ {Picked(s)})[s \ {Picked(s)}]]
  <2>1. ASSUME NEW U \in SUBSET T, U # T
        PROVE  IsSums(f, U, G(U))
    BY <1>1, <2>1
  <2> HIDE DEF G
  <2>2. ASSUME NEW s \in SUBSET T, s # {}
        PROVE  G(s \ {Picked(s)})[s \ {Picked(s)}] = h[s \ {Picked(s)}]
    <3> DEFINE u == s \ {Picked(s)}
               v == u \ {Picked(u)}
    <3>1. u \in SUBSET T /\ u # T /\ v \in SUBSET u /\ v \in SUBSET T /\ v # T
      BY <2>2, PickedElement
    <3>2. IsSums(f, u, G(u)) /\ IsSums(f, v, G(v))
      BY <2>1, <3>1
    <3>3. G(u)[v] = G(v)[v]
      <4>1. u \in SUBSET S /\ v \in SUBSET S
        BY <3>1
      <4> HIDE DEF u, v
      <4> QED
        BY <3>1, <3>2, <4>1, SumsUnique
    <3>4. G(u)[u] = IF u = {} THEN 0 ELSE f[Picked(u)] + G(u)[v]
      BY <3>2 DEF IsSums
    <3> QED
      BY <3>1, <3>3, <3>4
  <2>3. IsSums(f, T, h)
    BY <2>2 DEF IsSums
  <2> QED
    BY <2>3
<1> HIDE DEF Good
<1>2. \A T \in SUBSET S : T \in Good
  BY <1>1, SubsetInduction
<1> QED
  BY <1>2 DEF Good

\* SumFunction is the last of these sums.
LEMMA SumOf ==
    ASSUME NEW f, IsFiniteSet(DOMAIN f)
    PROVE  \E g : IsSums(f, DOMAIN f, g) /\ SumFunction(f) = g[DOMAIN f]
<1>1. SumFunction(f) = (CHOOSE g : IsSums(f, DOMAIN f, g))[DOMAIN f]
  BY DEF SumFunction, SumFunctionOnSet, FoldFunctionOnSet, MapThenFoldSet, IsSums, Picked
<1> QED
  BY <1>1, SumsExist

\* The sum over no thread is 0.  Numbers add up to a number, natural numbers to a
\* natural number.
LEMMA SumType ==
    ASSUME NEW S, IsFiniteSet(S), NEW f \in [S -> Int]
    PROVE  /\ SumFunction(f) \in Int
           /\ f \in [S -> Nat] => SumFunction(f) \in Nat
<1>1. PICK g : IsSums(f, S, g) /\ SumFunction(f) = g[S]
  BY SumOf
<1> DEFINE Good == {T \in SUBSET S : g[T] \in Int /\ (f \in [S -> Nat] => g[T] \in Nat)}
<1>2. ASSUME NEW T \in SUBSET S, \A U \in SUBSET T : U # T => U \in Good
      PROVE  T \in Good
  <2>1. g[T] = IF T = {} THEN 0 ELSE f[Picked(T)] + g[T \ {Picked(T)}]
    BY <1>1 DEF IsSums
  <2>2. CASE T # {}
    <3>1. Picked(T) \in S /\ T \ {Picked(T)} \in SUBSET T /\ T \ {Picked(T)} # T
      BY <2>2, PickedElement
    <3>2. T \ {Picked(T)} \in Good
      BY <1>2, <3>1
    <3> QED
      BY <2>1, <2>2, <3>1, <3>2
  <2> QED
    BY <2>1, <2>2
<1> HIDE DEF Good
<1>3. S \in Good
  BY <1>2, SubsetInduction
<1> QED
  BY <1>1, <1>3 DEF Good

\* When one number changes, the sum changes by as much.
LEMMA SumChanges ==
    ASSUME NEW S, IsFiniteSet(S), NEW f \in [S -> Int], NEW t \in S, NEW v \in Int,
           NEW f2, f2 = [f EXCEPT ![t] = v]
    PROVE  SumFunction(f2) = SumFunction(f) + v - f[t]
<1> f2 \in [S -> Int]
  OBVIOUS
<1>1. PICK g : IsSums(f, S, g) /\ SumFunction(f) = g[S]
  BY SumOf
<1>2. PICK g2 : IsSums(f2, S, g2) /\ SumFunction(f2) = g2[S]
  BY SumOf
<1> DEFINE Good == {T \in SUBSET S :
                      /\ g[T] \in Int /\ g2[T] \in Int
                      /\ g2[T] = g[T] + (IF t \in T THEN v - f[t] ELSE 0)}
<1>3. ASSUME NEW T \in SUBSET S, \A U \in SUBSET T : U # T => U \in Good
      PROVE  T \in Good
  <2>1. /\ g[T] = IF T = {} THEN 0 ELSE f[Picked(T)] + g[T \ {Picked(T)}]
        /\ g2[T] = IF T = {} THEN 0 ELSE f2[Picked(T)] + g2[T \ {Picked(T)}]
    BY <1>1, <1>2 DEF IsSums
  <2>2. CASE T # {}
    <3> DEFINE x == Picked(T)
               U == T \ {x}
    <3>1. x \in T /\ x \in S /\ U \in SUBSET T /\ U # T /\ (t \in U <=> t \in T /\ t # x)
      BY <2>2, PickedElement
    <3>2. U \in Good
      BY <1>3, <3>1
    <3>3. f2[x] = f[x] + (IF t = x THEN v - f[t] ELSE 0) /\ f[x] \in Int /\ f2[x] \in Int
      BY <3>1
    <3>4. g[T] = f[x] + g[U] /\ g2[T] = f2[x] + g2[U]
      BY <2>1, <2>2
    <3> HIDE DEF x, U
    <3> QED
      BY <3>1, <3>2, <3>3, <3>4
  <2>3. CASE T = {}
    BY <2>1, <2>3
  <2> QED
    BY <2>2, <2>3
<1> HIDE DEF Good
<1>4. S \in Good
  BY <1>3, SubsetInduction
<1> QED
  BY <1>1, <1>2, <1>4 DEF Good

\* The sum of the same number for every thread.
LEMMA SumConstant ==
    ASSUME NEW S, IsFiniteSet(S), NEW n \in Nat, NEW f, f = [t \in S |-> n]
    PROVE  SumFunction(f) = Cardinality(S) * n
<1>1. PICK g : IsSums(f, S, g) /\ SumFunction(f) = g[S]
  BY SumOf
<1> DEFINE Good == {T \in SUBSET S : g[T] = Cardinality(T) * n}
<1>2. ASSUME NEW T \in SUBSET S, \A U \in SUBSET T : U # T => U \in Good
      PROVE  T \in Good
  <2>1. g[T] = IF T = {} THEN 0 ELSE f[Picked(T)] + g[T \ {Picked(T)}]
    BY <1>1 DEF IsSums
  <2>2. IsFiniteSet(T) /\ Cardinality(T) \in Nat
    BY FS_Subset, FS_CardinalityType
  <2>3. CASE T # {}
    <3> DEFINE U == T \ {Picked(T)}
    <3>1. Picked(T) \in T /\ f[Picked(T)] = n /\ U \in SUBSET T /\ U # T
      BY <2>3, PickedElement
    <3>2. g[U] = Cardinality(U) * n
      BY <1>2, <3>1
    <3>3. Cardinality(U) = Cardinality(T) - 1 /\ Cardinality(U) \in Nat
      BY <2>2, <3>1, FS_RemoveElement, FS_CardinalityType
    <3>4. g[T] = n + g[U]
      BY <2>1, <2>3, <3>1
    <3>5. \A m \in Int : n + (m - 1) * n = m * n
      OBVIOUS
    <3> HIDE DEF U
    <3> QED
      BY <2>2, <3>2, <3>3, <3>4, <3>5
  <2>4. CASE T = {}
    BY <2>1, <2>4, FS_EmptySet
  <2> QED
    BY <2>3, <2>4
<1> HIDE DEF Good
<1>3. S \in Good
  BY <1>2, SubsetInduction
<1> QED
  BY <1>1, <1>3 DEF Good

\* One step of a sum over a set that is not empty.
LEMMA SumStep ==
    ASSUME NEW S, NEW f, NEW g, IsSums(f, S, g), NEW T \in SUBSET S, T # {}
    PROVE  /\ Picked(T) \in T
           /\ T \ {Picked(T)} \in SUBSET T /\ T \ {Picked(T)} # T
           /\ g[T] = f[Picked(T)] + g[T \ {Picked(T)}]
  BY PickedElement DEF IsSums

\* The sum over no thread.
LEMMA SumNone ==
    ASSUME NEW S, NEW f, NEW g, IsSums(f, S, g)
    PROVE  g[{}] = 0
  BY DEF IsSums

\* Sums are linear.
LEMMA SumLinear ==
    ASSUME NEW S, IsFiniteSet(S), NEW a \in [S -> Int], NEW b \in [S -> Int],
           NEW p \in Int, NEW q \in Int, NEW r \in Int,
           NEW f, f = [t \in S |-> p * a[t] + q * b[t] + r]
    PROVE  SumFunction(f) = p * SumFunction(a) + q * SumFunction(b) + r * Cardinality(S)
<1> f \in [S -> Int]
  OBVIOUS
<1>1. PICK ga : IsSums(a, S, ga) /\ SumFunction(a) = ga[S]
  BY SumOf
<1>2. PICK gb : IsSums(b, S, gb) /\ SumFunction(b) = gb[S]
  BY SumOf
<1>3. PICK gf : IsSums(f, S, gf) /\ SumFunction(f) = gf[S]
  BY SumOf
<1> DEFINE Good == {T \in SUBSET S :
                      /\ ga[T] \in Int /\ gb[T] \in Int
                      /\ gf[T] = p * ga[T] + q * gb[T] + r * Cardinality(T)}
<1>4. ASSUME NEW T \in SUBSET S, \A U \in SUBSET T : U # T => U \in Good
      PROVE  T \in Good
  <2>1. CASE T # {}
    <3> DEFINE x == Picked(T)
               U == T \ {x}
    <3>1. x \in T /\ x \in S /\ U \in SUBSET T /\ U # T
      BY <2>1, <1>1, SumStep
    <3>2. /\ ga[T] = a[x] + ga[U]
          /\ gb[T] = b[x] + gb[U]
          /\ gf[T] = f[x] + gf[U]
      <4>1. ga[T] = a[x] + ga[U]
        BY <2>1, <1>1, SumStep
      <4>2. gb[T] = b[x] + gb[U]
        BY <2>1, <1>2, SumStep
      <4>3. gf[T] = f[x] + gf[U]
        BY <2>1, <1>3, SumStep
      <4> QED
        BY <4>1, <4>2, <4>3
    <3>3. U \in Good
      BY <1>4, <3>1
    <3>4. IsFiniteSet(T) /\ IsFiniteSet(U)
      BY <3>1, FS_Subset
    <3>5. Cardinality(U) \in Nat /\ Cardinality(T) = Cardinality(U) + 1
      <4>1. Cardinality(U) = Cardinality(T) - 1
        BY <3>1, <3>4, FS_RemoveElement
      <4>2. Cardinality(U) \in Nat /\ Cardinality(T) \in Nat
        BY <3>4, FS_CardinalityType
      <4> QED
        BY <4>1, <4>2
    <3>6. f[x] = p * a[x] + q * b[x] + r /\ a[x] \in Int /\ b[x] \in Int
      BY <3>1
    <3> DEFINE A == ga[U]
               B == gb[U]
               n == Cardinality(U)
               y == a[x]
               z == b[x]
    <3>7. A \in Int /\ B \in Int /\ n \in Int /\ y \in Int /\ z \in Int
      BY <3>3, <3>5, <3>6
    <3>8. gf[T] = (p * y + q * z + r) + (p * A + q * B + r * n)
      BY <3>2, <3>3, <3>6
    <3>9. ga[T] = y + A /\ gb[T] = z + B /\ Cardinality(T) = n + 1
      BY <3>2, <3>5
    <3> HIDE DEF A, B, n, y, z
    <3>10. (p * y + q * z + r) + (p * A + q * B + r * n)
             = p * (y + A) + q * (z + B) + r * (n + 1)
      BY <3>7
    <3> QED
      BY <3>7, <3>8, <3>9, <3>10
  <2>2. CASE T = {}
    BY <1>1, <1>2, <1>3, <2>2, SumNone, FS_EmptySet
  <2> QED
    BY <2>1, <2>2
<1> HIDE DEF Good
<1>5. S \in Good
  BY <1>4, SubsetInduction
<1> QED
  BY <1>1, <1>2, <1>3, <1>5 DEF Good

\* A sum of natural numbers is 0 if and only if they all are.
LEMMA SumZero ==
    ASSUME NEW S, IsFiniteSet(S), NEW f \in [S -> Nat]
    PROVE  SumFunction(f) = 0 <=> \A t \in S : f[t] = 0
<1>1. PICK g : IsSums(f, S, g) /\ SumFunction(f) = g[S]
  BY SumOf
<1> DEFINE Good == {T \in SUBSET S :
                      g[T] \in Nat /\ (g[T] = 0 <=> \A t \in T : f[t] = 0)}
<1>2. ASSUME NEW T \in SUBSET S, \A U \in SUBSET T : U # T => U \in Good
      PROVE  T \in Good
  <2>1. CASE T # {}
    <3> DEFINE x == Picked(T)
               U == T \ {x}
    <3>1. x \in T /\ x \in S /\ U \in SUBSET T /\ U # T /\ g[T] = f[x] + g[U]
      BY <2>1, <1>1, SumStep
    <3>2. U \in Good
      BY <1>2, <3>1
    <3>3. g[U] \in Nat /\ f[x] \in Nat
      BY <3>1, <3>2
    <3>4. (\A t \in T : f[t] = 0) <=> f[x] = 0 /\ \A t \in U : f[t] = 0
      BY <3>1
    <3>5. g[T] \in Nat /\ (g[T] = 0 <=> f[x] = 0 /\ g[U] = 0)
      BY <3>1, <3>3
    <3> QED
      BY <3>2, <3>4, <3>5
  <2>2. CASE T = {}
    BY <1>1, <2>2, SumNone
  <2> QED
    BY <2>1, <2>2
<1> HIDE DEF Good
<1>3. S \in Good
  BY <1>2, SubsetInduction
<1> QED
  BY <1>1, <1>3 DEF Good

\* The sum of the squares of natural numbers is at most the square of their sum.
LEMMA SumOfSquaresBound ==
    ASSUME NEW S, IsFiniteSet(S), NEW f \in [S -> Nat], NEW h, h = [t \in S |-> f[t] * f[t]]
    PROVE  SumFunction(h) <= SumFunction(f) * SumFunction(f)
<1>1. PICK g : IsSums(f, S, g) /\ SumFunction(f) = g[S]
  BY SumOf
<1>2. PICK k : IsSums(h, S, k) /\ SumFunction(h) = k[S]
  BY SumOf
<1> DEFINE Good == {T \in SUBSET S :
                      g[T] \in Nat /\ k[T] \in Nat /\ k[T] <= g[T] * g[T]}
<1>3. ASSUME NEW T \in SUBSET S, \A U \in SUBSET T : U # T => U \in Good
      PROVE  T \in Good
  <2>1. CASE T # {}
    <3> DEFINE x == Picked(T)
               U == T \ {x}
    <3>1. x \in T /\ x \in S /\ U \in SUBSET T /\ U # T /\ g[T] = f[x] + g[U]
      BY <2>1, <1>1, SumStep
    <3>2. k[T] = h[x] + k[U] /\ h[x] = f[x] * f[x]
      <4>1. k[T] = h[x] + k[U]
        BY <2>1, <1>2, SumStep
      <4>2. h[x] = f[x] * f[x]
        BY <3>1
      <4> QED
        BY <4>1, <4>2
    <3>3. U \in Good
      BY <1>3, <3>1
    <3> DEFINE y == f[x]
               B == g[U]
               A == k[U]
    <3>4. /\ y \in Nat /\ A \in Nat /\ B \in Nat /\ A <= B * B
          /\ g[T] = y + B /\ k[T] = y * y + A
      BY <3>1, <3>2, <3>3
    <3> HIDE DEF y, A, B
    <3>5. (y + B) * (y + B) = y * y + 2 * (y * B) + B * B /\ y * B \in Nat /\ y * y \in Nat
      BY <3>4
    <3>6. y * y + A <= (y + B) * (y + B) /\ y * y + A \in Nat /\ y + B \in Nat
      BY <3>4, <3>5
    <3> QED
      BY <3>4, <3>6
  <2>2. CASE T = {}
    BY <1>1, <1>2, <2>2, SumNone
  <2> QED
    BY <2>1, <2>2
<1> HIDE DEF Good
<1>4. S \in Good
  BY <1>3, SubsetInduction
<1> QED
  BY <1>1, <1>2, <1>4 DEF Good

\* The sum of numbers of which one alone is not 0 is that one.
LEMMA SumSingle ==
    ASSUME NEW S, IsFiniteSet(S), NEW m \in S, NEW f \in [S -> Int],
           \A t \in S : t # m => f[t] = 0
    PROVE  SumFunction(f) = f[m]
<1> DEFINE zero == [t \in S |-> 0]
<1>1. f = [zero EXCEPT ![m] = f[m]] /\ zero \in [S -> Int] /\ zero[m] = 0 /\ f[m] \in Int
  OBVIOUS
<1>2. Cardinality(S) \in Nat
  BY FS_CardinalityType
<1>3. SumFunction(zero) = Cardinality(S) * 0
  BY SumConstant
<1> HIDE DEF zero
<1>4. SumFunction(f) = SumFunction(zero) + f[m] - zero[m]
  BY <1>1, SumChanges
<1> QED
  BY <1>1, <1>2, <1>3, <1>4

\* No count is more than the sum of all.
LEMMA SumAtLeast ==
    ASSUME NEW S, IsFiniteSet(S), NEW f \in [S -> Nat], NEW t \in S
    PROVE  f[t] <= SumFunction(f)
<1> DEFINE rest == [f EXCEPT ![t] = 0]
<1>1. f \in [S -> Int] /\ rest \in [S -> Int] /\ rest \in [S -> Nat] /\ f[t] \in Nat
  OBVIOUS
<1>2. SumFunction(rest) = SumFunction(f) + 0 - f[t]
  BY <1>1, SumChanges
<1> HIDE DEF rest
<1>3. SumFunction(rest) \in Nat /\ SumFunction(f) \in Nat
  BY <1>1, SumType
<1> QED
  BY <1>1, <1>2, <1>3

\* Counts that are at most n each add up to at most n for each thread.
LEMMA SumAtMost ==
    ASSUME NEW S, IsFiniteSet(S), NEW n \in Nat, NEW f \in [S -> 0..n]
    PROVE  SumFunction(f) <= Cardinality(S) * n
<1> DEFINE missing == [t \in S |-> (0 - 1) * f[t] + 0 * f[t] + n]
<1>1. f \in [S -> Int] /\ missing \in [S -> Int] /\ missing \in [S -> Nat]
  OBVIOUS
<1>2. SumFunction(missing)
        = (0 - 1) * SumFunction(f) + 0 * SumFunction(f) + n * Cardinality(S)
  BY <1>1, SumLinear
<1> HIDE DEF missing
<1>3. SumFunction(missing) \in Nat /\ SumFunction(f) \in Int
  BY <1>1, SumType
<1>4. Cardinality(S) \in Nat
  BY FS_CardinalityType
<1>5. \A s, k \in Int : (0 - 1) * s + 0 * s + n * k >= 0 => s <= k * n
  OBVIOUS
<1> QED
  BY <1>2, <1>3, <1>4, <1>5

\* A sum over some of the threads is the sum of what these have counted.
LEMMA SumOnSet ==
    ASSUME NEW S, IsFiniteSet(S), NEW f
    PROVE  SumFunctionOnSet(f, S) = SumFunction([t \in S |-> f[t]])
<1> DEFINE h == [t \in S |-> f[t]]
<1>1. SumFunctionOnSet(f, S) = (CHOOSE g : IsSums(f, S, g))[S]
  BY DEF SumFunctionOnSet, FoldFunctionOnSet, MapThenFoldSet, IsSums, Picked
<1>2. PICK g1 : IsSums(f, S, g1) /\ SumFunctionOnSet(f, S) = g1[S]
  BY <1>1, SumsExist
<1> DOMAIN h = S
  OBVIOUS
<1> HIDE DEF h
<1>3. PICK g2 : IsSums(h, S, g2) /\ SumFunction(h) = g2[S]
  BY SumOf
<1>4. ASSUME NEW s \in SUBSET S, s # {}
      PROVE  h[Picked(s)] = f[Picked(s)]
  <2>1. Picked(s) \in s
    BY <1>4, PickedElement
  <2> QED
    BY <2>1 DEF h
<1>5. g2 = [s \in SUBSET S |-> IF s = {} THEN 0 ELSE h[Picked(s)] + g2[s \ {Picked(s)}]]
  BY <1>3 DEF IsSums
<1>6. IsSums(f, S, g2)
  BY <1>4, <1>5 DEF IsSums
<1>7. g1[S] = g2[S]
  BY <1>2, <1>6, SumsUnique
<1> QED
  BY <1>2, <1>3, <1>7 DEF h

\* The recursion takes the elements in one order; the sum is that of any order.
LEMMA SumAnyFirst ==
    ASSUME NEW S, IsFiniteSet(S), NEW f \in [S -> Int], NEW g, IsSums(f, S, g)
    PROVE  \A T \in SUBSET S : g[T] \in Int /\ \A x \in T : g[T] = f[x] + g[T \ {x}]
<1> DEFINE Good == {T \in SUBSET S : /\ g[T] \in Int
                                     /\ \A x \in T : g[T] = f[x] + g[T \ {x}]}
<1>1. ASSUME NEW T \in SUBSET S, \A U \in SUBSET T : U # T => U \in Good
      PROVE  T \in Good
  <2>1. CASE T = {}
    BY <2>1, SumNone
  <2>2. CASE T # {}
    <3> DEFINE y == Picked(T)
    <3>1. y \in T /\ T \ {y} \in SUBSET T /\ T \ {y} # T /\ g[T] = f[y] + g[T \ {y}]
      BY <2>2, SumStep
    <3> HIDE DEF y
    <3>2. f[y] \in Int /\ g[T \ {y}] \in Int
      BY <1>1, <3>1
    <3>3. ASSUME NEW x \in T, x # y
          PROVE  g[T] = f[x] + g[T \ {x}]
      <4> DEFINE rest == T \ {x, y}
      <4>1. (T \ {y}) \ {x} = rest /\ (T \ {x}) \ {y} = rest
        OBVIOUS
      <4>2. /\ T \ {x} \in SUBSET T /\ T \ {x} # T /\ y \in T \ {x} /\ x \in T \ {y}
            /\ rest \in SUBSET T /\ rest # T
        BY <3>1, <3>3
      <4> HIDE DEF rest
      <4>3. g[T \ {y}] = f[x] + g[rest]
        BY <1>1, <3>1, <4>1, <4>2
      <4>4. g[T \ {x}] = f[y] + g[rest]
        BY <1>1, <4>1, <4>2
      <4>5. g[rest] \in Int /\ f[x] \in Int
        BY <1>1, <4>2
      <4> QED
        BY <3>1, <3>2, <4>3, <4>4, <4>5
    <3>4. g[T] \in Int
      BY <3>1, <3>2
    <3>5. \A x \in T : g[T] = f[x] + g[T \ {x}]
      BY <3>1, <3>3
    <3> QED
      BY <3>4, <3>5
  <2> QED
    BY <2>1, <2>2
<1> HIDE DEF Good
<1>2. \A T \in SUBSET S : T \in Good
  BY <1>1, SubsetInduction
<1> QED
  BY <1>2 DEF Good

\* A sum is what one thread has counted and the sum of the others.
LEMMA SumWithout ==
    ASSUME NEW S, IsFiniteSet(S), NEW f \in [S -> Int], NEW x \in S,
           NEW h, h = [t \in S \ {x} |-> f[t]]
    PROVE  SumFunction(f) = f[x] + SumFunction(h)
<1>1. PICK g : IsSums(f, S, g) /\ SumFunction(f) = g[S]
  BY SumOf
<1>2. IsFiniteSet(S \ {x}) /\ DOMAIN h = S \ {x}
  BY FS_Subset
<1>3. PICK k : IsSums(h, S \ {x}, k) /\ SumFunction(h) = k[S \ {x}]
  BY <1>2, SumOf
<1>4. ASSUME NEW s \in SUBSET (S \ {x}), s # {}
      PROVE  h[Picked(s)] = f[Picked(s)]
  <2>1. Picked(s) \in s
    BY <1>4, PickedElement
  <2> QED
    BY <2>1
<1>5. IsSums(f, S \ {x}, k)
  BY <1>3, <1>4 DEF IsSums
<1>6. g[S \ {x}] = k[S \ {x}]
  <2>1. S \ {x} \in SUBSET S /\ S \in SUBSET S /\ S \ {x} \in SUBSET (S \ {x})
    OBVIOUS
  <2> QED
    BY <1>1, <1>5, <2>1, SumsUnique
<1>7. \A T \in SUBSET S : g[T] \in Int /\ \A t \in T : g[T] = f[t] + g[T \ {t}]
  BY <1>1, SumAnyFirst
<1>8. g[S] = f[x] + g[S \ {x}]
  <2>1. S \in SUBSET S
    OBVIOUS
  <2> QED
    BY <1>7, <2>1
<1> QED
  BY <1>1, <1>3, <1>6, <1>8
=============================================================================
