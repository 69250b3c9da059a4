---------------------------- MODULE Uncore_proofs ----------------------------
(* Counting on the DSU and the memory controllers, proved for any number of  *)
(* cores, clusters, counters and controllers and whatever clients ask for:   *)
(* no amount counted on a DSU or on clkdiv2 events is lost or credited       *)
(* twice, no number mixes the counts of two events, and what is started      *)
(* counts.                                                                   *)
EXTENDS Uncore, FiniteSetTheorems, WellFoundedInduction, TLAPS

-----------------------------------------------------------------------------
(* Sums. SumFunction takes the elements of a set in an order nobody knows,   *)
(* so that it does not matter which has to be shown by induction: from the   *)
(* least set of which something does not hold.                               *)

\* The numbers are well founded.
LEMMA LessIsWellFounded ==
    \E R : IsWellFoundedOn(R, Nat) /\ \A x, y \in Nat : x < y => <<x, y>> \in R
<1> DEFINE R == OpToRel(<, Nat)
<1>1. \A x, y \in Nat : x < y => <<x, y>> \in R
    BY DEF OpToRel
<1>2. IsWellFoundedOn(R, Nat)
    BY NatLessThanWellFounded
<1> HIDE DEF R
<1> QED
    BY <1>1, <1>2

\* There is a least of some numbers.
LEMMA LeastNumber ==
    ASSUME NEW T \in SUBSET Nat, T # {}
    PROVE  \E m \in T : \A k \in T : m <= k
<1>1. PICK R : IsWellFoundedOn(R, Nat) /\ \A x, y \in Nat : x < y => <<x, y>> \in R
    BY LessIsWellFounded
<1>2. IsWellFoundedOn(R, Nat) /\ T \subseteq Nat
    BY <1>1
<1>3. PICK m \in T : \A y \in T : ~(<<y, m>> \in R)
    BY <1>2, WFMin
<1>4. \A k \in T : ~(k < m)
    BY <1>1, <1>3
<1> QED
    BY <1>3, <1>4

\* What holds of {} and of a set whenever it holds of it less an element holds
\* of every subset of a finite set.
LEMMA SubsetInduction ==
    ASSUME NEW S, IsFiniteSet(S), NEW Good \in SUBSET SUBSET S, {} \in Good,
           \A s \in SUBSET S : s # {} /\ (\A x \in s : s \ {x} \in Good) => s \in Good
    PROVE  SUBSET S \subseteq Good
<1> DEFINE Sizes == {n \in Nat : \E s \in SUBSET S : s \notin Good /\ Cardinality(s) = n}
<1>1. \A s \in SUBSET S : /\ IsFiniteSet(s) /\ Cardinality(s) \in Nat
                          /\ \A x \in s : Cardinality(s \ {x}) = Cardinality(s) - 1
    BY FS_Subset, FS_CardinalityType, FS_RemoveElement
<1>2. SUFFICES ASSUME Sizes # {}
               PROVE  FALSE
    BY <1>1
<1>3. PICK n \in Sizes : \A k \in Sizes : n <= k
    BY <1>2, LeastNumber
<1>4. PICK s \in SUBSET S : s \notin Good /\ Cardinality(s) = n
    BY <1>3
<1>5. ASSUME NEW x \in s
      PROVE  s \ {x} \in Good
  <2>1. s \ {x} \in SUBSET S /\ Cardinality(s \ {x}) = n - 1 /\ Cardinality(s \ {x}) \in Nat
      BY <1>1, <1>4
  <2>2. n - 1 \notin Sizes
      BY <1>3
  <2> QED
      BY <2>1, <2>2
<1> QED
    BY <1>4, <1>5

\* I[s] is the sum of f over s, whichever element comes first.
Sums(I, S, f) ==
  /\ I \in [SUBSET S -> Nat]
  /\ I[{}] = 0
  /\ \A s \in SUBSET S : \A x \in s : I[s] = f[x] + I[s \ {x}]

\* A step of the recursion SumFunction is.
First(s) == CHOOSE x \in s : TRUE
Begun(I, f, s) == IF s = {} THEN 0 ELSE f[First(s)] + I[s \ {First(s)}]

\* The element taken first is one of the set's.
LEMMA FirstIsIn == ASSUME NEW s, s # {} PROVE First(s) \in s
    BY DEF First

\* There is a function that does what the recursion says: the recursion of
\* Functions chooses one, and a choice is worth something only if there is one.
LEMMA SumExists ==
    ASSUME NEW S, IsFiniteSet(S), NEW f \in [S -> Nat]
    PROVE  \E I \in [SUBSET S -> Nat] : \A s \in SUBSET S : I[s] = Begun(I, f, s)
<1> DEFINE Built(n) == \E I \in [SUBSET S -> Nat] :
                          \A s \in SUBSET S : Cardinality(s) <= n => I[s] = Begun(I, f, s)
           Bad == {n \in Nat : ~Built(n)}
<1>1. \A s \in SUBSET S : /\ IsFiniteSet(s) /\ Cardinality(s) \in Nat /\ Cardinality(s) <= Cardinality(S)
                          /\ \A x \in s : Cardinality(s \ {x}) = Cardinality(s) - 1
                          /\ Cardinality(s) = 0 <=> s = {}
    BY FS_Subset, FS_CardinalityType, FS_RemoveElement, FS_EmptySet
<1>2. Cardinality(S) \in Nat
    BY FS_CardinalityType
<1>3. SUFFICES Bad = {}
  <2>1. Built(Cardinality(S))
      BY <1>2, <1>3
  <2> QED
      BY <1>1, <2>1
<1> HIDE DEF Built
<1>4. SUFFICES ASSUME Bad # {}
               PROVE  FALSE
    OBVIOUS
<1>5. PICK n \in Bad : \A k \in Bad : n <= k
    BY <1>4, LeastNumber
<1>6. n # 0
  <2>1. [s \in SUBSET S |-> 0] \in [SUBSET S -> Nat]
      OBVIOUS
  <2>2. \A s \in SUBSET S : Cardinality(s) <= 0 => s = {}
      BY <1>1
  <2>3. Built(0)
      BY <2>1, <2>2 DEF Built, Begun
  <2> QED
      BY <1>5, <2>3
<1>7. n - 1 \in Nat /\ n - 1 \notin Bad
    BY <1>5, <1>6
<1>8. PICK g \in [SUBSET S -> Nat] : \A s \in SUBSET S : Cardinality(s) <= n - 1 => g[s] = Begun(g, f, s)
    BY <1>7 DEF Built
<1> DEFINE h == [s \in SUBSET S |-> IF Cardinality(s) <= n - 1 THEN g[s] ELSE Begun(g, f, s)]
<1>9. \A s \in SUBSET S : Begun(g, f, s) \in Nat
    BY FirstIsIn DEF Begun
<1>10. h \in [SUBSET S -> Nat]
    BY <1>9
<1>11. ASSUME NEW s \in SUBSET S, Cardinality(s) <= n
       PROVE  h[s] = Begun(h, f, s)
  <2>1. h[s] = Begun(g, f, s)
      BY <1>8
  <2>2. CASE s = {}
      BY <2>1, <2>2 DEF Begun
  <2>3. CASE s # {}
    <3>1. First(s) \in s
        BY <2>3, FirstIsIn
    <3>2. s \ {First(s)} \in SUBSET S /\ Cardinality(s \ {First(s)}) <= n - 1
        BY <1>1, <1>5, <1>11, <3>1
    <3>3. h[s \ {First(s)}] = g[s \ {First(s)}]
        BY <3>2
    <3> QED
        BY <2>1, <2>3, <3>3 DEF Begun
  <2> QED
      BY <2>2, <2>3
<1> QED
    BY <1>5, <1>10, <1>11 DEF Built

\* SumFunction is such a sum.
LEMMA SumIs ==
    ASSUME NEW S, IsFiniteSet(S), NEW f \in [S -> Nat]
    PROVE  \E I : Sums(I, S, f) /\ SumFunction(f) = I[S]
<1> DEFINE IsSum(iter) == iter = [s \in SUBSET S |-> IF s = {} THEN 0
                                   ELSE LET x == CHOOSE x \in s : TRUE IN f[x] + iter[s \ {x}]]
           I == CHOOSE iter : IsSum(iter)
<1>1. \E iter : IsSum(iter)
  <2>1. PICK g \in [SUBSET S -> Nat] : \A s \in SUBSET S : g[s] = Begun(g, f, s)
      BY SumExists
  <2>2. g = [s \in SUBSET S |-> g[s]]
      OBVIOUS
  <2>3. IsSum(g)
      BY <2>1, <2>2 DEF Begun, First
  <2> QED
      BY <2>3
<1>2. IsSum(I)
    BY <1>1
<1>3. SumFunction(f) = I[S]
    BY DEF SumFunction, SumFunctionOnSet, FoldFunctionOnSet, MapThenFoldSet
<1>4. \A s \in SUBSET S : I[s] = Begun(I, f, s)
    BY <1>2 DEF Begun, First
<1>5. I = [s \in SUBSET S |-> I[s]]
    BY <1>2
<1> HIDE DEF I
<1>6. ASSUME NEW s \in SUBSET S, \A x \in s : I[s \ {x}] \in Nat
      PROVE  I[s] \in Nat
  <2>1. s # {} => f[First(s)] \in Nat /\ I[s \ {First(s)}] \in Nat
      BY <1>6, FirstIsIn
  <2>2. I[s] = IF s = {} THEN 0 ELSE f[First(s)] + I[s \ {First(s)}]
      BY <1>4 DEF Begun
  <2> QED
      BY <2>1, <2>2
<1>7. \A s \in SUBSET S : I[s] \in Nat
  <2> DEFINE Good == {s \in SUBSET S : I[s] \in Nat}
  <2>1. {} \in Good
      BY <1>6
  <2>2. \A s \in SUBSET S : s # {} /\ (\A x \in s : s \ {x} \in Good) => s \in Good
      BY <1>6
  <2>3. Good \in SUBSET SUBSET S
      OBVIOUS
  <2> HIDE DEF Good
  <2>4. SUBSET S \subseteq Good
      BY <2>1, <2>2, <2>3, SubsetInduction
  <2> QED
      BY <2>4 DEF Good
<1>8. I \in [SUBSET S -> Nat]
    BY <1>5, <1>7
<1>9. I[{}] = 0
    BY <1>4 DEF Begun
<1> DEFINE AnyFirst(s) == \A x \in s : I[s] = f[x] + I[s \ {x}]
           Good == {s \in SUBSET S : AnyFirst(s)}
<1>10. ASSUME NEW s \in SUBSET S, s # {}, \A x \in s : s \ {x} \in Good
       PROVE  s \in Good
  <2>1. PICK y \in s : I[s] = f[y] + I[s \ {y}]
      BY <1>4, <1>10, FirstIsIn DEF Begun
  <2>2. ASSUME NEW x \in s, x # y
        PROVE  I[s] = f[x] + I[s \ {x}]
    <3>1. I[s \ {y}] = f[x] + I[(s \ {y}) \ {x}]
        BY <1>10, <2>2
    <3>2. I[s \ {x}] = f[y] + I[(s \ {x}) \ {y}]
        BY <1>10, <2>2
    <3>3. (s \ {y}) \ {x} = (s \ {x}) \ {y} /\ (s \ {x}) \ {y} \in SUBSET S
        OBVIOUS
    <3>4. PICK rest : rest = I[(s \ {x}) \ {y}] /\ rest = I[(s \ {y}) \ {x}]
        BY <3>3
    <3>5. f[x] \in Nat /\ f[y] \in Nat /\ rest \in Nat
        BY <1>8, <3>3, <3>4
    <3>6. I[s] = f[y] + (f[x] + rest) /\ I[s \ {x}] = f[y] + rest
        BY <2>1, <3>1, <3>2, <3>4
    <3>7. \A a, b, c \in Nat : a + (b + c) = b + (a + c)
        OBVIOUS
    <3> QED
        BY <3>5, <3>6, <3>7
  <2> QED
      BY <2>1, <2>2
<1>11. {} \in Good /\ Good \in SUBSET SUBSET S
    OBVIOUS
<1>12. SUBSET S \subseteq Good
  <2> HIDE DEF Good
  <2>1. \A s \in SUBSET S : s # {} /\ (\A x \in s : s \ {x} \in Good) => s \in Good
      BY <1>10
  <2> QED
      BY <1>11, <2>1, SubsetInduction
<1>13. Sums(I, S, f)
    BY <1>8, <1>9, <1>12 DEF Sums
<1>14. SumFunction(f) = I[S]
    BY <1>3 DEF I
<1> QED
    BY <1>13, <1>14

\* Where two functions agree, so do their sums.
LEMMA SumsAgree ==
    ASSUME NEW S, NEW T, IsFiniteSet(T), T \subseteq S,
           NEW f \in [S -> Nat], NEW g \in [T -> Nat], NEW I, NEW J,
           Sums(I, S, f), Sums(J, T, g), NEW R \in SUBSET T, \A x \in R : f[x] = g[x]
    PROVE  I[R] = J[R]
<1> DEFINE Good == {s \in SUBSET R : I[s] = J[s]}
<1>1. {} \in Good /\ Good \in SUBSET SUBSET R
    BY DEF Sums
<1>2. ASSUME NEW s \in SUBSET R, s # {}, \A x \in s : s \ {x} \in Good
      PROVE  s \in Good
  <2>1. PICK x \in s : TRUE
      BY <1>2
  <2>2. I[s] = f[x] + I[s \ {x}] /\ J[s] = g[x] + J[s \ {x}]
      BY DEF Sums
  <2>3. I[s \ {x}] = J[s \ {x}] /\ f[x] = g[x]
      BY <1>2
  <2> QED
      BY <2>2, <2>3
<1>3. IsFiniteSet(R)
    BY FS_Subset
<1>4. \A s \in SUBSET R : s # {} /\ (\A x \in s : s \ {x} \in Good) => s \in Good
    BY <1>2
<1>5. SUBSET R \subseteq Good
  <2> HIDE DEF Good
  <2> QED
      BY <1>1, <1>3, <1>4, SubsetInduction
<1> QED
    BY <1>5

\* A sum of numbers is a number.
LEMMA SumType ==
    ASSUME NEW S, IsFiniteSet(S), NEW f \in [S -> Nat]
    PROVE  SumFunction(f) \in Nat
<1>1. PICK I : Sums(I, S, f) /\ SumFunction(f) = I[S]
    BY SumIs
<1>2. S \in SUBSET S
    OBVIOUS
<1> QED
    BY <1>1, <1>2 DEF Sums

\* The sum over one element.
LEMMA SumSingle ==
    ASSUME NEW x, NEW f \in [{x} -> Nat]
    PROVE  SumFunction(f) = f[x]
<1>1. IsFiniteSet({x})
    BY FS_Singleton
<1>2. PICK I : Sums(I, {x}, f) /\ SumFunction(f) = I[{x}]
    BY <1>1, SumIs
<1>3. {x} \ {x} = {}
    OBVIOUS
<1>4. I[{x}] = f[x] + I[{x} \ {x}] /\ I[{}] = 0
    BY <1>2 DEF Sums
<1> QED
    BY <1>2, <1>3, <1>4

\* The sum without one element.
LEMMA SumRemove ==
    ASSUME NEW S, IsFiniteSet(S), NEW f \in [S -> Nat], NEW x \in S
    PROVE  /\ SumFunction([y \in S \ {x} |-> f[y]]) \in Nat
           /\ SumFunction(f) = f[x] + SumFunction([y \in S \ {x} |-> f[y]])
<1> DEFINE T == S \ {x}
           g == [y \in T |-> f[y]]
<1>1. IsFiniteSet(T) /\ T \subseteq S /\ g \in [T -> Nat] /\ T \in SUBSET T
    BY FS_RemoveElement
<1>2. PICK I : Sums(I, S, f) /\ SumFunction(f) = I[S]
    BY SumIs
<1>3. PICK J : Sums(J, T, g) /\ SumFunction(g) = J[T]
    BY <1>1, SumIs
<1>4. \A y \in T : f[y] = g[y]
    OBVIOUS
<1>5. I[S] = f[x] + I[T] /\ J[T] \in Nat
    BY <1>2, <1>3 DEF Sums
<1>6. I[T] = J[T]
  <2> HIDE DEF T, g
  <2> QED
      BY <1>1, <1>2, <1>3, <1>4, SumsAgree
<1> QED
    BY <1>2, <1>3, <1>5, <1>6

\* Where one element changes, the sum does by as much.
LEMMA SumChange ==
    ASSUME NEW S, IsFiniteSet(S), NEW f \in [S -> Nat], NEW g \in [S -> Nat], NEW x \in S, NEW d \in Nat,
           \A y \in S \ {x} : f[y] = g[y], g[x] = f[x] + d
    PROVE  SumFunction(g) = SumFunction(f) + d
<1>1. [y \in S \ {x} |-> f[y]] = [y \in S \ {x} |-> g[y]]
    OBVIOUS
<1>2. PICK rest \in Nat : rest = SumFunction([y \in S \ {x} |-> f[y]])
    BY SumRemove
<1>3. SumFunction(f) = f[x] + rest
    BY <1>2, SumRemove
<1>4. SumFunction(g) = g[x] + rest
    BY <1>1, <1>2, SumRemove
<1>5. f[x] \in Nat
    OBVIOUS
<1> QED
    BY <1>2, <1>3, <1>4, <1>5

\* The sum of nothing but zeros.
LEMMA SumZero ==
    ASSUME NEW S, IsFiniteSet(S), NEW f \in [S -> Nat], \A x \in S : f[x] = 0
    PROVE  SumFunction(f) = 0
<1>1. PICK I : Sums(I, S, f) /\ SumFunction(f) = I[S]
    BY SumIs
<1> DEFINE Good == {s \in SUBSET S : I[s] = 0}
<1>2. {} \in Good /\ Good \in SUBSET SUBSET S
    BY <1>1 DEF Sums
<1>3. ASSUME NEW s \in SUBSET S, s # {}, \A x \in s : s \ {x} \in Good
      PROVE  s \in Good
  <2>1. PICK x \in s : TRUE
      BY <1>3
  <2>2. I[s] = f[x] + I[s \ {x}]
      BY <1>1 DEF Sums
  <2>3. I[s \ {x}] = 0 /\ f[x] = 0
      BY <1>3
  <2> QED
      BY <2>2, <2>3
<1>4. SUBSET S \subseteq Good
  <2>1. \A s \in SUBSET S : s # {} /\ (\A x \in s : s \ {x} \in Good) => s \in Good
      BY <1>3
  <2> HIDE DEF Good
  <2> QED
      BY <1>2, <2>1, SubsetInduction
<1> QED
    BY <1>1, <1>4

\* The sum of sums.
LEMMA SumAdd ==
    ASSUME NEW S, IsFiniteSet(S), NEW f \in [S -> Nat], NEW g \in [S -> Nat], NEW h \in [S -> Nat],
           \A x \in S : h[x] = f[x] + g[x]
    PROVE  SumFunction(h) = SumFunction(f) + SumFunction(g)
<1>1. PICK I : Sums(I, S, f) /\ SumFunction(f) = I[S]
    BY SumIs
<1>2. PICK J : Sums(J, S, g) /\ SumFunction(g) = J[S]
    BY SumIs
<1>3. PICK K : Sums(K, S, h) /\ SumFunction(h) = K[S]
    BY SumIs
<1> DEFINE Good == {s \in SUBSET S : K[s] = I[s] + J[s]}
<1>4. {} \in Good /\ Good \in SUBSET SUBSET S
    BY <1>1, <1>2, <1>3 DEF Sums
<1>5. ASSUME NEW s \in SUBSET S, s # {}, \A x \in s : s \ {x} \in Good
      PROVE  s \in Good
  <2>1. PICK x \in s : TRUE
      BY <1>5
  <2>2. PICK r : r = s \ {x}
      OBVIOUS
  <2>3. r \in Good /\ r \in SUBSET S
      BY <1>5, <2>2
  <2>4. K[s] = h[x] + K[r] /\ I[s] = f[x] + I[r] /\ J[s] = g[x] + J[r]
      BY <1>1, <1>2, <1>3, <2>2 DEF Sums
  <2>5. K[r] = I[r] + J[r] /\ I[r] \in Nat /\ J[r] \in Nat /\ f[x] \in Nat /\ g[x] \in Nat
      BY <1>1, <1>2, <2>3 DEF Sums
  <2>6. h[x] = f[x] + g[x]
      OBVIOUS
  <2>7. K[s] = I[s] + J[s]
      BY <2>4, <2>5, <2>6
  <2> QED
      BY <2>7
<1>6. \A s \in SUBSET S : s # {} /\ (\A x \in s : s \ {x} \in Good) => s \in Good
    BY <1>5
<1>7. SUBSET S \subseteq Good
  <2> HIDE DEF Good
  <2> QED
      BY <1>4, <1>6, SubsetInduction
<1> QED
    BY <1>1, <1>2, <1>3, <1>7

\* The sum, taken part by part.
LEMMA SumParts ==
    ASSUME NEW D, IsFiniteSet(D), NEW J, IsFiniteSet(J), NEW W \in [D -> J], NEW a \in [D -> Nat]
    PROVE  SumFunction([j \in J |-> SumFunction([i \in {i \in D : W[i] = j} |-> a[i]])]) = SumFunction(a)
<1> DEFINE Of(T, j) == SumFunction([i \in {i \in T : W[i] = j} |-> a[i]])
           Parts(T) == [j \in J |-> Of(T, j)]
           Whole(T) == SumFunction([i \in T |-> a[i]])
           Good == {T \in SUBSET D : SumFunction(Parts(T)) = Whole(T)}
<1>1. \A T \in SUBSET D : IsFiniteSet(T) /\ [i \in T |-> a[i]] \in [T -> Nat]
    BY FS_Subset
<1>2. ASSUME NEW T \in SUBSET D, NEW j \in J
      PROVE  Of(T, j) \in Nat
  <2>1. {i \in T : W[i] = j} \in SUBSET D
      OBVIOUS
  <2> QED
      BY <1>1, <2>1, SumType
<1>3. \A T \in SUBSET D : Parts(T) \in [J -> Nat]
    BY <1>2
<1>4. {} \in Good
  <2>1. \A f \in [{} -> Nat] : SumFunction(f) = 0
      BY FS_EmptySet, SumZero
  <2>2. \A j \in J : {i \in {} : W[i] = j} = {}
      OBVIOUS
  <2>3. [i \in {} |-> a[i]] \in [{} -> Nat]
      OBVIOUS
  <2>4. \A j \in J : Of({}, j) = 0
      BY <2>1, <2>2, <2>3
  <2>5. Whole({}) = 0
      BY <2>1, <2>3
  <2>6. SumFunction(Parts({})) = 0
    <3>1. Parts({}) \in [J -> Nat] /\ \A j \in J : Parts({})[j] = 0
        BY <1>3, <2>4
    <3> HIDE DEF Parts
    <3> QED
        BY <3>1, SumZero
  <2> QED
      BY <2>5, <2>6
<1>5. ASSUME NEW T \in SUBSET D, T # {}, \A x \in T : T \ {x} \in Good
      PROVE  T \in Good
  <2>1. PICK x \in T : TRUE
      BY <1>5
  <2>2. PICK R \in SUBSET D : R = T \ {x}
      OBVIOUS
  <2>3. SumFunction(Parts(R)) = Whole(R)
      BY <1>5, <2>2
  <2>4. Whole(T) = a[x] + Whole(R)
    <3>1. [i \in T |-> a[i]] \in [T -> Nat] /\ IsFiniteSet(T)
        BY <1>1
    <3>2. [i \in T \ {x} |-> [i2 \in T |-> a[i2]][i]] = [i \in R |-> a[i]]
        BY <2>2
    <3>3. ASSUME NEW f \in [T -> Nat]
          PROVE  SumFunction(f) = f[x] + SumFunction([i \in T \ {x} |-> f[i]])
      <4>1. IsFiniteSet(T) /\ x \in T /\ f \in [T -> Nat]
          BY <2>1, <3>1
      <4> QED
          BY ONLY <4>1, SumRemove
    <3>4. Whole(T) = [i \in T |-> a[i]][x] + SumFunction([i \in T \ {x} |-> [i2 \in T |-> a[i2]][i]])
        BY <3>1, <3>3
    <3> QED
        BY <3>2, <3>4
  <2>5. ASSUME NEW j \in J, j # W[x]
        PROVE  Of(T, j) = Of(R, j)
    <3>1. {i \in T : W[i] = j} = {i \in R : W[i] = j}
        BY <2>2, <2>5
    <3> QED
        BY <3>1
  <2>6. Of(T, W[x]) = a[x] + Of(R, W[x])
    <3> DEFINE P == {i \in T : W[i] = W[x]}
    <3>1. [i \in P |-> a[i]] \in [P -> Nat] /\ IsFiniteSet(P) /\ x \in P
        BY <1>1
    <3>2. P \ {x} = {i \in R : W[i] = W[x]}
        BY <2>2
    <3>3. [i \in P \ {x} |-> [i2 \in P |-> a[i2]][i]] = [i \in {i \in R : W[i] = W[x]} |-> a[i]]
        BY <3>2
    <3> HIDE DEF P
    <3>4. \A f \in [P -> Nat] : SumFunction(f) = f[x] + SumFunction([i \in P \ {x} |-> f[i]])
        BY <3>1, SumRemove
    <3>5. SumFunction([i \in P |-> a[i]]) = [i \in P |-> a[i]][x] + SumFunction([i \in P \ {x} |-> [i2 \in P |-> a[i2]][i]])
        BY <3>1, <3>4
    <3> QED
        BY <3>1, <3>3, <3>5 DEF P
  <2>7. SumFunction(Parts(T)) = SumFunction(Parts(R)) + a[x]
    <3>1. W[x] \in J /\ a[x] \in Nat /\ Parts(T) \in [J -> Nat] /\ Parts(R) \in [J -> Nat]
        BY <1>3
    <3>2. \A j \in J \ {W[x]} : Parts(R)[j] = Parts(T)[j]
        BY <2>5
    <3>3. Parts(T)[W[x]] = Parts(R)[W[x]] + a[x]
      <4>1. Parts(T)[W[x]] = Of(T, W[x]) /\ Parts(R)[W[x]] = Of(R, W[x])
          BY <3>1
      <4>2. Of(R, W[x]) \in Nat
          BY <1>2, <3>1
      <4> HIDE DEF Of, Parts
      <4> QED
          BY <3>1, <4>1, <4>2, <2>6
    <3> HIDE DEF Parts
    <3>4. PICK f \in [J -> Nat], g \in [J -> Nat], j \in J, d \in Nat :
            f = Parts(R) /\ g = Parts(T) /\ j = W[x] /\ d = a[x]
        BY <3>1
    <3>5. (\A y \in J \ {j} : f[y] = g[y]) /\ g[j] = f[j] + d
        BY <3>2, <3>3, <3>4
    <3>6. SumFunction(g) = SumFunction(f) + d
        BY <3>5, SumChange
    <3> QED
        BY <3>4, <3>6
  <2>8. a[x] \in Nat /\ Whole(R) \in Nat
      BY <1>1, SumType
  <2>9. SumFunction(Parts(T)) = Whole(T)
      BY <2>3, <2>4, <2>7, <2>8
  <2> QED
      BY <2>9
<1>6. D \in Good
  <2>1. /\ \A T \in SUBSET D : T # {} /\ (\A x \in T : T \ {x} \in Good) => T \in Good
        /\ Good \in SUBSET SUBSET D
      BY <1>5
  <2> HIDE DEF Good
  <2>2. SUBSET D \subseteq Good
      BY <1>4, <2>1, SubsetInduction
  <2> QED
      BY <2>2
<1>7. [i \in D |-> a[i]] = a
    OBVIOUS
<1> QED
    BY <1>6, <1>7

-----------------------------------------------------------------------------
(* Ranges.                                                                   *)

\* A function on 1 .. n is a sequence.
LEMMA FunctionIsSeq ==
    ASSUME NEW S, NEW n \in Nat, NEW f \in [1 .. n -> S]
    PROVE  f \in Seq(S) /\ Len(f) = n
<1>1. f = [i \in 1 .. n |-> f[i]]
    OBVIOUS
<1>2. \A i \in 1 .. n : f[i] \in S
    OBVIOUS
<1>3. [i \in 1 .. n |-> f[i]] \in Seq(S)
    BY <1>2
<1>4. f \in Seq(S)
    BY <1>1, <1>3
<1>5. DOMAIN f = 1 .. Len(f) /\ DOMAIN f = 1 .. n /\ Len(f) \in Nat
    BY <1>4
<1> QED
    BY <1>4, <1>5

\* What a sequence is.
LEMMA SeqFacts ==
    ASSUME NEW S, NEW s \in Seq(S)
    PROVE  /\ Len(s) \in Nat /\ DOMAIN s = 1 .. Len(s) /\ s \in [1 .. Len(s) -> S]
           /\ s = <<>> <=> Len(s) = 0
           /\ \A T : (\A i \in DOMAIN s : s[i] \in T) => s \in Seq(T)
    OBVIOUS

\* The sizes are numbers.
LEMMA Sizes ==
    /\ numCores \in Nat \ {0} /\ dsu_sizeCluster \in Nat \ {0} /\ dsu_numGPC \in Nat \ {0}
    /\ numFreeGPC \in Nat \ {0} /\ dmc_num \in Nat \ {0}
    /\ DMC_CLKDIV2_NUMGPC \in Nat /\ DMC_CLK_NUMGPC \in Nat /\ DMC_CLKDIV2_EVT_NUM \in Nat
    /\ MaxUnits \in Nat /\ MaxRounds \in Nat /\ MaxClients \in Nat
    BY SizesAssumption

\* The cores and the counters are finitely many; each core is of a cluster.
LEMMA FiniteRanges ==
    /\ IsFiniteSet(DsuGPCs) /\ IsFiniteSet(Cores)
    /\ \A c \in Cores : Cluster(c) \in Clusters
    /\ \A n \in Nat : IsFiniteSet(1 .. n)
<1>1. IsFiniteSet(0 .. (dsu_numGPC - 1)) /\ IsFiniteSet(0 .. (numCores - 1))
    BY FS_Interval, Sizes
<1>2. \A n \in Nat : IsFiniteSet(1 .. n)
    BY FS_Interval
<1>3. \A c \in Cores : Cluster(c) \in Clusters
    BY DEF Clusters
<1> QED
    BY <1>1, <1>2, <1>3 DEF DsuGPCs, Cores

\* What a client may ask for.
LEMMA RequestFacts ==
    ASSUME NEW r \in Requests
    PROVE  /\ r.cores \in Seq(Cores) /\ r.cores # <<>>
           /\ r.core \in Seq(Types) /\ r.dsu \in Seq(Types) /\ r.clk \in Seq(Types) /\ r.clkdiv2 \in Seq(Types)
           /\ Len(r.clkdiv2) <= DMC_CLKDIV2_NUMGPC /\ Len(r.clk) <= DMC_CLK_NUMGPC
<1>1. r.cores \in Seq(Cores) /\ r.cores # <<>>
    BY RequestsAssumption DEF Cores
<1>2. ASSUME NEW types \in {r.core, r.dsu, r.clk, r.clkdiv2}
      PROVE  types \in Seq(Types)
  <2>1. types \in Seq(ToSet(types))
      BY RequestsAssumption
  <2>2. ToSet(types) \subseteq Types
      BY DEF Types
  <2>3. \A i \in DOMAIN types : types[i] \in Types
      BY <2>1, <2>2, SeqFacts
  <2> QED
      BY <2>1, <2>3, SeqFacts
<1>3. Len(r.clkdiv2) <= DMC_CLKDIV2_NUMGPC /\ Len(r.clk) <= DMC_CLK_NUMGPC
    BY RequestsAssumption
<1>4. r.core \in Seq(Types) /\ r.dsu \in Seq(Types) /\ r.clk \in Seq(Types) /\ r.clkdiv2 \in Seq(Types)
    BY <1>2
<1> QED
    BY <1>1, <1>3, <1>4

-----------------------------------------------------------------------------
(* The inductive invariant.                                                  *)

\* The client's events are all assigned.
Prepared == Measuring \/ phase = "ready"

\* A core multiplexes only if it has events, and is in the middle of a cluster's
\* tick only if it ticks for its cluster.
ProfInv == \A c \in Cores : /\ prof_dsu[c] = "MULTIPLEX" => dsuEvents[c] # <<>>
                            /\ exec[c] = "dsu" => prof_dsu[c] # "DISABLED"

\* What has been assigned so far is what the client asks for.
AssignedInv ==
  /\ phase = "assigning" => assigned < Len(request.cores)
  /\ Prepared => assigned = Len(request.cores)
  /\ (phase = "assigning" \/ Prepared) /\ WantsDsu => \A i \in 1 .. assigned : dsuEvents[request.cores[i]] = request.dsu
  /\ Prepared /\ WantsDmc => \A ch \in Channels : /\ DOMAIN clkdiv2[ch] = DOMAIN request.clkdiv2
                                  /\ \A j \in DOMAIN clkdiv2[ch] : dmcReg[ch][j - 1].type = request.clkdiv2[j]

\* The cores in the middle of a tick of a cluster. What its counters show then
\* has been added to the values already, and they stand still.
InTick(k) == {c \in Cores : Cluster(c) = k /\ exec[c] = "dsu"}
DsuLeft(k, i) == IF InTick(k) = {} THEN dsuReg[k][i].count.n ELSE 0
Balanced(k) ==
  IF Len(request.dsu) <= dsu_numGPC
    THEN \A j \in DOMAIN request.dsu : Valued(k, j) + DsuLeft(k, j - 1) = made.dsu[k][j - 1]
    ELSE SumFunction([j \in DOMAIN request.dsu |-> Valued(k, j)]) + SumFunction([i \in DsuGPCs |-> DsuLeft(k, i)])
           = SumFunction(made.dsu[k])
DsuInv ==
  Measuring /\ WantsDsu => \A k \in MyClusters \ mixed.dsu :
    /\ \A c \in InTick(k) : c \in Mine /\ prof_dsu[c] = ProfDsu(c) /\ InTick(k) = {c} /\ ~dsuOn[k]
    /\ Balanced(k)

\* The same of the memory controllers, whose counters have the types of the
\* client's events.
InRead == {c \in Cores : exec[c] = "dmc_read"}
DmcLeft(ch, i) == IF InRead = {} THEN dmcReg[ch][i].count.n ELSE 0
DmcInv ==
  Measuring /\ WantsDmc =>
    /\ ~mixed.dmc => \A c \in InRead : InRead = {c}
    /\ \A ch \in Channels : \A j \in DOMAIN clkdiv2[ch] :
         /\ ~mixed.dmc => /\ InRead # {} => ~dmcReg[ch][j - 1].on
                          /\ clkdiv2[ch][j].value.n + DmcLeft(ch, j - 1) = made.dmc[ch][j - 1]
         /\ clkdiv2[ch][j].value.of \subseteq {request.clkdiv2[j]}
         /\ dmcReg[ch][j - 1].count.of \subseteq {request.clkdiv2[j]}

\* The events of a cluster's counts. The round a core's counters are programmed
\* for, but inside its cluster's tick, is one ahead of timer_round until the DPC
\* ends; and the event a counter is programmed with in a round.
Part(k) == {c \in Mine : Cluster(c) = k}
Rounds(c) == IF exec[c] \in {"dmc", "dmc_read"} THEN timer_round[c] + 1 ELSE timer_round[c]
Turned(round, i) == request.dsu[1 + ((dsu_numGPC * round + i) % Len(request.dsu))]
Followed(c) == TicksAlone(c) /\ c \notin mixed.rounds
DsuOwn(k) ==
  /\ \A i \in DsuGPCs : dsuReg[k][i].count.of \subseteq {dsuReg[k][i].type}
  /\ Len(request.dsu) <= dsu_numGPC =>
       \A c \in Part(k) : \A j \in DOMAIN value[c] : value[c][j].of \subseteq {dsuReg[k][j - 1].type}
  /\ Len(request.dsu) > dsu_numGPC =>
       \A c \in Part(k) : Followed(c) =>
         /\ ProfDsu(c) # "DISABLED" /\ Rounds(c) # 0 =>
              \A i \in DsuGPCs : dsuReg[k][i].type = Turned(Rounds(c), i)
         /\ \A j \in DOMAIN value[c] : j > dsu_numGPC => value[c][j].of \subseteq {request.dsu[j]}
DsuOwnInv == Measuring /\ WantsDsu => \A k \in MyClusters \ mixed.dsu : DsuOwn(k)

\* The invariant.
UncoreInv == TypeOK /\ StartedCounts /\ ProfInv /\ AssignedInv /\ DsuInv /\ DsuOwnInv /\ DmcInv

-----------------------------------------------------------------------------
(* Types.                                                                    *)

\* Counts and counters stay what they are, whatever is done with them.
LEMMA CountsFacts ==
    /\ Zero \in Counts /\ Off \in Reg
    /\ \A a, b \in Counts : /\ Plus(a, b) \in Counts /\ Plus(a, b).n = a.n + b.n
                            /\ Plus(a, b).of = a.of \cup b.of
    /\ \A reg \in Reg : /\ reg.type \in Types /\ reg.count \in Counts /\ reg.on \in BOOLEAN
                        /\ Counted(reg) \in Reg /\ DmcCounterStart(reg) \in Reg /\ DmcCounterStop(reg) \in Reg
                        /\ DmcCounterReset(reg) \in Reg
<1>1. Zero \in Counts
    BY DEF Zero, Counts
<1>2. NoEvent \in Types /\ Default \in Types
    BY DEF Types
<1>3. \A a, b \in Counts : /\ Plus(a, b) \in Counts /\ Plus(a, b).n = a.n + b.n
                           /\ Plus(a, b).of = a.of \cup b.of
    BY DEF Plus, Counts
<1>4. ASSUME NEW reg \in Reg
      PROVE  /\ reg.type \in Types /\ reg.count \in Counts /\ reg.on \in BOOLEAN
             /\ Counted(reg) \in Reg /\ DmcCounterStart(reg) \in Reg /\ DmcCounterStop(reg) \in Reg
             /\ DmcCounterReset(reg) \in Reg
  <2>1. reg.type \in Types /\ reg.count \in Counts /\ reg.on \in BOOLEAN
      BY DEF Reg
  <2>2. [n |-> 1, of |-> {reg.type}] \in Counts
      BY <2>1 DEF Counts
  <2>3. Plus(reg.count, [n |-> 1, of |-> {reg.type}]) \in Counts
      BY <1>3, <2>1, <2>2
  <2> QED
      BY <1>1, <2>1, <2>3 DEF Reg, Counted, DmcCounterStart, DmcCounterStop,
         DmcCounterReset
<1> QED
    BY <1>1, <1>2, <1>3, <1>4 DEF Off, Reg

\* What the types of the variables are good for.
LEMMA Typed ==
    ASSUME TypeOK
    PROVE  /\ request \in Requests /\ Mine \subseteq Cores /\ MyClusters \subseteq Clusters
           /\ \A c \in Cores : /\ value[c] \in Seq(Counts) /\ DOMAIN value[c] = 1 .. Len(dsuEvents[c])
                              /\ Len(dsuEvents[c]) \in Nat /\ dsuEvents[c] \in Seq(Types)
           /\ \A k \in Clusters : \A i \in DsuGPCs : dsuReg[k][i] \in Reg /\ made.dsu[k][i] \in Nat
           /\ \A ch \in Channels : \A i \in DmcGPCs : dmcReg[ch][i] \in Reg /\ made.dmc[ch][i] \in Nat
           /\ \A ch \in Channels : clk[ch] \in DmcEvents /\ clkdiv2[ch] \in DmcEvents
<1>1. request \in Requests
    BY DEF TypeOK
<1>2. Mine \subseteq Cores
    BY <1>1, RequestFacts, SeqFacts DEF Mine, ToSet
<1>3. MyClusters \subseteq Clusters
    BY <1>2, FiniteRanges DEF MyClusters
<1>4. ASSUME NEW c \in Cores
      PROVE  /\ value[c] \in Seq(Counts) /\ DOMAIN value[c] = 1 .. Len(dsuEvents[c])
             /\ Len(dsuEvents[c]) \in Nat /\ dsuEvents[c] \in Seq(Types)
  <2>1. value[c] \in Seq(Counts) /\ dsuEvents[c] \in Seq(Types) /\ Len(value[c]) = Len(dsuEvents[c])
      BY DEF TypeOK
  <2> QED
      BY <2>1, SeqFacts
<1>5. \A k \in Clusters : \A i \in DsuGPCs : dsuReg[k][i] \in Reg
    BY DEF TypeOK
<1>6. \A ch \in Channels : \A i \in DmcGPCs : dmcReg[ch][i] \in Reg
    BY DEF TypeOK
<1>7. \A k \in Clusters : \A i \in DsuGPCs : made.dsu[k][i] \in Nat
    BY DEF TypeOK
<1>8. \A ch \in Channels : \A i \in DmcGPCs : made.dmc[ch][i] \in Nat
    BY DEF TypeOK
<1>9. \A ch \in Channels : clk[ch] \in DmcEvents /\ clkdiv2[ch] \in DmcEvents
    BY DEF TypeOK
<1> QED
    BY <1>1, <1>2, <1>3, <1>4, <1>5, <1>6, <1>7, <1>8, <1>9

\* The counters of the memory controllers stay what they are.
LEMMA IteratorTyping ==
    ASSUME TypeOK
    PROVE  /\ DmcChannelIterator(DmcCounterStart) => dmcReg' \in [Channels -> [DmcGPCs -> Reg]]
           /\ DmcChannelIterator(DmcCounterStop) => dmcReg' \in [Channels -> [DmcGPCs -> Reg]]
           /\ DmcChannelIterator(DmcCounterReset) => dmcReg' \in [Channels -> [DmcGPCs -> Reg]]
           /\ DmcChannelIterator(DmcRestart) => dmcReg' \in [Channels -> [DmcGPCs -> Reg]]
    BY Typed, CountsFacts DEF DmcChannelIterator, DmcRestart

\* Time passes, and the variables keep their types.
LEMMA ElapseTyping == TypeOK /\ Elapse => TypeOK'
<1> SUFFICES ASSUME TypeOK, Elapse
             PROVE  TypeOK'
    OBVIOUS
<1>1. dsuReg' \in [Clusters -> [DsuGPCs -> Reg]]
    BY Typed, CountsFacts DEF Elapse
<1>2. dmcReg' \in [Channels -> [DmcGPCs -> Reg]]
    BY Typed, CountsFacts DEF Elapse
<1>3. made' \in [dsu : [Clusters -> [DsuGPCs -> Nat]], dmc : [Channels -> [DmcGPCs -> Nat]]]
    BY Typed DEF Elapse
<1> QED
    BY <1>1, <1>2, <1>3 DEF TypeOK, Elapse, clientVars, assignVars, timerVars

\* The event of a counter is one of the core's.
LEMMA Windows ==
    ASSUME TypeOK, NEW c \in Cores, dsuEvents[c] # <<>>, NEW round \in Nat, NEW i \in DsuGPCs
    PROVE  Window(c, round, i) \in 1 .. Len(dsuEvents[c])
<1>1. PICK n \in Nat \ {0} : n = Len(dsuEvents[c])
    BY Typed, SeqFacts
<1>2. PICK p \in Nat : p = dsu_numGPC * round
    BY Sizes
<1>3. i \in Nat
    BY Sizes DEF DsuGPCs
<1>4. (p + i) % n \in 0 .. (n - 1)
    BY <1>1, <1>2, <1>3
<1>5. Window(c, round, i) = 1 + ((p + i) % n)
    BY <1>1, <1>2 DEF Window
<1> QED
    BY <1>1, <1>4, <1>5

\* The counters whose turn an event has, and what they show.
Turn(c, j) == {i \in DsuGPCs : Window(c, timer_round[c], i) = j}
Turns(c, j) == SumFunction([i \in Turn(c, j) |-> dsuReg[Cluster(c)][i].count.n])

\* What the counters show that are an event's turn.
LEMMA TurnsTyping ==
    ASSUME TypeOK, NEW c \in Cores, NEW j
    PROVE  Turns(c, j) \in Nat
<1>1. \A i \in DsuGPCs : dsuReg[Cluster(c)][i].count.n \in Nat
    BY Typed, FiniteRanges, CountsFacts DEF Counts
<1>2. Turn(c, j) \in SUBSET DsuGPCs
    BY DEF Turn
<1>3. IsFiniteSet(Turn(c, j))
    BY <1>2, FiniteRanges, FS_Subset
<1>4. [i \in Turn(c, j) |-> dsuReg[Cluster(c)][i].count.n] \in [Turn(c, j) -> Nat]
    BY <1>1, <1>2
<1> QED
    BY <1>3, <1>4, SumType DEF Turns

\* A tick adds to an event what the counters show that count it.
LEMMA CreditedTyping ==
    ASSUME TypeOK, NEW c \in Cores
    PROVE  /\ Credited(c) \in Seq(Counts) /\ Len(Credited(c)) = Len(dsuEvents[c])
           /\ DOMAIN Credited(c) = 1 .. Len(dsuEvents[c])
           /\ \A j \in 1 .. Len(dsuEvents[c]) :
                Credited(c)[j].n = value[c][j].n + (IF prof_dsu[c] = "NORMAL" THEN DSUEventGetCounting(c, j).n
                                                    ELSE Turns(c, j))
<1> DEFINE n == Len(dsuEvents[c])
           Gained(j) == IF prof_dsu[c] = "NORMAL" THEN DSUEventGetCounting(c, j)
                        ELSE [n |-> Turns(c, j), of |-> UNION {dsuReg[Cluster(c)][i].count.of : i \in Turn(c, j)}]
<1>1. n \in Nat /\ DOMAIN value[c] = 1 .. n /\ \A j \in 1 .. n : value[c][j] \in Counts
    BY Typed, SeqFacts
<1>2. \A i \in DsuGPCs : dsuReg[Cluster(c)][i].count \in Counts
    BY Typed, FiniteRanges, CountsFacts
<1>3. ASSUME NEW j \in 1 .. n
      PROVE  Gained(j) \in Counts
  <2>1. j <= dsu_numGPC => j - 1 \in DsuGPCs
      BY Sizes, <1>1 DEF DsuGPCs
  <2>2. DSUEventGetCounting(c, j) \in Counts
    <3>1. [n |-> 0, of |-> {"garbage"}] \in Counts
        BY DEF Counts
    <3> QED
        BY <1>2, <2>1, <3>1 DEF DSUEventGetCounting
  <2>3. UNION {dsuReg[Cluster(c)][i].count.of : i \in Turn(c, j)} \in SUBSET (Types \cup {"garbage"})
      BY <1>2 DEF Turn, Counts
  <2>4. Turns(c, j) \in Nat
      BY TurnsTyping
  <2> QED
      BY <2>2, <2>3, <2>4 DEF Counts
<1>4. Credited(c) = [j \in 1 .. n |-> Plus(value[c][j], Gained(j))]
    BY <1>1 DEF Credited, Turns, Turn
<1>5. ASSUME NEW j \in 1 .. n
      PROVE  /\ Credited(c)[j] \in Counts
             /\ Credited(c)[j].n = value[c][j].n + Gained(j).n
  <2> HIDE DEF Gained, n
  <2> QED
      BY <1>1, <1>3, <1>4, CountsFacts
<1>6. \A j \in 1 .. n : Gained(j).n = IF prof_dsu[c] = "NORMAL" THEN DSUEventGetCounting(c, j).n ELSE Turns(c, j)
    OBVIOUS
<1>7. Credited(c) \in [1 .. n -> Counts]
  <2> HIDE DEF Gained, n
  <2> QED
      BY <1>4, <1>5
<1>8. Credited(c) \in Seq(Counts) /\ Len(Credited(c)) = n /\ DOMAIN Credited(c) = 1 .. n
    BY <1>1, <1>7, FunctionIsSeq
<1> QED
    BY <1>5, <1>6, <1>8

\* The counters that a tick restarts are counters of the cluster.
LEMMA RestartedTyping ==
    ASSUME TypeOK, ProfInv, NEW c \in Cores, exec[c] = "dsu"
    PROVE  Restarted(c) \in [DsuGPCs -> Reg] /\ \A i \in DsuGPCs : Restarted(c)[i].count = Zero
<1>1. CASE prof_dsu[c] = "NORMAL"
  <2>1. \A i \in DsuGPCs : dsuReg[Cluster(c)][i] \in Reg
      BY Typed, FiniteRanges
  <2>2. \A i \in DsuGPCs : [dsuReg[Cluster(c)][i] EXCEPT !.count = Zero] \in Reg
      BY <2>1, CountsFacts DEF DmcCounterReset
  <2>3. \A i \in DsuGPCs : [dsuReg[Cluster(c)][i] EXCEPT !.count = Zero].count = Zero
      BY <2>1 DEF Reg
  <2> QED
      BY <1>1, <2>2, <2>3 DEF Restarted, DSUCounterReset
<1>2. CASE prof_dsu[c] # "NORMAL"
  <2>1. prof_dsu[c] = "MULTIPLEX" /\ timer_round[c] + 1 \in Nat
      BY <1>2 DEF ProfInv, TypeOK
  <2>2. dsuEvents[c] # <<>> /\ dsuEvents[c] \in Seq(Types)
      BY <2>1, Typed DEF ProfInv
  <2>3. \A i \in DsuGPCs : dsuEvents[c][Window(c, timer_round[c] + 1, i)] \in Types
      BY <2>1, <2>2, Windows, SeqFacts
  <2> QED
      BY <1>2, <2>3, CountsFacts DEF Restarted, Reg
<1> QED
    BY <1>1, <1>2

\* The steps of a tick keep the types.
LEMMA TickTyping ==
    ASSUME TypeOK, ProfInv, NEW c \in Cores, TimerFires(c) \/ TickFindsIdle(c) \/ Tick(c)
    PROVE  TypeOK'
<1>1. CASE TimerFires(c)
  <2>1. queued' \in [Cores -> BOOLEAN]
      BY <1>1 DEF TimerFires, TypeOK
  <2>2. UNCHANGED <<clientVars, assignVars, prof_dsu, prof_dmc, timer_round, armed, exec, regVars, value, history>>
      BY <1>1 DEF TimerFires
  <2>3. \A flags \in {prof_dmc', armed', queued'} : flags \in [Cores -> BOOLEAN]
      BY <2>1, <2>2 DEF TypeOK
  <2> QED
      BY <2>2, <2>3 DEF TypeOK, clientVars, assignVars, regVars, history
<1>2. CASE TickFindsIdle(c)
  <2>1. queued' \in [Cores -> BOOLEAN]
      BY <1>2 DEF TickFindsIdle, TypeOK
  <2>2. UNCHANGED <<clientVars, assignVars, prof_dsu, prof_dmc, timer_round, armed, exec, regVars, value, history>>
      BY <1>2 DEF TickFindsIdle
  <2>3. \A flags \in {prof_dmc', armed', queued'} : flags \in [Cores -> BOOLEAN]
      BY <2>1, <2>2 DEF TypeOK
  <2> QED
      BY <2>2, <2>3 DEF TypeOK, clientVars, assignVars, regVars, history
<1>3. ASSUME NEW next \in {"none", "dsu", "dmc", "dmc_read"}, Continues(c, next)
      PROVE  exec' \in [Cores -> {"none", "dsu", "dmc", "dmc_read"}] /\ timer_round' \in [Cores -> Nat]
    BY <1>3 DEF Continues, TypeOK
<1>4. CASE TickCredits(c)
  <2>1. exec' \in [Cores -> {"none", "dsu", "dmc", "dmc_read"}] /\ timer_round' \in [Cores -> Nat]
      BY <1>3, <1>4 DEF TickCredits
  <2>2. queued' \in [Cores -> BOOLEAN]
      BY <1>4 DEF TickCredits, TypeOK
  <2>3. value' \in [Cores -> Seq(Counts)] /\ \A d \in Cores : Len(value'[d]) = Len(dsuEvents[d])
    <3>1. value' = value \/ value' = [value EXCEPT ![c] = Credited(c)]
        BY <1>4 DEF TickCredits
    <3>2. value \in [Cores -> Seq(Counts)] /\ \A d \in Cores : Len(value[d]) = Len(dsuEvents[d])
        BY DEF TypeOK
    <3> QED
        BY <3>1, <3>2, CreditedTyping
  <2>4. dsuOn' \in [Clusters -> BOOLEAN]
      BY <1>4 DEF TickCredits, TypeOK
  <2>5. mixed' \in [dsu : SUBSET Clusters, rounds : SUBSET Cores, dmc : BOOLEAN]
    <3>1. \/ mixed' = mixed \/ mixed' = [mixed EXCEPT !.dsu = @ \cup {Cluster(c)}]
          \/ mixed' = [mixed EXCEPT !.rounds = @ \cup {c}]
        BY <1>4 DEF TickCredits
    <3>2. mixed \in [dsu : SUBSET Clusters, rounds : SUBSET Cores, dmc : BOOLEAN] /\ Cluster(c) \in Clusters
        BY FiniteRanges DEF TypeOK
    <3>3. mixed.dsu \cup {Cluster(c)} \in SUBSET Clusters /\ mixed.rounds \cup {c} \in SUBSET Cores
        BY <3>2
    <3> QED
        BY <3>1, <3>2, <3>3
  <2>6. UNCHANGED <<status, phase, request, clients, assigned, coreEvents, dsuEvents, clk, clkdiv2,
                    prof_dsu, prof_dmc, armed, dsuReg, dmcReg, made>>
      BY <1>4 DEF TickCredits, clientVars, assignVars
  <2>7. \A flags \in {prof_dmc', armed', queued'} : flags \in [Cores -> BOOLEAN]
    <3>1. \A flags \in {prof_dmc, armed} : flags \in [Cores -> BOOLEAN]
        BY DEF TypeOK
    <3> QED
        BY <2>2, <2>6, <3>1
  <2>8. \A d \in Cores : Len(value'[d]) = Len(dsuEvents'[d])
      BY <2>3, <2>6
  <2>9. /\ status' \in {"STS_IDLE", "STS_BUSY"} /\ phase' \in Phases /\ request' \in Requests
        /\ clients' \in 0 .. MaxClients /\ assigned' \in 0 .. Len(request'.cores)
      BY <2>6 DEF TypeOK
  <2>10. /\ coreEvents' \in [Cores -> Seq([type : Types, counter : Int])] /\ dsuEvents' \in [Cores -> Seq(Types)]
         /\ prof_dsu' \in [Cores -> {"DISABLED", "NORMAL", "MULTIPLEX"}]
         /\ dsuReg' \in [Clusters -> [DsuGPCs -> Reg]] /\ dmcReg' \in [Channels -> [DmcGPCs -> Reg]]
         /\ clk' \in [Channels -> DmcEvents] /\ clkdiv2' \in [Channels -> DmcEvents]
         /\ made' \in [dsu : [Clusters -> [DsuGPCs -> Nat]], dmc : [Channels -> [DmcGPCs -> Nat]]]
      BY <2>6 DEF TypeOK
  <2> QED
      BY <2>1, <2>3, <2>4, <2>5, <2>7, <2>8, <2>9, <2>10 DEF TypeOK
<1>5. CASE TickRestarts(c)
  <2>1. exec' \in [Cores -> {"none", "dsu", "dmc", "dmc_read"}] /\ timer_round' \in [Cores -> Nat]
      BY <1>3, <1>5 DEF TickRestarts
  <2>2. dsuReg' \in [Clusters -> [DsuGPCs -> Reg]]
      BY <1>5, RestartedTyping DEF TickRestarts, TypeOK
  <2>3. dsuOn' \in [Clusters -> BOOLEAN]
      BY <1>5 DEF TickRestarts, TypeOK
  <2> QED
      BY <1>5, <2>1, <2>2, <2>3 DEF TickRestarts, TypeOK, clientVars,
         assignVars, history
<1>6. CASE TickDmcCredits(c)
  <2>1. exec' \in [Cores -> {"none", "dsu", "dmc", "dmc_read"}] /\ timer_round' \in [Cores -> Nat]
      BY <1>3, <1>6 DEF TickDmcCredits
  <2>2. dmcReg' \in [Channels -> [DmcGPCs -> Reg]]
      BY <1>6, IteratorTyping DEF TickDmcCredits
  <2>3. mixed' \in [dsu : SUBSET Clusters, rounds : SUBSET Cores, dmc : BOOLEAN]
    <3>1. \E b \in BOOLEAN : mixed' = [mixed EXCEPT !.dmc = b]
      <4>1. (mixed.dmc \/ \E d \in Cores : exec[d] = "dmc_read") \in BOOLEAN
          OBVIOUS
      <4> QED
          BY <1>6, <4>1 DEF TickDmcCredits
    <3>2. mixed \in [dsu : SUBSET Clusters, rounds : SUBSET Cores, dmc : BOOLEAN]
        BY DEF TypeOK
    <3> QED
        BY <3>1, <3>2
  <2> DEFINE R == [type : Types, value : Counts]
             Credit(ch, i, e) == [e EXCEPT !.value = Plus(@, DmcCounterRead(ch, i))]
  <2>4. ASSUME NEW ch \in Channels, NEW i, NEW e \in R
        PROVE  Credit(ch, i, e) \in R
    <3>1. [n |-> 0, of |-> {"garbage"}] \in Counts
        BY DEF Counts
    <3>2. DmcCounterRead(ch, i) \in Counts
        BY <3>1, Typed, CountsFacts DEF DmcCounterRead
    <3>3. Plus(e.value, DmcCounterRead(ch, i)) \in Counts
        BY <3>2, CountsFacts
    <3> QED
        BY <3>3
  <2>5. ASSUME NEW s \in Seq(R), NEW t, t = [j \in DOMAIN s |-> t[j]], \A j \in DOMAIN s : t[j] \in R
        PROVE  t \in Seq(R)
    <3> HIDE DEF R
    <3>1. DOMAIN s = 1 .. Len(s) /\ Len(s) \in Nat
        BY SeqFacts
    <3>2. t \in [1 .. Len(s) -> R]
        BY <2>5, <3>1
    <3> QED
        BY <3>1, <3>2, FunctionIsSeq
  <2>6. DmcEvents = Seq(R) /\ \A ch \in Channels : clk[ch] \in Seq(R) /\ clkdiv2[ch] \in Seq(R)
      BY Typed DEF DmcEvents
  <2> HIDE DEF Credit, R
  <2>7. ASSUME NEW ch \in Channels
        PROVE  clk'[ch] \in Seq(R) /\ clkdiv2'[ch] \in Seq(R)
    <3>1. /\ clk'[ch] = [j \in DOMAIN clk[ch] |-> Credit(ch, DMC_CLKDIV2_EVT_NUM + j - 1, clk[ch][j])]
          /\ clkdiv2'[ch] = [j \in DOMAIN clkdiv2[ch] |-> Credit(ch, j - 1, clkdiv2[ch][j])]
        BY <1>6 DEF TickDmcCredits, Credit
    <3>2. /\ \A j \in DOMAIN clk[ch] : clk[ch][j] \in R
          /\ \A j \in DOMAIN clkdiv2[ch] : clkdiv2[ch][j] \in R
        BY <2>6, SeqFacts
    <3>3. clk'[ch] = [j \in DOMAIN clk[ch] |-> clk'[ch][j]] /\ \A j \in DOMAIN clk[ch] : clk'[ch][j] \in R
        BY <2>4, <3>1, <3>2
    <3>4. clkdiv2'[ch] = [j \in DOMAIN clkdiv2[ch] |-> clkdiv2'[ch][j]] /\ \A j \in DOMAIN clkdiv2[ch] : clkdiv2'[ch][j] \in R
        BY <2>4, <3>1, <3>2
    <3> QED
        BY <2>5, <2>6, <3>3, <3>4
  <2>8. clk' \in [Channels -> DmcEvents] /\ clkdiv2' \in [Channels -> DmcEvents]
      BY <1>6, <2>6, <2>7 DEF TickDmcCredits
  <2> QED
      BY <1>6, <2>1, <2>2, <2>3, <2>8 DEF TickDmcCredits, TypeOK, clientVars
<1>7. CASE TickDmcRestarts(c)
  <2>1. exec' \in [Cores -> {"none", "dsu", "dmc", "dmc_read"}] /\ timer_round' \in [Cores -> Nat]
      BY <1>3, <1>7 DEF TickDmcRestarts
  <2>2. dmcReg' \in [Channels -> [DmcGPCs -> Reg]]
      BY <1>7, IteratorTyping DEF TickDmcRestarts
  <2> QED
      BY <1>7, <2>1, <2>2 DEF TickDmcRestarts, TypeOK, clientVars, assignVars,
         history
<1> QED
    BY <1>1, <1>2, <1>4, <1>5, <1>6, <1>7 DEF Tick

\* Emptied and zeroed lists.
LEMMA ZerosTyping == ASSUME NEW S, NEW s \in Seq(S)
                     PROVE  Zeros(s) \in Seq(Counts) /\ Len(Zeros(s)) = Len(s) /\ DOMAIN Zeros(s) = DOMAIN s
<1>1. DOMAIN s = 1 .. Len(s) /\ Len(s) \in Nat
    BY SeqFacts
<1>2. Zeros(s) \in [1 .. Len(s) -> Counts]
    BY <1>1, CountsFacts DEF Zeros
<1> QED
    BY <1>1, <1>2, FunctionIsSeq

\* Assigning the events of a core keeps the types.
LEMMA AssignTyping ==
    ASSUME TypeOK, AssignedInv, Assign
    PROVE  TypeOK'
<1> DEFINE c == request.cores[assigned + 1]
<1>1. assigned \in Nat /\ assigned + 1 \in 1 .. Len(request.cores) /\ assigned' = assigned + 1
  <2>1. phase = "assigning" /\ assigned' = assigned + 1
      BY DEF Assign
  <2>2. assigned < Len(request.cores) /\ assigned \in 0 .. Len(request.cores) /\ Len(request.cores) \in Nat
      BY <2>1, Typed, RequestFacts, SeqFacts DEF AssignedInv, TypeOK
  <2> QED
      BY <2>1, <2>2
<1>2. c \in Cores
    BY <1>1, Typed, RequestFacts, SeqFacts
<1>3. evt_assign_core(c) /\ evt_assign_dsu(c) /\ DSUEventEnable(c) /\ AssignDmc
    BY DEF Assign
<1> DEFINE E == [type : Types, counter : Int]
<1>4. coreEvents' \in [Cores -> Seq(E)]
  <2> DEFINE New == [j \in DOMAIN request.core |->
                       [type |-> request.core[j], counter |-> IF j <= numFreeGPC THEN j - 1 ELSE InvalidCounter]]
  <2>1. request.core \in Seq(Types)
      BY Typed, RequestFacts
  <2>2. PICK n \in Nat : DOMAIN request.core = 1 .. n /\ \A j \in 1 .. n : request.core[j] \in Types
      BY <2>1, SeqFacts
  <2>3. New \in [1 .. n -> E]
      BY <2>2 DEF InvalidCounter
  <2>4. New \in Seq(E)
      BY <2>3, FunctionIsSeq
  <2>5. coreEvents \in [Cores -> Seq(E)]
      BY DEF TypeOK
  <2>6. coreEvents' = coreEvents \/ coreEvents' = [coreEvents EXCEPT ![c] = New]
    <3>1. coreEvents' = [coreEvents EXCEPT ![c] = IF request.core = <<>> THEN @ ELSE New]
        BY <1>3 DEF evt_assign_core
    <3> HIDE DEF New, c, E
    <3> QED
        BY <1>2, <2>5, <3>1
  <2> HIDE DEF New, c, E
  <2> QED
      BY <1>2, <2>4, <2>5, <2>6
<1>5. /\ dsuEvents' \in [Cores -> Seq(Types)] /\ value' \in [Cores -> Seq(Counts)]
      /\ \A d \in Cores : Len(value'[d]) = Len(dsuEvents'[d])
  <2>1. request.dsu \in Seq(Types)
      BY Typed, RequestFacts
  <2>2. Zeros(request.dsu) \in Seq(Counts) /\ Len(Zeros(request.dsu)) = Len(request.dsu)
      BY <2>1, ZerosTyping
  <2>3. CASE WantsDsu
    <3>1. /\ dsuEvents' = [dsuEvents EXCEPT ![c] = request.dsu]
          /\ value' = [value EXCEPT ![c] = Zeros(request.dsu)]
        BY <1>3, <2>3 DEF evt_assign_dsu
    <3>2. /\ dsuEvents \in [Cores -> Seq(Types)] /\ value \in [Cores -> Seq(Counts)]
          /\ \A d \in Cores : Len(value[d]) = Len(dsuEvents[d])
        BY DEF TypeOK
    <3> HIDE DEF c
    <3> QED
        BY <1>2, <2>1, <2>2, <3>1, <3>2
  <2>4. CASE ~WantsDsu
      BY <1>3, <2>4 DEF evt_assign_dsu, TypeOK
  <2> QED
      BY <2>3, <2>4
<1>6. dsuReg' \in [Clusters -> [DsuGPCs -> Reg]]
  <2>1. \A j : CoreSlot(coreEvents'[c], j).type \in Types
    <3>1. coreEvents'[c] \in Seq(E)
        BY <1>2, <1>4
    <3>2. \A j \in DOMAIN coreEvents'[c] : coreEvents'[c][j] \in E
      <4> HIDE DEF E, c
      <4> QED
          BY <3>1, SeqFacts
    <3>3. NoEvent \in Types
        BY DEF Types
    <3> QED
        BY <3>2, <3>3 DEF CoreSlot
  <2> DEFINE Slots == IF WantsDsu THEN 1 .. Min({Len(request.dsu), numFreeGPC}) ELSE {}
             Fits(i) == \E j \in Slots : CoreSlot(coreEvents'[c], j).counter = i
             Final(i) == Max({j \in Slots : CoreSlot(coreEvents'[c], j).counter = i})
  <2>2. dsuReg' = [dsuReg EXCEPT ![Cluster(c)] = [i \in DsuGPCs |->
                     IF Fits(i) THEN [@[i] EXCEPT !.type = CoreSlot(coreEvents'[c], Final(i)).type, !.on = TRUE] ELSE @[i]]]
      BY <1>3 DEF DSUEventEnable
  <2> HIDE DEF Fits, Final
  <2>4. dsuReg \in [Clusters -> [DsuGPCs -> Reg]] /\ Cluster(c) \in Clusters
      BY <1>2, FiniteRanges DEF TypeOK
  <2>5. \A reg \in Reg : \A t \in Types : [reg EXCEPT !.type = t, !.on = TRUE] \in Reg
      BY DEF Reg
  <2> HIDE DEF c
  <2>6. ASSUME NEW i \in DsuGPCs
        PROVE  [dsuReg[Cluster(c)][i] EXCEPT !.type = CoreSlot(coreEvents'[c], Final(i)).type, !.on = TRUE] \in Reg
      BY <2>1, <2>4, <2>5
  <2> QED
      BY <2>2, <2>4, <2>6
<1>7. clk' \in [Channels -> DmcEvents] /\ clkdiv2' \in [Channels -> DmcEvents] /\ dmcReg' \in [Channels -> [DmcGPCs -> Reg]]
  <2>1. CASE ~WantsDmc
      BY <1>3, <2>1 DEF AssignDmc, TypeOK
  <2>2. CASE WantsDmc
    <3> DEFINE List(types) == [j \in DOMAIN types |-> [type |-> types[j], value |-> Zero]]
               R == [type : Types, value : Counts]
    <3>1. ASSUME NEW types \in Seq(Types)
          PROVE  List(types) \in DmcEvents
      <4>1. PICK n \in Nat : DOMAIN types = 1 .. n /\ \A j \in 1 .. n : types[j] \in Types
          BY SeqFacts
      <4>2. List(types) \in [1 .. n -> R]
          BY <4>1, CountsFacts
      <4> QED
          BY <4>2, FunctionIsSeq DEF DmcEvents
    <3>2. <<>> \in DmcEvents
        BY DEF DmcEvents
    <3>3. request.clk \in Seq(Types) /\ request.clkdiv2 \in Seq(Types)
        BY Typed, RequestFacts
    <3>4. /\ \A i \in DOMAIN request.clk : request.clk[i] \in Types
          /\ \A i \in DOMAIN request.clkdiv2 : request.clkdiv2[i] \in Types
        BY <3>3, SeqFacts
    <3>5. /\ clk' = [ch \in Channels |-> IF request.clkdiv2 # <<>> THEN <<>> ELSE List(request.clk)]
          /\ clkdiv2' = [ch \in Channels |-> List(request.clkdiv2)]
        BY <1>3, <2>2 DEF AssignDmc
    <3>6. clk' \in [Channels -> DmcEvents] /\ clkdiv2' \in [Channels -> DmcEvents]
      <4>1. List(request.clk) \in DmcEvents /\ List(request.clkdiv2) \in DmcEvents
          BY <3>1, <3>3
      <4> HIDE DEF List
      <4> QED
          BY <3>2, <3>5, <4>1
    <3>7. dmcReg' = [ch \in Channels |-> [i \in DmcGPCs |->
                       CASE i + 1 \in DOMAIN request.clkdiv2 -> [dmcReg[ch][i] EXCEPT !.type = request.clkdiv2[i + 1]]
                         [] i + 1 - DMC_CLKDIV2_NUMGPC \in DOMAIN request.clk ->
                              [dmcReg[ch][i] EXCEPT !.type = request.clk[i + 1 - DMC_CLKDIV2_NUMGPC]]
                         [] OTHER -> dmcReg[ch][i]]]
        BY <1>3, <2>2 DEF AssignDmc
    <3>8. \A reg \in Reg : \A t \in Types : [reg EXCEPT !.type = t] \in Reg
        BY DEF Reg
    <3>9. ASSUME NEW ch \in Channels, NEW i \in DmcGPCs
          PROVE  dmcReg'[ch][i] \in Reg
      <4>1. dmcReg[ch][i] \in Reg
          BY Typed
      <4>2. dmcReg'[ch][i] = dmcReg[ch][i] \/ \E t \in Types : dmcReg'[ch][i] = [dmcReg[ch][i] EXCEPT !.type = t]
          BY <3>4, <3>7
      <4> QED
          BY <3>8, <4>1, <4>2
    <3>10. dmcReg' \in [Channels -> [DmcGPCs -> Reg]]
      <4>1. dmcReg' = [ch \in Channels |-> [i \in DmcGPCs |-> dmcReg'[ch][i]]]
          BY <3>7
      <4> QED
          BY <3>9, <4>1
    <3> QED
        BY <3>6, <3>10
  <2> QED
      BY <2>1, <2>2
<1>8. phase' \in Phases /\ assigned' \in 0 .. Len(request.cores)
  <2>1. Len(request.cores) \in Nat
      BY Typed, RequestFacts, SeqFacts
  <2> QED
      BY <1>1, <2>1 DEF Assign, Phases
<1>9. UNCHANGED <<status, request, clients, timerVars, dsuOn, history>>
    BY DEF Assign
<1> QED
    BY <1>4, <1>5, <1>6, <1>7, <1>8, <1>9 DEF TypeOK, timerVars, history

\* The DSUs stay what they are.
LEMMA SetDsuTyping ==
    ASSUME TypeOK, NEW dsu \in BOOLEAN, NEW on \in BOOLEAN, SetDsu(dsu, on)
    PROVE  dsuOn' \in [Clusters -> BOOLEAN]
    BY DEF SetDsu, TypeOK

\* Stopping keeps the types.
LEMMA StopTyping ==
    ASSUME TypeOK, NEW dsu \in BOOLEAN, NEW dmc \in BOOLEAN, Stop(dsu, dmc),
           phase' \in Phases, assigned' = 0 \/ assigned' = assigned
    PROVE  TypeOK'
<1>1. dsuOn' \in [Clusters -> BOOLEAN]
    BY SetDsuTyping DEF Stop
<1>2. dmcReg' \in [Channels -> [DmcGPCs -> Reg]]
    BY IteratorTyping DEF Stop, TypeOK
<1>3. \A flags \in {prof_dmc', armed', queued'} : flags \in [Cores -> BOOLEAN]
  <2>1. armed \in [Cores -> BOOLEAN]
      BY DEF TypeOK
  <2>2. armed' \in [Cores -> BOOLEAN]
      BY <2>1 DEF Stop
  <2> QED
      BY <2>2 DEF Stop, TypeOK
<1>4. assigned' \in 0 .. Len(request.cores)
  <2>1. Len(request.cores) \in Nat /\ assigned \in 0 .. Len(request.cores)
      BY Typed, RequestFacts, SeqFacts DEF TypeOK
  <2> QED
      BY <2>1
<1>5. UNCHANGED <<status, request, clients, assignVars, prof_dsu, prof_dmc, timer_round, queued, exec, dsuReg, value, history>>
    BY DEF Stop
<1> QED
    BY <1>1, <1>2, <1>3, <1>4, <1>5 DEF TypeOK, assignVars, history

\* RESET keeps the types.
LEMMA ResetTyping == TypeOK /\ Reset => TypeOK'
<1> SUFFICES ASSUME TypeOK, Reset
             PROVE  TypeOK'
    OBVIOUS
<1>1. dsuOn' \in [Clusters -> BOOLEAN]
  <2>1. SetDsu(WantsDsu, FALSE)
      BY DEF Reset
  <2> QED
      BY <2>1, SetDsuTyping DEF WantsDsu
<1>2. dsuReg' \in [Clusters -> [DsuGPCs -> Reg]]
  <2>1. \A k \in Clusters : \A i \in DsuGPCs : [dsuReg[k][i] EXCEPT !.count = Zero] \in Reg
      BY Typed, CountsFacts DEF DmcCounterReset
  <2>2. \A k \in Clusters : DSUCounterReset(dsuReg[k]) \in [DsuGPCs -> Reg] /\ dsuReg[k] \in [DsuGPCs -> Reg]
      BY <2>1 DEF DSUCounterReset, TypeOK
  <2> QED
      BY <2>2 DEF Reset
<1>3. timer_round' \in [Cores -> Nat]
    BY DEF Reset, TypeOK
<1>4. value' \in [Cores -> Seq(Counts)] /\ \A c \in Cores : Len(value'[c]) = Len(dsuEvents'[c])
  <2>1. \A c \in Cores : value[c] \in Seq(Counts) /\ Len(value[c]) = Len(dsuEvents[c])
      BY DEF TypeOK
  <2>2. \A c \in Cores : Zeros(value[c]) \in Seq(Counts) /\ Len(Zeros(value[c])) = Len(dsuEvents[c])
      BY <2>1, ZerosTyping
  <2>3. value' = [c \in Cores |-> IF c \in Mine THEN Zeros(value[c]) ELSE value[c]] /\ dsuEvents' = dsuEvents
      BY DEF Reset
  <2> QED
      BY <2>1, <2>2, <2>3
<1>5. dmcReg' \in [Channels -> [DmcGPCs -> Reg]]
    BY IteratorTyping DEF Reset, ResetDmc, TypeOK
<1>6. clk' \in [Channels -> DmcEvents] /\ clkdiv2' \in [Channels -> DmcEvents]
  <2> DEFINE R == [type : Types, value : Counts]
             Zeroed(list) == [ch \in Channels |-> [j \in DOMAIN list[ch] |-> [list[ch][j] EXCEPT !.value = Zero]]]
  <2>1. ASSUME NEW list \in [Channels -> Seq(R)]
        PROVE  Zeroed(list) \in [Channels -> Seq(R)]
    <3>1. ASSUME NEW ch \in Channels
          PROVE  [j \in DOMAIN list[ch] |-> [list[ch][j] EXCEPT !.value = Zero]] \in Seq(R)
      <4>1. PICK n \in Nat : DOMAIN list[ch] = 1 .. n /\ \A j \in 1 .. n : list[ch][j] \in R
        <5> HIDE DEF R
        <5> QED
            BY SeqFacts
      <4>2. [j \in DOMAIN list[ch] |-> [list[ch][j] EXCEPT !.value = Zero]] \in [1 .. n -> R]
          BY <4>1, CountsFacts
      <4> QED
          BY <4>2, FunctionIsSeq
    <3> QED
        BY <3>1
  <2>2. DmcEvents = Seq(R) /\ clk \in [Channels -> DmcEvents] /\ clkdiv2 \in [Channels -> DmcEvents]
      BY DEF DmcEvents, TypeOK
  <2>3. \/ clk' = Zeroed(clk) /\ clkdiv2' = Zeroed(clkdiv2)
        \/ clk' = clk /\ clkdiv2' = clkdiv2
      BY DEF Reset, ResetDmc
  <2> HIDE DEF R, Zeroed
  <2> QED
      BY <2>1, <2>2, <2>3
<1>7. made' \in [dsu : [Clusters -> [DsuGPCs -> Nat]], dmc : [Channels -> [DmcGPCs -> Nat]]]
    BY DEF Reset
<1>8. mixed' \in [dsu : SUBSET Clusters, rounds : SUBSET Cores, dmc : BOOLEAN]
  <2>1. {Cluster(c) : c \in {d \in Cores : exec[d] = "dsu"}} \in SUBSET Clusters
      BY FiniteRanges
  <2> QED
      BY <2>1 DEF Reset
<1>9. UNCHANGED <<status, request, clients, assigned, coreEvents, dsuEvents, prof_dsu, prof_dmc, armed, queued, exec>>
    BY DEF Reset
<1>10. phase' \in Phases
    BY DEF Reset, Phases
<1> QED
    BY <1>1, <1>2, <1>3, <1>4, <1>5, <1>6, <1>7, <1>8, <1>9, <1>10 DEF TypeOK

\* START keeps the types.
LEMMA StartTyping == TypeOK /\ Start => TypeOK'
<1> SUFFICES ASSUME TypeOK, Start
             PROVE  TypeOK'
    OBVIOUS
<1>1. dsuOn' \in [Clusters -> BOOLEAN]
  <2>1. SetDsu(WantsDsu, TRUE)
      BY DEF Start
  <2> QED
      BY <2>1, SetDsuTyping DEF WantsDsu
<1>2. dmcReg' \in [Channels -> [DmcGPCs -> Reg]]
    BY IteratorTyping DEF Start, TypeOK
<1>3. prof_dsu' \in [Cores -> {"DISABLED", "NORMAL", "MULTIPLEX"}]
    BY DEF Start, ProfDsu, TypeOK
<1>4. \A flags \in {prof_dmc', armed', queued'} : flags \in [Cores -> BOOLEAN]
  <2>1. \A flags \in {prof_dmc, armed, queued} : flags \in [Cores -> BOOLEAN]
      BY DEF TypeOK
  <2>2. prof_dmc' \in [Cores -> BOOLEAN]
      BY <2>1 DEF Start, ProfDmc, WantsDmc
  <2>3. armed' \in [Cores -> BOOLEAN]
      BY <2>1 DEF Start, ProfDmc, WantsDmc
  <2> QED
      BY <2>1, <2>2, <2>3 DEF Start
<1>5. mixed' \in [dsu : SUBSET Clusters, rounds : SUBSET Cores, dmc : BOOLEAN]
  <2>1. mixed \in [dsu : SUBSET Clusters, rounds : SUBSET Cores, dmc : BOOLEAN]
      BY DEF TypeOK
  <2> QED
      BY <2>1 DEF Start
<1>6. UNCHANGED <<status, request, clients, assigned, assignVars, timer_round, queued, exec, dsuReg, value, made>>
    BY DEF Start
<1>7. phase' \in Phases
    BY DEF Start, Phases
<1> QED
    BY <1>1, <1>2, <1>3, <1>4, <1>5, <1>6, <1>7 DEF TypeOK, assignVars

\* Whatever the client does keeps the types.
LEMMA ClientTyping ==
    ASSUME TypeOK, AssignedInv, Client
    PROVE  TypeOK'
<1>1. Len(request.cores) \in Nat
    BY Typed, RequestFacts, SeqFacts
<1>2. ASSUME NEW r \in Requests, LockAcquire(r)
      PROVE  TypeOK'
  <2> DEFINE E == [type : Types, counter : Int]
  <2>1. coreEvents' \in [Cores -> Seq(E)]
    <3>1. [j \in 1 .. numFreeGPC |-> [type |-> Default, counter |-> j - 1]] \in [1 .. numFreeGPC -> E]
        BY Sizes DEF Types
    <3>2. [j \in 1 .. numFreeGPC |-> [type |-> Default, counter |-> j - 1]] \in Seq(E)
      <4> HIDE DEF E
      <4> QED
          BY <3>1, Sizes, FunctionIsSeq
    <3> QED
        BY <1>2, <3>2 DEF LockAcquire
  <2>2. clients' \in 0 .. MaxClients /\ assigned' \in 0 .. Len(request'.cores)
    <3>1. Len(r.cores) \in Nat /\ clients \in 0 .. MaxClients
        BY RequestFacts, SeqFacts DEF TypeOK
    <3> QED
        BY <1>2, <3>1, Sizes DEF LockAcquire
  <2>3. timer_round' \in [Cores -> Nat]
      BY <1>2 DEF LockAcquire
  <2>4. request' \in Requests /\ status' \in {"STS_IDLE", "STS_BUSY"} /\ phase' \in Phases
      BY <1>2 DEF LockAcquire, Phases
  <2>5. UNCHANGED <<dsuEvents, clk, clkdiv2, prof_dsu, prof_dmc, armed, queued, exec, regVars, value, history>>
      BY <1>2 DEF LockAcquire
  <2> QED
      BY <2>1, <2>2, <2>3, <2>4, <2>5 DEF TypeOK, regVars, history
<1>3. ASSUME NEW r \in Requests, TakeOver(r)
      PROVE  TypeOK'
  <2>1. clients' \in 0 .. MaxClients /\ assigned' \in 0 .. Len(request'.cores)
    <3>1. Len(r.cores) \in Nat /\ clients \in 0 .. MaxClients
        BY RequestFacts, SeqFacts DEF TypeOK
    <3> QED
        BY <1>3, <3>1, Sizes DEF TakeOver
  <2>2. request' \in Requests /\ phase' \in Phases
      BY <1>3 DEF TakeOver, Phases
  <2>3. UNCHANGED <<status, assignVars, timerVars, regVars, value, history>>
      BY <1>3 DEF TakeOver
  <2> QED
      BY <2>1, <2>2, <2>3 DEF TypeOK, assignVars, timerVars, regVars, history
<1>4. CASE StopAll
  <2>1. Stop(TRUE, TRUE) /\ phase' \in Phases /\ assigned' = 0
      BY <1>4 DEF StopAll, Phases
  <2> QED
      BY <2>1, StopTyping
<1>5. CASE StopMine
  <2>1. Stop(WantsDsu, WantsDmc) /\ phase' \in Phases /\ assigned' = assigned
      BY <1>5 DEF StopMine, Phases
  <2>2. WantsDsu \in BOOLEAN /\ WantsDmc \in BOOLEAN
      BY DEF WantsDsu, WantsDmc
  <2> QED
      BY <2>1, <2>2, StopTyping
<1>6. CASE Read
  <2>1. phase' \in Phases
      BY <1>6 DEF Read, Phases
  <2>2. UNCHANGED <<status, request, clients, assigned, assignVars, timerVars, regVars, value, history>>
      BY <1>6 DEF Read
  <2> QED
      BY <2>1, <2>2 DEF TypeOK, assignVars, timerVars, regVars, history
<1>7. CASE Release
  <2>1. phase' \in Phases /\ status' \in {"STS_IDLE", "STS_BUSY"}
      BY <1>7 DEF Release, Phases
  <2>2. UNCHANGED <<request, clients, assigned, assignVars, timerVars, regVars, value, history>>
      BY <1>7 DEF Release
  <2> QED
      BY <2>1, <2>2 DEF TypeOK, assignVars, timerVars, regVars, history
<1>8. CASE free_pmu_resource
  <2>1. phase' \in Phases
      BY <1>8 DEF free_pmu_resource, Phases
  <2>2. \A flags \in {prof_dmc', armed', queued'} : flags \in [Cores -> BOOLEAN]
    <3>1. prof_dmc' \in [Cores -> BOOLEAN]
        BY <1>8 DEF free_pmu_resource, TypeOK
    <3>2. armed' \in [Cores -> BOOLEAN] /\ queued' \in [Cores -> BOOLEAN]
        BY <1>8 DEF free_pmu_resource
    <3> QED
        BY <3>1, <3>2
  <2>3. UNCHANGED <<status, request, clients, assigned, assignVars, prof_dsu, prof_dmc, timer_round, exec, regVars,
                    value, history>>
      BY <1>8 DEF free_pmu_resource
  <2> QED
      BY <2>1, <2>2, <2>3 DEF TypeOK, assignVars, regVars, history
<1> QED
    BY <1>2, <1>3, <1>4, <1>5, <1>6, <1>7, <1>8, AssignTyping, ResetTyping,
       StartTyping DEF Client

-----------------------------------------------------------------------------
(* What is assigned, and who ticks.                                          *)

\* An iteration keeps the types of all counters, and changes what it is for.
LEMMA IteratorFacts ==
    ASSUME TypeOK
    PROVE  /\ DmcChannelIterator(DmcCounterStart) =>
                \A ch \in Channels : \A i \in DmcGPCs :
                  /\ dmcReg'[ch][i].type = dmcReg[ch][i].type /\ dmcReg'[ch][i].count = dmcReg[ch][i].count
                  /\ i \in DmcCounters(ch) => dmcReg'[ch][i].on
           /\ DmcChannelIterator(DmcCounterStop) =>
                \A ch \in Channels : \A i \in DmcGPCs :
                  /\ dmcReg'[ch][i].type = dmcReg[ch][i].type /\ dmcReg'[ch][i].count = dmcReg[ch][i].count
                  /\ i \in DmcCounters(ch) => ~dmcReg'[ch][i].on
           /\ DmcChannelIterator(DmcCounterReset) =>
                \A ch \in Channels : \A i \in DmcGPCs :
                  /\ dmcReg'[ch][i].type = dmcReg[ch][i].type
                  /\ i \in DmcCounters(ch) => dmcReg'[ch][i].count = Zero
           /\ DmcChannelIterator(DmcRestart) =>
                \A ch \in Channels : \A i \in DmcGPCs :
                  /\ dmcReg'[ch][i].type = dmcReg[ch][i].type
                  /\ i \in DmcCounters(ch) => dmcReg'[ch][i].count = Zero /\ dmcReg'[ch][i].on
<1>1. \A ch \in Channels : \A i \in DmcGPCs : dmcReg[ch][i] \in Reg
    BY Typed
<1>2. \A reg \in Reg :
        /\ DmcCounterStart(reg).type = reg.type /\ DmcCounterStart(reg).count = reg.count /\ DmcCounterStart(reg).on
        /\ DmcCounterStop(reg).type = reg.type /\ DmcCounterStop(reg).count = reg.count /\ ~DmcCounterStop(reg).on
        /\ DmcCounterReset(reg).type = reg.type /\ DmcCounterReset(reg).count = Zero
    BY DEF Reg, DmcCounterStart, DmcCounterStop, DmcCounterReset
<1>3. \A reg \in Reg : DmcRestart(reg).type = reg.type /\ DmcRestart(reg).count = Zero /\ DmcRestart(reg).on
    BY DEF Reg, DmcCounterStart, DmcCounterReset, DmcRestart
<1>4. ASSUME DmcChannelIterator(DmcCounterStart), NEW ch \in Channels, NEW i \in DmcGPCs
      PROVE  /\ dmcReg'[ch][i].type = dmcReg[ch][i].type /\ dmcReg'[ch][i].count = dmcReg[ch][i].count
             /\ i \in DmcCounters(ch) => dmcReg'[ch][i].on
    BY <1>1, <1>2, <1>4 DEF DmcChannelIterator
<1>5. ASSUME DmcChannelIterator(DmcCounterStop), NEW ch \in Channels, NEW i \in DmcGPCs
      PROVE  /\ dmcReg'[ch][i].type = dmcReg[ch][i].type /\ dmcReg'[ch][i].count = dmcReg[ch][i].count
             /\ i \in DmcCounters(ch) => ~dmcReg'[ch][i].on
    BY <1>1, <1>2, <1>5 DEF DmcChannelIterator
<1>6. ASSUME DmcChannelIterator(DmcCounterReset), NEW ch \in Channels, NEW i \in DmcGPCs
      PROVE  /\ dmcReg'[ch][i].type = dmcReg[ch][i].type
             /\ i \in DmcCounters(ch) => dmcReg'[ch][i].count = Zero
    BY <1>1, <1>2, <1>6 DEF DmcChannelIterator
<1>7. ASSUME DmcChannelIterator(DmcRestart), NEW ch \in Channels, NEW i \in DmcGPCs
      PROVE  /\ dmcReg'[ch][i].type = dmcReg[ch][i].type
             /\ i \in DmcCounters(ch) => dmcReg'[ch][i].count = Zero /\ dmcReg'[ch][i].on
    BY <1>1, <1>3, <1>7 DEF DmcChannelIterator
<1> QED
    BY <1>4, <1>5, <1>6, <1>7

\* The counter of a clkdiv2 event.
LEMMA Div2Counters ==
    ASSUME TypeOK, NEW ch \in Channels, DOMAIN clkdiv2[ch] = DOMAIN request.clkdiv2, NEW j \in DOMAIN clkdiv2[ch]
    PROVE  j - 1 \in DmcGPCs /\ j - 1 \in DmcCounters(ch) /\ clkdiv2[ch][j].value \in Counts
<1>1. request.clkdiv2 \in Seq(Types) /\ Len(request.clkdiv2) <= DMC_CLKDIV2_NUMGPC
    BY Typed, RequestFacts
<1>2. j \in 1 .. Len(request.clkdiv2) /\ Len(request.clkdiv2) \in Nat
    BY <1>1, SeqFacts
<1>3. j - 1 \in DmcGPCs
    BY <1>1, <1>2, Sizes DEF DmcGPCs
<1> DEFINE R == [type : Types, value : Counts]
<1>4. clkdiv2[ch] \in Seq(R)
    BY Typed DEF DmcEvents
<1>5. j \in 1 .. Len(clkdiv2[ch]) /\ Len(clkdiv2[ch]) \in Nat /\ clkdiv2[ch][j] \in R
  <2> HIDE DEF R
  <2> QED
      BY <1>4, SeqFacts
<1>6. j - 1 < Len(clkdiv2[ch])
    BY <1>5
<1> QED
    BY <1>3, <1>5, <1>6 DEF DmcCounters

\* START alone says how a core multiplexes, and looks at its events; a core
\* that is assigned events has some.
LEMMA ProfStep == TypeOK /\ ProfInv /\ [Next]_vars => ProfInv'
<1> SUFFICES ASSUME TypeOK, ProfInv, [Next]_vars, NEW c \in Cores
             PROVE  /\ prof_dsu'[c] = "MULTIPLEX" => dsuEvents'[c] # <<>>
                    /\ exec'[c] = "dsu" => prof_dsu'[c] # "DISABLED"
    BY DEF ProfInv
<1> USE DEF ProfInv
<1>1. ASSUME UNCHANGED <<prof_dsu, dsuEvents, exec>>
      PROVE  /\ prof_dsu'[c] = "MULTIPLEX" => dsuEvents'[c] # <<>>
             /\ exec'[c] = "dsu" => prof_dsu'[c] # "DISABLED"
    BY <1>1
<1>2. CASE \/ \E r \in Requests : LockAcquire(r) \/ TakeOver(r)
           \/ StopAll \/ Reset \/ StopMine \/ Read \/ Release \/ free_pmu_resource \/ Elapse
           \/ \E d \in Cores : TimerFires(d) \/ TickFindsIdle(d)
           \/ UNCHANGED vars
  <2>1. UNCHANGED <<prof_dsu, dsuEvents, exec>>
      BY <1>2 DEF LockAcquire, TakeOver, StopAll, Stop, Reset, StopMine, Read,
         Release, free_pmu_resource, Elapse,
                  TimerFires, TickFindsIdle, vars, assignVars, timerVars
  <2> QED
      BY <1>1, <2>1
<1>3. CASE Assign
  <2>1. evt_assign_dsu(request.cores[assigned + 1]) /\ UNCHANGED <<prof_dsu, exec>>
      BY <1>3 DEF Assign, timerVars
  <2>2. dsuEvents \in [Cores -> Seq(Types)]
      BY DEF TypeOK
  <2>3. dsuEvents'[c] = dsuEvents[c] \/ dsuEvents'[c] # <<>>
      BY <2>1, <2>2 DEF evt_assign_dsu, WantsDsu
  <2> QED
      BY <2>1, <2>3
<1>4. CASE Start
  <2>1. WorkItem /\ prof_dsu'[c] = (IF c \in Mine THEN ProfDsu(c) ELSE prof_dsu[c]) /\ UNCHANGED <<dsuEvents, exec>>
      BY <1>4 DEF Start, assignVars
  <2>2. ProfDsu(c) = "MULTIPLEX" => dsuEvents[c] # <<>>
    <3>1. dsuEvents[c] \in Seq(Types)
        BY Typed
    <3>2. dsuEvents[c] = <<>> => Len(dsuEvents[c]) = 0
        BY <3>1, SeqFacts
    <3> QED
        BY <3>2, Sizes DEF ProfDsu
  <2> QED
      BY <2>1, <2>2 DEF WorkItem
<1>5. ASSUME NEW d \in Cores, Tick(d)
      PROVE  /\ prof_dsu'[c] = "MULTIPLEX" => dsuEvents'[c] # <<>>
             /\ exec'[c] = "dsu" => prof_dsu'[c] # "DISABLED"
  <2>1. UNCHANGED <<prof_dsu, dsuEvents>>
      BY <1>5 DEF Tick, TickCredits, TickRestarts, TickDmcCredits,
         TickDmcRestarts, assignVars
  <2>2. \/ exec' = [exec EXCEPT ![d] = "dsu"] /\ prof_dsu[d] # "DISABLED"
        \/ \E e \in {"none", "dmc", "dmc_read"} : exec' = [exec EXCEPT ![d] = e]
      BY <1>5 DEF Tick, TickCredits, TickRestarts, TickDmcCredits,
         TickDmcRestarts, Continues
  <2>3. exec \in [Cores -> {"none", "dsu", "dmc", "dmc_read"}]
      BY DEF TypeOK
  <2> QED
      BY <2>1, <2>2, <2>3
<1> QED
    BY <1>2, <1>3, <1>4, <1>5 DEF Next, Client

\* Events are assigned core by core and stay until the next assignment.
LEMMA AssignedStep == TypeOK /\ AssignedInv /\ [Next]_vars => AssignedInv'
<1> SUFFICES ASSUME TypeOK, AssignedInv, [Next]_vars
             PROVE  AssignedInv'
    OBVIOUS
<1>1. ASSUME phase' \notin {"assigning", "ready", "reset", "counting", "stopped", "read"}
      PROVE  AssignedInv'
    BY <1>1 DEF AssignedInv, Prepared, Measuring
<1>2. ASSUME UNCHANGED <<assigned, request, dsuEvents>>, Prepared' => Prepared, phase' = "assigning" => phase = "assigning",
             Prepared /\ WantsDmc => \A ch \in Channels :
                              /\ DOMAIN clkdiv2'[ch] = DOMAIN clkdiv2[ch]
                              /\ \A i \in DmcGPCs : dmcReg'[ch][i].type = dmcReg[ch][i].type
      PROVE  AssignedInv'
  <2>1. /\ phase' = "assigning" => assigned' < Len(request'.cores)
        /\ Prepared' => assigned' = Len(request'.cores)
      BY <1>2 DEF AssignedInv
  <2>2. (phase' = "assigning" \/ Prepared') /\ WantsDsu' => \A i \in 1 .. assigned' : dsuEvents'[request'.cores[i]] = request'.dsu
      BY <1>2 DEF AssignedInv, WantsDsu
  <2>3. ASSUME Prepared', WantsDmc', NEW ch \in Channels
        PROVE  /\ DOMAIN clkdiv2'[ch] = DOMAIN request'.clkdiv2
               /\ \A j \in DOMAIN clkdiv2'[ch] : dmcReg'[ch][j - 1].type = request'.clkdiv2[j]
    <3>1. Prepared /\ WantsDmc /\ request' = request
        BY <1>2, <2>3 DEF WantsDmc
    <3>2. DOMAIN clkdiv2[ch] = DOMAIN request.clkdiv2 /\ DOMAIN clkdiv2'[ch] = DOMAIN clkdiv2[ch]
        BY <1>2, <3>1 DEF AssignedInv
    <3>3. \A j \in DOMAIN clkdiv2[ch] : dmcReg[ch][j - 1].type = request.clkdiv2[j]
        BY <3>1 DEF AssignedInv
    <3>4. \A j \in DOMAIN clkdiv2[ch] : j - 1 \in DmcGPCs
        BY <3>2, Div2Counters
    <3> QED
        BY <1>2, <3>1, <3>2, <3>3, <3>4
  <2> QED
      BY <2>1, <2>2, <2>3 DEF AssignedInv
<1>3. CASE (\E r \in Requests : LockAcquire(r) \/ TakeOver(r)) \/ Release \/ free_pmu_resource
  <2>1. phase' \notin {"assigning", "ready", "reset", "counting", "stopped", "read"}
      BY <1>3 DEF LockAcquire, TakeOver, Release, free_pmu_resource
  <2> QED
      BY <1>1, <2>1
<1>4. CASE StopAll
  <2>1. phase' = "assigning" /\ assigned' = 0 /\ request' = request
      BY <1>4 DEF StopAll, Stop
  <2>2. 0 < Len(request.cores)
      BY Typed, RequestFacts, SeqFacts
  <2> QED
      BY <2>1, <2>2 DEF AssignedInv, Prepared, Measuring
<1>5. CASE Assign
  <2> DEFINE c == request.cores[assigned + 1]
  <2>1. /\ phase = "assigning" /\ assigned' = assigned + 1 /\ request' = request
        /\ phase' = IF assigned' = Len(request.cores) THEN "ready" ELSE "assigning"
        /\ evt_assign_dsu(c) /\ AssignDmc
      BY <1>5 DEF Assign
  <2>2. /\ assigned < Len(request.cores) /\ assigned \in Nat /\ Len(request.cores) \in Nat
        /\ DOMAIN request.cores = 1 .. Len(request.cores)
        /\ \A i \in 1 .. Len(request.cores) : request.cores[i] \in Cores
      BY <2>1, Typed, RequestFacts, SeqFacts DEF AssignedInv, TypeOK
  <2>3. /\ phase' = "assigning" => assigned' < Len(request'.cores)
        /\ Prepared' => assigned' = Len(request'.cores)
      BY <2>1, <2>2 DEF Prepared, Measuring
  <2>4. ASSUME WantsDsu', NEW i \in 1 .. assigned'
        PROVE  dsuEvents'[request'.cores[i]] = request'.dsu
    <3>1. WantsDsu /\ dsuEvents' = [dsuEvents EXCEPT ![c] = request.dsu]
        BY <2>1, <2>4 DEF WantsDsu, evt_assign_dsu
    <3>2. request.cores[i] \in Cores /\ (i \in 1 .. assigned \/ i = assigned + 1)
        BY <2>1, <2>2
    <3>3. i \in 1 .. assigned => dsuEvents[request.cores[i]] = request.dsu
        BY <2>1, <3>1 DEF AssignedInv
    <3>4. dsuEvents \in [Cores -> Seq(Types)]
        BY DEF TypeOK
    <3> HIDE DEF c
    <3>5. i = assigned + 1 => request.cores[i] = c
        BY DEF c
    <3> QED
        BY <2>1, <3>1, <3>2, <3>3, <3>4, <3>5
  <2>5. ASSUME WantsDmc', NEW ch \in Channels
        PROVE  /\ DOMAIN clkdiv2'[ch] = DOMAIN request'.clkdiv2
               /\ \A j \in DOMAIN clkdiv2'[ch] : dmcReg'[ch][j - 1].type = request'.clkdiv2[j]
    <3>1. WantsDmc
        BY <2>1, <2>5 DEF WantsDmc
    <3>2. clkdiv2'[ch] = [j \in DOMAIN request.clkdiv2 |-> [type |-> request.clkdiv2[j], value |-> Zero]]
        BY <2>1, <3>1 DEF AssignDmc
    <3>3. DOMAIN clkdiv2'[ch] = DOMAIN request.clkdiv2
        BY <3>2
    <3>4. ASSUME NEW j \in DOMAIN request.clkdiv2
          PROVE  dmcReg'[ch][j - 1].type = request.clkdiv2[j]
      <4>1. request.clkdiv2 \in Seq(Types) /\ Len(request.clkdiv2) <= DMC_CLKDIV2_NUMGPC
          BY Typed, RequestFacts
      <4>2. j \in 1 .. Len(request.clkdiv2) /\ Len(request.clkdiv2) \in Nat
          BY <4>1, SeqFacts
      <4>3. PICK i \in DmcGPCs : i = j - 1 /\ i + 1 = j
          BY <4>1, <4>2, Sizes DEF DmcGPCs
      <4>4. i + 1 - DMC_CLKDIV2_NUMGPC \notin DOMAIN request.clk
        <5>1. request.clk \in Seq(Types)
            BY Typed, RequestFacts
        <5>2. DOMAIN request.clk = 1 .. Len(request.clk) /\ i + 1 - DMC_CLKDIV2_NUMGPC <= 0
            BY <4>1, <4>2, <4>3, <5>1, Sizes, SeqFacts
        <5> QED
            BY <5>2
      <4>5. dmcReg'[ch][i] = [dmcReg[ch][i] EXCEPT !.type = request.clkdiv2[i + 1]]
        <5>1. dmcReg'[ch][i] = CASE i + 1 \in DOMAIN request.clkdiv2 -> [dmcReg[ch][i] EXCEPT !.type = request.clkdiv2[i + 1]]
                                 [] i + 1 - DMC_CLKDIV2_NUMGPC \in DOMAIN request.clk ->
                                      [dmcReg[ch][i] EXCEPT !.type = request.clk[i + 1 - DMC_CLKDIV2_NUMGPC]]
                                 [] OTHER -> dmcReg[ch][i]
            BY <2>1, <3>1 DEF AssignDmc
        <5> QED
            BY <4>3, <4>4, <5>1
      <4>6. dmcReg[ch][i] \in Reg
          BY Typed
      <4> QED
          BY <4>3, <4>5, <4>6 DEF Reg
    <3> QED
        BY <2>1, <3>3, <3>4
  <2> QED
      BY <2>3, <2>4, <2>5 DEF AssignedInv
<1>6. CASE Reset \/ Start \/ StopMine \/ Read
  <2>1. UNCHANGED <<assigned, request, dsuEvents>> /\ Prepared /\ phase' # "assigning"
      BY <1>6 DEF Reset, Start, StopMine, Stop, Read, assignVars, Prepared,
         Measuring
  <2>2. ASSUME NEW ch \in Channels, WantsDmc
        PROVE  /\ DOMAIN clkdiv2'[ch] = DOMAIN clkdiv2[ch]
               /\ \A i \in DmcGPCs : dmcReg'[ch][i].type = dmcReg[ch][i].type
    <3>1. CASE Reset
        BY <2>2, <3>1, IteratorFacts DEF Reset, ResetDmc
    <3>2. CASE Start
        BY <2>2, <3>2, IteratorFacts DEF Start, assignVars
    <3>3. CASE StopMine
        BY <2>2, <3>3, IteratorFacts DEF StopMine, Stop, assignVars
    <3>4. CASE Read
        BY <3>4 DEF Read, regVars, assignVars
    <3> QED
        BY <1>6, <3>1, <3>2, <3>3, <3>4
  <2> QED
      BY <1>2, <2>1, <2>2
<1>7. CASE Elapse \/ (\E c \in Cores : TimerFires(c) \/ TickFindsIdle(c) \/ Tick(c)) \/ UNCHANGED vars
  <2>1. UNCHANGED <<assigned, request, dsuEvents, phase>>
      BY <1>7 DEF Elapse, TimerFires, TickFindsIdle, Tick, TickCredits,
         TickRestarts, TickDmcCredits, TickDmcRestarts,
                  vars, clientVars, assignVars
  <2>2. ASSUME NEW ch \in Channels
        PROVE  /\ DOMAIN clkdiv2'[ch] = DOMAIN clkdiv2[ch]
               /\ \A i \in DmcGPCs : dmcReg'[ch][i].type = dmcReg[ch][i].type
    <3>1. CASE Elapse
      <4>1. \A reg \in Reg : Counted(reg).type = reg.type
          BY DEF Counted, Reg
      <4>2. \A i \in DmcGPCs : dmcReg[ch][i] \in Reg
          BY Typed
      <4>3. \A i \in DmcGPCs : dmcReg'[ch][i] \in {Counted(dmcReg[ch][i]), dmcReg[ch][i]}
          BY <3>1 DEF Elapse
      <4>4. \A i \in DmcGPCs : dmcReg'[ch][i].type = dmcReg[ch][i].type
          BY <4>1, <4>2, <4>3
      <4> QED
          BY <3>1, <4>4 DEF Elapse, assignVars
    <3>2. CASE \E c \in Cores : TimerFires(c) \/ TickFindsIdle(c)
        BY <3>2 DEF TimerFires, TickFindsIdle, regVars, assignVars
    <3>3. CASE \E c \in Cores : TickCredits(c) \/ TickRestarts(c)
        BY <3>3 DEF TickCredits, TickRestarts, assignVars
    <3>4. CASE \E c \in Cores : TickDmcCredits(c)
        BY <3>4, IteratorFacts DEF TickDmcCredits
    <3>5. CASE \E c \in Cores : TickDmcRestarts(c)
        BY <3>5, IteratorFacts DEF TickDmcRestarts, assignVars
    <3>6. CASE UNCHANGED vars
        BY <3>6 DEF vars, regVars, assignVars
    <3> QED
        BY <1>7, <3>1, <3>2, <3>3, <3>4, <3>5, <3>6 DEF Tick
  <2> QED
      BY <1>2, <2>1, <2>2 DEF Prepared, Measuring
<1> QED
    BY <1>3, <1>4, <1>5, <1>6, <1>7 DEF Next, Client

-----------------------------------------------------------------------------
(* What is started counts.                                                   *)

\* What a tick makes of where its core is, and that it leaves the others be.
LEMMA TickMoves ==
    ASSUME TypeOK, NEW c \in Cores, Tick(c)
    PROVE  /\ \A d \in Cores \ {c} : exec'[d] = exec[d]
           /\ TickCredits(c) => exec[c] = "none" /\ exec'[c] \notin {"dmc_read"}
           /\ TickCredits(c) /\ prof_dsu[c] = "DISABLED" => exec'[c] # "dsu"
           /\ TickCredits(c) /\ prof_dsu[c] # "DISABLED" => exec'[c] = "dsu"
           /\ TickRestarts(c) => exec[c] = "dsu" /\ exec'[c] \notin {"dsu", "dmc_read"}
           /\ TickDmcCredits(c) => exec[c] = "dmc" /\ exec'[c] = "dmc_read"
           /\ TickDmcRestarts(c) => exec[c] = "dmc_read" /\ exec'[c] = "none"
           /\ UNCHANGED <<request, phase, status, assigned, coreEvents, dsuEvents, prof_dsu, prof_dmc, made>>
<1>1. exec \in [Cores -> {"none", "dsu", "dmc", "dmc_read"}]
    BY DEF TypeOK
<1>2. CASE TickCredits(c)
  <2>1. exec' = [exec EXCEPT ![c] = IF prof_dsu[c] # "DISABLED" THEN "dsu" ELSE IF prof_dmc[c] THEN "dmc" ELSE "none"]
      BY <1>2 DEF TickCredits, Continues
  <2> QED
      BY <1>1, <1>2, <2>1 DEF TickCredits, TickRestarts, TickDmcCredits,
         TickDmcRestarts, clientVars, assignVars
<1>3. CASE TickRestarts(c)
  <2>1. exec' = [exec EXCEPT ![c] = IF prof_dmc[c] THEN "dmc" ELSE "none"]
      BY <1>3 DEF TickRestarts, Continues
  <2> QED
      BY <1>1, <1>3, <2>1 DEF TickCredits, TickRestarts, TickDmcCredits,
         TickDmcRestarts, clientVars, assignVars, history
<1>4. CASE TickDmcCredits(c)
  <2>1. exec' = [exec EXCEPT ![c] = "dmc_read"]
      BY <1>4 DEF TickDmcCredits, Continues
  <2> QED
      BY <1>1, <1>4, <2>1 DEF TickCredits, TickRestarts, TickDmcCredits,
         TickDmcRestarts, clientVars, assignVars
<1>5. CASE TickDmcRestarts(c)
  <2>1. exec' = [exec EXCEPT ![c] = "none"]
      BY <1>5 DEF TickDmcRestarts, Continues
  <2> QED
      BY <1>1, <1>5, <2>1 DEF TickCredits, TickRestarts, TickDmcCredits,
         TickDmcRestarts, clientVars, assignVars, history
<1> QED
    BY <1>2, <1>3, <1>4, <1>5 DEF Tick

\* A tick that stops the counters starts them again.
LEMMA StartedStep == TypeOK /\ StartedCounts /\ [Next]_vars => StartedCounts'
<1> SUFFICES ASSUME TypeOK, StartedCounts, [Next]_vars, phase' = "counting"
             PROVE  /\ WantsDsu' => \A k \in MyClusters' : dsuOn'[k] \/ \E c \in Cores : Cluster(c) = k /\ exec'[c] = "dsu"
                    /\ WantsDmc' /\ (\A c \in Cores : exec'[c] # "dmc_read") =>
                         \A ch \in Channels : \A i \in DmcCounters(ch)' : dmcReg'[ch][i].on
    BY DEF StartedCounts
<1>1. ASSUME phase = "counting", UNCHANGED <<request, clk, clkdiv2>>,
             WantsDsu => \A k \in MyClusters : dsuOn[k] => dsuOn'[k] \/ \E c \in Cores : Cluster(c) = k /\ exec'[c] = "dsu",
             WantsDsu => \A c \in Cores : exec[c] = "dsu" => exec'[c] = "dsu" \/ dsuOn'[Cluster(c)],
             \/ \E c \in Cores : exec'[c] = "dmc_read"
             \/ /\ \A c \in Cores : exec[c] # "dmc_read"
                /\ \A ch \in Channels : \A i \in DmcGPCs : dmcReg[ch][i].on => dmcReg'[ch][i].on
      PROVE  /\ WantsDsu' => \A k \in MyClusters' : dsuOn'[k] \/ \E c \in Cores : Cluster(c) = k /\ exec'[c] = "dsu"
             /\ WantsDmc' /\ (\A c \in Cores : exec'[c] # "dmc_read") =>
                  \A ch \in Channels : \A i \in DmcCounters(ch)' : dmcReg'[ch][i].on
  <2>1. WantsDsu' = WantsDsu /\ MyClusters' = MyClusters /\ WantsDmc' = WantsDmc /\ \A ch : DmcCounters(ch)' = DmcCounters(ch)
      BY <1>1 DEF WantsDsu, WantsDmc, MyClusters, Mine, DmcCounters
  <2>2. ASSUME WantsDsu', NEW k \in MyClusters'
        PROVE  dsuOn'[k] \/ \E c \in Cores : Cluster(c) = k /\ exec'[c] = "dsu"
    <3>1. dsuOn[k] \/ \E c \in Cores : Cluster(c) = k /\ exec[c] = "dsu"
        BY <1>1, <2>1, <2>2 DEF StartedCounts
    <3> QED
        BY <1>1, <2>1, <2>2, <3>1
  <2>3. ASSUME WantsDmc', \A c \in Cores : exec'[c] # "dmc_read", NEW ch \in Channels, NEW i \in DmcCounters(ch)'
        PROVE  dmcReg'[ch][i].on
    <3>1. i \in DmcCounters(ch) /\ i \in DmcGPCs /\ WantsDmc /\ \A c \in Cores : exec[c] # "dmc_read"
        BY <1>1, <2>1, <2>3 DEF DmcCounters
    <3>2. dmcReg[ch][i].on
        BY <1>1, <3>1 DEF StartedCounts
    <3> QED
        BY <1>1, <2>3, <3>1, <3>2
  <2> QED
      BY <2>2, <2>3
<1>2. CASE \/ \E r \in Requests : LockAcquire(r) \/ TakeOver(r)
           \/ StopAll \/ Assign \/ Reset \/ StopMine \/ Read \/ Release \/ free_pmu_resource
    BY <1>2 DEF LockAcquire, TakeOver, StopAll, Assign, Reset, StopMine, Read,
       Release, free_pmu_resource
<1>3. CASE Start
  <2>1. UNCHANGED <<request, clk, clkdiv2>> /\ SetDsu(WantsDsu, TRUE)
      BY <1>3 DEF Start, assignVars
  <2>2. WantsDsu' = WantsDsu /\ MyClusters' = MyClusters /\ WantsDmc' = WantsDmc /\ \A ch : DmcCounters(ch)' = DmcCounters(ch)
      BY <2>1 DEF WantsDsu, WantsDmc, MyClusters, Mine, DmcCounters
  <2>3. WantsDsu => \A k \in MyClusters : dsuOn'[k]
      BY <2>1, Typed DEF SetDsu
  <2>4. WantsDmc => \A ch \in Channels : \A i \in DmcCounters(ch) : dmcReg'[ch][i].on
      BY <1>3, IteratorFacts DEF Start, DmcCounters
  <2> QED
      BY <2>2, <2>3, <2>4
<1>4. CASE Elapse \/ (\E c \in Cores : TimerFires(c) \/ TickFindsIdle(c)) \/ UNCHANGED vars
  <2>1. UNCHANGED <<phase, request, clk, clkdiv2, dsuOn, exec>>
      BY <1>4 DEF Elapse, TimerFires, TickFindsIdle, vars, clientVars,
         assignVars, regVars, timerVars
  <2>2. ASSUME NEW ch \in Channels, NEW i \in DmcGPCs
        PROVE  dmcReg'[ch][i].on = dmcReg[ch][i].on
    <3>1. CASE Elapse
      <4>1. \A reg \in Reg : Counted(reg).on = reg.on
          BY DEF Counted, Reg
      <4>2. dmcReg[ch][i] \in Reg
          BY Typed
      <4>3. dmcReg'[ch][i] \in {Counted(dmcReg[ch][i]), dmcReg[ch][i]}
          BY <3>1 DEF Elapse
      <4> QED
          BY <4>1, <4>2, <4>3
    <3>2. CASE (\E c \in Cores : TimerFires(c) \/ TickFindsIdle(c)) \/ UNCHANGED vars
        BY <3>2 DEF TimerFires, TickFindsIdle, vars, regVars
    <3> QED
        BY <1>4, <3>1, <3>2
  <2>3. CASE \A c \in Cores : exec[c] # "dmc_read"
      BY <1>1, <2>1, <2>2, <2>3
  <2>4. CASE \E c \in Cores : exec[c] = "dmc_read"
      BY <1>1, <2>1, <2>4
  <2> QED
      BY <2>3, <2>4
<1>5. ASSUME NEW c \in Cores, Tick(c)
      PROVE  /\ WantsDsu' => \A k \in MyClusters' : dsuOn'[k] \/ \E d \in Cores : Cluster(d) = k /\ exec'[d] = "dsu"
             /\ WantsDmc' /\ (\A d \in Cores : exec'[d] # "dmc_read") =>
                  \A ch \in Channels : \A i \in DmcCounters(ch)' : dmcReg'[ch][i].on
  <2>1. phase = "counting" /\ request' = request /\ \A d \in Cores \ {c} : exec'[d] = exec[d]
      BY <1>5, TickMoves
  <2>2. dsuOn \in [Clusters -> BOOLEAN] /\ Cluster(c) \in Clusters /\ MyClusters \subseteq Clusters
      BY FiniteRanges, Typed DEF TypeOK
  <2>3. CASE TickCredits(c)
    <3>1. UNCHANGED <<clk, clkdiv2, dmcReg>> /\ exec[c] = "none" /\ exec'[c] # "dmc_read"
        BY <1>5, <2>3, TickMoves DEF TickCredits, assignVars
    <3>2. \/ dsuOn' = dsuOn
          \/ dsuOn' = [dsuOn EXCEPT ![Cluster(c)] = FALSE] /\ exec'[c] = "dsu"
      <4>1. CASE prof_dsu[c] = "DISABLED"
          BY <2>3, <4>1 DEF TickCredits
      <4>2. CASE prof_dsu[c] # "DISABLED"
        <5>1. dsuOn' = [dsuOn EXCEPT ![Cluster(c)] = FALSE]
            BY <2>3, <4>2 DEF TickCredits
        <5>2. exec'[c] = "dsu"
            BY <1>5, <2>3, <4>2, TickMoves
        <5> QED
            BY <5>1, <5>2
      <4> QED
          BY <4>1, <4>2
    <3>3. \A k \in MyClusters : dsuOn[k] => dsuOn'[k] \/ \E d \in Cores : Cluster(d) = k /\ exec'[d] = "dsu"
        BY <2>2, <3>2
    <3>4. \A d \in Cores : exec[d] = "dsu" => exec'[d] = "dsu"
        BY <2>1, <3>1
    <3>5. (\A d \in Cores : exec'[d] # "dmc_read") => \A d \in Cores : exec[d] # "dmc_read"
        BY <2>1, <3>1
    <3> QED
        BY <1>1, <2>1, <3>1, <3>3, <3>4, <3>5
  <2>4. CASE TickRestarts(c)
    <3>1. UNCHANGED <<clk, clkdiv2, dmcReg>> /\ exec[c] = "dsu" /\ exec'[c] # "dmc_read"
        BY <1>5, <2>4, TickMoves DEF TickRestarts, assignVars
    <3>2. dsuOn' = [dsuOn EXCEPT ![Cluster(c)] = TRUE]
        BY <2>4 DEF TickRestarts
    <3>3. \A k \in MyClusters : dsuOn[k] => dsuOn'[k]
        BY <2>2, <3>2
    <3>4. \A d \in Cores : exec[d] = "dsu" => exec'[d] = "dsu" \/ dsuOn'[Cluster(d)]
        BY <2>1, <2>2, <3>2
    <3>5. (\A d \in Cores : exec'[d] # "dmc_read") => \A d \in Cores : exec[d] # "dmc_read"
        BY <2>1, <3>1
    <3> QED
        BY <1>1, <2>1, <3>1, <3>3, <3>4, <3>5
  <2>5. CASE TickDmcCredits(c) \/ TickDmcRestarts(c)
    <3>1. dsuOn' = dsuOn /\ exec[c] # "dsu"
        BY <1>5, <2>5, TickMoves DEF TickDmcCredits, TickDmcRestarts
    <3>2. /\ WantsDsu' = WantsDsu /\ MyClusters' = MyClusters /\ WantsDmc' = WantsDmc
        BY <2>1 DEF WantsDsu, WantsDmc, MyClusters, Mine
    <3>3. WantsDsu' => \A k \in MyClusters' : dsuOn'[k] \/ \E d \in Cores : Cluster(d) = k /\ exec'[d] = "dsu"
      <4>1. \A d \in Cores : exec[d] = "dsu" => exec'[d] = "dsu"
          BY <2>1, <3>1
      <4> QED
          BY <2>1, <3>1, <3>2, <4>1 DEF StartedCounts
    <3>4. CASE TickDmcCredits(c)
      <4>1. exec'[c] = "dmc_read"
          BY <1>5, <3>4, TickMoves
      <4> QED
          BY <3>3, <4>1
    <3>5. CASE TickDmcRestarts(c)
      <4>1. DmcChannelIterator(DmcRestart) /\ \A ch : DmcCounters(ch)' = DmcCounters(ch)
          BY <3>5 DEF TickDmcRestarts, assignVars, DmcCounters
      <4>2. \A ch \in Channels : \A i \in DmcCounters(ch) : dmcReg'[ch][i].on
          BY <4>1, IteratorFacts DEF DmcCounters
      <4> QED
          BY <3>3, <4>1, <4>2
    <3> QED
        BY <2>5, <3>4, <3>5
  <2> QED
      BY <1>5, <2>3, <2>4, <2>5 DEF Tick
<1> QED
    BY <1>2, <1>3, <1>4, <1>5 DEF Next, Client

-----------------------------------------------------------------------------
(* The memory controllers: nothing is lost or credited twice.                *)

\* What DmcInv says of an event.
DmcEvent(ch, j) ==
  /\ ~mixed.dmc => /\ InRead # {} => ~dmcReg[ch][j - 1].on
                   /\ clkdiv2[ch][j].value.n + DmcLeft(ch, j - 1) = made.dmc[ch][j - 1]
  /\ clkdiv2[ch][j].value.of \subseteq {request.clkdiv2[j]}
  /\ dmcReg[ch][j - 1].count.of \subseteq {request.clkdiv2[j]}

\* While a client measures, its events are on the controllers' counters.
LEMMA DmcAssigned ==
    ASSUME TypeOK, AssignedInv, Prepared, WantsDmc, NEW ch \in Channels
    PROVE  /\ DOMAIN clkdiv2[ch] = DOMAIN request.clkdiv2
           /\ \A j \in DOMAIN clkdiv2[ch] :
                /\ j - 1 \in DmcGPCs /\ j - 1 \in DmcCounters(ch) /\ clkdiv2[ch][j].value \in Counts
                /\ dmcReg[ch][j - 1] \in Reg /\ dmcReg[ch][j - 1].type = request.clkdiv2[j]
                /\ made.dmc[ch][j - 1] \in Nat
<1>1. /\ DOMAIN clkdiv2[ch] = DOMAIN request.clkdiv2
      /\ \A j \in DOMAIN clkdiv2[ch] : dmcReg[ch][j - 1].type = request.clkdiv2[j]
    BY DEF AssignedInv
<1>2. \A j \in DOMAIN clkdiv2[ch] : j - 1 \in DmcGPCs /\ j - 1 \in DmcCounters(ch) /\ clkdiv2[ch][j].value \in Counts
    BY <1>1, Div2Counters
<1> QED
    BY <1>1, <1>2, Typed

\* A step that changes no counts and starts nothing in the middle of a tick.
LEMMA DmcKept ==
    ASSUME TypeOK, AssignedInv, DmcInv, Measuring, UNCHANGED <<request, clkdiv2, made>>,
           ~mixed'.dmc => ~mixed.dmc, InRead' = InRead,
           WantsDmc => \A ch \in Channels : \A i \in DmcGPCs :
                         /\ dmcReg'[ch][i].count = dmcReg[ch][i].count
                         /\ ~mixed'.dmc /\ InRead # {} /\ dmcReg'[ch][i].on => dmcReg[ch][i].on
    PROVE  DmcInv'
<1> SUFFICES ASSUME WantsDmc'
             PROVE  /\ ~mixed'.dmc => \A c \in InRead' : InRead' = {c}
                    /\ \A ch \in Channels : \A j \in DOMAIN clkdiv2'[ch] : DmcEvent(ch, j)'
    BY DEF DmcInv, DmcEvent
<1>1. WantsDmc /\ Prepared
    BY DEF WantsDmc, Prepared
<1>2. ASSUME NEW ch \in Channels, NEW j \in DOMAIN clkdiv2'[ch]
      PROVE  DmcEvent(ch, j)'
  <2>1. j \in DOMAIN clkdiv2[ch] /\ j - 1 \in DmcGPCs
      BY <1>1, <1>2, DmcAssigned
  <2>2. DmcEvent(ch, j)
      BY <1>1, <2>1 DEF DmcInv, DmcEvent
  <2>3. DmcLeft(ch, j - 1)' = DmcLeft(ch, j - 1)
      BY <1>1, <2>1 DEF DmcLeft
  <2> QED
      BY <1>1, <2>1, <2>2, <2>3 DEF DmcEvent
<1> QED
    BY <1>1, <1>2 DEF DmcInv

\* A counter that counts shows one more, and one more was made.
LEMMA DmcElapse == TypeOK /\ AssignedInv /\ DmcInv /\ Elapse => DmcInv'
<1> SUFFICES ASSUME TypeOK, AssignedInv, DmcInv, Elapse, Measuring', WantsDmc'
             PROVE  /\ ~mixed'.dmc => \A c \in InRead' : InRead' = {c}
                    /\ \A ch \in Channels : \A j \in DOMAIN clkdiv2'[ch] : DmcEvent(ch, j)'
    BY DEF DmcInv, DmcEvent
<1>1. UNCHANGED <<request, phase, exec, clkdiv2, mixed>>
    BY DEF Elapse, clientVars, assignVars, timerVars
<1>2. Measuring /\ WantsDmc /\ Prepared /\ InRead' = InRead
    BY <1>1 DEF Measuring, WantsDmc, Prepared, InRead
<1>3. ASSUME NEW ch \in Channels, NEW j \in DOMAIN clkdiv2'[ch]
      PROVE  DmcEvent(ch, j)'
  <2>1. PICK i \in DmcGPCs : i = j - 1
      BY <1>1, <1>2, <1>3, DmcAssigned
  <2>2. /\ j \in DOMAIN clkdiv2[ch] /\ dmcReg[ch][i] \in Reg /\ dmcReg[ch][i].type = request.clkdiv2[j]
        /\ made.dmc[ch][i] \in Nat /\ clkdiv2[ch][j].value \in Counts
      BY <1>1, <1>2, <1>3, <2>1, DmcAssigned
  <2>3. DmcEvent(ch, j)
      BY <1>2, <2>2 DEF DmcInv, DmcEvent
  <2>4. dmcReg[ch][i].count \in Counts /\ clkdiv2[ch][j].value.n \in Nat /\ dmcReg[ch][i].count.n \in Nat
      BY <2>2, CountsFacts DEF Counts
  <2>5. CASE dmcReg[ch][i].on
    <3>1. dmcReg'[ch][i] = Counted(dmcReg[ch][i]) /\ made'.dmc[ch][i] = made.dmc[ch][i] + 1
        BY <2>5 DEF Elapse
    <3>2. [n |-> 1, of |-> {request.clkdiv2[j]}] \in Counts
      <4>1. request.clkdiv2[j] \in Types
          BY <2>2, CountsFacts
      <4> QED
          BY <4>1 DEF Counts
    <3>3. dmcReg'[ch][i].count = Plus(dmcReg[ch][i].count, [n |-> 1, of |-> {request.clkdiv2[j]}])
      <4>1. PICK reg \in Reg : reg = dmcReg[ch][i]
          BY <2>2
      <4>2. Counted(reg).count = Plus(reg.count, [n |-> 1, of |-> {reg.type}])
          BY DEF Counted, Reg
      <4> QED
          BY <2>2, <3>1, <4>1, <4>2
    <3>4. /\ dmcReg'[ch][i].count.n = dmcReg[ch][i].count.n + 1
          /\ dmcReg'[ch][i].count.of = dmcReg[ch][i].count.of \cup {request.clkdiv2[j]}
      <4>1. PICK a, b \in Counts : a = dmcReg[ch][i].count /\ b = [n |-> 1, of |-> {request.clkdiv2[j]}]
          BY <2>4, <3>2
      <4>2. Plus(a, b).n = a.n + b.n /\ Plus(a, b).of = a.of \cup b.of
          BY CountsFacts
      <4> QED
          BY <3>3, <4>1, <4>2
    <3>5. ~mixed.dmc => InRead = {}
        BY <2>1, <2>3, <2>5 DEF DmcEvent
    <3>6. ~mixed.dmc => clkdiv2[ch][j].value.n + dmcReg'[ch][i].count.n = made'.dmc[ch][i]
      <4>1. ~mixed.dmc => clkdiv2[ch][j].value.n + dmcReg[ch][i].count.n = made.dmc[ch][i]
          BY <2>1, <2>3, <3>5 DEF DmcEvent, DmcLeft
      <4> QED
          BY <2>2, <2>4, <3>1, <3>4, <4>1
    <3>7. DmcLeft(ch, i)' = IF InRead = {} THEN dmcReg'[ch][i].count.n ELSE 0
        BY <1>2 DEF DmcLeft
    <3> QED
        BY <1>1, <1>2, <2>1, <2>3, <3>4, <3>5, <3>6, <3>7 DEF DmcEvent
  <2>6. CASE ~dmcReg[ch][i].on
    <3>1. dmcReg'[ch][i] = dmcReg[ch][i] /\ made'.dmc[ch][i] = made.dmc[ch][i]
      <4>1. dmcReg'[ch][i] = dmcReg[ch][i] /\ made'.dmc[ch][i] = made.dmc[ch][i] + 0
          BY <2>6 DEF Elapse
      <4> QED
          BY <2>2, <4>1
    <3>2. DmcLeft(ch, i)' = DmcLeft(ch, i)
        BY <1>2, <3>1 DEF DmcLeft
    <3> QED
        BY <1>1, <1>2, <2>1, <2>3, <3>1, <3>2 DEF DmcEvent
  <2> QED
      BY <2>5, <2>6
<1>4. ~mixed'.dmc => \A c \in InRead' : InRead' = {c}
    BY <1>1, <1>2 DEF DmcInv
<1> QED
    BY <1>3, <1>4

\* RESET takes what was counted away everywhere.
LEMMA DmcReset == TypeOK /\ AssignedInv /\ Reset => DmcInv'
<1> SUFFICES ASSUME TypeOK, AssignedInv, Reset, WantsDmc'
             PROVE  /\ ~mixed'.dmc => \A c \in InRead' : InRead' = {c}
                    /\ \A ch \in Channels : \A j \in DOMAIN clkdiv2'[ch] : DmcEvent(ch, j)'
    BY DEF DmcInv, DmcEvent
<1>1. /\ UNCHANGED <<request, exec>> /\ Prepared /\ ResetDmc
      /\ made'.dmc = [ch \in Channels |-> [i \in DmcGPCs |-> 0]]
      /\ mixed'.dmc = \E c \in Cores : exec[c] = "dmc_read"
    BY DEF Reset, Prepared, Measuring
<1>2. WantsDmc /\ InRead' = InRead /\ (~mixed'.dmc => InRead = {})
    BY <1>1 DEF WantsDmc, InRead
<1>3. ASSUME NEW ch \in Channels, NEW j \in DOMAIN clkdiv2'[ch]
      PROVE  DmcEvent(ch, j)'
  <2>1. /\ DmcChannelIterator(DmcCounterReset)
        /\ clkdiv2'[ch] = [i \in DOMAIN clkdiv2[ch] |-> [clkdiv2[ch][i] EXCEPT !.value = Zero]]
      BY <1>1, <1>2 DEF ResetDmc
  <2>2. j \in DOMAIN clkdiv2[ch]
      BY <1>3, <2>1
  <2>3. PICK i \in DmcGPCs : i = j - 1 /\ i \in DmcCounters(ch)
      BY <1>1, <1>2, <2>2, DmcAssigned
  <2>4. dmcReg'[ch][i].count = Zero /\ made'.dmc[ch][i] = 0
      BY <1>1, <2>1, <2>3, IteratorFacts
  <2>5. clkdiv2'[ch][j].value = Zero
    <3> DEFINE R == [type : Types, value : Counts]
    <3>1. clkdiv2[ch] \in Seq(R)
        BY Typed DEF DmcEvents
    <3>2. clkdiv2[ch][j] \in R
      <4> HIDE DEF R
      <4> QED
          BY <2>2, <3>1, SeqFacts
    <3>3. clkdiv2'[ch][j] = [clkdiv2[ch][j] EXCEPT !.value = Zero]
        BY <2>1, <2>2
    <3> QED
        BY <3>2, <3>3
  <2>6. Zero.n = 0 /\ Zero.of = {}
      BY DEF Zero
  <2>7. DmcLeft(ch, i)' = 0
      BY <2>4, <2>6 DEF DmcLeft
  <2> QED
      BY <1>2, <2>3, <2>4, <2>5, <2>6, <2>7 DEF DmcEvent
<1> QED
    BY <1>2, <1>3

\* The read of a tick adds what the counters show to the values.
LEMMA DmcTickCredits ==
    ASSUME TypeOK, AssignedInv, DmcInv, NEW c \in Cores, TickDmcCredits(c)
    PROVE  DmcInv'
<1> SUFFICES ASSUME Measuring', WantsDmc'
             PROVE  /\ ~mixed'.dmc => \A d \in InRead' : InRead' = {d}
                    /\ \A ch \in Channels : \A j \in DOMAIN clkdiv2'[ch] : DmcEvent(ch, j)'
    BY DEF DmcInv, DmcEvent
<1>1. /\ UNCHANGED <<request, phase, made>> /\ exec[c] = "dmc" /\ exec'[c] = "dmc_read"
      /\ \A d \in Cores \ {c} : exec'[d] = exec[d]
    BY TickMoves DEF Tick
<1>2. Measuring /\ WantsDmc /\ Prepared
    BY <1>1 DEF Measuring, WantsDmc, Prepared
<1>3. InRead' = InRead \cup {c}
    BY <1>1 DEF InRead
<1>4. ~mixed'.dmc => ~mixed.dmc /\ InRead = {}
  <2>1. mixed' = [mixed EXCEPT !.dmc = @ \/ \E d \in Cores : exec[d] = "dmc_read"]
      BY DEF TickDmcCredits
  <2>2. mixed \in [dsu : SUBSET Clusters, rounds : SUBSET Cores, dmc : BOOLEAN]
      BY DEF TypeOK
  <2> QED
      BY <2>1, <2>2 DEF InRead
<1>5. ASSUME NEW ch \in Channels, NEW j \in DOMAIN clkdiv2'[ch]
      PROVE  DmcEvent(ch, j)'
  <2>1. clkdiv2'[ch] = [i \in DOMAIN clkdiv2[ch] |-> [clkdiv2[ch][i] EXCEPT !.value = Plus(@, DmcCounterRead(ch, i - 1))]]
      BY DEF TickDmcCredits
  <2>2. j \in DOMAIN clkdiv2[ch]
      BY <1>5, <2>1
  <2>3. PICK i \in DmcGPCs : i = j - 1 /\ i \in DmcCounters(ch)
      BY <1>2, <2>2, DmcAssigned
  <2>4. dmcReg[ch][i] \in Reg /\ clkdiv2[ch][j].value \in Counts /\ made.dmc[ch][i] \in Nat
      BY <1>2, <2>2, <2>3, DmcAssigned
  <2>5. DmcEvent(ch, j)
      BY <1>2, <2>2 DEF DmcInv, DmcEvent
  <2>6. clkdiv2'[ch][j].value = Plus(clkdiv2[ch][j].value, dmcReg[ch][i].count)
    <3> DEFINE R == [type : Types, value : Counts]
    <3>1. clkdiv2[ch] \in Seq(R)
        BY Typed DEF DmcEvents
    <3>2. clkdiv2[ch][j] \in R
      <4> HIDE DEF R
      <4> QED
          BY <2>2, <3>1, SeqFacts
    <3>3. clkdiv2'[ch][j] = [clkdiv2[ch][j] EXCEPT !.value = Plus(@, DmcCounterRead(ch, j - 1))]
        BY <2>1, <2>2
    <3> QED
        BY <2>3, <3>2, <3>3 DEF DmcCounterRead
  <2>7. dmcReg[ch][i].count \in Counts
      BY <2>4, CountsFacts
  <2>8. /\ clkdiv2'[ch][j].value.n = clkdiv2[ch][j].value.n + dmcReg[ch][i].count.n
        /\ clkdiv2'[ch][j].value.of = clkdiv2[ch][j].value.of \cup dmcReg[ch][i].count.of
        /\ clkdiv2[ch][j].value.n \in Nat /\ dmcReg[ch][i].count.n \in Nat
    <3>1. clkdiv2[ch][j].value.n \in Nat /\ dmcReg[ch][i].count.n \in Nat
        BY <2>4, <2>7 DEF Counts
    <3> QED
        BY <2>4, <2>6, <2>7, <3>1, CountsFacts
  <2>9. dmcReg'[ch][i].count = dmcReg[ch][i].count /\ ~dmcReg'[ch][i].on
      BY <2>3, IteratorFacts DEF TickDmcCredits
  <2>10. ~mixed'.dmc => clkdiv2'[ch][j].value.n + 0 = made'.dmc[ch][i]
    <3>1. ~mixed'.dmc => clkdiv2[ch][j].value.n + dmcReg[ch][i].count.n = made.dmc[ch][i]
        BY <1>4, <2>3, <2>5 DEF DmcEvent, DmcLeft
    <3> QED
        BY <1>1, <2>4, <2>8, <3>1
  <2>11. DmcLeft(ch, i)' = 0
      BY <1>3 DEF DmcLeft
  <2> QED
      BY <1>1, <2>3, <2>5, <2>8, <2>9, <2>10, <2>11 DEF DmcEvent
<1>6. ~mixed'.dmc => \A d \in InRead' : InRead' = {d}
    BY <1>3, <1>4
<1> QED
    BY <1>5, <1>6

\* The rest of the tick clears the counters, what they showed being credited.
LEMMA DmcTickRestarts ==
    ASSUME TypeOK, AssignedInv, DmcInv, NEW c \in Cores, TickDmcRestarts(c)
    PROVE  DmcInv'
<1> SUFFICES ASSUME Measuring', WantsDmc'
             PROVE  /\ ~mixed'.dmc => \A d \in InRead' : InRead' = {d}
                    /\ \A ch \in Channels : \A j \in DOMAIN clkdiv2'[ch] : DmcEvent(ch, j)'
    BY DEF DmcInv, DmcEvent
<1>1. /\ UNCHANGED <<request, phase, made, mixed, clkdiv2>> /\ exec[c] = "dmc_read" /\ exec'[c] = "none"
      /\ \A d \in Cores \ {c} : exec'[d] = exec[d]
    BY TickMoves DEF Tick, TickDmcRestarts, assignVars, history
<1>2. Measuring /\ WantsDmc /\ Prepared
    BY <1>1 DEF Measuring, WantsDmc, Prepared
<1>3. InRead' = InRead \ {c} /\ c \in InRead
    BY <1>1 DEF InRead
<1>4. ~mixed.dmc => InRead' = {}
    BY <1>2, <1>3 DEF DmcInv
<1>5. ASSUME NEW ch \in Channels, NEW j \in DOMAIN clkdiv2'[ch]
      PROVE  DmcEvent(ch, j)'
  <2>1. j \in DOMAIN clkdiv2[ch]
      BY <1>1, <1>5
  <2>2. PICK i \in DmcGPCs : i = j - 1 /\ i \in DmcCounters(ch)
      BY <1>2, <2>1, DmcAssigned
  <2>3. DmcEvent(ch, j)
      BY <1>2, <2>1 DEF DmcInv, DmcEvent
  <2>4. dmcReg'[ch][i].count = Zero
      BY <2>2, IteratorFacts DEF TickDmcRestarts
  <2>5. Zero.n = 0 /\ Zero.of = {}
      BY DEF Zero
  <2>6. DmcLeft(ch, i)' = 0
      BY <2>4, <2>5 DEF DmcLeft
  <2>7. DmcLeft(ch, i) = 0
      BY <1>3 DEF DmcLeft
  <2> QED
      BY <1>1, <1>4, <2>2, <2>3, <2>4, <2>5, <2>6, <2>7 DEF DmcEvent
<1>6. ~mixed'.dmc => \A d \in InRead' : InRead' = {d}
    BY <1>1, <1>4
<1> QED
    BY <1>5, <1>6

\* Every step keeps the controllers' balance.
LEMMA DmcStep == TypeOK /\ AssignedInv /\ DmcInv /\ [Next]_vars => DmcInv'
<1> SUFFICES ASSUME TypeOK, AssignedInv, DmcInv, [Next]_vars
             PROVE  DmcInv'
    OBVIOUS
<1>1. CASE (\E r \in Requests : LockAcquire(r) \/ TakeOver(r)) \/ StopAll \/ Assign \/ Release \/ free_pmu_resource
  <2>1. ~Measuring'
      BY <1>1 DEF LockAcquire, TakeOver, StopAll, Assign, Release,
         free_pmu_resource, Measuring
  <2> QED
      BY <2>1 DEF DmcInv
<1>2. CASE Start
  <2>1. /\ UNCHANGED <<request, clkdiv2, made, exec>> /\ Measuring
        /\ mixed' = [mixed EXCEPT !.dmc = @ \/ \E c \in Cores : exec[c] = "dmc_read"]
      BY <1>2 DEF Start, assignVars, Measuring
  <2>2. mixed \in [dsu : SUBSET Clusters, rounds : SUBSET Cores, dmc : BOOLEAN]
      BY DEF TypeOK
  <2>3. InRead' = InRead /\ (~mixed'.dmc => ~mixed.dmc /\ InRead = {})
      BY <2>1, <2>2 DEF InRead
  <2>4. WantsDmc => \A ch \in Channels : \A i \in DmcGPCs : dmcReg'[ch][i].count = dmcReg[ch][i].count
      BY <1>2, IteratorFacts DEF Start
  <2> QED
      BY <2>1, <2>3, <2>4, DmcKept
<1>3. CASE StopMine
  <2>1. UNCHANGED <<request, clkdiv2, made, exec, mixed>> /\ Measuring
      BY <1>3 DEF StopMine, Stop, assignVars, history, Measuring
  <2>2. InRead' = InRead
      BY <2>1 DEF InRead
  <2>3. ASSUME WantsDmc, NEW ch \in Channels, NEW i \in DmcGPCs
        PROVE  dmcReg'[ch][i].count = dmcReg[ch][i].count /\ (dmcReg'[ch][i].on => dmcReg[ch][i].on)
    <3>1. dmcReg[ch][i] \in Reg /\ DmcChannelIterator(DmcCounterStop)
        BY <1>3, <2>3, Typed DEF StopMine, Stop
    <3>2. dmcReg'[ch][i] \in {DmcCounterStop(dmcReg[ch][i]), dmcReg[ch][i]}
        BY <3>1 DEF DmcChannelIterator
    <3> QED
        BY <3>1, <3>2 DEF DmcCounterStop, Reg
  <2> QED
      BY <2>1, <2>2, <2>3, DmcKept
<1>4. CASE Read \/ (\E c \in Cores : TimerFires(c) \/ TickFindsIdle(c)) \/ UNCHANGED vars
  <2>1. UNCHANGED <<request, clkdiv2, made, exec, mixed, dmcReg>>
      BY <1>4 DEF Read, TimerFires, TickFindsIdle, vars, clientVars, assignVars,
         timerVars, regVars, history
  <2>2. InRead' = InRead /\ (Measuring' => Measuring)
      BY <1>4 DEF InRead, Measuring, Read, TimerFires, TickFindsIdle, vars,
         clientVars, timerVars
  <2>3. CASE Measuring
      BY <2>1, <2>2, <2>3, DmcKept
  <2>4. CASE ~Measuring
      BY <2>2, <2>4 DEF DmcInv
  <2> QED
      BY <2>3, <2>4
<1>5. ASSUME NEW c \in Cores, TickCredits(c) \/ TickRestarts(c)
      PROVE  DmcInv'
  <2>1. /\ UNCHANGED <<request, phase, made, clkdiv2, dmcReg>> /\ exec[c] # "dmc_read" /\ exec'[c] # "dmc_read"
        /\ \A d \in Cores \ {c} : exec'[d] = exec[d]
    <3>1. UNCHANGED <<clkdiv2, dmcReg>>
        BY <1>5 DEF TickCredits, TickRestarts, assignVars
    <3> QED
        BY <1>5, <3>1, TickMoves DEF Tick
  <2>2. InRead' = InRead /\ (Measuring' => Measuring)
      BY <2>1 DEF InRead, Measuring
  <2>3. mixed'.dmc = mixed.dmc
    <3>1. \/ mixed' = mixed \/ mixed' = [mixed EXCEPT !.dsu = @ \cup {Cluster(c)}]
          \/ mixed' = [mixed EXCEPT !.rounds = @ \cup {c}]
        BY <1>5 DEF TickCredits, TickRestarts, history
    <3>2. mixed \in [dsu : SUBSET Clusters, rounds : SUBSET Cores, dmc : BOOLEAN]
        BY DEF TypeOK
    <3> QED
        BY <3>1, <3>2
  <2>4. CASE Measuring
      BY <2>1, <2>2, <2>3, <2>4, DmcKept
  <2>5. CASE ~Measuring
      BY <2>2, <2>5 DEF DmcInv
  <2> QED
      BY <2>4, <2>5
<1> QED
    BY <1>1, <1>2, <1>3, <1>4, <1>5, DmcElapse, DmcReset, DmcTickCredits,
       DmcTickRestarts DEF Next, Client, Tick

-----------------------------------------------------------------------------
(* The DSUs: nothing is lost or credited twice.                              *)

\* The client's cores of a cluster, and what each of them has of an event.
Share(k, j) == [c \in Part(k) |-> value[c][j].n]

\* What DsuInv says of a cluster.
DsuCluster(k) ==
  /\ \A c \in InTick(k) : c \in Mine /\ prof_dsu[c] = ProfDsu(c) /\ InTick(k) = {c} /\ ~dsuOn[k]
  /\ Balanced(k)

\* While a client measures, its cores have its events.
LEMMA DsuAssigned ==
    ASSUME TypeOK, AssignedInv, Prepared, WantsDsu
    PROVE  /\ \A c \in Mine : c \in Cores /\ dsuEvents[c] = request.dsu
           /\ Len(request.dsu) \in Nat /\ DOMAIN request.dsu = 1 .. Len(request.dsu)
           /\ IsFiniteSet(DOMAIN request.dsu)
           /\ Len(request.dsu) <= dsu_numGPC => \A j \in DOMAIN request.dsu : j - 1 \in DsuGPCs
<1>1. ASSUME NEW c \in Mine
      PROVE  c \in Cores /\ dsuEvents[c] = request.dsu
  <2>1. request.cores \in Seq(Cores)
      BY Typed, RequestFacts
  <2>2. PICK i \in DOMAIN request.cores : c = request.cores[i]
      BY DEF Mine, ToSet
  <2>3. i \in 1 .. assigned
      BY <2>1, <2>2, SeqFacts DEF AssignedInv
  <2> QED
      BY <2>2, <2>3, Typed DEF AssignedInv
<1>2. Len(request.dsu) \in Nat /\ DOMAIN request.dsu = 1 .. Len(request.dsu)
    BY Typed, RequestFacts, SeqFacts
<1>3. IsFiniteSet(DOMAIN request.dsu)
    BY <1>2, FiniteRanges
<1>4. Len(request.dsu) <= dsu_numGPC => \A j \in DOMAIN request.dsu : j - 1 \in DsuGPCs
    BY <1>2, Sizes DEF DsuGPCs
<1> QED
    BY <1>1, <1>2, <1>3, <1>4

\* What a client's cores of a cluster have of an event is a sum of numbers.
LEMMA Shares ==
    ASSUME TypeOK, AssignedInv, Prepared, WantsDsu, NEW k, NEW j \in DOMAIN request.dsu
    PROVE  /\ IsFiniteSet(Part(k)) /\ Share(k, j) \in [Part(k) -> Nat]
           /\ Valued(k, j) = SumFunction(Share(k, j)) /\ Valued(k, j) \in Nat
<1>1. IsFiniteSet(Part(k))
  <2>1. Part(k) \subseteq Cores
      BY Typed DEF Part
  <2> QED
      BY <2>1, FiniteRanges, FS_Subset
<1>2. ASSUME NEW c \in Part(k)
      PROVE  value[c][j].n \in Nat
  <2>1. c \in Cores /\ dsuEvents[c] = request.dsu
      BY DsuAssigned DEF Part
  <2>2. value[c] \in Seq(Counts) /\ j \in DOMAIN value[c]
      BY <2>1, Typed, DsuAssigned
  <2>3. value[c][j] \in Counts
      BY <2>2, SeqFacts
  <2> QED
      BY <2>3 DEF Counts
<1>3. Share(k, j) \in [Part(k) -> Nat]
    BY <1>2 DEF Share
<1>4. Valued(k, j) = SumFunction(Share(k, j))
    BY DEF Valued, Share, Part, DSU_CTL_READ_COUNTING
<1>5. SumFunction(Share(k, j)) \in Nat
    BY <1>1, <1>3, SumType
<1> QED
    BY <1>1, <1>3, <1>4, <1>5

\* What a cluster's counters show, and what they have counted.
LEMMA Shown ==
    ASSUME TypeOK, NEW k \in Clusters
    PROVE  /\ [i \in DsuGPCs |-> dsuReg[k][i].count.n] \in [DsuGPCs -> Nat]
           /\ [i \in DsuGPCs |-> DsuLeft(k, i)] \in [DsuGPCs -> Nat]
           /\ made.dsu[k] \in [DsuGPCs -> Nat]
<1>1. ASSUME NEW i \in DsuGPCs
      PROVE  dsuReg[k][i].count.n \in Nat /\ DsuLeft(k, i) \in Nat
  <2>1. dsuReg[k][i].count \in Counts
      BY Typed, CountsFacts
  <2> QED
      BY <2>1 DEF Counts, DsuLeft
<1>2. made.dsu[k] \in [DsuGPCs -> Nat]
    BY DEF TypeOK
<1> QED
    BY <1>1, <1>2

\* Where values, counters and counts stay, so does the balance.
LEMMA BalanceKept ==
    ASSUME TypeOK, AssignedInv, Prepared, WantsDsu, NEW k \in Clusters, request' = request, Balanced(k),
           \A j \in DOMAIN request.dsu : Valued(k, j)' = Valued(k, j),
           \A i \in DsuGPCs : DsuLeft(k, i)' = DsuLeft(k, i),
           made'.dsu[k] = made.dsu[k]
    PROVE  Balanced(k)'
<1>1. CASE Len(request.dsu) <= dsu_numGPC
  <2>1. \A j \in DOMAIN request.dsu : Valued(k, j) + DsuLeft(k, j - 1) = made.dsu[k][j - 1]
      BY <1>1 DEF Balanced
  <2>2. \A j \in DOMAIN request.dsu : j - 1 \in DsuGPCs
      BY <1>1, DsuAssigned
  <2>3. \A j \in DOMAIN request.dsu : Valued(k, j)' + DsuLeft(k, j - 1)' = made'.dsu[k][j - 1]
      BY <2>1, <2>2
  <2> QED
      BY <1>1, <2>3 DEF Balanced
<1>2. CASE ~(Len(request.dsu) <= dsu_numGPC)
  <2>1. SumFunction([j \in DOMAIN request.dsu |-> Valued(k, j)]) + SumFunction([i \in DsuGPCs |-> DsuLeft(k, i)])
          = SumFunction(made.dsu[k])
      BY <1>2 DEF Balanced
  <2>2. [j \in DOMAIN request.dsu |-> Valued(k, j)'] = [j \in DOMAIN request.dsu |-> Valued(k, j)]
      OBVIOUS
  <2>3. [i \in DsuGPCs |-> DsuLeft(k, i)'] = [i \in DsuGPCs |-> DsuLeft(k, i)]
      OBVIOUS
  <2>4. SumFunction([j \in DOMAIN request.dsu |-> Valued(k, j)']) + SumFunction([i \in DsuGPCs |-> DsuLeft(k, i)'])
          = SumFunction(made'.dsu[k])
      BY <2>1, <2>2, <2>3
  <2> QED
      BY <1>2, <2>4 DEF Balanced
<1> QED
    BY <1>1, <1>2

\* The values of a cluster stay if those of its cores do.
LEMMA ValuesKept ==
    ASSUME NEW k, NEW j, request' = request, \A c \in Part(k) : value'[c] = value[c]
    PROVE  Valued(k, j)' = Valued(k, j)
<1>1. Mine' = Mine
    BY DEF Mine
<1>2. {c \in Mine' : Cluster(c) = k} = Part(k)
    BY <1>1 DEF Part
<1>3. [c \in {c \in Mine' : Cluster(c) = k} |-> value'[c][j].n] = [c \in Part(k) |-> value[c][j].n]
    BY <1>2
<1>4. Valued(k, j)' = SumFunction([c \in {c \in Mine' : Cluster(c) = k} |-> value'[c][j].n])
    BY DEF Valued, DSU_CTL_READ_COUNTING
<1>5. Valued(k, j) = SumFunction([c \in Part(k) |-> value[c][j].n])
    BY DEF Valued, DSU_CTL_READ_COUNTING, Part
<1> QED
    BY <1>3, <1>4, <1>5

\* A cluster that a step does not touch.
LEMMA ClusterKept ==
    ASSUME TypeOK, AssignedInv, Prepared, WantsDsu, NEW k \in Clusters, DsuCluster(k),
           UNCHANGED <<request, dsuEvents, made>>, \A c \in Part(k) : value'[c] = value[c],
           InTick(k)' = InTick(k), \A i \in DsuGPCs : dsuReg'[k][i].count = dsuReg[k][i].count,
           \A c \in InTick(k) : prof_dsu'[c] = prof_dsu[c] /\ (dsuOn'[k] => dsuOn[k])
    PROVE  DsuCluster(k)'
<1>1. Balanced(k)'
  <2>1. \A j \in DOMAIN request.dsu : Valued(k, j)' = Valued(k, j)
      BY ValuesKept
  <2>2. \A i \in DsuGPCs : DsuLeft(k, i)' = DsuLeft(k, i)
      BY DEF DsuLeft
  <2> QED
      BY <2>1, <2>2, BalanceKept DEF DsuCluster
<1>2. Mine' = Mine /\ \A c : ProfDsu(c)' = ProfDsu(c)
    BY DEF Mine, ProfDsu, WantsDsu
<1> QED
    BY <1>1, <1>2 DEF DsuCluster

\* A counter that counts shows one more, and one more was made.
LEMMA DsuElapse == TypeOK /\ AssignedInv /\ DsuInv /\ Elapse => DsuInv'
<1> SUFFICES ASSUME TypeOK, AssignedInv, DsuInv, Elapse, Measuring', WantsDsu', NEW k \in MyClusters' \ mixed'.dsu
             PROVE  DsuCluster(k)'
    BY DEF DsuInv, DsuCluster
<1>1. UNCHANGED <<request, phase, exec, dsuEvents, value, mixed, prof_dsu, dsuOn>>
    BY DEF Elapse, clientVars, assignVars, timerVars
<1>2. /\ Measuring /\ WantsDsu /\ Prepared /\ k \in MyClusters \ mixed.dsu /\ Mine' = Mine
      /\ InTick(k)' = InTick(k) /\ \A c : ProfDsu(c)' = ProfDsu(c)
    BY <1>1 DEF Measuring, WantsDsu, Prepared, MyClusters, Mine, InTick, ProfDsu
<1>3. k \in Clusters /\ DsuCluster(k)
    BY <1>2, Typed DEF DsuInv, DsuCluster
<1> DEFINE One(i) == IF dsuOn[k] /\ dsuReg[k][i].on THEN 1 ELSE 0
<1>4. made'.dsu[k] = [i \in DsuGPCs |-> made.dsu[k][i] + One(i)]
    BY <1>3 DEF Elapse
<1>5. ASSUME NEW i \in DsuGPCs
      PROVE  DsuLeft(k, i)' = DsuLeft(k, i) + One(i)
  <2>1. PICK reg \in Reg : reg = dsuReg[k][i]
      BY <1>3, Typed
  <2>2. reg.count \in Counts /\ reg.type \in Types
      BY CountsFacts
  <2>3. Counted(reg).count.n = reg.count.n + 1 /\ reg.count.n \in Nat
    <3>1. [n |-> 1, of |-> {reg.type}] \in Counts
        BY <2>2 DEF Counts
    <3>2. Counted(reg).count = Plus(reg.count, [n |-> 1, of |-> {reg.type}])
        BY DEF Counted, Reg
    <3>3. Plus(reg.count, [n |-> 1, of |-> {reg.type}]).n = reg.count.n + 1
        BY <2>2, <3>1, CountsFacts
    <3> QED
        BY <2>2, <3>2, <3>3 DEF Counts
  <2>4. dsuReg'[k][i] = IF dsuOn[k] /\ reg.on THEN Counted(reg) ELSE reg
      BY <1>3, <2>1 DEF Elapse
  <2>5. dsuReg'[k][i].count.n = reg.count.n + One(i)
      BY <2>1, <2>3, <2>4
  <2>6. CASE InTick(k) = {}
      BY <1>2, <2>1, <2>5, <2>6 DEF DsuLeft
  <2>7. CASE InTick(k) # {}
    <3>1. ~dsuOn[k]
        BY <1>3, <2>7 DEF DsuCluster
    <3> QED
        BY <1>2, <2>7, <3>1 DEF DsuLeft
  <2> QED
      BY <2>6, <2>7
<1>6. \A j \in DOMAIN request.dsu : Valued(k, j)' = Valued(k, j) /\ Valued(k, j) \in Nat
    BY <1>1, <1>2, ValuesKept, Shares
<1>7. \A i \in DsuGPCs : One(i) \in Nat
    OBVIOUS
<1> HIDE DEF One
<1>8. Balanced(k)'
  <2>1. \A i \in DsuGPCs : made.dsu[k][i] \in Nat /\ DsuLeft(k, i) \in Nat
      BY <1>3, Shown
  <2>2. CASE Len(request.dsu) <= dsu_numGPC
    <3>1. ASSUME NEW j \in DOMAIN request.dsu
          PROVE  Valued(k, j)' + DsuLeft(k, j - 1)' = made'.dsu[k][j - 1]
      <4>1. PICK i \in DsuGPCs : i = j - 1
          BY <1>2, <2>2, DsuAssigned
      <4>2. Valued(k, j) + DsuLeft(k, i) = made.dsu[k][i]
          BY <1>3, <2>2, <4>1 DEF DsuCluster, Balanced
      <4>3. Valued(k, j) \in Nat /\ DsuLeft(k, i) \in Nat /\ One(i) \in Nat
          BY <1>6, <1>7, <2>1
      <4>4. Valued(k, j) + (DsuLeft(k, i) + One(i)) = made.dsu[k][i] + One(i)
          BY <4>2, <4>3
      <4> QED
          BY <1>4, <1>5, <1>6, <4>1, <4>4
    <3> QED
        BY <1>1, <2>2, <3>1 DEF Balanced
  <2>3. CASE ~(Len(request.dsu) <= dsu_numGPC)
    <3> DEFINE V == [j \in DOMAIN request.dsu |-> Valued(k, j)]
               L == [i \in DsuGPCs |-> DsuLeft(k, i)]
               G == [i \in DsuGPCs |-> One(i)]
    <3>1. SumFunction(V) + SumFunction(L) = SumFunction(made.dsu[k])
        BY <1>3, <2>3 DEF DsuCluster, Balanced
    <3>2. [j \in DOMAIN request.dsu |-> Valued(k, j)'] = V
        BY <1>6
    <3>3. SumFunction([i \in DsuGPCs |-> DsuLeft(k, i)']) = SumFunction(L) + SumFunction(G)
      <4> DEFINE H == [i \in DsuGPCs |-> DsuLeft(k, i)']
      <4>1. H \in [DsuGPCs -> Nat]
          BY <1>5, <1>7, <2>1
      <4>2. L \in [DsuGPCs -> Nat] /\ G \in [DsuGPCs -> Nat] /\ \A i \in DsuGPCs : H[i] = L[i] + G[i]
          BY <1>5, <1>7, <2>1
      <4> HIDE DEF L, G, H
      <4>3. PICK l, g, h : l = L /\ g = G /\ h = H
          OBVIOUS
      <4>4. SumFunction(h) = SumFunction(l) + SumFunction(g)
        <5>1. /\ IsFiniteSet(DsuGPCs) /\ l \in [DsuGPCs -> Nat] /\ g \in [DsuGPCs -> Nat] /\ h \in [DsuGPCs -> Nat]
              /\ \A i \in DsuGPCs : h[i] = l[i] + g[i]
            BY <4>1, <4>2, <4>3, FiniteRanges
        <5> QED
            BY ONLY <5>1, SumAdd
      <4> QED
          BY <4>3, <4>4 DEF H
    <3>4. SumFunction(made'.dsu[k]) = SumFunction(made.dsu[k]) + SumFunction(G)
      <4>1. made.dsu[k] \in [DsuGPCs -> Nat] /\ G \in [DsuGPCs -> Nat]
          BY <1>3, <1>7, Shown
      <4>2. made'.dsu[k] \in [DsuGPCs -> Nat] /\ \A i \in DsuGPCs : made'.dsu[k][i] = made.dsu[k][i] + G[i]
          BY <1>4, <1>7, <2>1
      <4> HIDE DEF G
      <4>3. PICK m, g, h : m = made.dsu[k] /\ g = G /\ h = made'.dsu[k]
          OBVIOUS
      <4>4. SumFunction(h) = SumFunction(m) + SumFunction(g)
        <5>1. /\ IsFiniteSet(DsuGPCs) /\ m \in [DsuGPCs -> Nat] /\ g \in [DsuGPCs -> Nat] /\ h \in [DsuGPCs -> Nat]
              /\ \A i \in DsuGPCs : h[i] = m[i] + g[i]
            BY <4>1, <4>2, <4>3, FiniteRanges
        <5> QED
            BY ONLY <5>1, SumAdd
      <4> QED
          BY <4>3, <4>4
    <3>5. SumFunction(V) \in Nat /\ SumFunction(L) \in Nat /\ SumFunction(G) \in Nat
      <4>1. V \in [DOMAIN request.dsu -> Nat] /\ L \in [DsuGPCs -> Nat] /\ G \in [DsuGPCs -> Nat]
          BY <1>6, <1>7, <2>1
      <4> HIDE DEF V, L, G
      <4> QED
          BY <1>2, <4>1, DsuAssigned, FiniteRanges, SumType
    <3>6. SumFunction(V) + (SumFunction(L) + SumFunction(G)) = SumFunction(made'.dsu[k])
      <4> HIDE DEF V, L, G
      <4> QED
          BY <3>1, <3>4, <3>5
    <3>7. SumFunction([j \in DOMAIN request.dsu |-> Valued(k, j)']) + SumFunction([i \in DsuGPCs |-> DsuLeft(k, i)'])
            = SumFunction(made'.dsu[k])
      <4> HIDE DEF V, L, G
      <4> QED
          BY <3>2, <3>3, <3>6
    <3> QED
        BY <1>1, <2>3, <3>7 DEF Balanced
  <2> QED
      BY <2>2, <2>3
<1> QED
    BY <1>1, <1>2, <1>3, <1>8 DEF DsuCluster

\* RESET takes what was counted away everywhere.
LEMMA DsuReset == TypeOK /\ AssignedInv /\ Reset => DsuInv'
<1> SUFFICES ASSUME TypeOK, AssignedInv, Reset, WantsDsu', NEW k \in MyClusters' \ mixed'.dsu
             PROVE  DsuCluster(k)'
    BY DEF DsuInv, DsuCluster
<1>1. /\ UNCHANGED <<request, exec, dsuEvents>> /\ Prepared
      /\ mixed'.dsu = {Cluster(c) : c \in {d \in Cores : exec[d] = "dsu"}}
      /\ made'.dsu = [x \in Clusters |-> [i \in DsuGPCs |-> 0]]
    BY DEF Reset, Prepared, Measuring
<1>2. WantsDsu /\ k \in MyClusters /\ k \in Clusters /\ Mine' = Mine /\ InTick(k)' = {}
    BY <1>1, Typed DEF WantsDsu, MyClusters, Mine, InTick
<1>3. made'.dsu[k] \in [DsuGPCs -> Nat] /\ \A i \in DsuGPCs : made'.dsu[k][i] = 0
    BY <1>1, <1>2
<1>4. ASSUME NEW i \in DsuGPCs
      PROVE  DsuLeft(k, i)' = 0
  <2>1. dsuReg[k][i] \in Reg
      BY <1>2, Typed
  <2>2. dsuReg'[k][i] = [dsuReg[k][i] EXCEPT !.count = Zero]
      BY <1>2 DEF Reset, DSUCounterReset
  <2>3. dsuReg'[k][i].count = Zero
      BY <2>1, <2>2 DEF Reg
  <2> QED
      BY <1>2, <2>3 DEF DsuLeft, Zero
<1>5. ASSUME NEW j \in DOMAIN request.dsu
      PROVE  Valued(k, j)' = 0
  <2>1. {c \in Mine' : Cluster(c) = k} = Part(k)
      BY <1>2 DEF Part
  <2>2. Valued(k, j)' = SumFunction([c \in {c \in Mine' : Cluster(c) = k} |-> value'[c][j].n])
      BY DEF Valued, DSU_CTL_READ_COUNTING
  <2>3. ASSUME NEW c \in Part(k)
        PROVE  value'[c][j].n = 0
    <3>1. c \in Mine /\ c \in Cores /\ dsuEvents[c] = request.dsu
        BY <1>1, <1>2, DsuAssigned DEF Part
    <3>2. j \in DOMAIN value[c]
        BY <1>1, <1>2, <3>1, Typed, DsuAssigned
    <3>3. value'[c] = Zeros(value[c])
        BY <3>1 DEF Reset
    <3> QED
        BY <3>2, <3>3 DEF Zeros, Zero
  <2> DEFINE F == [c \in Part(k) |-> value'[c][j].n]
  <2>4. F \in [Part(k) -> Nat] /\ \A c \in Part(k) : F[c] = 0
      BY <2>3
  <2>5. IsFiniteSet(Part(k))
      BY <1>1, <1>2, Shares
  <2>6. SumFunction(F) = 0
    <3> HIDE DEF F
    <3> QED
        BY <2>4, <2>5, SumZero
  <2> QED
      BY <2>1, <2>2, <2>6
<1>6. Balanced(k)'
  <2>1. CASE Len(request.dsu) <= dsu_numGPC
    <3>1. \A j \in DOMAIN request.dsu : j - 1 \in DsuGPCs
        BY <1>1, <1>2, <2>1, DsuAssigned
    <3>2. \A j \in DOMAIN request.dsu : Valued(k, j)' + DsuLeft(k, j - 1)' = made'.dsu[k][j - 1]
        BY <1>3, <1>4, <1>5, <3>1
    <3> QED
        BY <1>1, <2>1, <3>2 DEF Balanced
  <2>2. CASE ~(Len(request.dsu) <= dsu_numGPC)
    <3>1. SumFunction([j \in DOMAIN request.dsu |-> Valued(k, j)']) = 0
      <4> DEFINE F == [j \in DOMAIN request.dsu |-> Valued(k, j)']
      <4>1. F \in [DOMAIN request.dsu -> Nat] /\ \A j \in DOMAIN request.dsu : F[j] = 0
          BY <1>5
      <4>2. IsFiniteSet(DOMAIN request.dsu)
          BY <1>1, <1>2, DsuAssigned
      <4> HIDE DEF F
      <4>3. SumFunction(F) = 0
          BY <4>1, <4>2, SumZero
      <4> QED
          BY <4>3 DEF F
    <3>2. SumFunction([i \in DsuGPCs |-> DsuLeft(k, i)']) = 0
      <4> DEFINE F == [i \in DsuGPCs |-> DsuLeft(k, i)']
      <4>1. F \in [DsuGPCs -> Nat] /\ \A i \in DsuGPCs : F[i] = 0
          BY <1>4
      <4> HIDE DEF F
      <4>2. SumFunction(F) = 0
          BY <4>1, FiniteRanges, SumZero
      <4> QED
          BY <4>2 DEF F
    <3>3. SumFunction(made'.dsu[k]) = 0
        BY <1>3, FiniteRanges, SumZero
    <3> QED
        BY <1>1, <2>2, <3>1, <3>2, <3>3 DEF Balanced
  <2> QED
      BY <2>1, <2>2
<1> QED
    BY <1>2, <1>6 DEF DsuCluster

\* What one core gains of an event, its cluster does.
LEMMA PartGains ==
    ASSUME TypeOK, AssignedInv, Prepared, WantsDsu, request' = request, NEW k, NEW c \in Part(k),
           \A d \in Part(k) \ {c} : value'[d] = value[d],
           NEW j \in DOMAIN request.dsu, NEW gain \in Nat, value'[c][j].n = value[c][j].n + gain
    PROVE  Valued(k, j)' = Valued(k, j) + gain
<1> DEFINE S == Part(k)
           f == Share(k, j)
           g == [d \in S |-> value'[d][j].n]
<1>1. IsFiniteSet(S) /\ f \in [S -> Nat] /\ Valued(k, j) = SumFunction(f)
    BY Shares
<1>2. Mine' = Mine
    BY DEF Mine
<1>3. {d \in Mine' : Cluster(d) = k} = S
    BY <1>2 DEF Part
<1>4. Valued(k, j)' = SumFunction([d \in {d \in Mine' : Cluster(d) = k} |-> value'[d][j].n])
    BY DEF Valued, DSU_CTL_READ_COUNTING
<1>5. Valued(k, j)' = SumFunction(g)
    BY <1>3, <1>4
<1>6. \A d \in S : f[d] = value[d][j].n /\ f[d] \in Nat
    BY <1>1 DEF Share
<1>7. (\A d \in S \ {c} : f[d] = g[d]) /\ g[c] = f[c] + gain /\ c \in S
    BY <1>6
<1>8. g \in [S -> Nat]
    BY <1>6, <1>7
<1> HIDE DEF S, f, g
<1>9. SumFunction(g) = SumFunction(f) + gain
    BY <1>1, <1>7, <1>8, SumChange
<1> QED
    BY <1>1, <1>5, <1>9

\* A tick adds what the counters show to the values of its core, whatever the
\* number of events.
LEMMA CreditBalances ==
    ASSUME TypeOK, AssignedInv, Prepared, WantsDsu, request' = request, NEW c \in Mine, NEW k \in Clusters, k = Cluster(c),
           Balanced(k), InTick(k) = {}, InTick(k)' # {}, made' = made,
           prof_dsu[c] = ProfDsu(c), prof_dsu[c] # "DISABLED", value' = [value EXCEPT ![c] = Credited(c)]
    PROVE  Balanced(k)'
<1>1. c \in Cores /\ dsuEvents[c] = request.dsu /\ c \in Part(k) /\ Len(request.dsu) \in Nat
      /\ DOMAIN request.dsu = 1 .. Len(request.dsu)
    BY DsuAssigned DEF Part
<1>2. value \in [Cores -> Seq(Counts)]
    BY DEF TypeOK
<1>3. value'[c] = Credited(c) /\ \A d \in Part(k) \ {c} : value'[d] = value[d]
  <2>1. Part(k) \subseteq Cores
      BY DsuAssigned DEF Part
  <2> QED
      BY <1>1, <1>2, <2>1
<1>4. /\ \A i \in DsuGPCs : DsuLeft(k, i)' = 0
      /\ \A i : DsuLeft(k, i) = dsuReg[k][i].count.n
    BY DEF DsuLeft
<1>5. CASE Len(request.dsu) <= dsu_numGPC
  <2>1. prof_dsu[c] = "NORMAL"
    <3>1. ~(Len(dsuEvents[c]) > dsu_numGPC)
        BY <1>1, <1>5, Sizes
    <3> QED
        BY <3>1 DEF ProfDsu
  <2>2. ASSUME NEW j \in DOMAIN request.dsu
        PROVE  Valued(k, j)' + DsuLeft(k, j - 1)' = made'.dsu[k][j - 1]
    <3>1. PICK i \in DsuGPCs : i = j - 1
        BY <1>5, DsuAssigned
    <3>2. PICK gain \in Nat : gain = dsuReg[k][i].count.n
        BY Shown
    <3>3. Credited(c)[j].n = value[c][j].n + DSUEventGetCounting(c, j).n
        BY <1>1, <2>1, CreditedTyping
    <3>4. DSUEventGetCounting(c, j) = dsuReg[k][i].count
      <4>1. j <= dsu_numGPC
          BY <1>1, <1>5, Sizes
      <4> QED
          BY <3>1, <4>1 DEF DSUEventGetCounting
    <3>5. value'[c][j].n = value[c][j].n + gain
        BY <1>3, <3>2, <3>3, <3>4
    <3>6. Valued(k, j)' = Valued(k, j) + gain
        BY <1>1, <1>3, <3>5, PartGains
    <3>7. Valued(k, j) + gain = made.dsu[k][i]
        BY <1>4, <1>5, <3>1, <3>2 DEF Balanced
    <3>8. made.dsu[k][i] \in Nat /\ DsuLeft(k, i)' = 0
        BY <1>4, Shown
    <3> QED
        BY <3>1, <3>6, <3>7, <3>8
  <2> QED
      BY <1>5, <2>2 DEF Balanced
<1>6. CASE ~(Len(request.dsu) <= dsu_numGPC)
  <2>1. prof_dsu[c] # "NORMAL" /\ dsuEvents[c] # <<>>
    <3>1. Len(dsuEvents[c]) > dsu_numGPC
        BY <1>1, <1>6, Sizes
    <3>2. dsuEvents[c] # <<>>
        BY <1>1 DEF WantsDsu
    <3> QED
        BY <3>1, <3>2 DEF ProfDsu
  <2> DEFINE J == DOMAIN request.dsu
             V == [j \in J |-> Valued(k, j)]
             W == [j \in J |-> Valued(k, j)']
             T == [j \in J |-> Turns(c, j)]
             A == [i \in DsuGPCs |-> dsuReg[k][i].count.n]
             Wind == [i \in DsuGPCs |-> Window(c, timer_round[c], i)]
  <2>2. ASSUME NEW j \in J
        PROVE  Valued(k, j)' = Valued(k, j) + Turns(c, j) /\ Turns(c, j) \in Nat /\ Valued(k, j) \in Nat
    <3>1. PICK gain \in Nat : gain = Turns(c, j)
        BY <1>1, TurnsTyping
    <3>2. value'[c][j].n = value[c][j].n + gain
        BY <1>1, <1>3, <2>1, <3>1, CreditedTyping
    <3>3. Valued(k, j)' = Valued(k, j) + gain
        BY <1>1, <1>3, <3>2, PartGains
    <3> QED
        BY <3>1, <3>3, Shares
  <2>3. V \in [J -> Nat] /\ W \in [J -> Nat] /\ T \in [J -> Nat] /\ \A j \in J : W[j] = V[j] + T[j]
      BY <2>2
  <2>4. IsFiniteSet(J) /\ IsFiniteSet(DsuGPCs)
      BY DsuAssigned, FiniteRanges
  <2>5. SumFunction(W) = SumFunction(V) + SumFunction(T)
    <3>1. PICK v, w, t, s : v = V /\ w = W /\ t = T /\ s = J
        OBVIOUS
    <3> HIDE DEF V, W, T, J
    <3>2. /\ IsFiniteSet(s) /\ v \in [s -> Nat] /\ t \in [s -> Nat] /\ w \in [s -> Nat]
          /\ \A j \in s : w[j] = v[j] + t[j]
        BY <2>3, <2>4, <3>1
    <3>3. SumFunction(w) = SumFunction(v) + SumFunction(t)
        BY ONLY <3>2, SumAdd
    <3> QED
        BY <3>1, <3>3
  <2>6. Wind \in [DsuGPCs -> J]
    <3>1. timer_round[c] \in Nat
        BY <1>1 DEF TypeOK
    <3> QED
        BY <1>1, <2>1, <3>1, Windows
  <2>7. A \in [DsuGPCs -> Nat]
      BY Shown
  <2>8. T = [j \in J |-> SumFunction([i \in {i \in DsuGPCs : Wind[i] = j} |-> A[i]])]
    <3>1. ASSUME NEW j \in J
          PROVE  Turns(c, j) = SumFunction([i \in {i \in DsuGPCs : Wind[i] = j} |-> A[i]])
      <4>1. Turn(c, j) = {i \in DsuGPCs : Wind[i] = j}
          BY DEF Turn
      <4>2. [i \in Turn(c, j) |-> dsuReg[Cluster(c)][i].count.n] = [i \in {i \in DsuGPCs : Wind[i] = j} |-> A[i]]
          BY <4>1 DEF Turn
      <4> QED
          BY <4>2 DEF Turns
    <3> QED
        BY <3>1
  <2>9. SumFunction(T) = SumFunction(A)
    <3>1. PICK w, a, s : w = Wind /\ a = A /\ s = J
        OBVIOUS
    <3> HIDE DEF A, Wind, J, T
    <3>2. IsFiniteSet(DsuGPCs) /\ IsFiniteSet(s) /\ w \in [DsuGPCs -> s] /\ a \in [DsuGPCs -> Nat]
        BY <2>4, <2>6, <2>7, <3>1
    <3>3. SumFunction([j \in s |-> SumFunction([i \in {i \in DsuGPCs : w[i] = j} |-> a[i]])]) = SumFunction(a)
        BY ONLY <3>2, SumParts
    <3> QED
        BY <2>8, <3>1, <3>3
  <2>10. SumFunction(V) + SumFunction(A) = SumFunction(made.dsu[k])
    <3>1. A = [i \in DsuGPCs |-> DsuLeft(k, i)]
        BY <1>4
    <3> QED
        BY <1>6, <3>1 DEF Balanced
  <2>11. SumFunction([i \in DsuGPCs |-> DsuLeft(k, i)']) = 0
    <3> DEFINE F == [i \in DsuGPCs |-> DsuLeft(k, i)']
    <3>1. F \in [DsuGPCs -> Nat] /\ \A i \in DsuGPCs : F[i] = 0
        BY <1>4
    <3> HIDE DEF F
    <3>2. SumFunction(F) = 0
        BY <2>4, <3>1, SumZero
    <3> QED
        BY <3>2 DEF F
  <2>12. SumFunction(made.dsu[k]) \in Nat
      BY <2>4, Shown, SumType
  <2>13. SumFunction(W) + SumFunction([i \in DsuGPCs |-> DsuLeft(k, i)']) = SumFunction(made'.dsu[k])
    <3> HIDE DEF V, W, T, A
    <3> QED
        BY <2>5, <2>9, <2>10, <2>11, <2>12
  <2> QED
      BY <1>6, <2>13 DEF Balanced
<1> QED
    BY <1>5, <1>6

\* The read of a tick adds what the counters show to the values of the core
\* that ticks, each counter to one event.
LEMMA DsuTickCredits ==
    ASSUME TypeOK, AssignedInv, DsuInv, NEW c \in Cores, TickCredits(c)
    PROVE  DsuInv'
<1> SUFFICES ASSUME Measuring', WantsDsu', NEW k \in MyClusters' \ mixed'.dsu
             PROVE  DsuCluster(k)'
    BY DEF DsuInv, DsuCluster
<1>1. /\ UNCHANGED <<request, phase, made, dsuEvents, prof_dsu, dsuReg>>
      /\ exec[c] = "none" /\ \A d \in Cores \ {c} : exec'[d] = exec[d]
    BY TickMoves DEF Tick, TickCredits
<1>2. Measuring /\ WantsDsu /\ Prepared /\ k \in MyClusters /\ Mine' = Mine /\ \A d : ProfDsu(d)' = ProfDsu(d)
    BY <1>1 DEF Measuring, WantsDsu, Prepared, MyClusters, Mine, ProfDsu
<1>3. mixed \in [dsu : SUBSET Clusters, rounds : SUBSET Cores, dmc : BOOLEAN] /\ k \in Clusters /\ Cluster(c) \in Clusters
    BY <1>2, Typed, FiniteRanges DEF TypeOK
<1>4. value \in [Cores -> Seq(Counts)] /\ dsuOn \in [Clusters -> BOOLEAN] /\ Part(k) \subseteq Cores
    BY <1>2, DsuAssigned DEF TypeOK, Part
<1>5. CASE prof_dsu[c] = "DISABLED"
  <2>1. exec'[c] # "dsu" /\ UNCHANGED <<value, dsuOn>> /\ mixed'.dsu = mixed.dsu
    <3>1. mixed' = mixed \/ mixed' = [mixed EXCEPT !.rounds = @ \cup {c}]
        BY <1>5 DEF TickCredits
    <3>2. mixed'.dsu = mixed.dsu
        BY <1>3, <3>1
    <3> QED
        BY <1>5, <3>2, TickMoves DEF Tick, TickCredits
  <2>2. DsuCluster(k)
      BY <1>2, <2>1 DEF DsuInv, DsuCluster
  <2>3. InTick(k)' = InTick(k)
      BY <1>1, <2>1 DEF InTick
  <2> QED
      BY <1>1, <1>2, <1>3, <2>1, <2>2, <2>3, ClusterKept
<1>6. CASE prof_dsu[c] # "DISABLED"
  <2>1. /\ exec'[c] = "dsu" /\ value' = [value EXCEPT ![c] = Credited(c)]
        /\ dsuOn' = [dsuOn EXCEPT ![Cluster(c)] = FALSE]
      BY <1>6, TickMoves DEF Tick, TickCredits
  <2> DEFINE Mixes == \/ c \notin Mine \/ prof_dsu[c] # ProfDsu(c)
                      \/ \E d \in Cores : exec[d] = "dsu" /\ Cluster(d) = Cluster(c)
  <2>2. mixed' = IF Mixes THEN [mixed EXCEPT !.dsu = @ \cup {Cluster(c)}] ELSE mixed
      BY <1>6 DEF TickCredits
  <2>3. k \notin mixed.dsu /\ (k = Cluster(c) => ~Mixes)
    <3> HIDE DEF Mixes
    <3> QED
        BY <1>3, <2>2
  <2>4. DsuCluster(k)
      BY <1>2, <2>3 DEF DsuInv, DsuCluster
  <2>5. CASE k # Cluster(c)
    <3>1. InTick(k)' = InTick(k)
        BY <1>1, <2>5 DEF InTick
    <3>2. \A d \in Part(k) : value'[d] = value[d]
        BY <1>4, <2>1, <2>5 DEF Part
    <3>3. dsuOn'[k] = dsuOn[k]
        BY <1>3, <1>4, <2>1, <2>5
    <3> QED
        BY <1>1, <1>2, <1>3, <2>4, <3>1, <3>2, <3>3, ClusterKept
  <2>6. CASE k = Cluster(c)
    <3>1. c \in Mine /\ prof_dsu[c] = ProfDsu(c) /\ InTick(k) = {}
        BY <2>3, <2>6 DEF InTick
    <3>2. InTick(k)' = {c}
        BY <1>1, <2>1, <2>6, <3>1 DEF InTick
    <3>3. Balanced(k)'
        BY <1>1, <1>2, <1>3, <1>6, <2>1, <2>4, <2>6, <3>1, <3>2, CreditBalances
           DEF DsuCluster
    <3>4. ~dsuOn'[k]
        BY <1>3, <1>4, <2>1, <2>6
    <3> QED
        BY <1>1, <1>2, <3>1, <3>2, <3>3, <3>4 DEF DsuCluster
  <2> QED
      BY <2>5, <2>6
<1> QED
    BY <1>5, <1>6

\* The rest of the tick clears the counters, what they showed being credited.
LEMMA DsuTickRestarts ==
    ASSUME TypeOK, ProfInv, AssignedInv, DsuInv, NEW c \in Cores, TickRestarts(c)
    PROVE  DsuInv'
<1> SUFFICES ASSUME Measuring', WantsDsu', NEW k \in MyClusters' \ mixed'.dsu
             PROVE  DsuCluster(k)'
    BY DEF DsuInv, DsuCluster
<1>1. /\ UNCHANGED <<request, phase, made, dsuEvents, prof_dsu, value, mixed>>
      /\ exec[c] = "dsu" /\ exec'[c] # "dsu" /\ \A d \in Cores \ {c} : exec'[d] = exec[d]
      /\ dsuReg' = [dsuReg EXCEPT ![Cluster(c)] = Restarted(c)] /\ dsuOn' = [dsuOn EXCEPT ![Cluster(c)] = TRUE]
  <2>1. UNCHANGED <<value, mixed>>
      BY DEF TickRestarts, history
  <2>2. /\ UNCHANGED <<request, phase, made, dsuEvents, prof_dsu>>
        /\ exec[c] = "dsu" /\ exec'[c] # "dsu" /\ \A d \in Cores \ {c} : exec'[d] = exec[d]
      BY TickMoves DEF Tick
  <2> QED
      BY <2>1, <2>2 DEF TickRestarts
<1>2. Measuring /\ WantsDsu /\ Prepared /\ k \in MyClusters \ mixed.dsu /\ Mine' = Mine
    BY <1>1 DEF Measuring, WantsDsu, Prepared, MyClusters, Mine
<1>3. k \in Clusters /\ Cluster(c) \in Clusters /\ DsuCluster(k)
    BY <1>2, Typed, FiniteRanges DEF DsuInv, DsuCluster
<1>4. dsuReg \in [Clusters -> [DsuGPCs -> Reg]] /\ dsuOn \in [Clusters -> BOOLEAN]
    BY DEF TypeOK
<1>5. CASE k # Cluster(c)
  <2>1. InTick(k)' = InTick(k)
      BY <1>1, <1>5 DEF InTick
  <2>2. dsuReg'[k] = dsuReg[k] /\ dsuOn'[k] = dsuOn[k]
      BY <1>1, <1>3, <1>4, <1>5
  <2> QED
      BY <1>1, <1>2, <1>3, <2>1, <2>2, ClusterKept
<1>6. CASE k = Cluster(c)
  <2>1. c \in InTick(k)
      BY <1>1, <1>6 DEF InTick
  <2>2. InTick(k) = {c}
      BY <1>3, <2>1 DEF DsuCluster
  <2>3. InTick(k)' = {}
    <3>1. InTick(k)' = InTick(k) \ {c}
        BY <1>1 DEF InTick
    <3> QED
        BY <2>2, <3>1
  <2>4. \A i \in DsuGPCs : DsuLeft(k, i)' = 0 /\ DsuLeft(k, i) = 0
    <3>1. \A i \in DsuGPCs : dsuReg'[k][i].count = Zero
        BY <1>1, <1>4, <1>6, FiniteRanges, RestartedTyping
    <3> QED
        BY <2>1, <3>1 DEF DsuLeft, Zero
  <2>5. \A j \in DOMAIN request.dsu : Valued(k, j)' = Valued(k, j)
      BY <1>1, ValuesKept
  <2>6. Balanced(k)'
      BY <1>1, <1>2, <1>3, <2>4, <2>5, BalanceKept DEF DsuCluster
  <2> QED
      BY <2>3, <2>6 DEF DsuCluster
<1> QED
    BY <1>5, <1>6

\* Every step keeps the clusters' balance.
LEMMA DsuStep == TypeOK /\ ProfInv /\ AssignedInv /\ DsuInv /\ [Next]_vars => DsuInv'
<1> SUFFICES ASSUME TypeOK, ProfInv, AssignedInv, DsuInv, [Next]_vars
             PROVE  DsuInv'
    OBVIOUS
<1>1. CASE (\E r \in Requests : LockAcquire(r) \/ TakeOver(r)) \/ StopAll \/ Assign \/ Release \/ free_pmu_resource
  <2>1. ~Measuring'
      BY <1>1 DEF LockAcquire, TakeOver, StopAll, Assign, Release,
         free_pmu_resource, Measuring
  <2> QED
      BY <2>1 DEF DsuInv
<1>2. CASE Start
  <2> SUFFICES ASSUME Measuring', WantsDsu', NEW k \in MyClusters' \ mixed'.dsu
               PROVE  DsuCluster(k)'
      BY DEF DsuInv, DsuCluster
  <2>1. /\ UNCHANGED <<request, dsuEvents, value, made, exec, dsuReg>> /\ WorkItem /\ Measuring /\ Prepared
        /\ mixed' = [mixed EXCEPT !.dmc = @ \/ \E c \in Cores : exec[c] = "dmc_read"]
      BY <1>2 DEF Start, assignVars, Measuring, Prepared
  <2>2. mixed'.dsu = mixed.dsu
    <3>1. mixed \in [dsu : SUBSET Clusters, rounds : SUBSET Cores, dmc : BOOLEAN]
        BY DEF TypeOK
    <3> QED
        BY <2>1, <3>1
  <2>3. WantsDsu /\ k \in MyClusters \ mixed.dsu /\ InTick(k)' = InTick(k)
      BY <2>1, <2>2 DEF WantsDsu, MyClusters, Mine, InTick
  <2>4. DsuCluster(k) /\ k \in Clusters
      BY <2>1, <2>3, Typed DEF DsuInv, DsuCluster
  <2>5. InTick(k) = {}
      BY <2>1, <2>4 DEF DsuCluster, InTick, WorkItem
  <2> QED
      BY <2>1, <2>3, <2>4, <2>5, ClusterKept
<1>3. CASE \/ StopMine \/ Read \/ UNCHANGED vars
           \/ \E c \in Cores : TimerFires(c) \/ TickFindsIdle(c) \/ TickDmcCredits(c) \/ TickDmcRestarts(c)
  <2> SUFFICES ASSUME Measuring', WantsDsu', NEW k \in MyClusters' \ mixed'.dsu
               PROVE  DsuCluster(k)'
      BY DEF DsuInv, DsuCluster
  <2>1. UNCHANGED <<request, dsuEvents, value, made, dsuReg, prof_dsu>> /\ mixed'.dsu = mixed.dsu
    <3>1. CASE StopMine
        BY <3>1 DEF StopMine, Stop, assignVars, history
    <3>2. CASE Read \/ UNCHANGED vars
        BY <3>2 DEF Read, vars, clientVars, assignVars, timerVars, regVars, history
    <3>3. CASE \E c \in Cores : TimerFires(c) \/ TickFindsIdle(c)
        BY <3>3 DEF TimerFires, TickFindsIdle, clientVars, assignVars, regVars,
           history
    <3>4. CASE \E c \in Cores : TickDmcCredits(c) \/ TickDmcRestarts(c)
      <4>1. mixed \in [dsu : SUBSET Clusters, rounds : SUBSET Cores, dmc : BOOLEAN]
          BY DEF TypeOK
      <4>2. mixed' = mixed \/ \E b \in BOOLEAN : mixed' = [mixed EXCEPT !.dmc = b]
          BY <3>4, <4>1 DEF TickDmcCredits, TickDmcRestarts, history
      <4>3. mixed'.dsu = mixed.dsu
          BY <4>1, <4>2
      <4> QED
          BY <3>4, <4>3 DEF TickDmcCredits, TickDmcRestarts, clientVars,
             assignVars, history
    <3> QED
        BY <1>3, <3>1, <3>2, <3>3, <3>4
  <2>2. Measuring
      BY <1>3 DEF Measuring, StopMine, Read, TimerFires, TickFindsIdle,
         TickDmcCredits, TickDmcRestarts, vars, clientVars
  <2>3. WantsDsu /\ Prepared /\ k \in MyClusters \ mixed.dsu
      BY <2>1, <2>2 DEF WantsDsu, MyClusters, Mine, Prepared
  <2>4. DsuCluster(k) /\ k \in Clusters
      BY <2>2, <2>3, Typed DEF DsuInv, DsuCluster
  <2>5. InTick(k)' = InTick(k)
    <3>1. CASE StopMine \/ Read \/ UNCHANGED vars \/ \E c \in Cores : TimerFires(c) \/ TickFindsIdle(c)
      <4>1. exec' = exec
          BY <3>1 DEF StopMine, Stop, Read, TimerFires, TickFindsIdle, vars,
             timerVars
      <4> QED
          BY <4>1 DEF InTick
    <3>2. ASSUME NEW c \in Cores, TickDmcCredits(c) \/ TickDmcRestarts(c)
          PROVE  InTick(k)' = InTick(k)
      <4>1. exec[c] # "dsu" /\ exec'[c] # "dsu" /\ \A d \in Cores \ {c} : exec'[d] = exec[d]
          BY <3>2, TickMoves DEF Tick
      <4> QED
          BY <4>1 DEF InTick
    <3> QED
        BY <1>3, <3>1, <3>2
  <2>6. dsuOn'[k] => dsuOn[k]
    <3>1. CASE StopMine
        BY <2>3, <2>4, <3>1 DEF StopMine, Stop, SetDsu
    <3>2. CASE Read \/ UNCHANGED vars \/ \E c \in Cores : TimerFires(c) \/ TickFindsIdle(c) \/ TickDmcCredits(c) \/ TickDmcRestarts(c)
        BY <3>2 DEF Read, TimerFires, TickFindsIdle, TickDmcCredits,
           TickDmcRestarts, vars, regVars
    <3> QED
        BY <1>3, <3>1, <3>2
  <2> QED
      BY <2>1, <2>3, <2>4, <2>5, <2>6, ClusterKept
<1> QED
    BY <1>1, <1>2, <1>3, DsuElapse, DsuReset, DsuTickCredits, DsuTickRestarts
       DEF Next, Client, Tick

-----------------------------------------------------------------------------
(* The DSUs: no number mixes the counts of two events.                       *)

\* A multiplexed core that reads a counter reads it for the event of the round.
LEMMA WindowTurned ==
    ASSUME NEW c, NEW round, NEW i, dsuEvents[c] = request.dsu
    PROVE  Turned(round, i) = request.dsu[Window(c, round, i)]
    BY DEF Window, Turned

\* The first round takes the events from the first on.
LEMMA FirstWindow ==
    ASSUME TypeOK, NEW c \in Cores, Len(dsuEvents[c]) > dsu_numGPC, NEW i \in DsuGPCs
    PROVE  Window(c, 0, i) = i + 1 /\ i + 1 <= dsu_numGPC
<1>1. PICK n \in Nat : n = Len(dsuEvents[c])
    BY Typed
<1>2. i \in Nat /\ dsu_numGPC \in Nat /\ i < dsu_numGPC /\ i < n
    BY <1>1, Sizes DEF DsuGPCs
<1>3. i % n = i
    BY <1>2
<1>4. dsu_numGPC * 0 + i = i
    BY <1>2
<1>5. Window(c, 0, i) = 1 + (i % n)
    BY <1>1, <1>4 DEF Window
<1> QED
    BY <1>2, <1>3, <1>5

\* A tick makes the counts of the counters that count an event part of it.
LEMMA CreditedOf ==
    ASSUME TypeOK, NEW c \in Cores, NEW j \in DOMAIN value[c]
    PROVE  /\ prof_dsu[c] = "NORMAL" => Credited(c)[j].of = value[c][j].of \cup DSUEventGetCounting(c, j).of
           /\ prof_dsu[c] # "NORMAL" =>
                Credited(c)[j].of = value[c][j].of \cup UNION {dsuReg[Cluster(c)][i].count.of : i \in Turn(c, j)}
<1>1. CASE prof_dsu[c] = "NORMAL"
    BY <1>1 DEF Credited, Plus
<1>2. CASE prof_dsu[c] # "NORMAL"
    BY <1>2 DEF Credited, Plus, Turn
<1> QED
    BY <1>1, <1>2

\* Which ticks move the round.
LEMMA RoundsMove ==
    ASSUME TypeOK, NEW c \in Cores, Tick(c)
    PROVE  /\ \A d \in Cores \ {c} : Rounds(d)' = Rounds(d)
           /\ TickCredits(c) => Rounds(c) = timer_round[c]
           /\ TickCredits(c) /\ prof_dsu[c] # "DISABLED" => Rounds(c)' = Rounds(c)
           /\ TickDmcCredits(c) \/ TickDmcRestarts(c) => Rounds(c)' = Rounds(c)
           /\ TickRestarts(c) => Rounds(c)' = timer_round[c] + 1
<1>1. exec \in [Cores -> {"none", "dsu", "dmc", "dmc_read"}] /\ timer_round \in [Cores -> Nat]
    BY DEF TypeOK
<1>2. ASSUME NEW next, Continues(c, next)
      PROVE  /\ exec'[c] = next /\ \A d \in Cores \ {c} : exec'[d] = exec[d] /\ timer_round'[d] = timer_round[d]
             /\ timer_round'[c] = IF next = "none" THEN timer_round[c] + 1 ELSE timer_round[c]
    BY <1>1, <1>2 DEF Continues
<1>3. CASE TickCredits(c)
  <2>1. /\ exec[c] = "none" /\ exec[c] # "dsu" /\ exec[c] # "dmc" /\ exec[c] # "dmc_read"
        /\ prof_dsu[c] # "DISABLED" => Continues(c, "dsu")
        /\ prof_dsu[c] = "DISABLED" => Continues(c, IF prof_dmc[c] THEN "dmc" ELSE "none")
      BY <1>3 DEF TickCredits
  <2>2. ~TickRestarts(c) /\ ~TickDmcCredits(c) /\ ~TickDmcRestarts(c)
      BY <2>1 DEF TickRestarts, TickDmcCredits, TickDmcRestarts
  <2> QED
      BY <1>2, <2>1, <2>2 DEF Rounds
<1>4. CASE TickRestarts(c)
  <2>1. exec[c] = "dsu" /\ Continues(c, IF prof_dmc[c] THEN "dmc" ELSE "none")
      BY <1>4 DEF TickRestarts
  <2>2. ~TickCredits(c) /\ ~TickDmcCredits(c) /\ ~TickDmcRestarts(c)
      BY <2>1 DEF TickCredits, TickDmcCredits, TickDmcRestarts
  <2> QED
      BY <1>2, <2>1, <2>2 DEF Rounds
<1>5. CASE TickDmcCredits(c)
  <2>1. exec[c] = "dmc" /\ Continues(c, "dmc_read")
      BY <1>5 DEF TickDmcCredits
  <2>2. ~TickCredits(c) /\ ~TickRestarts(c) /\ ~TickDmcRestarts(c)
      BY <2>1 DEF TickCredits, TickRestarts, TickDmcRestarts
  <2> QED
      BY <1>2, <2>1, <2>2 DEF Rounds
<1>6. CASE TickDmcRestarts(c)
  <2>1. exec[c] = "dmc_read" /\ Continues(c, "none")
      BY <1>6 DEF TickDmcRestarts
  <2>2. ~TickCredits(c) /\ ~TickRestarts(c) /\ ~TickDmcCredits(c)
      BY <2>1 DEF TickCredits, TickRestarts, TickDmcCredits
  <2> QED
      BY <1>2, <2>1, <2>2 DEF Rounds
<1> QED
    BY <1>3, <1>4, <1>5, <1>6 DEF Tick

\* A cluster whose counters keep their events, and whose cores their values and
\* rounds.
LEMMA OwnKept ==
    ASSUME TypeOK, AssignedInv, Prepared, WantsDsu, NEW k \in Clusters, DsuOwn(k),
           UNCHANGED <<request, dsuEvents>>, mixed.rounds \subseteq mixed'.rounds,
           \A c \in Part(k) : value'[c] = value[c],
           \A i \in DsuGPCs : /\ dsuReg'[k][i].type = dsuReg[k][i].type
                              /\ dsuReg'[k][i].count.of \subseteq {dsuReg[k][i].type},
           \A c \in Part(k) : Len(request.dsu) > dsu_numGPC /\ ProfDsu(c) # "DISABLED" /\ c \notin mixed'.rounds =>
                                Rounds(c)' = Rounds(c)
    PROVE  DsuOwn(k)'
<1>1. /\ Mine' = Mine /\ Part(k)' = Part(k) /\ \A c : ProfDsu(c)' = ProfDsu(c)
      /\ \A round, i : Turned(round, i)' = Turned(round, i)
    BY DEF Mine, Part, ProfDsu, WantsDsu, Turned
<1>2. \A c : Followed(c)' => Followed(c) /\ c \notin mixed'.rounds
    BY <1>1 DEF Followed, TicksAlone
<1>3. \A i \in DsuGPCs : dsuReg'[k][i].count.of \subseteq {dsuReg'[k][i].type}
    OBVIOUS
<1>4. ASSUME Len(request.dsu) <= dsu_numGPC, NEW c \in Part(k), NEW j \in DOMAIN value'[c]
      PROVE  value'[c][j].of \subseteq {dsuReg'[k][j - 1].type}
  <2>1. c \in Cores /\ dsuEvents[c] = request.dsu
      BY DsuAssigned DEF Part
  <2>2. j \in DOMAIN request.dsu
      BY <1>4, <2>1, DsuAssigned, Typed
  <2>3. j - 1 \in DsuGPCs
      BY <1>4, <2>2, DsuAssigned
  <2> QED
      BY <1>4, <2>3 DEF DsuOwn
<1>5. ASSUME Len(request.dsu) > dsu_numGPC, NEW c \in Part(k), Followed(c)',
             ProfDsu(c) # "DISABLED", Rounds(c)' # 0, NEW i \in DsuGPCs
      PROVE  dsuReg'[k][i].type = Turned(Rounds(c), i)'
  <2>1. Rounds(c)' = Rounds(c) /\ Followed(c)
      BY <1>2, <1>5
  <2>2. dsuReg[k][i].type = Turned(Rounds(c), i)
      BY <1>5, <2>1 DEF DsuOwn
  <2>3. Turned(Rounds(c), i)' = Turned(Rounds(c), i)
      BY <2>1 DEF Turned
  <2> QED
      BY <2>2, <2>3
<1>6. ASSUME Len(request.dsu) > dsu_numGPC, NEW c \in Part(k), Followed(c)', NEW j \in DOMAIN value'[c], j > dsu_numGPC
      PROVE  value'[c][j].of \subseteq {request.dsu[j]}
    BY <1>2, <1>6 DEF DsuOwn
<1> QED
    BY <1>1, <1>3, <1>4, <1>5, <1>6 DEF DsuOwn

\* A counter that counts counts its own event.
LEMMA OwnElapse == TypeOK /\ AssignedInv /\ DsuOwnInv /\ Elapse => DsuOwnInv'
<1> SUFFICES ASSUME TypeOK, AssignedInv, DsuOwnInv, Elapse, Measuring', WantsDsu', NEW k \in MyClusters' \ mixed'.dsu
             PROVE  DsuOwn(k)'
    BY DEF DsuOwnInv
<1>1. UNCHANGED <<request, phase, exec, timer_round, dsuEvents, value, mixed>>
    BY DEF Elapse, clientVars, assignVars, timerVars
<1>2. Measuring /\ WantsDsu /\ Prepared /\ k \in MyClusters \ mixed.dsu
    BY <1>1 DEF Measuring, WantsDsu, Prepared, MyClusters, Mine
<1>3. k \in Clusters /\ DsuOwn(k)
    BY <1>2, Typed DEF DsuOwnInv
<1>4. ASSUME NEW i \in DsuGPCs
      PROVE  dsuReg'[k][i].type = dsuReg[k][i].type /\ dsuReg'[k][i].count.of \subseteq {dsuReg[k][i].type}
  <2>1. PICK reg \in Reg : reg = dsuReg[k][i]
      BY <1>3, Typed
  <2>2. reg.count.of \subseteq {reg.type}
      BY <1>3, <2>1 DEF DsuOwn
  <2>3. Counted(reg).type = reg.type /\ Counted(reg).count.of \subseteq {reg.type}
    <3>1. Counted(reg).type = reg.type /\ Counted(reg).count = Plus(reg.count, [n |-> 1, of |-> {reg.type}])
        BY DEF Counted, Reg
    <3>2. Plus(reg.count, [n |-> 1, of |-> {reg.type}]).of = reg.count.of \cup {reg.type}
        BY DEF Plus
    <3> QED
        BY <2>2, <3>1, <3>2
  <2>4. dsuReg'[k][i] = IF dsuOn[k] /\ reg.on THEN Counted(reg) ELSE reg
      BY <1>3, <2>1 DEF Elapse
  <2> QED
      BY <2>1, <2>2, <2>3, <2>4
<1>5. \A c : Rounds(c)' = Rounds(c)
    BY <1>1 DEF Rounds
<1> QED
    BY <1>1, <1>2, <1>3, <1>4, <1>5, OwnKept

\* After RESET nothing has been counted.
LEMMA OwnReset == TypeOK /\ AssignedInv /\ Reset => DsuOwnInv'
<1> SUFFICES ASSUME TypeOK, AssignedInv, Reset, WantsDsu', NEW k \in MyClusters' \ mixed'.dsu
             PROVE  DsuOwn(k)'
    BY DEF DsuOwnInv
<1>1. UNCHANGED <<request, exec, dsuEvents>> /\ Prepared /\ WorkItem
    BY DEF Reset, Prepared, Measuring
<1>2. WantsDsu /\ k \in MyClusters /\ k \in Clusters /\ Mine' = Mine /\ Part(k)' = Part(k)
    BY <1>1, Typed DEF WantsDsu, MyClusters, Mine, Part
<1>3. ASSUME NEW i \in DsuGPCs
      PROVE  dsuReg'[k][i].count.of = {}
  <2>1. dsuReg[k][i] \in Reg
      BY <1>2, Typed
  <2>2. dsuReg'[k][i] = [dsuReg[k][i] EXCEPT !.count = Zero]
      BY <1>2 DEF Reset, DSUCounterReset
  <2> QED
      BY <2>1, <2>2 DEF Reg, Zero
<1>4. ASSUME NEW c \in Part(k)
      PROVE  Rounds(c)' = 0 /\ \A j \in DOMAIN value'[c] : value'[c][j].of = {}
  <2>1. c \in Mine /\ c \in Cores
      BY <1>2, Typed DEF Part
  <2>2. value'[c] = Zeros(value[c]) /\ timer_round'[c] = 0 /\ exec'[c] = "none"
      BY <1>1, <2>1 DEF Reset, WorkItem
  <2> QED
      BY <2>2 DEF Zeros, Zero, Rounds
<1> QED
    BY <1>2, <1>3, <1>4 DEF DsuOwn

\* A tick credits each counter to the event it counts.
LEMMA OwnTickCredits ==
    ASSUME TypeOK, AssignedInv, DsuOwnInv, NEW c \in Cores, TickCredits(c)
    PROVE  DsuOwnInv'
<1> SUFFICES ASSUME Measuring', WantsDsu', NEW k \in MyClusters' \ mixed'.dsu
             PROVE  DsuOwn(k)'
    BY DEF DsuOwnInv
<1>1. UNCHANGED <<request, phase, dsuEvents, prof_dsu, dsuReg>> /\ Tick(c)
    BY TickMoves DEF Tick, TickCredits
<1>2. Measuring /\ WantsDsu /\ Prepared /\ k \in MyClusters /\ Part(k)' = Part(k) /\ Mine' = Mine
    BY <1>1 DEF Measuring, WantsDsu, Prepared, MyClusters, Mine, Part
<1>3. mixed \in [dsu : SUBSET Clusters, rounds : SUBSET Cores, dmc : BOOLEAN] /\ k \in Clusters /\ Cluster(c) \in Clusters
    BY <1>2, Typed, FiniteRanges DEF TypeOK
<1>4. value \in [Cores -> Seq(Counts)] /\ Part(k) \subseteq Cores
    BY <1>2, DsuAssigned DEF TypeOK, Part
<1>5. CASE prof_dsu[c] = "DISABLED"
  <2>1. value' = value /\ mixed' = IF c \in Mine /\ prof_dsu[c] # ProfDsu(c) THEN [mixed EXCEPT !.rounds = @ \cup {c}] ELSE mixed
      BY <1>5 DEF TickCredits
  <2>2. mixed'.dsu = mixed.dsu /\ mixed.rounds \subseteq mixed'.rounds
        /\ (c \in Mine /\ prof_dsu[c] # ProfDsu(c) => c \in mixed'.rounds)
      BY <1>3, <2>1
  <2>3. DsuOwn(k)
      BY <1>2, <2>2 DEF DsuOwnInv
  <2>4. \A i \in DsuGPCs : dsuReg[k][i].count.of \subseteq {dsuReg[k][i].type}
      BY <2>3 DEF DsuOwn
  <2>5. ASSUME NEW d \in Part(k), ProfDsu(d) # "DISABLED", d \notin mixed'.rounds
        PROVE  Rounds(d)' = Rounds(d)
    <3>1. d # c
        BY <1>5, <2>2, <2>5 DEF Part
    <3> QED
        BY <1>1, <1>4, <3>1, RoundsMove
  <2> QED
      BY <1>1, <1>2, <1>3, <2>1, <2>2, <2>3, <2>4, <2>5, OwnKept
<1>6. CASE prof_dsu[c] # "DISABLED"
  <2>1. value' = [value EXCEPT ![c] = Credited(c)] /\ \A d \in Cores : Rounds(d)' = Rounds(d)
      BY <1>1, <1>6, RoundsMove DEF TickCredits
  <2> DEFINE Mixes == \/ c \notin Mine \/ prof_dsu[c] # ProfDsu(c)
                      \/ \E d \in Cores : exec[d] = "dsu" /\ Cluster(d) = Cluster(c)
  <2>2. mixed' = IF Mixes THEN [mixed EXCEPT !.dsu = @ \cup {Cluster(c)}] ELSE mixed
      BY <1>6 DEF TickCredits
  <2>3. k \notin mixed.dsu /\ (k = Cluster(c) => ~Mixes) /\ mixed'.rounds = mixed.rounds
    <3> HIDE DEF Mixes
    <3> QED
        BY <1>3, <2>2
  <2>4. DsuOwn(k) /\ \A i \in DsuGPCs : dsuReg[k][i].count.of \subseteq {dsuReg[k][i].type}
      BY <1>2, <2>3 DEF DsuOwnInv, DsuOwn
  <2>5. CASE k # Cluster(c)
    <3>1. \A d \in Part(k) : value'[d] = value[d]
        BY <1>4, <2>1, <2>5 DEF Part
    <3> QED
        BY <1>1, <1>2, <1>3, <1>4, <2>1, <2>3, <2>4, <3>1, OwnKept
  <2>6. CASE k = Cluster(c)
    <3>1. c \in Mine /\ prof_dsu[c] = ProfDsu(c) /\ c \in Part(k) /\ dsuEvents[c] = request.dsu
      <4>1. c \in Mine /\ prof_dsu[c] = ProfDsu(c)
          BY <2>3, <2>6
      <4> QED
          BY <1>2, <2>6, <4>1, DsuAssigned DEF Part
    <3>2. Len(request.dsu) \in Nat /\ dsu_numGPC \in Nat
          /\ prof_dsu[c] = IF Len(request.dsu) > dsu_numGPC THEN "MULTIPLEX" ELSE "NORMAL"
        BY <1>2, <1>6, <3>1, DsuAssigned, Sizes DEF ProfDsu
    <3>3. ASSUME NEW j \in DOMAIN value[c], Len(request.dsu) <= dsu_numGPC
          PROVE  Credited(c)[j].of \subseteq {dsuReg[k][j - 1].type}
      <4>1. prof_dsu[c] = "NORMAL" /\ j \in DOMAIN request.dsu /\ j \in Nat
          BY <1>2, <3>1, <3>2, <3>3, DsuAssigned, Typed
      <4>2. PICK i \in DsuGPCs : i = j - 1
          BY <1>2, <3>3, <4>1, DsuAssigned
      <4>3. DSUEventGetCounting(c, j) = dsuReg[k][i].count
        <5>1. j <= dsu_numGPC
            BY <4>1, <4>2, Sizes DEF DsuGPCs
        <5> QED
            BY <2>6, <4>2, <5>1 DEF DSUEventGetCounting
      <4>4. value[c][j].of \subseteq {dsuReg[k][i].type} /\ dsuReg[k][i].count.of \subseteq {dsuReg[k][i].type}
          BY <2>4, <3>1, <3>3, <4>2 DEF DsuOwn
      <4>5. Credited(c)[j].of = value[c][j].of \cup dsuReg[k][i].count.of
          BY <4>1, <4>3, CreditedOf
      <4> QED
          BY <4>2, <4>4, <4>5
    <3>4. ASSUME NEW j \in DOMAIN value[c], Len(request.dsu) > dsu_numGPC, Followed(c), j > dsu_numGPC
          PROVE  Credited(c)[j].of \subseteq {request.dsu[j]}
      <4>1. prof_dsu[c] # "NORMAL" /\ ProfDsu(c) # "DISABLED" /\ Rounds(c) = timer_round[c]
          BY <1>1, <1>6, <3>1, <3>2, <3>4, RoundsMove
      <4>2. ASSUME NEW i \in Turn(c, j)
            PROVE  dsuReg[k][i].count.of \subseteq {request.dsu[j]}
        <5>1. i \in DsuGPCs /\ Window(c, timer_round[c], i) = j
            BY DEF Turn
        <5>2. timer_round[c] # 0
          <6>1. Window(c, 0, i) <= dsu_numGPC
              BY <3>1, <3>4, <5>1, FirstWindow
          <6>2. j \in Nat
              BY Typed
          <6> QED
              BY <3>2, <3>4, <5>1, <6>1, <6>2
        <5>3. dsuReg[k][i].type = Turned(timer_round[c], i)
            BY <2>4, <3>1, <3>4, <4>1, <5>1, <5>2 DEF DsuOwn
        <5>4. Turned(timer_round[c], i) = request.dsu[j]
            BY <3>1, <5>1, WindowTurned
        <5> QED
            BY <2>4, <5>1, <5>3, <5>4
      <4>3. Credited(c)[j].of = value[c][j].of \cup UNION {dsuReg[k][i].count.of : i \in Turn(c, j)}
          BY <2>6, <4>1, CreditedOf
      <4>4. value[c][j].of \subseteq {request.dsu[j]}
          BY <2>4, <3>1, <3>4 DEF DsuOwn
      <4> QED
          BY <4>2, <4>3, <4>4
    <3>5. /\ value'[c] = Credited(c) /\ DOMAIN Credited(c) = DOMAIN value[c]
          /\ \A d \in Part(k) \ {c} : value'[d] = value[d]
        BY <1>4, <2>1, Typed, CreditedTyping
    <3>6. \A d : Followed(d)' => Followed(d)
        BY <1>1, <1>2, <2>3 DEF Followed, TicksAlone, ProfDsu, WantsDsu
    <3>7. ASSUME NEW d \in Part(k), NEW j \in DOMAIN value'[d]
          PROVE  /\ Len(request.dsu) <= dsu_numGPC => value'[d][j].of \subseteq {dsuReg[k][j - 1].type}
                 /\ Len(request.dsu) > dsu_numGPC /\ Followed(d) /\ j > dsu_numGPC => value'[d][j].of \subseteq {request.dsu[j]}
      <4>1. CASE d = c
          BY <3>3, <3>4, <3>5, <4>1
      <4>2. CASE d # c
        <5>1. value'[d] = value[d]
            BY <3>5, <4>2
        <5> QED
            BY <2>4, <5>1 DEF DsuOwn
      <4> QED
          BY <4>1, <4>2
    <3>8. ASSUME Len(request.dsu) > dsu_numGPC, NEW d \in Part(k), Followed(d), ProfDsu(d)' # "DISABLED", Rounds(d)' # 0, NEW i \in DsuGPCs
          PROVE  dsuReg[k][i].type = Turned(Rounds(d), i)'
      <4>1. ProfDsu(d) # "DISABLED" /\ Rounds(d)' = Rounds(d) /\ d \in Cores
          BY <1>1, <1>2, <1>4, <2>1, <3>8 DEF ProfDsu, WantsDsu
      <4>2. dsuReg[k][i].type = Turned(Rounds(d), i)
          BY <2>4, <3>8, <4>1 DEF DsuOwn
      <4>3. Turned(Rounds(d), i)' = Turned(Rounds(d), i)
          BY <1>1, <4>1 DEF Turned
      <4> QED
          BY <4>2, <4>3
    <3> QED
        BY <1>1, <1>2, <2>4, <3>6, <3>7, <3>8 DEF DsuOwn
  <2> QED
      BY <2>5, <2>6
<1> QED
    BY <1>5, <1>6

\* The rest of the tick programs the counters for the next round.
LEMMA OwnTickRestarts ==
    ASSUME TypeOK, ProfInv, AssignedInv, DsuInv, DsuOwnInv, NEW c \in Cores, TickRestarts(c)
    PROVE  DsuOwnInv'
<1> SUFFICES ASSUME Measuring', WantsDsu', NEW k \in MyClusters' \ mixed'.dsu
             PROVE  DsuOwn(k)'
    BY DEF DsuOwnInv
<1>1. /\ UNCHANGED <<request, phase, dsuEvents, prof_dsu, value, mixed>> /\ Tick(c) /\ exec[c] = "dsu"
      /\ dsuReg' = [dsuReg EXCEPT ![Cluster(c)] = Restarted(c)]
  <2>1. UNCHANGED <<value, mixed>> /\ Tick(c)
      BY DEF Tick, TickRestarts, history
  <2> QED
      BY <2>1, TickMoves DEF TickRestarts
<1>2. Measuring /\ WantsDsu /\ Prepared /\ k \in MyClusters \ mixed.dsu /\ Mine' = Mine /\ Part(k)' = Part(k)
    BY <1>1 DEF Measuring, WantsDsu, Prepared, MyClusters, Mine, Part
<1>3. k \in Clusters /\ Cluster(c) \in Clusters /\ DsuOwn(k)
    BY <1>2, Typed, FiniteRanges DEF DsuOwnInv
<1>4. dsuReg \in [Clusters -> [DsuGPCs -> Reg]] /\ Part(k) \subseteq Cores
    BY <1>2, DsuAssigned DEF TypeOK, Part
<1>5. CASE k # Cluster(c)
  <2>1. dsuReg'[k] = dsuReg[k] /\ \A i \in DsuGPCs : dsuReg[k][i].count.of \subseteq {dsuReg[k][i].type}
      BY <1>1, <1>3, <1>4, <1>5 DEF DsuOwn
  <2>2. \A d \in Part(k) : Rounds(d)' = Rounds(d)
    <3>1. \A d \in Part(k) : d \in Cores \ {c}
        BY <1>4, <1>5 DEF Part
    <3> QED
        BY <1>1, <3>1, RoundsMove
  <2> QED
      BY <1>1, <1>2, <1>3, <2>1, <2>2, OwnKept
<1>6. CASE k = Cluster(c)
  <2>1. c \in Mine /\ prof_dsu[c] = ProfDsu(c) /\ prof_dsu[c] # "DISABLED"
    <3>1. c \in InTick(k)
        BY <1>1, <1>6 DEF InTick
    <3> QED
        BY <1>1, <1>2, <3>1 DEF DsuInv, ProfInv
  <2>2. c \in Part(k) /\ dsuEvents[c] = request.dsu
      BY <1>2, <1>6, <2>1, DsuAssigned DEF Part
  <2>3. Len(request.dsu) \in Nat /\ dsu_numGPC \in Nat
        /\ prof_dsu[c] = IF Len(request.dsu) > dsu_numGPC THEN "MULTIPLEX" ELSE "NORMAL"
      BY <1>2, <2>1, <2>2, DsuAssigned, Sizes DEF ProfDsu
  <2>4. dsuReg'[k] = Restarted(c) /\ \A i \in DsuGPCs : dsuReg'[k][i].count = Zero
      BY <1>1, <1>4, <1>3, <1>6, RestartedTyping
  <2>5. CASE Len(request.dsu) <= dsu_numGPC
    <3>1. prof_dsu[c] = "NORMAL"
        BY <2>3, <2>5
    <3>2. \A i \in DsuGPCs : dsuReg'[k][i].type = dsuReg[k][i].type
      <4>1. \A i \in DsuGPCs : dsuReg'[k][i] = [dsuReg[k][i] EXCEPT !.count = Zero]
          BY <1>6, <2>4, <3>1 DEF Restarted, DSUCounterReset
      <4>2. \A i \in DsuGPCs : dsuReg[k][i] \in Reg
          BY <1>3, Typed
      <4> QED
          BY <4>1, <4>2 DEF Reg
    <3>3. \A i \in DsuGPCs : dsuReg'[k][i].count.of \subseteq {dsuReg[k][i].type}
        BY <2>4 DEF Zero
    <3>4. ~(Len(request.dsu) > dsu_numGPC)
        BY <2>3, <2>5
    <3> QED
        BY <1>1, <1>2, <1>3, <3>2, <3>3, <3>4, OwnKept
  <2>6. CASE ~(Len(request.dsu) <= dsu_numGPC)
    <3>1. prof_dsu[c] = "MULTIPLEX"
        BY <2>3, <2>6
    <3>2. \A i \in DsuGPCs : dsuReg'[k][i].type = Turned(timer_round[c] + 1, i)
      <4>1. \A i \in DsuGPCs : dsuReg'[k][i].type = dsuEvents[c][Window(c, timer_round[c] + 1, i)]
          BY <2>4, <3>1 DEF Restarted
      <4> QED
          BY <2>2, <4>1, WindowTurned
    <3>3. \A d : ProfDsu(d)' = ProfDsu(d) /\ (Followed(d)' <=> Followed(d))
        BY <1>1, <1>2 DEF Followed, TicksAlone, ProfDsu, WantsDsu
    <3>4. ASSUME NEW d \in Part(k), Followed(d)
          PROVE  d = c
        BY <1>6, <2>1, <3>4 DEF Followed, TicksAlone, Part
    <3>5. Rounds(c)' = timer_round[c] + 1
        BY <1>1, RoundsMove
    <3>6. ASSUME NEW d \in Part(k), Followed(d), NEW i \in DsuGPCs
          PROVE  dsuReg'[k][i].type = Turned(Rounds(d), i)'
      <4>1. Turned(Rounds(c), i)' = Turned(timer_round[c] + 1, i)
          BY <1>1, <3>5 DEF Turned
      <4> QED
          BY <3>2, <3>4, <3>6, <4>1
    <3>7. \A d \in Part(k) : Followed(d) => \A j \in DOMAIN value[d] : j > dsu_numGPC => value[d][j].of \subseteq {request.dsu[j]}
        BY <1>3, <2>3, <2>6 DEF DsuOwn
    <3>8. \A i \in DsuGPCs : dsuReg'[k][i].count.of \subseteq {dsuReg'[k][i].type}
        BY <2>4 DEF Zero
    <3> QED
        BY <1>1, <1>2, <2>6, <3>3, <3>6, <3>7, <3>8 DEF DsuOwn
  <2> QED
      BY <2>5, <2>6
<1> QED
    BY <1>5, <1>6

\* Every step keeps the numbers of the clusters apart.
LEMMA OwnStep == TypeOK /\ ProfInv /\ AssignedInv /\ DsuInv /\ DsuOwnInv /\ [Next]_vars => DsuOwnInv'
<1> SUFFICES ASSUME TypeOK, ProfInv, AssignedInv, DsuInv, DsuOwnInv, [Next]_vars
             PROVE  DsuOwnInv'
    OBVIOUS
<1>1. CASE (\E r \in Requests : LockAcquire(r) \/ TakeOver(r)) \/ StopAll \/ Assign \/ Release \/ free_pmu_resource
  <2>1. ~Measuring'
      BY <1>1 DEF LockAcquire, TakeOver, StopAll, Assign, Release,
         free_pmu_resource, Measuring
  <2> QED
      BY <2>1 DEF DsuOwnInv
<1>2. CASE \/ Start \/ StopMine \/ Read \/ UNCHANGED vars
           \/ \E c \in Cores : TimerFires(c) \/ TickFindsIdle(c) \/ TickDmcCredits(c) \/ TickDmcRestarts(c)
  <2> SUFFICES ASSUME Measuring', WantsDsu', NEW k \in MyClusters' \ mixed'.dsu
               PROVE  DsuOwn(k)'
      BY DEF DsuOwnInv
  <2>1. UNCHANGED <<request, dsuEvents, value, dsuReg>> /\ mixed'.dsu = mixed.dsu /\ mixed'.rounds = mixed.rounds
    <3>1. CASE StopMine
        BY <3>1 DEF StopMine, Stop, assignVars, history
    <3>2. CASE Read \/ UNCHANGED vars
        BY <3>2 DEF Read, vars, clientVars, assignVars, timerVars, regVars, history
    <3>3. CASE \E c \in Cores : TimerFires(c) \/ TickFindsIdle(c)
        BY <3>3 DEF TimerFires, TickFindsIdle, clientVars, assignVars, regVars,
           history
    <3>4. CASE Start \/ \E c \in Cores : TickDmcCredits(c) \/ TickDmcRestarts(c)
      <4>1. mixed \in [dsu : SUBSET Clusters, rounds : SUBSET Cores, dmc : BOOLEAN]
          BY DEF TypeOK
      <4>2. mixed' = mixed \/ \E b \in BOOLEAN : mixed' = [mixed EXCEPT !.dmc = b]
          BY <3>4, <4>1 DEF Start, TickDmcCredits, TickDmcRestarts, history
      <4>3. mixed'.dsu = mixed.dsu /\ mixed'.rounds = mixed.rounds
          BY <4>1, <4>2
      <4> QED
          BY <3>4, <4>3 DEF Start, TickDmcCredits, TickDmcRestarts, clientVars,
             assignVars, history
    <3> QED
        BY <1>2, <3>1, <3>2, <3>3, <3>4
  <2>2. Measuring
      BY <1>2 DEF Measuring, Start, StopMine, Read, TimerFires, TickFindsIdle,
         TickDmcCredits, TickDmcRestarts, vars, clientVars
  <2>3. WantsDsu /\ Prepared /\ k \in MyClusters \ mixed.dsu
      BY <2>1, <2>2 DEF WantsDsu, MyClusters, Mine, Prepared
  <2>4. DsuOwn(k) /\ k \in Clusters /\ \A i \in DsuGPCs : dsuReg[k][i].count.of \subseteq {dsuReg[k][i].type}
      BY <2>2, <2>3, Typed DEF DsuOwnInv, DsuOwn
  <2>5. \A c \in Cores : Rounds(c)' = Rounds(c)
    <3>1. CASE Start \/ StopMine \/ Read \/ UNCHANGED vars \/ \E c \in Cores : TimerFires(c) \/ TickFindsIdle(c)
      <4>1. UNCHANGED <<exec, timer_round>>
          BY <3>1 DEF Start, StopMine, Stop, Read, TimerFires, TickFindsIdle, vars,
             timerVars
      <4> QED
          BY <4>1 DEF Rounds
    <3>2. ASSUME NEW c \in Cores, TickDmcCredits(c) \/ TickDmcRestarts(c)
          PROVE  \A d \in Cores : Rounds(d)' = Rounds(d)
        BY <3>2, RoundsMove DEF Tick
    <3> QED
        BY <1>2, <3>1, <3>2
  <2>6. Part(k) \subseteq Cores
      BY <2>3, DsuAssigned DEF Part
  <2> QED
      BY <2>1, <2>3, <2>4, <2>5, <2>6, OwnKept
<1> QED
    BY <1>1, <1>2, OwnElapse, OwnReset, OwnTickCredits, OwnTickRestarts
       DEF Next, Client, Tick

-----------------------------------------------------------------------------
(* The theorems.                                                             *)

\* The invariant holds at first, when nobody has asked for anything.
LEMMA UncoreInit == Init => UncoreInv
<1> SUFFICES ASSUME Init
             PROVE  UncoreInv
    OBVIOUS
<1>1. TypeOK
  <2>1. request \in Requests /\ 0 \in 0 .. Len(request.cores)
    <3>1. request \in Requests
        BY RequestsAssumption DEF Init
    <3>2. Len(request.cores) \in Nat
        BY <3>1, RequestFacts, SeqFacts
    <3> QED
        BY <3>1, <3>2
  <2>2. status \in {"STS_IDLE", "STS_BUSY"} /\ phase \in Phases /\ clients \in 0 .. MaxClients /\ assigned \in 0 .. Len(request.cores)
      BY <2>1, Sizes DEF Init, Phases
  <2>3. /\ coreEvents \in [Cores -> Seq([type : Types, counter : Int])]
        /\ dsuEvents \in [Cores -> Seq(Types)] /\ value \in [Cores -> Seq(Counts)]
        /\ \A c \in Cores : Len(value[c]) = Len(dsuEvents[c])
      BY DEF Init
  <2>4. /\ prof_dsu \in [Cores -> {"DISABLED", "NORMAL", "MULTIPLEX"}] /\ timer_round \in [Cores -> Nat]
        /\ exec \in [Cores -> {"none", "dsu", "dmc", "dmc_read"}]
      BY DEF Init
  <2>5. \A flags \in {prof_dmc, armed, queued} : flags \in [Cores -> BOOLEAN]
      BY DEF Init
  <2>6. dsuReg \in [Clusters -> [DsuGPCs -> Reg]] /\ dsuOn \in [Clusters -> BOOLEAN] /\ dmcReg \in [Channels -> [DmcGPCs -> Reg]]
      BY CountsFacts DEF Init
  <2>7. clk \in [Channels -> DmcEvents] /\ clkdiv2 \in [Channels -> DmcEvents]
      BY DEF Init, DmcEvents
  <2>8. made \in [dsu : [Clusters -> [DsuGPCs -> Nat]], dmc : [Channels -> [DmcGPCs -> Nat]]]
        /\ mixed \in [dsu : SUBSET Clusters, rounds : SUBSET Cores, dmc : BOOLEAN]
      BY DEF Init
  <2> QED
      BY <2>1, <2>2, <2>3, <2>4, <2>5, <2>6, <2>7, <2>8 DEF TypeOK
<1>2. phase = "free"
    BY DEF Init
<1>3. StartedCounts /\ AssignedInv /\ DsuInv /\ DsuOwnInv /\ DmcInv
    BY <1>2 DEF StartedCounts, AssignedInv, DsuInv, DsuOwnInv, DmcInv, Prepared,
       Measuring
<1>4. ProfInv
    BY DEF Init, ProfInv
<1> QED
    BY <1>1, <1>3, <1>4 DEF UncoreInv

\* Every step keeps the invariant.
LEMMA UncoreStep == UncoreInv /\ [Next]_vars => UncoreInv'
<1> SUFFICES ASSUME UncoreInv, [Next]_vars
             PROVE  UncoreInv'
    OBVIOUS
<1>1. TypeOK /\ StartedCounts /\ ProfInv /\ AssignedInv /\ DsuInv /\ DsuOwnInv /\ DmcInv
    BY DEF UncoreInv
<1>2. TypeOK'
  <2>1. CASE UNCHANGED vars
      BY <1>1, <2>1 DEF TypeOK, vars, clientVars, assignVars, timerVars,
         regVars, history
  <2> QED
      BY <1>1, <2>1, ClientTyping, ElapseTyping, TickTyping DEF Next
<1> QED
    BY <1>1, <1>2, StartedStep, ProfStep, AssignedStep, DsuStep, OwnStep, DmcStep
       DEF UncoreInv

\* The invariant all that follows rests on.
THEOREM UncoreInvariant == Spec => []UncoreInv
    BY UncoreInit, UncoreStep, PTL DEF Spec

\* No tick, of whatever core and however late, leaves what a client started
\* standing still.
THEOREM StartedKeepsCounting == Spec => []StartedCounts
<1>1. UncoreInv => StartedCounts
    BY DEF UncoreInv
<1> QED
    BY <1>1, UncoreInvariant, PTL

\* A cluster nobody ticks for shows what its counters have not yet given away.
LEMMA BetweenTicks ==
    ASSUME UncoreInv, Measuring, WantsDsu,
           NEW k \in MyClusters \ (mixed.dsu \cup {Cluster(c) : c \in {d \in Cores : exec[d] = "dsu"}})
    PROVE  k \in Clusters /\ Balanced(k) /\ \A i : DsuLeft(k, i) = dsuReg[k][i].count.n
<1>1. InTick(k) = {}
    BY DEF InTick
<1>2. k \in Clusters
    BY Typed DEF UncoreInv
<1>3. Balanced(k)
    BY DEF UncoreInv, DsuInv
<1> QED
    BY <1>1, <1>2, <1>3 DEF DsuLeft

\* The invariant says of every client what Conserved does.
LEMMA InvariantConserves == UncoreInv => Conserved
<1> SUFFICES ASSUME UncoreInv
             PROVE  Conserved
    OBVIOUS
<1>1. TypeOK /\ AssignedInv /\ DmcInv
    BY DEF UncoreInv
<1> DEFINE Quiet == MyClusters \ (mixed.dsu \cup {Cluster(c) : c \in {d \in Cores : exec[d] = "dsu"}})
<1>2. DsuConserved
  <2>1. ASSUME Measuring, WantsDsu, NEW k \in Quiet, Len(request.dsu) <= dsu_numGPC, NEW j \in DOMAIN request.dsu
        PROVE  Valued(k, j) + dsuReg[k][j - 1].count.n = made.dsu[k][j - 1]
      BY <2>1, BetweenTicks DEF Balanced
  <2>2. ASSUME Measuring, WantsDsu, NEW k \in Quiet, ~(Len(request.dsu) <= dsu_numGPC)
        PROVE  SumFunction([j \in DOMAIN request.dsu |-> Valued(k, j)])
                 + SumFunction([i \in DsuGPCs |-> dsuReg[k][i].count.n]) = SumFunction(made.dsu[k])
    <3>1. [i \in DsuGPCs |-> DsuLeft(k, i)] = [i \in DsuGPCs |-> dsuReg[k][i].count.n]
        BY <2>2, BetweenTicks
    <3> QED
        BY <2>2, <3>1, BetweenTicks DEF Balanced
  <2> QED
      BY <2>1, <2>2 DEF DsuConserved
<1>3. DsuReported
  <2> SUFFICES ASSUME phase = "read", WantsDsu, Len(request.dsu) <= dsu_numGPC, NEW k \in Quiet,
                      \A c, d \in Mine : Cluster(c) = k /\ Cluster(d) = k => c = d, NEW j \in DOMAIN dsu_outs(k)
               PROVE  dsu_outs(k)[j].n + dsuReg[k][j - 1].count.n = made.dsu[k][j - 1]
      BY DEF DsuReported
  <2>1. Measuring /\ Prepared
      BY DEF Measuring, Prepared
  <2>2. PICK c \in Mine : Cluster(c) = k
      BY DEF MyClusters
  <2>3. {d \in Mine : Cluster(d) = k} = {c}
      BY <2>2
  <2>4. c \in Cores /\ dsuEvents[c] = request.dsu /\ DOMAIN request.dsu = 1 .. Len(request.dsu)
      BY <1>1, <2>1, DsuAssigned
  <2>5. Max({c}) = c
      BY <2>4 DEF Max, Cores
  <2>6. dsu_outs(k) = value[c]
      BY <2>3, <2>5 DEF dsu_outs, DSU_CTL_READ_COUNTING
  <2>7. j \in DOMAIN request.dsu
      BY <1>1, <2>4, <2>6, Typed
  <2>8. Valued(k, j) = value[c][j].n
    <3>1. Part(k) = {c}
        BY <2>3 DEF Part
    <3>2. Share(k, j) \in [{c} -> Nat] /\ Valued(k, j) = SumFunction(Share(k, j)) /\ Share(k, j)[c] = value[c][j].n
      <4>1. Share(k, j) \in [Part(k) -> Nat] /\ Valued(k, j) = SumFunction(Share(k, j))
          BY <1>1, <2>1, <2>7, Shares
      <4> QED
          BY <3>1, <4>1 DEF Share
    <3> QED
        BY <3>2, SumSingle
  <2>9. Valued(k, j) + dsuReg[k][j - 1].count.n = made.dsu[k][j - 1]
      BY <2>1, <2>7, BetweenTicks DEF Balanced
  <2> QED
      BY <2>6, <2>8, <2>9
<1>4. Div2Conserved
  <2> SUFFICES ASSUME Measuring, WantsDmc, ~mixed.dmc, \A c \in Cores : exec[c] # "dmc_read",
                      NEW ch \in Channels, NEW j \in DOMAIN clkdiv2[ch]
               PROVE  clkdiv2[ch][j].value.n + dmcReg[ch][j - 1].count.n = made.dmc[ch][j - 1]
      BY DEF Div2Conserved, dmc_outs, DMC_CTL_READ_COUNTING
  <2>1. InRead = {}
      BY DEF InRead
  <2> QED
      BY <1>1, <2>1 DEF DmcInv, DmcLeft
<1>5. Div2CountsOwn
    BY <1>1 DEF Div2CountsOwn, DmcInv, dmc_outs, DMC_CTL_READ_COUNTING
<1>6. DsuCountsOwn
  <2> SUFFICES ASSUME Measuring, WantsDsu, NEW c \in Mine, Cluster(c) \notin mixed.dsu, NEW j \in DOMAIN value[c]
               PROVE  IF Len(request.dsu) <= dsu_numGPC
                        THEN value[c][j].of \subseteq {dsuReg[Cluster(c)][j - 1].type}
                        ELSE j > dsu_numGPC /\ TicksAlone(c) /\ c \notin mixed.rounds =>
                               value[c][j].of \subseteq {request.dsu[j]}
      BY DEF DsuCountsOwn, DSU_CTL_READ_COUNTING
  <2>1. DsuOwn(Cluster(c)) /\ c \in Part(Cluster(c))
      BY DEF UncoreInv, DsuOwnInv, MyClusters, Part
  <2>2. Len(request.dsu) \in Nat /\ dsu_numGPC \in Nat
      BY <1>1, DsuAssigned, Sizes DEF Prepared
  <2> QED
      BY <2>1, <2>2 DEF DsuOwn, Followed
<1> QED
    BY <1>1, <1>2, <1>3, <1>4, <1>5, <1>6 DEF Conserved

\* No amount that DSU counters and those of clkdiv2 events count is lost or
\* credited twice, and no number mixes the counts of two events, whatever
\* clients, ticks and take-overs come between (dpc.c, dsu.c, dmc.c), but for what
\* Conserved exempts; clk events and the event a DSU counter is programmed with
\* without multiplexing are not in it.
THEOREM CountsAreConserved == Spec => []Conserved
    BY UncoreInvariant, InvariantConserves, PTL
=============================================================================
