---------------------------- MODULE DataLemmas -----------------------------
(***************************************************************************)
(* What the sums of the models satisfy: SumFunctionOnSet(f, S) adds up f   *)
(* over a finite set S of any size.  The operator is defined by recursion  *)
(* over the subsets of S, and the order in which it takes the elements out *)
(* is any.  These lemmas are by induction over finite sets, in the form    *)
(* that needs no operator as a parameter: in a nonempty set of subsets of  *)
(* a finite set there is one with no other of them inside it.              *)
(***************************************************************************)
EXTENDS Integers, FiniteSets, SequencesExt, Lists, FiniteSetTheorems, SequenceTheorems, TLAPS

\* Among subsets of a finite set one is minimal: a counterexample to what is
\* claimed of all subsets can be taken with none inside it.
LEMMA MinimalSubset ==
    ASSUME NEW S, IsFiniteSet(S), NEW F, F \subseteq SUBSET S, F # {}
    PROVE  \E T \in F : \A U \in F : U \subseteq T => U = T
<1>1. IsWellFoundedOn(StrictSubsetOrdering(S), SUBSET S)
    BY FS_StrictSubsetOrderingWellFounded, FS_FiniteSubsetsOfFinite
<1>2. PICK T \in F : \A U \in F : ~(<<U, T>> \in StrictSubsetOrdering(S))
    BY <1>1, WFMin
<1>3. ASSUME NEW U \in F, U \subseteq T, U # T  PROVE  FALSE
  <2>1. <<U, T>> \in StrictSubsetOrdering(S)
    <3>1. U \in SUBSET S /\ T \in SUBSET S
        BY <1>2
    <3> QED  BY <3>1, <1>3 DEF StrictSubsetOrdering
  <2> QED  BY <2>1, <1>2
<1> QED
    BY <1>2, <1>3

\* The element the recursion takes out of T.
Pick(T) == CHOOSE x \in T : TRUE

\* One step of the recursion, from the table h of the sums of smaller sets.
SumStep(h, f, T) == IF T = {} THEN 0 ELSE f[Pick(T)] + h[T \ {Pick(T)}]

\* h is the table of the sums over the sets in R.
Table(h, f, R) == h = [T \in R |-> SumStep(h, f, T)]

\* R has, with a set, the sets the recursion goes on to.
Closed(R) == \A T \in R : T # {} => T \ {Pick(T)} \in R

\* The sum is the entry of S in the table over all subsets of S.
LEMMA SumUnfolds ==
    ASSUME NEW S, NEW f
    PROVE  SumFunctionOnSet(f, S) = (CHOOSE t : Table(t, f, SUBSET S))[S]
BY DEF SumFunctionOnSet, FoldFunctionOnSet, MapThenFoldSet, Table, SumStep, Pick

\* What is taken out of a nonempty set is one of its elements.
LEMMA PickIn ==
    ASSUME NEW T, T # {}  PROVE  Pick(T) \in T
BY DEF Pick

\* A table can be extended by a set whose rest it has.
LEMMA TableExtends ==
    ASSUME NEW f, NEW R, NEW T, Closed(R), \E h : Table(h, f, R), T \notin R,
           T # {} => T \ {Pick(T)} \in R
    PROVE  Closed(R \cup {T}) /\ \E h : Table(h, f, R \cup {T})
<1>1. PICK h : Table(h, f, R)
    OBVIOUS
<1> DEFINE k == [U \in R \cup {T} |-> IF U = T THEN SumStep(h, f, T) ELSE h[U]]
<1>2. ASSUME NEW U \in R \cup {T}  PROVE  k[U] = SumStep(k, f, U)
  <2>1. CASE U = T
      BY <2>1 DEF SumStep
  <2>2. CASE U # T
    <3>1. U \in R /\ h[U] = SumStep(h, f, U)
        BY <1>1, <2>2 DEF Table
    <3>2. U # {} => U \ {Pick(U)} \in R
        BY <3>1 DEF Closed
    <3> QED  BY <3>1, <3>2, <2>2 DEF SumStep
  <2> QED  BY <2>1, <2>2
<1>3. Table(k, f, R \cup {T})
    BY <1>2 DEF Table
<1> QED
    BY <1>3 DEF Closed

\* The recursion is well defined: the table over all subsets exists.
LEMMA TableExists ==
    ASSUME NEW S, IsFiniteSet(S), NEW f
    PROVE  \E h : Table(h, f, SUBSET S)
<1> DEFINE Rest == {Q \in SUBSET SUBSET S :
                      Closed((SUBSET S) \ Q) /\ \E h : Table(h, f, (SUBSET S) \ Q)}
<1>1. IsFiniteSet(SUBSET S)
    BY FS_SUBSET
<1>2. SUBSET S \in Rest
  <2>1. ((SUBSET S) \ (SUBSET S)) = {}
    OBVIOUS
  <2>2. Closed({}) /\ \E h : Table(h, f, {})
    <3> DEFINE h0 == [T \in {} |-> 0]
    <3>1. Table(h0, f, {})
        BY DEF Table
    <3> QED  BY <3>1 DEF Closed
  <2> QED  BY <2>1, <2>2
<1>3. PICK Q \in Rest : \A U \in Rest : U \subseteq Q => U = Q
  <2>1. Rest \subseteq SUBSET SUBSET S
    OBVIOUS
  <2> HIDE DEF Rest
  <2> QED  BY <1>1, <1>2, <2>1, MinimalSubset
<1>4. ASSUME Q # {}  PROVE  FALSE
  <2>1. PICK T \in Q : \A U \in Q : U \subseteq T => U = T
      BY <1>4, MinimalSubset
  <2>2. T # {} => T \ {Pick(T)} \in (SUBSET S) \ Q
      BY <2>1, PickIn
  <2>3. T \notin ((SUBSET S) \ Q) /\ (((SUBSET S) \ Q) \cup {T}) = (SUBSET S) \ (Q \ {T})
      BY <2>1
  <2>4. T # {} => T \ {Pick(T)} \in ((SUBSET S) \ Q)
      BY <2>2
  <2>5. Closed((SUBSET S) \ Q) /\ \E h : Table(h, f, (SUBSET S) \ Q)
      BY <1>3
  <2>6. Closed(((SUBSET S) \ Q) \cup {T}) /\ \E h : Table(h, f, ((SUBSET S) \ Q) \cup {T})
      BY <2>3, <2>4, <2>5, TableExtends
  <2>7. Q \ {T} \in Rest
      BY <1>3, <2>3, <2>6
  <2> QED  BY <1>3, <2>1, <2>7
<1>5. ((SUBSET S) \ {}) = SUBSET S
    OBVIOUS
<1> QED
    BY <1>3, <1>4, <1>5

\* f and g agree on S.
SameOn(f, g, S) == \A x \in S : f[x] = g[x]

\* Tables of functions that agree on S have the same entry for S.
LEMMA TablesAgree ==
    ASSUME NEW S, IsFiniteSet(S), NEW f, NEW g, SameOn(f, g, S),
           NEW A, NEW B, S \subseteq A, S \subseteq B,
           NEW h, NEW k, Table(h, f, SUBSET A), Table(k, g, SUBSET B)
    PROVE  h[S] = k[S]
<1> DEFINE Bad == {T \in SUBSET S : h[T] # k[T]}
<1>1. SUFFICES ASSUME Bad # {}  PROVE  FALSE
    OBVIOUS
<1>2. PICK T \in Bad : \A U \in Bad : U \subseteq T => U = T
  <2>1. Bad \subseteq SUBSET S
    OBVIOUS
  <2> HIDE DEF Bad
  <2> QED  BY <1>1, <2>1, MinimalSubset
<1>3. T \in SUBSET A /\ T \in SUBSET B /\ T \subseteq S
    BY <1>2
<1>4. h[T] = SumStep(h, f, T) /\ k[T] = SumStep(k, g, T)
    BY <1>3 DEF Table
<1>5. T # {} => h[T \ {Pick(T)}] = k[T \ {Pick(T)}]
    BY <1>2, PickIn
<1>6. T # {} => f[Pick(T)] = g[Pick(T)]
    BY <1>3, PickIn DEF SameOn
<1> QED
    BY <1>2, <1>4, <1>5, <1>6 DEF SumStep

\* Functions that agree on S have the same sum.
LEMMA SumAgrees ==
    ASSUME NEW S, IsFiniteSet(S), NEW f, NEW g, \A x \in S : f[x] = g[x]
    PROVE  SumFunctionOnSet(f, S) = SumFunctionOnSet(g, S)
<1> DEFINE h == CHOOSE t : Table(t, f, SUBSET S)
           k == CHOOSE t : Table(t, g, SUBSET S)
<1>1. Table(h, f, SUBSET S) /\ Table(k, g, SUBSET S)
    BY TableExists
<1>2. h[S] = k[S]
  <2>1. SameOn(f, g, S)
    BY DEF SameOn
  <2> HIDE DEF h, k
  <2> QED  BY <1>1, <2>1, TablesAgree
<1> QED
    BY <1>2, SumUnfolds

\* The sum is the value taken out plus the sum of the rest.
LEMMA SumPicks ==
    ASSUME NEW S, IsFiniteSet(S), NEW f
    PROVE  SumFunctionOnSet(f, S) =
              IF S = {} THEN 0 ELSE f[Pick(S)] + SumFunctionOnSet(f, S \ {Pick(S)})
<1> DEFINE T == S \ {Pick(S)}
           h == CHOOSE t : Table(t, f, SUBSET S)
           k == CHOOSE t : Table(t, f, SUBSET T)
<1>1. IsFiniteSet(T)
    BY FS_Subset
<1>2. Table(h, f, SUBSET S) /\ Table(k, f, SUBSET T)
    BY <1>1, TableExists
<1>3. h[T] = k[T]
  <2>1. T \subseteq S /\ SameOn(f, f, T)
    BY DEF SameOn
  <2> HIDE DEF h, k, T
  <2> QED  BY <1>1, <1>2, <2>1, TablesAgree
<1>4. h[S] = SumStep(h, f, S)
  <2> HIDE DEF h
  <2> QED  BY <1>2 DEF Table
<1>5. SumFunctionOnSet(f, S) = h[S] /\ SumFunctionOnSet(f, T) = k[T]
    BY SumUnfolds
<1> HIDE DEF h, k
<1> QED
    BY <1>3, <1>4, <1>5 DEF SumStep

\* Nothing adds up to 0.
LEMMA SumOfNone ==
    ASSUME NEW f  PROVE  SumFunctionOnSet(f, {}) = 0
BY SumPicks, FS_EmptySet

\* A set of numbers with 0 that is closed under + has the sums of its values.
LEMMA SumStaysIn ==
    ASSUME NEW S, IsFiniteSet(S), NEW V, 0 \in V, \A m, n \in V : m + n \in V,
           NEW f, \A x \in S : f[x] \in V
    PROVE  SumFunctionOnSet(f, S) \in V
<1> DEFINE Bad == {T \in SUBSET S : SumFunctionOnSet(f, T) \notin V}
<1>1. SUFFICES ASSUME Bad # {}  PROVE  FALSE
    OBVIOUS
<1>2. PICK T \in Bad : \A U \in Bad : U \subseteq T => U = T
  <2>1. Bad \subseteq SUBSET S
    OBVIOUS
  <2> HIDE DEF Bad
  <2> QED  BY <1>1, <2>1, MinimalSubset
<1>3. IsFiniteSet(T) /\ T \subseteq S
    BY <1>2, FS_Subset
<1>4. T # {}
    BY <1>2, SumOfNone
<1>5. Pick(T) \in T
    BY <1>4, PickIn
<1>6. SumFunctionOnSet(f, T \ {Pick(T)}) \in V
    BY <1>2, <1>3, <1>5
<1>7. SumFunctionOnSet(f, T) = f[Pick(T)] + SumFunctionOnSet(f, T \ {Pick(T)})
    BY <1>3, <1>4, SumPicks
<1> QED
    BY <1>2, <1>3, <1>5, <1>6, <1>7

\* The sum of integers is an integer, of natural numbers a natural number.
LEMMA SumType ==
    ASSUME NEW S, IsFiniteSet(S), NEW f
    PROVE  /\ (\A x \in S : f[x] \in Int) => SumFunctionOnSet(f, S) \in Int
           /\ (\A x \in S : f[x] \in Nat) => SumFunctionOnSet(f, S) \in Nat
<1>1. ASSUME \A x \in S : f[x] \in Int  PROVE  SumFunctionOnSet(f, S) \in Int
  <2>1. 0 \in Int /\ \A m, n \in Int : m + n \in Int
    OBVIOUS
  <2> QED  BY <1>1, <2>1, SumStaysIn
<1>2. ASSUME \A x \in S : f[x] \in Nat  PROVE  SumFunctionOnSet(f, S) \in Nat
  <2>1. 0 \in Nat /\ \A m, n \in Nat : m + n \in Nat
    OBVIOUS
  <2> QED  BY <1>2, <2>1, SumStaysIn
<1> QED
    BY <1>1, <1>2

\* Any element may be taken out first.
LEMMA SumTakesOut ==
    ASSUME NEW S, IsFiniteSet(S), NEW f, \A x \in S : f[x] \in Int, NEW x \in S
    PROVE  SumFunctionOnSet(f, S) = f[x] + SumFunctionOnSet(f, S \ {x})
<1> DEFINE Bad == {T \in SUBSET S :
                     \E y \in T : SumFunctionOnSet(f, T) # f[y] + SumFunctionOnSet(f, T \ {y})}
<1>1. SUFFICES ASSUME Bad # {}  PROVE  FALSE
    OBVIOUS
<1>2. PICK T \in Bad : \A U \in Bad : U \subseteq T => U = T
  <2>1. Bad \subseteq SUBSET S
    OBVIOUS
  <2> HIDE DEF Bad
  <2> QED  BY <1>1, <2>1, MinimalSubset
<1>3. PICK y \in T : SumFunctionOnSet(f, T) # f[y] + SumFunctionOnSet(f, T \ {y})
    BY <1>2
<1>4. IsFiniteSet(T) /\ T \subseteq S
    BY <1>2, FS_Subset
<1> DEFINE c == Pick(T)
<1>5. c \in T
    BY <1>3, PickIn
<1>6. SumFunctionOnSet(f, T) = f[c] + SumFunctionOnSet(f, T \ {c})
    BY <1>3, <1>4, SumPicks
<1> HIDE DEF c
<1>7. c # y
    BY <1>3, <1>6
<1>8. T \ {c} \notin Bad /\ T \ {y} \notin Bad
    BY <1>2, <1>3, <1>5
<1>9. /\ SumFunctionOnSet(f, T \ {c}) = f[y] + SumFunctionOnSet(f, (T \ {c}) \ {y})
      /\ SumFunctionOnSet(f, T \ {y}) = f[c] + SumFunctionOnSet(f, (T \ {y}) \ {c})
    BY <1>3, <1>4, <1>5, <1>7, <1>8
<1>10. ((T \ {c}) \ {y}) = ((T \ {y}) \ {c})
    OBVIOUS
<1>11. f[c] \in Int /\ f[y] \in Int /\ SumFunctionOnSet(f, (T \ {y}) \ {c}) \in Int
  <2>1. IsFiniteSet((T \ {y}) \ {c}) /\ \A z \in (T \ {y}) \ {c} : f[z] \in Int
      BY <1>4, FS_Subset
  <2> QED  BY <1>3, <1>4, <1>5, <2>1, SumType
<1>12. SumFunctionOnSet(f, T) = f[c] + (f[y] + SumFunctionOnSet(f, (T \ {y}) \ {c}))
    BY <1>6, <1>9, <1>10, Zenon
<1>13. f[y] + SumFunctionOnSet(f, T \ {y}) = f[y] + (f[c] + SumFunctionOnSet(f, (T \ {y}) \ {c}))
    BY <1>9
<1> QED
    BY <1>3, <1>11, <1>12, <1>13

\* A new element adds its value.
LEMMA SumPutsIn ==
    ASSUME NEW S, IsFiniteSet(S), NEW x, x \notin S,
           NEW f, \A y \in S \cup {x} : f[y] \in Int
    PROVE  SumFunctionOnSet(f, S \cup {x}) = f[x] + SumFunctionOnSet(f, S)
<1>1. IsFiniteSet(S \cup {x}) /\ ((S \cup {x}) \ {x}) = S
    BY FS_AddElement
<1> QED
    BY <1>1, SumTakesOut

\* When one value changes, the sum changes by as much: a counter that moves
\* with one row, one handler or one renter keeps up with a sum over all.
LEMMA SumChanges ==
    ASSUME NEW S, IsFiniteSet(S), NEW x \in S,
           NEW f, \A y \in S : f[y] \in Int,
           NEW g, \A y \in S : g[y] \in Int,
           \A y \in S \ {x} : g[y] = f[y]
    PROVE  SumFunctionOnSet(g, S) = SumFunctionOnSet(f, S) - f[x] + g[x]
<1>1. IsFiniteSet(S \ {x})
    BY FS_Subset
<1>2. SumFunctionOnSet(g, S \ {x}) = SumFunctionOnSet(f, S \ {x})
    BY <1>1, SumAgrees
<1>3. SumFunctionOnSet(f, S \ {x}) \in Int
    BY <1>1, SumType
<1>4. /\ SumFunctionOnSet(f, S) = f[x] + SumFunctionOnSet(f, S \ {x})
      /\ SumFunctionOnSet(g, S) = g[x] + SumFunctionOnSet(g, S \ {x})
    BY SumTakesOut
<1> QED
    BY <1>2, <1>3, <1>4

\* A set of subsets of S that has the empty set, and with a set each set of one
\* element more, has S.
LEMMA FiniteInduction ==
    ASSUME NEW S, IsFiniteSet(S),
           NEW G, G \subseteq SUBSET S, {} \in G,
           \A T \in G, x \in S : x \notin T => T \cup {x} \in G
    PROVE  S \in G
<1>1. SUFFICES ASSUME S \notin G  PROVE  FALSE
    OBVIOUS
<1> DEFINE Bad == (SUBSET S) \ G
<1>2. PICK T \in Bad : \A U \in Bad : U \subseteq T => U = T
  <2>1. Bad # {} /\ Bad \subseteq SUBSET S
    BY <1>1
  <2> HIDE DEF Bad
  <2> QED  BY <2>1, MinimalSubset
<1>3. PICK x : x \in T
    BY <1>2
<1>4. T \ {x} \in G
    BY <1>2, <1>3
<1>5. (T \ {x}) \cup {x} = T /\ x \in S
    BY <1>2, <1>3
<1> QED
    BY <1>2, <1>4, <1>5

\* The sum of sums.
LEMMA SumAdds ==
    ASSUME NEW S, IsFiniteSet(S),
           NEW f, \A x \in S : f[x] \in Int,
           NEW g, \A x \in S : g[x] \in Int,
           NEW h, \A x \in S : h[x] = f[x] + g[x]
    PROVE  SumFunctionOnSet(h, S) = SumFunctionOnSet(f, S) + SumFunctionOnSet(g, S)
<1> DEFINE G == {T \in SUBSET S :
                   SumFunctionOnSet(h, T) = SumFunctionOnSet(f, T) + SumFunctionOnSet(g, T)}
<1>1. {} \in G
    BY SumOfNone
<1>2. ASSUME NEW T \in G, NEW x \in S, x \notin T  PROVE  T \cup {x} \in G
  <2>1. IsFiniteSet(T) /\ \A y \in T \cup {x} : f[y] \in Int /\ g[y] \in Int /\ h[y] \in Int
    BY FS_Subset
  <2>2. /\ SumFunctionOnSet(f, T \cup {x}) = f[x] + SumFunctionOnSet(f, T)
        /\ SumFunctionOnSet(g, T \cup {x}) = g[x] + SumFunctionOnSet(g, T)
        /\ SumFunctionOnSet(h, T \cup {x}) = h[x] + SumFunctionOnSet(h, T)
    BY <1>2, <2>1, SumPutsIn
  <2>3. SumFunctionOnSet(f, T) \in Int /\ SumFunctionOnSet(g, T) \in Int
    BY <2>1, SumType
  <2> QED  BY <1>2, <2>2, <2>3
<1> QED
  <2> HIDE DEF G
  <2>1. S \in G
    <3>1. G \subseteq SUBSET S
      BY DEF G
    <3> QED  BY <1>1, <1>2, <3>1, FiniteInduction
  <2> QED  BY <2>1 DEF G

\* Larger values have a larger sum.
LEMMA SumGrows ==
    ASSUME NEW S, IsFiniteSet(S),
           NEW f, \A x \in S : f[x] \in Int,
           NEW g, \A x \in S : g[x] \in Int,
           \A x \in S : f[x] <= g[x]
    PROVE  SumFunctionOnSet(f, S) <= SumFunctionOnSet(g, S)
<1> DEFINE h == [x \in S |-> g[x] - f[x]]
<1>1. \A x \in S : h[x] \in Nat /\ g[x] = f[x] + h[x]
    OBVIOUS
<1> HIDE DEF h
<1>2. SumFunctionOnSet(g, S) = SumFunctionOnSet(f, S) + SumFunctionOnSet(h, S)
    BY <1>1, SumAdds
<1>3. SumFunctionOnSet(h, S) \in Nat /\ SumFunctionOnSet(f, S) \in Int
    BY <1>1, SumType
<1> QED
    BY <1>2, <1>3

\* The sum of a set is that of a part and of the rest.
LEMMA SumSplits ==
    ASSUME NEW S, IsFiniteSet(S), NEW T, T \subseteq S,
           NEW f, \A x \in S : f[x] \in Int
    PROVE  SumFunctionOnSet(f, S) = SumFunctionOnSet(f, T) + SumFunctionOnSet(f, S \ T)
<1> DEFINE R == S \ T
           G == {Q \in SUBSET R :
                   SumFunctionOnSet(f, T \cup Q) = SumFunctionOnSet(f, T) + SumFunctionOnSet(f, Q)}
<1>1. IsFiniteSet(T) /\ IsFiniteSet(R)
    BY FS_Subset
<1>2. {} \in G
  <2>1. (T \cup {}) = T
    OBVIOUS
  <2>2. SumFunctionOnSet(f, T) \in Int
    BY <1>1, SumType
  <2> QED  BY <2>1, <2>2, SumOfNone
<1>3. ASSUME NEW Q \in G, NEW x \in R, x \notin Q  PROVE  Q \cup {x} \in G
  <2>1. IsFiniteSet(Q) /\ IsFiniteSet(T \cup Q) /\ T \cup Q \subseteq S
    BY <1>1, FS_Subset
  <2>2. (T \cup (Q \cup {x})) = ((T \cup Q) \cup {x})
    OBVIOUS
  <2>3. SumFunctionOnSet(f, (T \cup Q) \cup {x}) = f[x] + SumFunctionOnSet(f, T \cup Q)
    BY <1>3, <2>1, SumPutsIn
  <2>4. SumFunctionOnSet(f, Q \cup {x}) = f[x] + SumFunctionOnSet(f, Q)
    BY <1>3, <2>1, SumPutsIn
  <2>5. SumFunctionOnSet(f, T) \in Int /\ SumFunctionOnSet(f, Q) \in Int /\ f[x] \in Int
    BY <1>1, <2>1, SumType
  <2>6. SumFunctionOnSet(f, T \cup (Q \cup {x})) = f[x] + SumFunctionOnSet(f, T \cup Q)
    BY <2>2, <2>3
  <2>7. SumFunctionOnSet(f, T \cup Q) = SumFunctionOnSet(f, T) + SumFunctionOnSet(f, Q)
    BY <1>3
  <2>8. SumFunctionOnSet(f, T \cup (Q \cup {x}))
          = SumFunctionOnSet(f, T) + SumFunctionOnSet(f, Q \cup {x})
    BY <2>4, <2>5, <2>6, <2>7
  <2> QED  BY <2>8
<1> HIDE DEF G
<1>4. R \in G
  <2>1. G \subseteq SUBSET R
    BY DEF G
  <2> HIDE DEF R
  <2> QED  BY <1>1, <1>2, <1>3, <2>1, FiniteInduction
<1>5. (T \cup R) = S
    OBVIOUS
<1> QED
    BY <1>4, <1>5 DEF G

\* A part of natural numbers adds up to no more than all.
LEMMA SumOfPart ==
    ASSUME NEW S, IsFiniteSet(S), NEW T, T \subseteq S,
           NEW f, \A x \in S : f[x] \in Nat
    PROVE  SumFunctionOnSet(f, T) <= SumFunctionOnSet(f, S)
<1>1. IsFiniteSet(T) /\ IsFiniteSet(S \ T)
    BY FS_Subset
<1>2. SumFunctionOnSet(f, T) \in Nat /\ SumFunctionOnSet(f, S \ T) \in Nat
    BY <1>1, SumType
<1> QED
    BY <1>2, SumSplits

\* Zeros add up to 0.
LEMMA SumOfZeros ==
    ASSUME NEW S, IsFiniteSet(S), NEW f, \A x \in S : f[x] = 0
    PROVE  SumFunctionOnSet(f, S) = 0
<1>1. 0 \in {0} /\ \A m, n \in {0} : m + n \in {0}
    OBVIOUS
<1> QED
    BY <1>1, SumStaysIn

\* The sum of values up to k is at most k for each element.
LEMMA SumBounded ==
    ASSUME NEW S, IsFiniteSet(S), NEW k \in Int,
           NEW f, \A x \in S : f[x] \in Int /\ f[x] <= k
    PROVE  SumFunctionOnSet(f, S) <= Cardinality(S) * k
<1> DEFINE G == {T \in SUBSET S : SumFunctionOnSet(f, T) <= Cardinality(T) * k}
<1>1. {} \in G
    BY SumOfNone, FS_EmptySet
<1>2. ASSUME NEW T \in G, NEW x \in S, x \notin T  PROVE  T \cup {x} \in G
  <2>1. IsFiniteSet(T) /\ \A y \in T \cup {x} : f[y] \in Int
    BY FS_Subset
  <2>2. SumFunctionOnSet(f, T \cup {x}) = f[x] + SumFunctionOnSet(f, T)
    BY <1>2, <2>1, SumPutsIn
  <2>3. Cardinality(T \cup {x}) = Cardinality(T) + 1 /\ Cardinality(T) \in Nat
    BY <1>2, <2>1, FS_AddElement, FS_CardinalityType
  <2>4. SumFunctionOnSet(f, T) \in Int /\ SumFunctionOnSet(f, T) <= Cardinality(T) * k
    BY <2>1, SumType
  <2>5. (Cardinality(T) + 1) * k = Cardinality(T) * k + k /\ Cardinality(T) * k \in Int
    BY <2>3
  <2>6. f[x] \in Int /\ f[x] <= k
    OBVIOUS
  <2>7. f[x] + SumFunctionOnSet(f, T) <= Cardinality(T) * k + k
    BY <2>4, <2>5, <2>6
  <2>8. SumFunctionOnSet(f, T \cup {x}) <= Cardinality(T \cup {x}) * k
    BY <2>2, <2>3, <2>5, <2>7
  <2> QED  BY <2>8
<1> HIDE DEF G
<1>3. S \in G
  <2>1. G \subseteq SUBSET S
    BY DEF G
  <2> QED  BY <1>1, <1>2, <2>1, FiniteInduction
<1> QED
    BY <1>3 DEF G

\* A finite nonempty set of integers has the maximum Max speaks of.
LEMMA MaxExists ==
    ASSUME NEW S, IsFiniteSet(S), S \subseteq Int, S # {}
    PROVE  Max(S) \in S /\ \A y \in S : y <= Max(S)
<1> DEFINE G == {T \in SUBSET S : T = {} \/ \E x \in T : \A y \in T : y <= x}
<1>1. {} \in G
    OBVIOUS
<1>2. ASSUME NEW T \in G, NEW x \in S, x \notin T  PROVE  T \cup {x} \in G
  <2>1. CASE T = {}
    <3>1. \A y \in T \cup {x} : y <= x
      BY <2>1
    <3> QED  BY <3>1
  <2>2. CASE T # {}
    <3>1. PICK z \in T : \A y \in T : y <= z
      BY <2>2
    <3>2. x \in Int /\ \A y \in T : y \in Int
      OBVIOUS
    <3>3. CASE z <= x
      BY <3>1, <3>2, <3>3
    <3>4. CASE x <= z
      BY <3>1, <3>2, <3>4
    <3> QED  BY <3>1, <3>2, <3>3, <3>4
  <2> QED  BY <2>1, <2>2
<1> HIDE DEF G
<1>3. S \in G
  <2>1. G \subseteq SUBSET S
    BY DEF G
  <2> QED  BY <1>1, <1>2, <2>1, FiniteInduction
<1>4. \E x \in S : \A y \in S : x >= y
    BY <1>3 DEF G
<1> QED
    BY <1>4 DEF Max

\* The sum over a part is the sum over the whole, with 0 for the rest.
LEMMA SumOfSome ==
    ASSUME NEW S, IsFiniteSet(S), NEW T, T \subseteq S,
           NEW f, \A x \in T : f[x] \in Int,
           NEW g, \A x \in T : g[x] = f[x], \A x \in S \ T : g[x] = 0
    PROVE  SumFunctionOnSet(g, S) = SumFunctionOnSet(f, T)
<1>1. IsFiniteSet(T) /\ IsFiniteSet(S \ T)
    BY FS_Subset
<1>2. \A x \in S : g[x] \in Int
    OBVIOUS
<1>3. SumFunctionOnSet(g, S) = SumFunctionOnSet(g, T) + SumFunctionOnSet(g, S \ T)
    BY <1>2, SumSplits
<1>4. SumFunctionOnSet(g, S \ T) = 0
    BY <1>1, SumOfZeros
<1>5. SumFunctionOnSet(g, T) = SumFunctionOnSet(f, T)
    BY <1>1, SumAgrees
<1>6. SumFunctionOnSet(f, T) \in Int
    BY <1>1, SumType
<1> QED
    BY <1>3, <1>4, <1>5, <1>6


-----------------------------------------------------------------------------
(***************************************************************************)
(* Lists: queues, and rows of a database in their order.                   *)
(***************************************************************************)
\* The list without its i-th element: what follows moves up.
LEMMA RemoveAtOf ==
    ASSUME NEW S, NEW s \in Seq(S), NEW i \in DOMAIN s
    PROVE  /\ RemoveAt(s, i) \in Seq(S)
           /\ Len(RemoveAt(s, i)) = Len(s) - 1
           /\ DOMAIN RemoveAt(s, i) = 1..(Len(s) - 1)
           /\ \A j \in 1..(Len(s) - 1) : RemoveAt(s, i)[j] = s[IF j < i THEN j ELSE j + 1]
<1> DEFINE p == SubSeq(s, 1, i - 1)
           q == SubSeq(s, i + 1, Len(s))
<1>1. i \in 1..Len(s) /\ Len(s) \in Nat
  OBVIOUS
<1>2. p \in Seq(S) /\ Len(p) = i - 1 /\ \A j \in 1..(i - 1) : p[j] = s[j]
  BY <1>1
<1>3. q \in Seq(S) /\ Len(q) = Len(s) - i /\ \A j \in 1..(Len(s) - i) : q[j] = s[i + j]
  BY <1>1
<1>4. RemoveAt(s, i) = p \o q
  BY DEF RemoveAt
<1> HIDE DEF p, q
<1>5. Len(p \o q) = Len(s) - 1 /\ DOMAIN (p \o q) = 1..(Len(s) - 1)
  BY <1>1, <1>2, <1>3
<1>6. ASSUME NEW j \in 1..(Len(s) - 1)
      PROVE  (p \o q)[j] = s[IF j < i THEN j ELSE j + 1]
  <2>1. CASE j < i
    BY <1>1, <1>2, <1>3, <2>1
  <2>2. CASE ~(j < i)
    <3>1. (p \o q)[j] = q[j - (i - 1)] /\ j - (i - 1) \in 1..(Len(s) - i)
      <4>1. j - (i - 1) \in 1..(Len(s) - i)
        BY <1>1, <2>2
      <4>2. j \in 1..(Len(p) + Len(q)) /\ ~(j <= Len(p)) /\ j - Len(p) = j - (i - 1)
        BY <1>1, <1>2, <1>3, <2>2
      <4>3. (p \o q)[j] = q[j - Len(p)]
        BY <1>2, <1>3, <4>2, ConcatProperties
      <4> QED  BY <4>1, <4>2, <4>3
    <3>2. q[j - (i - 1)] = s[i + (j - (i - 1))] /\ i + (j - (i - 1)) = j + 1
      BY <1>1, <1>3, <3>1
    <3> QED  BY <2>2, <3>1, <3>2
  <2> QED  BY <2>1, <2>2
<1>7. (p \o q) \in Seq(S)
    BY <1>2, <1>3
<1> QED  BY <1>4, <1>5, <1>6, <1>7

\* What the lists have that are one shorter or one longer.
LEMMA ShorterLists ==
    ASSUME NEW S, NEW s \in Seq(S)
    PROVE  /\ s # <<>> => InList(s, Head(s))
           /\ \A c : s # <<>> /\ InList(Tail(s), c) => InList(s, c)
           /\ \A i \in DOMAIN s : \A c : InList(RemoveAt(s, i), c) => InList(s, c)
           /\ \A i \in DOMAIN s : IsInjective(s) => IsInjective(RemoveAt(s, i))
           /\ \A c \in S : \A d : InList(Append(s, c), d) => InList(s, d) \/ d = c
           /\ \A c \in S : IsInjective(s) /\ ~InList(s, c) => IsInjective(Append(s, c))
           /\ ~\E c : InList(<<>>, c)
           /\ s # <<>> /\ IsInjective(s) => IsInjective(Tail(s)) /\ ~InList(Tail(s), Head(s))
<1>1. s # <<>> => InList(s, Head(s))
    BY DEF InList
<1>2. \A c : s # <<>> /\ InList(Tail(s), c) => InList(s, c)
  <2> SUFFICES ASSUME NEW c, s # <<>>, NEW i \in DOMAIN Tail(s), Tail(s)[i] = c
               PROVE  InList(s, c)
    BY DEF InList
  <2>1. i + 1 \in DOMAIN s /\ s[i + 1] = c
    OBVIOUS
  <2> QED  BY <2>1 DEF InList
<1>3. ASSUME NEW i \in DOMAIN s
      PROVE  /\ DOMAIN RemoveAt(s, i) = 1..(Len(s) - 1)
             /\ \A j \in 1..(Len(s) - 1) : RemoveAt(s, i)[j] = s[IF j < i THEN j ELSE j + 1]
    BY RemoveAtOf
<1>4. \A i \in DOMAIN s : \A c : InList(RemoveAt(s, i), c) => InList(s, c)
  <2> SUFFICES ASSUME NEW i \in DOMAIN s, NEW c, NEW j \in DOMAIN RemoveAt(s, i),
                      RemoveAt(s, i)[j] = c
               PROVE  InList(s, c)
    BY DEF InList
  <2>1. (IF j < i THEN j ELSE j + 1) \in DOMAIN s
    BY <1>3
  <2> QED  BY <1>3, <2>1 DEF InList
<1>5. \A i \in DOMAIN s : IsInjective(s) => IsInjective(RemoveAt(s, i))
  <2> SUFFICES ASSUME NEW i \in DOMAIN s, IsInjective(s)
               PROVE  IsInjective(RemoveAt(s, i))
    OBVIOUS
  <2> SUFFICES ASSUME NEW j \in 1..(Len(s) - 1), NEW k \in 1..(Len(s) - 1),
                      RemoveAt(s, i)[j] = RemoveAt(s, i)[k]
               PROVE  j = k
    BY <1>3 DEF IsInjective
  <2>1. /\ (IF j < i THEN j ELSE j + 1) \in DOMAIN s
        /\ (IF k < i THEN k ELSE k + 1) \in DOMAIN s
    OBVIOUS
  <2>2. (IF j < i THEN j ELSE j + 1) = (IF k < i THEN k ELSE k + 1)
    BY <1>3, <2>1 DEF IsInjective
  <2> QED  BY <2>2
<1>6. \A c \in S : \A d : InList(Append(s, c), d) => InList(s, d) \/ d = c
  <2> SUFFICES ASSUME NEW c \in S, NEW d, NEW i \in DOMAIN Append(s, c),
                      Append(s, c)[i] = d
               PROVE  InList(s, d) \/ d = c
    BY DEF InList
  <2>1. CASE i \in DOMAIN s
    BY <2>1 DEF InList
  <2>2. CASE i \notin DOMAIN s
    BY <2>2
  <2> QED  BY <2>1, <2>2
<1>7. \A c \in S : IsInjective(s) /\ ~InList(s, c) => IsInjective(Append(s, c))
  <2> SUFFICES ASSUME NEW c \in S, IsInjective(s), ~InList(s, c),
                      NEW i \in DOMAIN Append(s, c), NEW j \in DOMAIN Append(s, c),
                      Append(s, c)[i] = Append(s, c)[j]
               PROVE  i = j
    BY DEF IsInjective
  <2>1. CASE i \in DOMAIN s /\ j \in DOMAIN s
    BY <2>1 DEF IsInjective
  <2>2. CASE i \notin DOMAIN s
    BY <2>2 DEF InList
  <2>3. CASE j \notin DOMAIN s
    BY <2>3 DEF InList
  <2> QED  BY <2>1, <2>2, <2>3
<1>8. ~\E c : InList(<<>>, c)
    BY DEF InList
<1>9. ASSUME s # <<>>, IsInjective(s)
      PROVE  IsInjective(Tail(s)) /\ ~InList(Tail(s), Head(s))
  <2>1. DOMAIN Tail(s) = 1..(Len(s) - 1) /\ \A i \in 1..(Len(s) - 1) : Tail(s)[i] = s[i + 1]
    BY <1>9
  <2>2. Head(s) = s[1] /\ 1 \in DOMAIN s /\ \A i \in 1..(Len(s) - 1) : i + 1 \in DOMAIN s
    BY <1>9
  <2>3. IsInjective(Tail(s))
    <3>1. ASSUME NEW i \in 1..(Len(s) - 1), NEW j \in 1..(Len(s) - 1), s[i + 1] = s[j + 1]
          PROVE  i = j
      <4>1. i + 1 = j + 1
        BY <1>9, <2>2, <3>1 DEF IsInjective
      <4> QED  BY <4>1
    <3> QED  BY <2>1, <3>1 DEF IsInjective
  <2>4. ~InList(Tail(s), Head(s))
    <3>1. ASSUME NEW i \in 1..(Len(s) - 1), s[i + 1] = s[1]  PROVE FALSE
      <4>1. i + 1 = 1
        BY <1>9, <2>2, <3>1 DEF IsInjective
      <4> QED  BY <4>1
    <3> QED  BY <2>1, <2>2, <3>1 DEF InList
  <2> QED  BY <2>3, <2>4
<1> QED
    BY <1>1, <1>2, <1>4, <1>5, <1>6, <1>7, <1>8, <1>9


\* What is in a list, said of its set.
LEMMA SetOfList ==
    ASSUME NEW S, NEW s \in Seq(S)
    PROVE  /\ \A x : InList(s, x) <=> x \in ToSet(s)
           /\ ToSet(s) \subseteq S /\ (ToSet(s) = {} <=> s = <<>>)
           /\ \A x \in S : ToSet(Append(s, x)) = ToSet(s) \cup {x}
           /\ \A t \in Seq(S) : ToSet(s \o t) = ToSet(s) \cup ToSet(t)
<1>1. \A x : InList(s, x) <=> x \in ToSet(s)
    BY DEF InList, ToSet
<1>2. ToSet(s) \subseteq S
    BY DEF ToSet
<1>3. ToSet(s) = {} <=> s = <<>>
  <2>1. s # <<>> => s[1] \in ToSet(s)
    BY DEF ToSet
  <2>2. ToSet(<<>>) = {}
    BY DEF ToSet
  <2> QED  BY <2>1, <2>2
<1>4. ASSUME NEW x \in S  PROVE ToSet(Append(s, x)) = ToSet(s) \cup {x}
  <2>1. /\ Len(s) \in Nat /\ DOMAIN s = 1..Len(s) /\ DOMAIN Append(s, x) = 1..(Len(s) + 1)
        /\ \A i \in 1..Len(s) : Append(s, x)[i] = s[i]
        /\ Append(s, x)[Len(s) + 1] = x
    OBVIOUS
  <2>2. ASSUME NEW i \in 1..(Len(s) + 1)  PROVE Append(s, x)[i] \in ToSet(s) \cup {x}
    BY <2>1 DEF ToSet
  <2>3. ToSet(Append(s, x)) \subseteq ToSet(s) \cup {x}
    BY <2>1, <2>2 DEF ToSet
  <2>4. \A i \in 1..Len(s) : s[i] \in ToSet(Append(s, x))
    BY <2>1 DEF ToSet
  <2>5. x \in ToSet(Append(s, x))
    BY <2>1 DEF ToSet
  <2> QED  BY <2>1, <2>3, <2>4, <2>5 DEF ToSet
<1>5. ASSUME NEW t \in Seq(S)  PROVE ToSet(s \o t) = ToSet(s) \cup ToSet(t)
  <2>1. /\ Len(s) \in Nat /\ Len(t) \in Nat /\ DOMAIN s = 1..Len(s) /\ DOMAIN t = 1..Len(t)
        /\ DOMAIN (s \o t) = 1..(Len(s) + Len(t))
    OBVIOUS
  <2>2. \A i \in 1..(Len(s) + Len(t)) :
            (s \o t)[i] = IF i <= Len(s) THEN s[i] ELSE t[i - Len(s)]
    BY ConcatProperties
  <2>3. ASSUME NEW i \in 1..(Len(s) + Len(t))  PROVE (s \o t)[i] \in ToSet(s) \cup ToSet(t)
    <3>1. CASE i <= Len(s)
      BY <2>1, <2>2, <3>1 DEF ToSet
    <3>2. CASE ~(i <= Len(s))
      <4>1. i - Len(s) \in DOMAIN t
        BY <2>1, <3>2
      <4> QED  BY <2>2, <3>2, <4>1 DEF ToSet
    <3> QED  BY <3>1, <3>2
  <2>4. ASSUME NEW i \in DOMAIN s  PROVE s[i] \in ToSet(s \o t)
    <3>1. i \in 1..(Len(s) + Len(t)) /\ (s \o t)[i] = s[i]
      BY <2>1, <2>2
    <3> QED  BY <2>1, <3>1 DEF ToSet
  <2>5. ASSUME NEW i \in DOMAIN t  PROVE t[i] \in ToSet(s \o t)
    <3>1. /\ Len(s) + i \in 1..(Len(s) + Len(t)) /\ ~(Len(s) + i <= Len(s))
          /\ (Len(s) + i) - Len(s) = i
      BY <2>1
    <3>2. (s \o t)[Len(s) + i] = t[i]
      BY <2>2, <3>1
    <3> QED  BY <2>1, <3>1, <3>2 DEF ToSet
  <2>6. ToSet(s \o t) \subseteq ToSet(s) \cup ToSet(t)
    BY <2>1, <2>3 DEF ToSet
  <2>7. ToSet(s) \subseteq ToSet(s \o t) /\ ToSet(t) \subseteq ToSet(s \o t)
    BY <2>4, <2>5 DEF ToSet
  <2> QED  BY <2>6, <2>7
<1> QED
    BY <1>1, <1>2, <1>3, <1>4, <1>5

\* Two lists without repetitions and without an element in common make one.
LEMMA InjectiveConcat ==
    ASSUME NEW S, NEW s \in Seq(S), NEW t \in Seq(S), IsInjective(s), IsInjective(t),
           ToSet(s) \cap ToSet(t) = {}
    PROVE  IsInjective(s \o t)
<1>1. /\ Len(s) \in Nat /\ Len(t) \in Nat /\ DOMAIN s = 1..Len(s) /\ DOMAIN t = 1..Len(t)
      /\ DOMAIN (s \o t) = 1..(Len(s) + Len(t))
    OBVIOUS
<1>2. \A i \in 1..(Len(s) + Len(t)) :
          (s \o t)[i] = IF i <= Len(s) THEN s[i] ELSE t[i - Len(s)]
    BY ConcatProperties
<1>3. ASSUME NEW i \in 1..(Len(s) + Len(t)), NEW j \in 1..(Len(s) + Len(t)),
             (s \o t)[i] = (s \o t)[j]
      PROVE  i = j
  <2>1. CASE i <= Len(s) /\ j <= Len(s)
    <3>1. i \in DOMAIN s /\ j \in DOMAIN s /\ s[i] = s[j]
      BY <1>1, <1>2, <1>3, <2>1
    <3> QED  BY <3>1 DEF IsInjective
  <2>2. CASE ~(i <= Len(s)) /\ ~(j <= Len(s))
    <3>1. i - Len(s) \in DOMAIN t /\ j - Len(s) \in DOMAIN t
      BY <1>1, <2>2
    <3>2. t[i - Len(s)] = t[j - Len(s)]
      BY <1>2, <1>3, <2>2
    <3>3. i - Len(s) = j - Len(s)
      BY <3>1, <3>2 DEF IsInjective
    <3> QED  BY <1>1, <3>3
  <2>3. ASSUME NEW k \in 1..(Len(s) + Len(t)), NEW l \in 1..(Len(s) + Len(t)),
               k <= Len(s), ~(l <= Len(s)), (s \o t)[k] = (s \o t)[l]
        PROVE  FALSE
    <3>1. k \in DOMAIN s /\ l - Len(s) \in DOMAIN t
      BY <1>1, <2>3
    <3>2. s[k] = t[l - Len(s)]
      BY <1>2, <2>3
    <3> QED  BY <3>1, <3>2 DEF ToSet
  <2> QED  BY <1>3, <2>1, <2>2, <2>3
<1> QED
    BY <1>1, <1>3 DEF IsInjective

\* Numbers up to n: what holds of 0 and of the next one holds of n.
LEMMA CountUp ==
    ASSUME NEW n \in Nat, NEW G, 0 \in G, \A m \in 0..n : m \in G /\ m < n => m + 1 \in G
    PROVE  n \in G
<1> DEFINE P == {m \in 0..n : \A k \in 0..m : k \in G}
<1>1. IsFiniteSet(0..n)
    BY FS_Interval
<1>2. IsFiniteSet(P) /\ P \subseteq Int /\ 0 \in P
    BY <1>1, FS_Subset
<1>3. PICK m \in P : \A y \in P : y <= m
    BY <1>2, MaxExists
<1>4. CASE m < n
  <2>1. m + 1 \in P
    BY <1>4
  <2> QED  BY <1>3, <2>1
<1>5. CASE ~(m < n)
    BY <1>5
<1> QED
    BY <1>4, <1>5

\* The definition of Those as a function over the prefixes of a list.
UpTo(f, s, S, m) ==
    f = [n \in 0..m |-> IF n = 0 THEN <<>>
                        ELSE IF s[n] \in S THEN Append(f[n - 1], s[n])
                        ELSE f[n - 1]]

\* There is one for each prefix.
LEMMA UpToExists ==
    ASSUME NEW s, NEW S, NEW N \in Nat
    PROVE  \E f : UpTo(f, s, S, N)
<1> DEFINE G == {m \in 0..N : \E f : UpTo(f, s, S, m)}
<1>1. 0 \in G
  <2>1. UpTo([n \in 0..0 |-> <<>>], s, S, 0)
    BY DEF UpTo
  <2> QED  BY <2>1
<1>2. ASSUME NEW m \in 0..N, m \in G, m < N  PROVE m + 1 \in G
  <2>1. PICK f : UpTo(f, s, S, m)
    BY <1>2
  <2> DEFINE g == [n \in 0..(m + 1) |->
                     IF n <= m THEN f[n]
                     ELSE IF s[n] \in S THEN Append(f[n - 1], s[n]) ELSE f[n - 1]]
  <2>2. ASSUME NEW n \in 0..(m + 1)
        PROVE  g[n] = IF n = 0 THEN <<>>
                      ELSE IF s[n] \in S THEN Append(g[n - 1], s[n]) ELSE g[n - 1]
    <3>1. CASE n <= m
      <4>1. n \in 0..m /\ g[n] = f[n] /\ (n # 0 => g[n - 1] = f[n - 1])
        BY <3>1
      <4> HIDE DEF g
      <4>2. f[n] = IF n = 0 THEN <<>>
                   ELSE IF s[n] \in S THEN Append(f[n - 1], s[n]) ELSE f[n - 1]
        BY <2>1, <4>1 DEF UpTo
      <4> QED  BY <4>1, <4>2
    <3>2. CASE ~(n <= m)
      <4>1. n # 0 /\ n - 1 \in 0..m /\ n - 1 <= m /\ n - 1 \in 0..(m + 1)
        BY <3>2
      <4>2. g[n - 1] = f[n - 1]
        BY <4>1
      <4>3. g[n] = IF s[n] \in S THEN Append(f[n - 1], s[n]) ELSE f[n - 1]
        BY <3>2
      <4> QED  BY <4>1, <4>2, <4>3
    <3> QED  BY <3>1, <3>2
  <2>3. g = [n \in 0..(m + 1) |-> g[n]]
    OBVIOUS
  <2> HIDE DEF g
  <2>4. UpTo(g, s, S, m + 1)
    BY <2>2, <2>3 DEF UpTo
  <2> QED  BY <1>2, <2>4
<1> HIDE DEF G
<1>3. N \in G
    BY <1>1, <1>2, CountUp
<1> QED
    BY <1>3 DEF G

\* Those has the elements of its list that are in the set, and no other.
LEMMA ThoseOf ==
    ASSUME NEW T, NEW s \in Seq(T), NEW S
    PROVE  /\ Those(s, S) \in Seq(T)
           /\ ToSet(Those(s, S)) = ToSet(s) \cap S
           /\ IsInjective(s) => IsInjective(Those(s, S))
<1>1. PICK N \in Nat : N = Len(s)
    OBVIOUS
<1>2. PICK f : UpTo(f, s, S, N) /\ Those(s, S) = f[N]
  <2> DEFINE f == CHOOSE f : UpTo(f, s, S, N)
  <2>1. UpTo(f, s, S, N)
    BY UpToExists
  <2>2. Those(s, S) = f[N]
    BY <1>1 DEF Those, UpTo
  <2> QED  BY <2>1, <2>2
<1>3. f[0] = <<>>
    BY <1>2 DEF UpTo
<1>4. \A m \in 0..N : m < N =>
          f[m + 1] = IF s[m + 1] \in S THEN Append(f[m], s[m + 1]) ELSE f[m]
  <2> SUFFICES ASSUME NEW m \in 0..N, m < N
               PROVE  f[m + 1] = IF s[m + 1] \in S THEN Append(f[m], s[m + 1]) ELSE f[m]
    OBVIOUS
  <2>1. m + 1 \in 0..N /\ m + 1 # 0 /\ (m + 1) - 1 = m
    OBVIOUS
  <2> QED  BY <1>2, <2>1 DEF UpTo
<1> DEFINE G == {m \in 0..N : /\ f[m] \in Seq(T)
                              /\ ToSet(f[m]) = {s[i] : i \in 1..m} \cap S
                              /\ IsInjective(s) => IsInjective(f[m])}
<1>5. 0 \in G
  <2>1. <<>> \in Seq(T) /\ ToSet(<<>>) = {} /\ IsInjective(<<>>)
    BY DEF ToSet, IsInjective
  <2>2. {s[i] : i \in 1..0} = {}
    OBVIOUS
  <2>3. /\ f[0] \in Seq(T) /\ ToSet(f[0]) = {s[i] : i \in 1..0} \cap S
        /\ IsInjective(f[0])
    BY <1>3, <2>1, <2>2
  <2> QED  BY <2>3
<1>6. ASSUME NEW m \in 0..N, m \in G, m < N  PROVE m + 1 \in G
  <2>1. PICK t \in Seq(T) : /\ t = f[m] /\ ToSet(t) = {s[i] : i \in 1..m} \cap S
                            /\ IsInjective(s) => IsInjective(t)
    BY <1>6
  <2>2. PICK x \in T : x = s[m + 1]
    BY <1>1, <1>6
  <2>3. {s[i] : i \in 1..(m + 1)} = {s[i] : i \in 1..m} \cup {x}
    BY <2>2
  <2>4. CASE x \in S
    <3>1. f[m + 1] = Append(t, x)
      BY <1>4, <1>6, <2>1, <2>2, <2>4
    <3>2. Append(t, x) \in Seq(T) /\ ToSet(Append(t, x)) = ToSet(t) \cup {x}
      BY SetOfList
    <3>3. IsInjective(s) => ~InList(t, x)
      <4>1. ASSUME IsInjective(s), x \in ToSet(t)  PROVE FALSE
        <5>1. PICK i \in 1..m : s[i] = s[m + 1]
          BY <2>1, <2>2, <4>1
        <5>2. i \in DOMAIN s /\ m + 1 \in DOMAIN s /\ i # m + 1
          BY <1>1, <1>6
        <5> QED  BY <4>1, <5>1, <5>2 DEF IsInjective
      <4> QED  BY <4>1, SetOfList
    <3>4. IsInjective(s) => IsInjective(Append(t, x))
      BY <2>1, <3>3, ShorterLists
    <3>5. ToSet(Append(t, x)) = {s[i] : i \in 1..(m + 1)} \cap S
      BY <2>1, <2>3, <2>4, <3>2
    <3>6. m + 1 \in 0..N
      BY <1>6
    <3> QED  BY <3>1, <3>2, <3>4, <3>5, <3>6
  <2>5. CASE x \notin S
    <3>1. f[m + 1] = t
      BY <1>4, <1>6, <2>1, <2>2, <2>5
    <3>2. {s[i] : i \in 1..(m + 1)} \cap S = {s[i] : i \in 1..m} \cap S
      BY <2>3, <2>5
    <3> QED  BY <1>6, <2>1, <3>1, <3>2
  <2> QED  BY <2>4, <2>5
<1> HIDE DEF G
<1>7. N \in G
    BY <1>5, <1>6, CountUp
<1>8. {s[i] : i \in 1..N} = ToSet(s)
    BY <1>1 DEF ToSet
<1> QED
    BY <1>2, <1>7, <1>8 DEF G

\* The definition of FlattenSeq as a function over the prefixes of a list.
FlatTo(f, s, m) ==
    f = [i \in 1..m |-> IF i = 1 THEN s[i] ELSE f[i - 1] \o s[i]]

\* There is one for each prefix.
LEMMA FlatToExists ==
    ASSUME NEW s, NEW N \in Nat
    PROVE  \E f : FlatTo(f, s, N)
<1> DEFINE G == {m \in 0..N : \E f : FlatTo(f, s, m)}
<1>1. 0 \in G
  <2>1. FlatTo([i \in 1..0 |-> <<>>], s, 0)
    BY DEF FlatTo
  <2> QED  BY <2>1
<1>2. ASSUME NEW m \in 0..N, m \in G, m < N  PROVE m + 1 \in G
  <2>1. PICK f : FlatTo(f, s, m)
    BY <1>2
  <2> DEFINE g == [i \in 1..(m + 1) |->
                     IF i <= m THEN f[i] ELSE IF i = 1 THEN s[i] ELSE f[i - 1] \o s[i]]
  <2>2. ASSUME NEW i \in 1..(m + 1)
        PROVE  g[i] = IF i = 1 THEN s[i] ELSE g[i - 1] \o s[i]
    <3>1. CASE i <= m
      <4>1. i \in 1..m /\ g[i] = f[i] /\ (i # 1 => g[i - 1] = f[i - 1])
        BY <3>1
      <4> HIDE DEF g
      <4>2. f[i] = IF i = 1 THEN s[i] ELSE f[i - 1] \o s[i]
        BY <2>1, <4>1 DEF FlatTo
      <4> QED  BY <4>1, <4>2
    <3>2. CASE ~(i <= m)
      <4>1. i # 1 => i - 1 \in 1..m /\ i - 1 <= m /\ i - 1 \in 1..(m + 1)
        BY <3>2
      <4>2. i # 1 => g[i - 1] = f[i - 1]
        BY <4>1
      <4>3. g[i] = IF i = 1 THEN s[i] ELSE f[i - 1] \o s[i]
        BY <3>2
      <4> QED  BY <4>2, <4>3
    <3> QED  BY <3>1, <3>2
  <2>3. g = [i \in 1..(m + 1) |-> g[i]]
    OBVIOUS
  <2> HIDE DEF g
  <2>4. FlatTo(g, s, m + 1)
    BY <2>2, <2>3 DEF FlatTo
  <2> QED  BY <1>2, <2>4
<1> HIDE DEF G
<1>3. N \in G
    BY <1>1, <1>2, CountUp
<1> QED
    BY <1>3 DEF G

\* A list of lists made one has their elements; when no element is in two of
\* them, nor twice in one, it has each once.
LEMMA FlattenOf ==
    ASSUME NEW T, NEW s \in Seq(Seq(T))
    PROVE  /\ FlattenSeq(s) \in Seq(T)
           /\ ToSet(FlattenSeq(s)) = UNION {ToSet(s[i]) : i \in DOMAIN s}
           /\ (/\ \A i \in DOMAIN s : IsInjective(s[i])
               /\ \A i, j \in DOMAIN s : i # j => ToSet(s[i]) \cap ToSet(s[j]) = {})
              => IsInjective(FlattenSeq(s))
<1>1. PICK N \in Nat : N = Len(s) /\ DOMAIN s = 1..N
    OBVIOUS
<1> DEFINE Apart == /\ \A i \in DOMAIN s : IsInjective(s[i])
                    /\ \A i, j \in DOMAIN s : i # j => ToSet(s[i]) \cap ToSet(s[j]) = {}
           Of(m) == UNION {ToSet(s[i]) : i \in 1..m}
<1>2. CASE N = 0
  <2>1. s = <<>> /\ FlattenSeq(s) = <<>>
    BY <1>1, <1>2 DEF FlattenSeq
  <2>2. ToSet(<<>>) = {} /\ IsInjective(<<>>) /\ <<>> \in Seq(T)
    BY DEF ToSet, IsInjective
  <2>3. UNION {ToSet(s[i]) : i \in DOMAIN s} = {}
    BY <1>1, <1>2
  <2> QED  BY <2>1, <2>2, <2>3
<1>3. CASE N # 0
  <2>1. PICK f : FlatTo(f, s, N) /\ FlattenSeq(s) = f[N]
    <3> DEFINE f == CHOOSE f : FlatTo(f, s, N)
    <3>1. FlatTo(f, s, N)
      BY FlatToExists
    <3>2. FlattenSeq(s) = f[N]
      BY <1>1, <1>3 DEF FlattenSeq, FlatTo
    <3> QED  BY <3>1, <3>2
  <2>2. ASSUME NEW m \in 1..N  PROVE f[m] = IF m = 1 THEN s[m] ELSE f[m - 1] \o s[m]
    BY <2>1 DEF FlatTo
  <2> DEFINE g == [m \in 0..N |-> IF m = 0 THEN <<>> ELSE f[m]]
  <2>3. ASSUME NEW m \in 0..N, m < N  PROVE g[m + 1] = g[m] \o s[m + 1]
    <3>1. m + 1 \in 1..N /\ g[m + 1] = f[m + 1]
      BY <2>3
    <3>2. CASE m = 0
      <4>1. s[1] \in Seq(T) /\ <<>> \o s[1] = s[1]
        <5>1. s[1] \in Seq(T)
          BY <1>1, <1>3
        <5> QED  BY <5>1
      <4> QED  BY <2>2, <3>1, <3>2, <4>1
    <3>3. CASE m # 0
      <4>1. g[m] = f[m] /\ (m + 1) - 1 = m /\ m + 1 # 1
        BY <3>3
      <4> QED  BY <2>2, <3>1, <4>1
    <3> QED  BY <3>2, <3>3
  <2>4. g[0] = <<>> /\ g[N] = f[N]
    BY <1>3
  <2> HIDE DEF g
  <2> DEFINE G == {m \in 0..N : /\ g[m] \in Seq(T)
                                /\ ToSet(g[m]) = Of(m)
                                /\ Apart => IsInjective(g[m])}
  <2>5. 0 \in G
    <3>1. ToSet(<<>>) = {} /\ IsInjective(<<>>) /\ <<>> \in Seq(T)
      BY DEF ToSet, IsInjective
    <3>2. Of(0) = {}
      OBVIOUS
    <3> HIDE DEF Apart, Of
    <3>4. g[0] = <<>>
      BY <2>4
    <3>5. g[0] \in Seq(T) /\ ToSet(g[0]) = Of(0) /\ IsInjective(g[0])
      BY <3>1, <3>2, <3>4, Zenon
    <3>6. 0 \in 0..N
      OBVIOUS
    <3>3. g[0] \in Seq(T) /\ ToSet(g[0]) = Of(0) /\ IsInjective(g[0]) /\ 0 \in 0..N
      BY <3>5, <3>6, Zenon
    <3> QED  BY <3>3
  <2>6. ASSUME NEW m \in 0..N, m \in G, m < N  PROVE m + 1 \in G
    <3> HIDE DEF Apart, Of
    <3>1. PICK t \in Seq(T) : /\ t = g[m] /\ ToSet(t) = Of(m)
                              /\ Apart => IsInjective(t)
      BY <2>6
    <3>2. PICK x \in Seq(T) : x = s[m + 1]
      BY <1>1, <2>6
    <3>3. t \o x \in Seq(T) /\ ToSet(t \o x) = ToSet(t) \cup ToSet(x)
      BY SetOfList
    <3>6. g[m + 1] = t \o x
      BY <2>3, <2>6, <3>1, <3>2
    <3>4. Of(m + 1) = Of(m) \cup ToSet(x)
      <4>1. 1..(m + 1) = (1..m) \cup {m + 1}
        BY <2>6
      <4> QED  BY <3>2, <4>1, Zenon DEF Of
    <3>5. Apart => IsInjective(t \o x)
      <4> SUFFICES ASSUME Apart  PROVE IsInjective(t \o x)
        OBVIOUS
      <4>0. m + 1 \in DOMAIN s
        BY <1>1, <2>6
      <4>1. IsInjective(x)
        BY <3>2, <4>0, Zenon DEF Apart
      <4>2. ASSUME NEW i \in 1..m  PROVE ToSet(s[i]) \cap ToSet(x) = {}
        <5>1. i \in DOMAIN s /\ m + 1 \in DOMAIN s /\ i # m + 1
          BY <1>1, <2>6
        <5> QED  BY <3>2, <5>1 DEF Apart
      <4>3. ToSet(t) \cap ToSet(x) = {}
        BY <3>1, <4>2 DEF Of
      <4> QED  BY <3>1, <4>1, <4>3, InjectiveConcat
    <3>7. m + 1 \in 0..N
      BY <2>6
    <3> QED  BY <3>1, <3>3, <3>4, <3>5, <3>6, <3>7
  <2> HIDE DEF G
  <2>7. N \in G
    BY <2>5, <2>6, CountUp
  <2> QED  BY <1>1, <2>1, <2>4, <2>7 DEF G
<1> QED
    BY <1>2, <1>3

\* The elements of a finite set, listed.
LEMMA ListOfSet ==
    ASSUME NEW S, IsFiniteSet(S)
    PROVE  /\ SetToSeq(S) \in [1..Cardinality(S) -> S] /\ SetToSeq(S) \in Seq(S)
           /\ IsInjective(SetToSeq(S))
<1>1. Cardinality(S) \in Nat /\ ExistsBijection(1..Cardinality(S), S)
    BY FS_CardinalityType
<1>2. PICK f \in Bijection(1..Cardinality(S), S) : TRUE
    BY <1>1 DEF ExistsBijection
<1>3. f \in [1..Cardinality(S) -> S] /\ IsInjective(f)
    BY <1>2 DEF Bijection, Injection, IsInjective
<1>4. SetToSeq(S) \in [1..Cardinality(S) -> S] /\ IsInjective(SetToSeq(S))
    BY <1>3 DEF SetToSeq
<1>5. QED
    BY <1>1, <1>4
=============================================================================
