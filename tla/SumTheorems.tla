---------------------------- MODULE SumTheorems ----------------------------
(***************************************************************************)
(* Facts about finite sums, for the modules that add up bytes over users,  *)
(* entry points and connections.                                           *)
(*                                                                         *)
(* SumFunctionOnSet(f, S) folds over S in an order that CHOOSE picks.  It  *)
(* is shown, by induction over the subsets of S, to be the number of       *)
(* elements of a set that holds f[x] marks for each x; from then on a fact *)
(* about sums is a fact about cardinalities, or a further induction.       *)
(* Induction itself is the existence of a minimal element in the strict    *)
(* subset ordering, stated with a set Q of good sets.                      *)
(***************************************************************************)
EXTENDS Functions, FiniteSets, FiniteSetTheorems, TLAPS

\* A set is good when every set is, all of whose proper subsets are.
LEMMA StrongInduction ==
    ASSUME NEW S, IsFiniteSet(S), NEW Q,
           \A T \in SUBSET S : (\A U \in SUBSET T : U # T => U \in Q) => T \in Q
    PROVE  S \in Q
<1> SUFFICES ASSUME S \notin Q PROVE FALSE
  OBVIOUS
<1> DEFINE B == {T \in SUBSET S : T \notin Q}
           R == StrictSubsetOrdering(S)
<1>1. IsWellFoundedOn(R, SUBSET S)
  <2>1. FiniteSubsetsOf(S) = SUBSET S
    BY FS_FiniteSubsetsOfFinite
  <2>2. IsWellFoundedOn(R, FiniteSubsetsOf(S))
    BY FS_StrictSubsetOrderingWellFounded
  <2> QED
    BY <2>1, <2>2
<1>2. B \subseteq SUBSET S /\ B # {}
  OBVIOUS
<1>3. PICK T \in B : \A U \in B : <<U, T>> \notin R
  <2> HIDE DEF B, R
  <2> QED BY <1>1, <1>2, WFMin
<1>4. ASSUME NEW U \in SUBSET T, U # T
      PROVE  U \in Q
  <2>1. <<U, T>> \in R
    BY <1>4 DEF StrictSubsetOrdering
  <2> QED
    BY <1>3, <2>1
<1> QED
  BY <1>4

\* A finite set is good when {} is, and adding an element keeps a set good.
LEMMA FiniteInduction ==
    ASSUME NEW S, IsFiniteSet(S), NEW Q, {} \in Q,
           \A T \in SUBSET S : \A x \in S \ T : T \in Q => T \cup {x} \in Q
    PROVE  S \in Q
<1>1. ASSUME NEW T \in SUBSET S, \A U \in SUBSET T : U # T => U \in Q, T # {}
      PROVE  T \in Q
  <2> PICK x \in T : TRUE
    BY <1>1
  <2>1. (T \ {x}) \cup {x} = T /\ T \ {x} # T /\ T \ {x} \in SUBSET S
    OBVIOUS
  <2> QED
    BY <1>1, <2>1
<1>2. \A T \in SUBSET S : (\A U \in SUBSET T : U # T => U \in Q) => T \in Q
  BY <1>1
<1> QED
  BY <1>2, StrongInduction

\* f[x] marks for each x of S: as many as the values of f add up to.
Marks(f, S) == UNION {{x} \X (1 .. f[x]) : x \in S}

AllNat(f, S) == \A x \in S : f[x] \in Nat

\* The marks of one element, of a finite set, and of none.
LEMMA MarksOfOne ==
    ASSUME NEW f, NEW x, f[x] \in Nat
    PROVE  IsFiniteSet({x} \X (1 .. f[x])) /\ Cardinality({x} \X (1 .. f[x])) = f[x]
<1> DEFINE I == 1 .. f[x]
           m == [i \in I |-> <<x, i>>]
<1>1. IsFiniteSet(I) /\ Cardinality(I) = f[x]
  <2>1. /\ IsFiniteSet(1 .. f[x])
        /\ Cardinality(1 .. f[x]) = IF 1 > f[x] THEN 0 ELSE f[x] - 1 + 1
    <3>1. 1 \in Int /\ f[x] \in Int
      OBVIOUS
    <3> QED
      BY <3>1, FS_Interval, Zenon
  <2> QED
    BY <2>1
<1>2. m \in Bijection(I, {x} \X I)
  <2> HIDE DEF I
  <2>1. m \in [I -> {x} \X I] /\ \A i \in I : m[i] = <<x, i>>
    OBVIOUS
  <2> HIDE DEF m
  <2>2. \A i, j \in I : m[i] = m[j] => i = j
    BY <2>1
  <2>3. \A y \in {x} \X I : \E i \in I : m[i] = y
    BY <2>1
  <2>4. m \in Injection(I, {x} \X I)
    BY <2>1, <2>2 DEF Injection, IsInjective
  <2>5. m \in Surjection(I, {x} \X I)
    BY <2>1, <2>3 DEF Surjection
  <2> QED
    BY <2>4, <2>5 DEF Bijection
<1>3. ExistsBijection(I, {x} \X I)
  BY <1>2 DEF ExistsBijection
<1> QED
  <2>1. IsFiniteSet({x} \X I) /\ Cardinality({x} \X I) = Cardinality(I)
    <3> HIDE DEF I
    <3> QED BY <1>1, <1>3, FS_Bijection
  <2> QED BY <2>1, <1>1

LEMMA MarksFinite ==
    ASSUME NEW S, IsFiniteSet(S), NEW f, AllNat(f, S)
    PROVE  IsFiniteSet(Marks(f, S)) /\ Cardinality(Marks(f, S)) \in Nat
<1> DEFINE M == {{x} \X (1 .. f[x]) : x \in S}
           m == [x \in S |-> {x} \X (1 .. f[x])]
<1>1. m \in Surjection(S, M)
  BY DEF Surjection
<1>2. IsFiniteSet(M)
  <2> HIDE DEF m, M
  <2> QED BY <1>1, FS_Surjection
<1>3. \A T \in M : IsFiniteSet(T)
  BY MarksOfOne DEF AllNat
<1>4. IsFiniteSet(UNION M)
  <2> HIDE DEF M
  <2> QED BY <1>2, <1>3, FS_UNION
<1> QED
  BY <1>4, FS_CardinalityType DEF Marks

LEMMA MarksRemove ==
    ASSUME NEW S, IsFiniteSet(S), NEW f, AllNat(f, S), NEW x \in S
    PROVE  Cardinality(Marks(f, S)) = f[x] + Cardinality(Marks(f, S \ {x}))
<1> DEFINE A == {x} \X (1 .. f[x])
           B == Marks(f, S \ {x})
<1>1. Marks(f, S) = A \cup B
  BY DEF Marks
<1>2. A \cap B = {}
  BY DEF Marks
<1>3. IsFiniteSet(A) /\ Cardinality(A) = f[x] /\ f[x] \in Nat
  BY MarksOfOne DEF AllNat
<1>4. IsFiniteSet(S \ {x}) /\ AllNat(f, S \ {x})
  BY FS_RemoveElement DEF AllNat
<1>5. IsFiniteSet(B) /\ Cardinality(B) \in Nat
  BY <1>4, MarksFinite
<1>6. Cardinality(A \cap B) = 0
  BY <1>2, FS_EmptySet
<1>7. Cardinality(A \cup B) = Cardinality(A) + Cardinality(B) - Cardinality(A \cap B)
  <2> HIDE DEF A, B
  <2> QED BY <1>3, <1>5, FS_Union
<1> QED
  BY <1>1, <1>3, <1>5, <1>6, <1>7

LEMMA MarksEmpty == ASSUME NEW f PROVE Cardinality(Marks(f, {})) = 0
BY FS_EmptySet DEF Marks

\* The sum counts the marks, whatever order the fold takes.
LEMMA SumIsCount ==
    ASSUME NEW S, IsFiniteSet(S), NEW f, AllNat(f, S)
    PROVE  SumFunctionOnSet(f, S) = Cardinality(Marks(f, S))
<1> DEFINE pick(s) == CHOOSE x \in s : TRUE
           Iter(g) == [s \in SUBSET S |-> IF s = {} THEN 0 ELSE f[pick(s)] + g[s \ {pick(s)}]]
           g == CHOOSE h : h = Iter(h)
           k == [s \in SUBSET S |-> Cardinality(Marks(f, s))]
<1>1. SumFunctionOnSet(f, S) = g[S]
  BY DEF SumFunctionOnSet, FoldFunctionOnSet, MapThenFoldSet
<1>2. ASSUME NEW s \in SUBSET S
      PROVE  /\ IsFiniteSet(s) /\ AllNat(f, s)
             /\ s # {} => pick(s) \in s
             /\ s # {} => Cardinality(Marks(f, s)) = f[pick(s)] + Cardinality(Marks(f, s \ {pick(s)}))
  <2>1. IsFiniteSet(s) /\ AllNat(f, s)
    BY FS_Subset DEF AllNat
  <2>2. ASSUME s # {} PROVE pick(s) \in s
    BY <2>2
  <2> HIDE DEF pick
  <2> QED BY <2>1, <2>2, MarksRemove
<1>3. k = Iter(k)
  <2> SUFFICES ASSUME NEW s \in SUBSET S
               PROVE  k[s] = IF s = {} THEN 0 ELSE f[pick(s)] + k[s \ {pick(s)}]
    OBVIOUS
  <2> QED BY <1>2, MarksEmpty
<1>4. g = Iter(g)
  <2> HIDE DEF k, Iter
  <2> QED BY <1>3
<1>5. ASSUME NEW s \in SUBSET S
      PROVE  g[s] = IF s = {} THEN 0 ELSE f[pick(s)] + g[s \ {pick(s)}]
  <2> HIDE DEF g
  <2> QED BY <1>4
<1> DEFINE Q == {s \in SUBSET S : g[s] = Cardinality(Marks(f, s))}
<1> HIDE DEF g, k
<1>6. ASSUME NEW T \in SUBSET S, \A U \in SUBSET T : U # T => U \in Q
      PROVE  T \in Q
  <2>1. CASE T = {}
    BY <2>1, <1>5, MarksEmpty
  <2>2. CASE T # {}
    <3>1. T \ {pick(T)} \in Q
      BY <2>2, <1>2, <1>6
    <3> QED
      BY <2>2, <3>1, <1>2, <1>5
  <2> QED BY <2>1, <2>2
<1> QED
  <2>1. S \in Q
    <3> HIDE DEF Q
    <3> QED BY <1>6, StrongInduction
  <2> QED BY <2>1, <1>1

-----------------------------------------------------------------------------
\* Sums of naturals are naturals, and the empty sum is zero.
LEMMA SumNat ==
    ASSUME NEW S, IsFiniteSet(S), NEW f, AllNat(f, S)
    PROVE  SumFunctionOnSet(f, S) \in Nat
BY SumIsCount, MarksFinite

LEMMA SumEmpty == ASSUME NEW f PROVE SumFunctionOnSet(f, {}) = 0
<1>1. IsFiniteSet({}) /\ AllNat(f, {})
  BY FS_EmptySet DEF AllNat
<1> QED
  BY <1>1, SumIsCount, MarksEmpty

\* Taking an element away, or adding one.
LEMMA SumRemove ==
    ASSUME NEW S, IsFiniteSet(S), NEW f, AllNat(f, S), NEW x \in S
    PROVE  /\ IsFiniteSet(S \ {x}) /\ AllNat(f, S \ {x})
           /\ f[x] \in Nat /\ SumFunctionOnSet(f, S \ {x}) \in Nat
           /\ SumFunctionOnSet(f, S) = f[x] + SumFunctionOnSet(f, S \ {x})
<1>1. IsFiniteSet(S \ {x}) /\ AllNat(f, S \ {x}) /\ f[x] \in Nat
  BY FS_RemoveElement DEF AllNat
<1> QED
  BY <1>1, SumIsCount, MarksRemove, SumNat

LEMMA SumAdd ==
    ASSUME NEW T, IsFiniteSet(T), NEW x, x \notin T, NEW f, AllNat(f, T \cup {x})
    PROVE  /\ IsFiniteSet(T \cup {x}) /\ AllNat(f, T)
           /\ f[x] \in Nat /\ SumFunctionOnSet(f, T) \in Nat
           /\ SumFunctionOnSet(f, T \cup {x}) = f[x] + SumFunctionOnSet(f, T)
<1> DEFINE U == T \cup {x}
<1>1. IsFiniteSet(U) /\ U \ {x} = T /\ x \in U
  BY FS_AddElement
<1> HIDE DEF U
<1>2. /\ AllNat(f, U \ {x}) /\ f[x] \in Nat
      /\ SumFunctionOnSet(f, U \ {x}) \in Nat
      /\ SumFunctionOnSet(f, U) = f[x] + SumFunctionOnSet(f, U \ {x})
  BY <1>1, SumRemove DEF U
<1> QED
  BY <1>1, <1>2 DEF U

\* Only the values on S matter; one that changes changes the sum by as much.
LEMMA SumEqual ==
    ASSUME NEW S, IsFiniteSet(S), NEW f, AllNat(f, S),
           NEW g, \A x \in S : g[x] = f[x]
    PROVE  SumFunctionOnSet(g, S) = SumFunctionOnSet(f, S)
<1>1. AllNat(g, S)
  BY DEF AllNat
<1>2. Marks(g, S) = Marks(f, S)
  BY DEF Marks
<1> QED
  BY <1>1, <1>2, SumIsCount

LEMMA SumUpdate ==
    ASSUME NEW S, IsFiniteSet(S), NEW f, AllNat(f, S), NEW x \in S,
           NEW g, g[x] \in Nat, \A y \in S \ {x} : g[y] = f[y]
    PROVE  SumFunctionOnSet(g, S) + f[x] = SumFunctionOnSet(f, S) + g[x]
<1>1. AllNat(g, S)
  BY DEF AllNat
<1>2. SumFunctionOnSet(g, S \ {x}) = SumFunctionOnSet(f, S \ {x})
  BY SumRemove, SumEqual
<1> QED
  BY <1>1, <1>2, SumRemove

\* Sums add up pointwise and are monotonic.
LEMMA SumPlus ==
    ASSUME NEW S, IsFiniteSet(S), NEW f, AllNat(f, S), NEW g, AllNat(g, S),
           NEW h, \A x \in S : h[x] = f[x] + g[x]
    PROVE  SumFunctionOnSet(h, S) = SumFunctionOnSet(f, S) + SumFunctionOnSet(g, S)
<1> DEFINE Q == {T \in SUBSET S : SumFunctionOnSet(h, T) =
                    SumFunctionOnSet(f, T) + SumFunctionOnSet(g, T)}
<1>0. AllNat(h, S)
  BY DEF AllNat
<1>1. {} \in Q
  BY SumEmpty
<1>2. ASSUME NEW T \in SUBSET S, NEW x \in S \ T, T \in Q
      PROVE  T \cup {x} \in Q
  <2>1. IsFiniteSet(T)
    BY FS_Subset
  <2>2. AllNat(f, T \cup {x}) /\ AllNat(g, T \cup {x}) /\ AllNat(h, T \cup {x})
    BY <1>0 DEF AllNat
  <2>3. h[x] = f[x] + g[x]
    OBVIOUS
  <2>4. /\ f[x] \in Nat /\ SumFunctionOnSet(f, T) \in Nat
        /\ SumFunctionOnSet(f, T \cup {x}) = f[x] + SumFunctionOnSet(f, T)
    BY <2>1, <2>2, SumAdd
  <2>5. /\ g[x] \in Nat /\ SumFunctionOnSet(g, T) \in Nat
        /\ SumFunctionOnSet(g, T \cup {x}) = g[x] + SumFunctionOnSet(g, T)
    BY <2>1, <2>2, SumAdd
  <2>6. SumFunctionOnSet(h, T \cup {x}) = h[x] + SumFunctionOnSet(h, T)
    BY <2>1, <2>2, SumAdd
  <2>7. SumFunctionOnSet(h, T \cup {x}) =
          SumFunctionOnSet(f, T \cup {x}) + SumFunctionOnSet(g, T \cup {x})
    BY <1>2, <2>3, <2>4, <2>5, <2>6
  <2> QED
    BY <2>7
<1>3. S \in Q
  <2> HIDE DEF Q
  <2> QED BY <1>1, <1>2, FiniteInduction
<1> QED
  BY <1>3

LEMMA SumLeq ==
    ASSUME NEW S, IsFiniteSet(S), NEW f, AllNat(f, S), NEW g, AllNat(g, S),
           \A x \in S : f[x] <= g[x]
    PROVE  SumFunctionOnSet(f, S) <= SumFunctionOnSet(g, S)
<1> DEFINE d == [x \in S |-> g[x] - f[x]]
<1>1. AllNat(d, S) /\ \A x \in S : g[x] = f[x] + d[x]
  BY DEF AllNat
<1> HIDE DEF d
<1> QED
  BY <1>1, SumPlus, SumNat

\* A sum is at most the number of elements times a bound on the values.
LEMMA SumBound ==
    ASSUME NEW S, IsFiniteSet(S), NEW f, AllNat(f, S), NEW b \in Nat,
           \A x \in S : f[x] <= b
    PROVE  /\ Cardinality(S) \in Nat
           /\ SumFunctionOnSet(f, S) <= Cardinality(S) * b
<1> DEFINE Q == {T \in SUBSET S : SumFunctionOnSet(f, T) <= Cardinality(T) * b}
<1>1. {} \in Q
  BY SumEmpty, FS_EmptySet
<1>2. ASSUME NEW T \in SUBSET S, NEW x \in S \ T, T \in Q
      PROVE  T \cup {x} \in Q
  <2>1. /\ IsFiniteSet(T) /\ Cardinality(T) \in Nat
        /\ Cardinality(T \cup {x}) = Cardinality(T) + 1
    BY FS_Subset, FS_AddElement, FS_CardinalityType
  <2>2. AllNat(f, T \cup {x})
    BY DEF AllNat
  <2>3. f[x] <= b
    OBVIOUS
  <2>4. (Cardinality(T) + 1) * b = Cardinality(T) * b + b
    BY <2>1
  <2>5. Cardinality(T) * b \in Nat
    BY <2>1
  <2>6. /\ f[x] \in Nat /\ SumFunctionOnSet(f, T) \in Nat
        /\ SumFunctionOnSet(f, T \cup {x}) = f[x] + SumFunctionOnSet(f, T)
    BY <2>1, <2>2, SumAdd
  <2>7. SumFunctionOnSet(f, T) <= Cardinality(T) * b
    BY <1>2
  <2>8. SumFunctionOnSet(f, T \cup {x}) <= Cardinality(T \cup {x}) * b
    BY <2>1, <2>3, <2>4, <2>5, <2>6, <2>7
  <2> QED
    BY <2>8
<1>3. S \in Q
  <2> HIDE DEF Q
  <2> QED BY <1>1, <1>2, FiniteInduction
<1> QED
  BY <1>3, FS_CardinalityType

\* The sum of zeros.
LEMMA SumZero ==
    ASSUME NEW S, IsFiniteSet(S), NEW f, \A x \in S : f[x] = 0
    PROVE  SumFunctionOnSet(f, S) = 0
<1>1. AllNat(f, S)
  BY DEF AllNat
<1>2. Marks(f, S) = {}
  BY DEF Marks
<1> QED
  BY <1>1, <1>2, SumIsCount, FS_EmptySet

\* Elements whose value is zero may be left out.
LEMMA SumNonzero ==
    ASSUME NEW S, IsFiniteSet(S), NEW f, AllNat(f, S),
           NEW T \in SUBSET S, \A x \in S \ T : f[x] = 0
    PROVE  /\ IsFiniteSet(T) /\ AllNat(f, T)
           /\ SumFunctionOnSet(f, S) = SumFunctionOnSet(f, T)
<1>1. IsFiniteSet(T) /\ AllNat(f, T)
  BY FS_Subset DEF AllNat
<1>2. Marks(f, S) = Marks(f, T)
  BY DEF Marks
<1> QED
  BY <1>1, <1>2, SumIsCount

\* The sum over a subset is no greater.
LEMMA SumSubset ==
    ASSUME NEW S, IsFiniteSet(S), NEW f, AllNat(f, S), NEW T \in SUBSET S
    PROVE  /\ IsFiniteSet(T) /\ AllNat(f, T)
           /\ SumFunctionOnSet(f, T) <= SumFunctionOnSet(f, S)
<1> DEFINE g == [x \in S |-> IF x \in T THEN f[x] ELSE 0]
<1>1. /\ AllNat(g, S) /\ \A x \in S : g[x] <= f[x]
      /\ \A x \in S \ T : g[x] = 0
      /\ \A x \in T : f[x] = g[x]
  BY DEF AllNat
<1> HIDE DEF g
<1>2. SumFunctionOnSet(g, S) <= SumFunctionOnSet(f, S)
  BY <1>1, SumLeq
<1>3. IsFiniteSet(T) /\ AllNat(g, T) /\ SumFunctionOnSet(g, S) = SumFunctionOnSet(g, T)
  BY <1>1, SumNonzero
<1>4. SumFunctionOnSet(f, T) = SumFunctionOnSet(g, T)
  BY <1>1, <1>3, SumEqual
<1> QED
  BY <1>1, <1>2, <1>3, <1>4 DEF AllNat

\* The sum over the elements of S, class by class.
ClassSums(f, S, class, C) ==
    [t \in C |-> SumFunctionOnSet(f, S \cap {x \in S : class[x] = t})]

LEMMA SumOfClasses ==
    ASSUME NEW S, IsFiniteSet(S), NEW f, AllNat(f, S),
           NEW C, IsFiniteSet(C), NEW class, \A x \in S : class[x] \in C
    PROVE  /\ AllNat(ClassSums(f, S, class, C), C)
           /\ SumFunctionOnSet(f, S) = SumFunctionOnSet(ClassSums(f, S, class, C), C)
<1> DEFINE Of(t) == {x \in S : class[x] = t}
           Q == {T \in SUBSET S :
                   /\ AllNat([t \in C |-> SumFunctionOnSet(f, T \cap Of(t))], C)
                   /\ SumFunctionOnSet(f, T) =
                        SumFunctionOnSet([t \in C |-> SumFunctionOnSet(f, T \cap Of(t))], C)}
<1>1. {} \in Q
  <2>1. \A t \in C : {} \cap Of(t) = {}
    OBVIOUS
  <2>2. \A t \in C : [z \in C |-> SumFunctionOnSet(f, {} \cap Of(z))][t] = 0
    BY <2>1, SumEmpty
  <2> QED
    BY <2>2, SumZero, SumEmpty DEF AllNat
<1>2. ASSUME NEW T \in SUBSET S, NEW x \in S \ T, T \in Q
      PROVE  T \cup {x} \in Q
  <2> DEFINE U == T \cup {x}
             a == [t \in C |-> SumFunctionOnSet(f, T \cap Of(t))]
             b == [t \in C |-> SumFunctionOnSet(f, U \cap Of(t))]
             k == class[x]
  <2>1. /\ IsFiniteSet(T) /\ AllNat(f, U)
    BY FS_Subset DEF AllNat
  <2>2. k \in C /\ x \notin T \cap Of(k) /\ U \cap Of(k) = (T \cap Of(k)) \cup {x}
    OBVIOUS
  <2>3. \A t \in C \ {k} : U \cap Of(t) = T \cap Of(t)
    OBVIOUS
  <2>4. IsFiniteSet(T \cap Of(k)) /\ AllNat(f, (T \cap Of(k)) \cup {x})
    BY <2>1, FS_Intersection DEF AllNat
  <2>5. b[k] = f[x] + a[k] /\ f[x] \in Nat /\ a[k] \in Nat
    <3> HIDE DEF Of
    <3> QED
      BY <2>2, <2>4, SumAdd
  <2>6. \A t \in C \ {k} : b[t] = a[t]
    BY <2>3
  <2>7. SumFunctionOnSet(f, U) = f[x] + SumFunctionOnSet(f, T)
    BY <2>1, SumAdd
  <2>8. AllNat(a, C) /\ SumFunctionOnSet(f, T) = SumFunctionOnSet(a, C)
    BY <1>2
  <2> HIDE DEF U, a, b, k, Of
  <2>9. SumFunctionOnSet(b, C) + a[k] = SumFunctionOnSet(a, C) + b[k]
    <3>1. b[k] \in Nat
      BY <2>5
    <3> QED
    BY <2>2, <2>6, <2>8, <3>1, SumUpdate
  <2>10. AllNat(b, C)
    BY <2>5, <2>6, <2>8 DEF AllNat
  <2>11. SumFunctionOnSet(b, C) \in Nat /\ SumFunctionOnSet(a, C) \in Nat
    BY <2>8, <2>10, SumNat
  <2>12. SumFunctionOnSet(f, U) = SumFunctionOnSet(b, C)
    BY <2>5, <2>7, <2>8, <2>9, <2>11
  <2> QED
    BY <2>10, <2>12 DEF U, b
<1>3. S \in Q
  <2> HIDE DEF Q
  <2> QED BY <1>1, <1>2, FiniteInduction
<1> QED
  BY <1>3 DEF ClassSums

LEMMA SumByClass ==
    ASSUME NEW S, IsFiniteSet(S), NEW f, AllNat(f, S),
           NEW C, IsFiniteSet(C), NEW class, \A x \in S : class[x] \in C,
           NEW part,
           \A t \in C : part[t] \subseteq S /\ \A x \in S : x \in part[t] <=> class[x] = t,
           NEW g, \A t \in C : g[t] = SumFunctionOnSet(f, part[t])
    PROVE  AllNat(g, C) /\ SumFunctionOnSet(f, S) = SumFunctionOnSet(g, C)
<1> DEFINE e == ClassSums(f, S, class, C)
<1>1. AllNat(e, C) /\ SumFunctionOnSet(f, S) = SumFunctionOnSet(e, C)
  BY SumOfClasses
<1>2. \A t \in C : g[t] = e[t]
  <2>1. \A t \in C : S \cap {x \in S : class[x] = t} = part[t]
    OBVIOUS
  <2> QED
    BY <2>1 DEF ClassSums
<1> HIDE DEF e
<1> QED
  BY <1>1, <1>2, SumEqual DEF AllNat

\* A finite set of numbers has a greatest element.
LEMMA FiniteMax ==
    ASSUME NEW S \in SUBSET Int, IsFiniteSet(S), S # {}
    PROVE  \E m \in S : \A x \in S : x <= m
<1> DEFINE Q == {T \in SUBSET S : T # {} => \E m \in T : \A x \in T : x <= m}
<1>1. {} \in Q
  OBVIOUS
<1>2. ASSUME NEW T \in SUBSET S, NEW y \in S \ T, T \in Q
      PROVE  T \cup {y} \in Q
  <2>1. CASE T = {}
    BY <2>1
  <2>2. CASE T # {}
    <3>1. PICK m \in T : \A x \in T : x <= m
      BY <1>2, <2>2
    <3>2. CASE y <= m
      <4>1. m \in T \cup {y} /\ \A x \in T \cup {y} : x <= m
        BY <3>1, <3>2
      <4> QED BY <4>1
    <3>3. CASE ~(y <= m)
      <4>1. \A x \in T \cup {y} : x <= y
        BY <3>1, <3>3
      <4> QED BY <4>1
    <3> QED BY <3>2, <3>3
  <2> QED BY <2>1, <2>2
<1>3. S \in Q
  <2> HIDE DEF Q
  <2> QED BY <1>1, <1>2, FiniteInduction
<1> QED
  BY <1>3
=============================================================================
