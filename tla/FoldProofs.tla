----------------------------- MODULE FoldProofs ------------------------------
(* Facts of finite sets: minimal elements, greatest integers, and the sums    *)
(* that the properties speak of.  A sum is a fold in an order that CHOOSE     *)
(* picks; what is proved here is that it does not depend on the order.        *)
(* Induction over the subsets of a finite set is stated with a set of subsets *)
(* in place of a predicate.                                                   *)
EXTENDS Functions, Integers, FiniteSetTheorems, TLAPS

-----------------------------------------------------------------------------
(* Minimal elements.                                                          *)

\* A finite non-empty set has a minimal element of any relation that is
\* irreflexive and transitive on it: the one with the least set of
\* predecessors, by the well-foundedness of strict inclusion.
LEMMA FiniteMinimal ==
  ASSUME NEW S, IsFiniteSet(S), S # {}, NEW R,
         \A x \in S : <<x, x>> \notin R,
         \A x, y, z \in S : <<x, y>> \in R /\ <<y, z>> \in R => <<x, z>> \in R
  PROVE  \E x \in S : \A y \in S : <<y, x>> \notin R
<1> DEFINE Below(x) == {y \in S : <<y, x>> \in R}
           Belows   == {Below(x) : x \in S}
<1>1. IsWellFoundedOn(StrictSubsetOrdering(S), FiniteSubsetsOf(S))
  BY FS_StrictSubsetOrderingWellFounded
<1>2. Belows \subseteq SUBSET S /\ Belows # {}
  <2>1. \A x \in S : Below(x) \in SUBSET S
    OBVIOUS
  <2>2. \E x \in S : TRUE
    OBVIOUS
  <2> HIDE DEF Below
  <2> QED BY <2>1, <2>2
<1>3. Belows \subseteq FiniteSubsetsOf(S)
  BY <1>2, FS_FiniteSubsetsOfFinite
<1>4. PICK B \in Belows : \A C \in Belows : <<C, B>> \notin StrictSubsetOrdering(S)
  <2> HIDE DEF Belows
  <2> QED BY <1>1, <1>2, <1>3, WFMin
<1>5. PICK x \in S : B = Below(x)
  BY <1>4
<1>6. ASSUME NEW y \in S, <<y, x>> \in R
      PROVE  FALSE
  <2>1. Below(y) \subseteq Below(x)
    BY <1>6
  <2>2. y \in Below(x) /\ y \notin Below(y)
    BY <1>6
  <2>3. <<Below(y), Below(x)>> \in StrictSubsetOrdering(S)
    BY <2>1, <2>2 DEF StrictSubsetOrdering
  <2> QED BY <1>4, <1>5, <2>3
<1> QED
  BY <1>6

\* A finite non-empty set of integers has a least and a greatest element.
LEMMA FiniteIntBounds ==
  ASSUME NEW S, IsFiniteSet(S), S # {}, S \subseteq Int
  PROVE  /\ \E x \in S : \A y \in S : x <= y
         /\ \E x \in S : \A y \in S : y <= x
<1> DEFINE Lt == {p \in S \X S : p[1] < p[2]}
           Gt == {p \in S \X S : p[1] > p[2]}
<1>1. \A x, y \in S : (<<x, y>> \in Lt <=> x < y) /\ (<<x, y>> \in Gt <=> x > y)
  OBVIOUS
<1> HIDE DEF Lt, Gt
<1>2. \E x \in S : \A y \in S : <<y, x>> \notin Lt
  <2>1. \A x \in S : <<x, x>> \notin Lt
    BY <1>1
  <2>2. \A x, y, z \in S : <<x, y>> \in Lt /\ <<y, z>> \in Lt => <<x, z>> \in Lt
    BY <1>1
  <2> QED BY <2>1, <2>2, FiniteMinimal
<1>3. \E x \in S : \A y \in S : <<y, x>> \notin Gt
  <2>1. \A x \in S : <<x, x>> \notin Gt
    BY <1>1
  <2>2. \A x, y, z \in S : <<x, y>> \in Gt /\ <<y, z>> \in Gt => <<x, z>> \in Gt
    BY <1>1
  <2> QED BY <2>1, <2>2, FiniteMinimal
<1>4. \E x \in S : \A y \in S : x <= y
  <2>1. PICK x \in S : \A y \in S : <<y, x>> \notin Lt
    BY <1>2
  <2>2. ASSUME NEW y \in S PROVE x <= y
    <3>1. x \in Int /\ y \in Int /\ ~(y < x)
      BY <1>1, <2>1
    <3> QED BY <3>1
  <2> QED BY <2>2
<1>5. \E x \in S : \A y \in S : y <= x
  <2>1. PICK x \in S : \A y \in S : <<y, x>> \notin Gt
    BY <1>3
  <2>2. ASSUME NEW y \in S PROVE y <= x
    <3>1. x \in Int /\ y \in Int /\ ~(y > x)
      BY <1>1, <2>1
    <3> QED BY <3>1
  <2> QED BY <2>2
<1> QED
  BY <1>4, <1>5

-----------------------------------------------------------------------------
(* Induction.                                                                 *)

\* A set of subsets of a finite set has a minimal member.
LEMMA SmallestSubset ==
  ASSUME NEW S, IsFiniteSet(S), NEW Bad \in SUBSET SUBSET S, Bad # {}
  PROVE  \E T \in Bad : \A U \in SUBSET T : U # T => U \notin Bad
<1>1. IsWellFoundedOn(StrictSubsetOrdering(S), FiniteSubsetsOf(S))
  BY FS_StrictSubsetOrderingWellFounded
<1>2. FiniteSubsetsOf(S) = SUBSET S
  BY FS_FiniteSubsetsOfFinite
<1>3. PICK T \in Bad : \A U \in Bad : <<U, T>> \notin StrictSubsetOrdering(S)
  <2>1. Bad \subseteq FiniteSubsetsOf(S)
    BY <1>2
  <2> QED BY <1>1, <2>1, WFMin
<1>4. ASSUME NEW U \in SUBSET T, U # T, U \in Bad PROVE FALSE
  <2>1. <<U, T>> \in (SUBSET S) \X (SUBSET S)
    OBVIOUS
  <2>2. <<U, T>> \in StrictSubsetOrdering(S)
    BY <1>4, <2>1 DEF StrictSubsetOrdering
  <2> QED BY <1>3, <1>4, <2>2
<1> QED
  BY <1>3, <1>4

\* If a subset is good whenever its proper subsets are, every subset is.
LEMMA SubsetInduction ==
  ASSUME NEW S, IsFiniteSet(S), NEW Good,
         \A T \in SUBSET S : (\A U \in SUBSET T : U # T => U \in Good) => T \in Good
  PROVE  \A T \in SUBSET S : T \in Good
<1> DEFINE Bad == {T \in SUBSET S : T \notin Good}
<1>1. CASE Bad = {}
  BY <1>1
<1>2. CASE Bad # {}
  <2>1. Bad \in SUBSET SUBSET S
    OBVIOUS
  <2>2. PICK T \in Bad : \A U \in SUBSET T : U # T => U \notin Bad
    <3> HIDE DEF Bad
    <3> QED BY <1>2, <2>1, SmallestSubset
  <2> QED BY <2>2
<1> QED
  BY <1>1, <1>2

\* The image of a finite set, and the union of finitely many, are finite.
LEMMA FiniteImage ==
  ASSUME NEW S, IsFiniteSet(S), NEW h
  PROVE  IsFiniteSet({h[x] : x \in S})
<1> DEFINE image(T) == {h[x] : x \in T}
           Good     == {T \in SUBSET S : IsFiniteSet(image(T))}
<1>1. ASSUME NEW T \in SUBSET S, \A U \in SUBSET T : U # T => U \in Good
      PROVE  T \in Good
  <2>1. CASE T = {}
    <3>1. image(T) = {}
      BY <2>1
    <3> QED BY <3>1, FS_EmptySet
  <2>2. CASE T # {}
    <3>1. PICK x \in T : TRUE
      BY <2>2
    <3>2. image(T) = image(T \ {x}) \cup {h[x]} /\ IsFiniteSet(image(T \ {x}))
      BY <1>1
    <3> DEFINE rest == image(T \ {x})
    <3>3. IsFiniteSet(rest \cup {h[x]})
      <4> HIDE DEF rest
      <4>1. IsFiniteSet(rest)
        BY <3>2 DEF rest
      <4> QED BY <4>1, FS_AddElement
    <3> QED BY <3>2, <3>3
  <2> QED BY <2>1, <2>2
<1> HIDE DEF Good
<1>2. S \in Good
  BY <1>1, SubsetInduction
<1> QED
  BY <1>2 DEF Good

LEMMA FiniteUnion ==
  ASSUME NEW I, IsFiniteSet(I), NEW F, \A i \in I : IsFiniteSet(F[i])
  PROVE  IsFiniteSet(UNION {F[i] : i \in I})
<1> DEFINE all(T) == UNION {F[i] : i \in T}
           Good   == {T \in SUBSET I : IsFiniteSet(all(T))}
<1>1. ASSUME NEW T \in SUBSET I, \A U \in SUBSET T : U # T => U \in Good
      PROVE  T \in Good
  <2>1. CASE T = {}
    <3>1. all(T) = {}
      BY <2>1
    <3> QED BY <3>1, FS_EmptySet
  <2>2. CASE T # {}
    <3>1. PICK i \in T : TRUE
      BY <2>2
    <3>2. all(T) = F[i] \cup all(T \ {i})
      OBVIOUS
    <3>3. T \ {i} \in Good
      BY <1>1
    <3> DEFINE one  == F[i]
               rest == all(T \ {i})
    <3>4. IsFiniteSet(one \cup rest)
      <4>1. IsFiniteSet(one) /\ IsFiniteSet(rest)
        BY <3>3
      <4> HIDE DEF one, rest
      <4> QED BY <4>1, FS_Union
    <3> QED BY <3>2, <3>4
  <2> QED BY <2>1, <2>2
<1> HIDE DEF Good
<1>2. I \in Good
  BY <1>1, SubsetInduction
<1> QED
  BY <1>2 DEF Good

-----------------------------------------------------------------------------
(* A sum unfolds.                                                             *)

\* One step of a sum over s, by the sums over the subsets of s.
SumStep(f, iter, s) ==
  IF s = {} THEN 0 ELSE LET x == CHOOSE x \in s : TRUE IN f[x] + iter[s \ {x}]

Sums(f, iter, S) == iter = [s \in SUBSET S |-> SumStep(f, iter, s)]

LEMMA SumIsChosen ==
  ASSUME NEW f, NEW S
  PROVE  SumFunctionOnSet(f, S) = (CHOOSE iter : Sums(f, iter, S))[S]
  BY Zenon DEF SumFunctionOnSet, FoldFunctionOnSet, MapThenFoldSet, SumStep, Sums

\* The sums over the subsets of a set are determined.
LEMMA SumsUnique ==
  ASSUME NEW f, NEW S, IsFiniteSet(S), NEW T \in SUBSET S, NEW g, NEW h,
         Sums(f, g, S), Sums(f, h, T)
  PROVE  \A s \in SUBSET T : g[s] = h[s]
<1> DEFINE Good == {s \in SUBSET T : g[s] = h[s]}
<1>1. IsFiniteSet(T)
  BY FS_Subset
<1>2. ASSUME NEW s \in SUBSET T, \A u \in SUBSET s : u # s => u \in Good
      PROVE  s \in Good
  <2> DEFINE x == CHOOSE x \in s : TRUE
  <2>1. g[s] = SumStep(f, g, s) /\ h[s] = SumStep(f, h, s)
    <3>1. s \in SUBSET S
      OBVIOUS
    <3> QED BY <3>1 DEF Sums
  <2>2. CASE s = {}
    BY <2>1, <2>2 DEF SumStep
  <2>3. CASE s # {}
    <3>1. x \in s
      BY <2>3
    <3>2. g[s \ {x}] = h[s \ {x}]
      BY <1>2, <3>1
    <3> QED BY <2>1, <2>3, <3>2 DEF SumStep
  <2> QED BY <2>2, <2>3
<1> HIDE DEF Good
<1>3. \A s \in SUBSET T : s \in Good
  BY <1>1, <1>2, SubsetInduction
<1> QED
  BY <1>3 DEF Good

LEMMA SumsExist ==
  ASSUME NEW f, NEW S, IsFiniteSet(S)
  PROVE  \A T \in SUBSET S : \E iter : Sums(f, iter, T)
<1> DEFINE Good == {T \in SUBSET S : \E iter : Sums(f, iter, T)}
<1>1. ASSUME NEW T \in SUBSET S, \A U \in SUBSET T : U # T => U \in Good
      PROVE  T \in Good
  <2> DEFINE x    == CHOOSE x \in T : TRUE
             sum(U) == (CHOOSE iter : Sums(f, iter, U))
             top == IF T = {} THEN 0 ELSE f[x] + sum(T \ {x})[T \ {x}]
             J == [s \in SUBSET T |-> IF s = T THEN top ELSE sum(s)[s]]
  <2>1. ASSUME NEW U \in SUBSET T, U # T PROVE Sums(f, sum(U), U)
    BY <1>1, <2>1
  <2>2. T # {} => x \in T
    OBVIOUS
  <2>3. J[T] = top
    OBVIOUS
  <2>4. ASSUME NEW s \in SUBSET T, s # T PROVE J[s] = sum(s)[s]
    BY <2>4
  <2>5. J[T] = SumStep(f, J, T)
    <3>1. CASE T = {}
      BY <2>3, <3>1 DEF SumStep
    <3>2. CASE T # {}
      <4>1. J[T \ {x}] = sum(T \ {x})[T \ {x}]
        BY <2>2, <2>4, <3>2
      <4> HIDE DEF J, sum
      <4> QED BY <2>3, <3>2, <4>1 DEF SumStep
    <3> QED BY <3>1, <3>2
  <2>6. ASSUME NEW s \in SUBSET T, s # T PROVE J[s] = SumStep(f, J, s)
    <3> DEFINE y == CHOOSE y \in s : TRUE
    <3> HIDE DEF J, sum
    <3>1. sum(s)[s] = SumStep(f, sum(s), s)
      <4>1. s \in SUBSET s
        OBVIOUS
      <4> QED BY <2>1, <2>6, <4>1 DEF Sums
    <3>2. CASE s = {}
      BY <2>4, <2>6, <3>1, <3>2 DEF SumStep
    <3>3. CASE s # {}
      <4>1. y \in s /\ s \ {y} \in SUBSET T /\ s \ {y} # T /\ s \ {y} \in SUBSET s
        BY <3>3
      <4>2. J[s \ {y}] = sum(s \ {y})[s \ {y}]
        BY <2>4, <4>1
      <4>3. sum(s)[s \ {y}] = sum(s \ {y})[s \ {y}]
        <5>1. IsFiniteSet(s)
          BY FS_Subset
        <5>2. Sums(f, sum(s), s) /\ Sums(f, sum(s \ {y}), s \ {y})
          BY <2>1, <2>6, <4>1
        <5> QED BY <4>1, <5>1, <5>2, SumsUnique
      <4> QED BY <2>4, <2>6, <3>1, <3>3, <4>2, <4>3 DEF SumStep
    <3> QED BY <3>2, <3>3
  <2>7. Sums(f, J, T)
    <3>1. \A s \in SUBSET T : J[s] = SumStep(f, J, s)
      BY <2>5, <2>6
    <3>2. J = [s \in SUBSET T |-> J[s]]
      OBVIOUS
    <3> HIDE DEF J
    <3> QED BY <3>1, <3>2 DEF Sums
  <2> QED BY <2>7
<1> HIDE DEF Good
<1>2. \A T \in SUBSET S : T \in Good
  BY <1>1, SubsetInduction
<1> QED
  BY <1>2 DEF Good

\* A sum is the chosen element's value and the sum of the rest.
LEMMA SumUnfolds ==
  ASSUME NEW f, NEW S, IsFiniteSet(S)
  PROVE  /\ SumFunctionOnSet(f, {}) = 0
         /\ S # {} => \E x \in S :
              SumFunctionOnSet(f, S) = f[x] + SumFunctionOnSet(f, S \ {x})
<1> DEFINE sum(T) == CHOOSE iter : Sums(f, iter, T)
<1>1. ASSUME NEW T \in SUBSET S PROVE Sums(f, sum(T), T)
  BY SumsExist
<1>2. \A T : SumFunctionOnSet(f, T) = sum(T)[T]
  BY SumIsChosen
<1> HIDE DEF sum
<1>3. ASSUME NEW T \in SUBSET S PROVE sum(T)[T] = SumStep(f, sum(T), T)
  <2>1. T \in SUBSET T
    OBVIOUS
  <2> QED BY <1>1, <2>1 DEF Sums
<1>4. SumFunctionOnSet(f, {}) = 0
  BY <1>2, <1>3 DEF SumStep
<1>5. ASSUME S # {}
      PROVE  \E x \in S : SumFunctionOnSet(f, S) = f[x] + SumFunctionOnSet(f, S \ {x})
  <2> DEFINE x == CHOOSE x \in S : TRUE
  <2>1. x \in S /\ S \ {x} \in SUBSET S /\ S \in SUBSET S
    BY <1>5
  <2>2. SumFunctionOnSet(f, S) = f[x] + sum(S)[S \ {x}]
    BY <1>2, <1>3, <1>5, <2>1 DEF SumStep
  <2>3. sum(S)[S \ {x}] = sum(S \ {x})[S \ {x}]
    <3>1. S \ {x} \in SUBSET (S \ {x})
      OBVIOUS
    <3> QED BY <1>1, <2>1, <3>1, SumsUnique
  <2>4. SumFunctionOnSet(f, S) = f[x] + SumFunctionOnSet(f, S \ {x})
    BY <1>2, <2>2, <2>3
  <2> QED BY <2>1, <2>4
<1> QED
  BY <1>4, <1>5

-----------------------------------------------------------------------------
(* What sums satisfy.                                                         *)

LEMMA SumEmpty == \A f : SumFunctionOnSet(f, {}) = 0
  BY SumUnfolds, FS_EmptySet

\* A sum of integers is an integer, of naturals a natural.
LEMMA SumType ==
  ASSUME NEW S, IsFiniteSet(S), NEW f, \A x \in S : f[x] \in Int
  PROVE  /\ SumFunctionOnSet(f, S) \in Int
         /\ (\A x \in S : f[x] \in Nat) => SumFunctionOnSet(f, S) \in Nat
<1> DEFINE Typed(T) == /\ SumFunctionOnSet(f, T) \in Int
                       /\ (\A x \in S : f[x] \in Nat) => SumFunctionOnSet(f, T) \in Nat
           Good     == {T \in SUBSET S : Typed(T)}
<1>1. ASSUME NEW T \in SUBSET S, \A U \in SUBSET T : U # T => U \in Good
      PROVE  T \in Good
  <2>1. IsFiniteSet(T)
    BY FS_Subset
  <2>2. CASE T = {}
    BY <2>2, SumEmpty
  <2>3. CASE T # {}
    <3>1. PICK x \in T : SumFunctionOnSet(f, T) = f[x] + SumFunctionOnSet(f, T \ {x})
      BY <2>1, <2>3, SumUnfolds
    <3>2. Typed(T \ {x})
      BY <1>1
    <3>3. f[x] \in Int
      OBVIOUS
    <3>4. Typed(T)
      BY <3>1, <3>2, <3>3
    <3> QED BY <3>4
  <2> QED BY <2>2, <2>3
<1> HIDE DEF Good
<1>2. S \in Good
  BY <1>1, SubsetInduction
<1> QED
  BY <1>2 DEF Good

LEMMA Reordered ==
  ASSUME NEW i \in Int, NEW j \in Int, NEW k \in Int
  PROVE  i + (j + k) = j + (i + k)
  OBVIOUS

\* Any element may be taken out of a sum.
LEMMA SumRemoves ==
  ASSUME NEW S, IsFiniteSet(S), NEW f, \A x \in S : f[x] \in Int, NEW e \in S
  PROVE  SumFunctionOnSet(f, S) = f[e] + SumFunctionOnSet(f, S \ {e})
<1> DEFINE sum(T) == SumFunctionOnSet(f, T)
           Good   == {T \in SUBSET S : \A x \in T : sum(T) = f[x] + sum(T \ {x})}
<1>0. \A T \in SUBSET S : IsFiniteSet(T) /\ sum(T) \in Int
  BY FS_Subset, SumType
<1>1. ASSUME NEW T \in SUBSET S, \A U \in SUBSET T : U # T => U \in Good
      PROVE  T \in Good
  <2>1. ASSUME NEW x \in T PROVE sum(T) = f[x] + sum(T \ {x})
    <3>1. PICK c \in T : sum(T) = f[c] + sum(T \ {c})
      BY <1>0, SumUnfolds
    <3>2. CASE x # c
      <4>1. sum(T \ {c}) = f[x] + sum((T \ {c}) \ {x})
        BY <1>1, <3>2
      <4>2. sum(T \ {x}) = f[c] + sum((T \ {x}) \ {c})
        BY <1>1, <3>2
      <4>3. (T \ {c}) \ {x} = (T \ {x}) \ {c} /\ (T \ {c}) \ {x} \in SUBSET S
        OBVIOUS
      <4>4. sum(T \ {c}) = f[x] + sum((T \ {x}) \ {c})
        BY <4>1, <4>3
      <4>5. f[c] \in Int /\ f[x] \in Int /\ sum((T \ {x}) \ {c}) \in Int
        BY <1>0, <4>3
      <4> QED BY <3>1, <4>2, <4>4, <4>5, Reordered
    <3> QED BY <3>1, <3>2
  <2> QED BY <2>1
<1> HIDE DEF Good
<1>2. S \in Good
  BY <1>1, SubsetInduction
<1> QED
  BY <1>2 DEF Good

\* Functions that agree on a set have the same sum over it.
LEMMA SumEqual ==
  ASSUME NEW S, IsFiniteSet(S), NEW f, NEW g, \A x \in S : f[x] = g[x] /\ f[x] \in Int
  PROVE  SumFunctionOnSet(f, S) = SumFunctionOnSet(g, S)
<1> DEFINE Good == {T \in SUBSET S : SumFunctionOnSet(f, T) = SumFunctionOnSet(g, T)}
<1>1. ASSUME NEW T \in SUBSET S, \A U \in SUBSET T : U # T => U \in Good
      PROVE  T \in Good
  <2>1. IsFiniteSet(T)
    BY FS_Subset
  <2>2. CASE T = {}
    BY <2>2, SumEmpty
  <2>3. CASE T # {}
    <3>1. PICK x \in T : SumFunctionOnSet(f, T) = f[x] + SumFunctionOnSet(f, T \ {x})
      BY <2>1, <2>3, SumUnfolds
    <3>2. SumFunctionOnSet(g, T) = g[x] + SumFunctionOnSet(g, T \ {x})
      BY <2>1, SumRemoves
    <3>3. SumFunctionOnSet(f, T \ {x}) = SumFunctionOnSet(g, T \ {x})
      BY <1>1
    <3> QED BY <3>1, <3>2, <3>3
  <2> QED BY <2>2, <2>3
<1> HIDE DEF Good
<1>2. S \in Good
  BY <1>1, SubsetInduction
<1> QED
  BY <1>2 DEF Good

\* An element that is not in the set may be put into a sum.
LEMMA SumAdds ==
  ASSUME NEW S, IsFiniteSet(S), NEW f, \A x \in S : f[x] \in Int, NEW e, e \notin S, f[e] \in Int
  PROVE  SumFunctionOnSet(f, S \cup {e}) = f[e] + SumFunctionOnSet(f, S)
<1>1. IsFiniteSet(S \cup {e})
  BY FS_AddElement
<1>2. (S \cup {e}) \ {e} = S
  OBVIOUS
<1>3. \A x \in S \cup {e} : f[x] \in Int
  OBVIOUS
<1>4. e \in S \cup {e}
  OBVIOUS
<1> QED
  BY <1>1, <1>2, <1>3, <1>4, SumRemoves

LEMMA SumSingleton ==
  ASSUME NEW e, NEW f, f[e] \in Int
  PROVE  SumFunctionOnSet(f, {e}) = f[e]
<1>1. e \notin {} /\ (\A x \in {} : f[x] \in Int) /\ IsFiniteSet({})
  BY FS_EmptySet
<1>2. SumFunctionOnSet(f, {} \cup {e}) = f[e] + SumFunctionOnSet(f, {})
  BY <1>1, SumAdds
<1>3. SumFunctionOnSet(f, {}) = 0 /\ {} \cup {e} = {e}
  BY SumEmpty
<1>4. SumFunctionOnSet(f, {e}) = f[e] + 0
  BY <1>2, <1>3
<1> QED
  BY <1>4

\* The sum over two disjoint sets is the sum of their sums.
LEMMA SumSplits ==
  ASSUME NEW S, IsFiniteSet(S), NEW T, IsFiniteSet(T), S \cap T = {},
         NEW f, \A x \in S \cup T : f[x] \in Int
  PROVE  SumFunctionOnSet(f, S \cup T) = SumFunctionOnSet(f, S) + SumFunctionOnSet(f, T)
<1> DEFINE sum(U) == SumFunctionOnSet(f, U)
           Good   == {U \in SUBSET T : sum(S \cup U) = sum(S) + sum(U)}
<1>0. \A U \in SUBSET T : IsFiniteSet(U) /\ IsFiniteSet(S \cup U) /\ sum(U) \in Int
  BY FS_Subset, FS_Union, SumType
<1>1. ASSUME NEW U \in SUBSET T, \A V \in SUBSET U : V # U => V \in Good
      PROVE  U \in Good
  <2>1. sum(S) \in Int
    BY SumType
  <2>2. CASE U = {}
    <3>1. S \cup U = S
      BY <2>2
    <3> QED BY <2>1, <2>2, <3>1, SumEmpty
  <2>3. CASE U # {}
    <3>1. PICK x \in U : TRUE
      BY <2>3
    <3>2. sum(U) = f[x] + sum(U \ {x})
      BY <1>0, SumRemoves
    <3>3. sum(S \cup U) = f[x] + sum((S \cup U) \ {x})
      BY <1>0, SumRemoves
    <3>4. (S \cup U) \ {x} = S \cup (U \ {x})
      OBVIOUS
    <3>5. sum(S \cup (U \ {x})) = sum(S) + sum(U \ {x})
      BY <1>1
    <3>6. f[x] \in Int /\ sum(U \ {x}) \in Int
      BY <1>0
    <3>7. sum(S \cup U) = f[x] + (sum(S) + sum(U \ {x}))
      BY <3>3, <3>4, <3>5
    <3>8. sum(S \cup U) = sum(S) + sum(U)
      BY <2>1, <3>2, <3>6, <3>7, Reordered
    <3> QED BY <3>8
  <2> QED BY <2>2, <2>3
<1> HIDE DEF Good
<1>2. T \in Good
  BY <1>1, SubsetInduction
<1> QED
  BY <1>2 DEF Good

\* Over more naturals the sum is no smaller.
LEMMA SumMonotone ==
  ASSUME NEW S, IsFiniteSet(S), NEW T \in SUBSET S, NEW f, \A x \in S : f[x] \in Nat
  PROVE  SumFunctionOnSet(f, T) <= SumFunctionOnSet(f, S)
<1>1. IsFiniteSet(T) /\ IsFiniteSet(S \ T)
  BY FS_Subset, FS_Difference
<1>2. T \cup (S \ T) = S /\ T \cap (S \ T) = {}
  OBVIOUS
<1>3. SumFunctionOnSet(f, S) = SumFunctionOnSet(f, T) + SumFunctionOnSet(f, S \ T)
  BY <1>1, <1>2, SumSplits
<1>4. SumFunctionOnSet(f, T) \in Nat /\ SumFunctionOnSet(f, S \ T) \in Nat
  BY <1>1, SumType
<1> QED
  BY <1>3, <1>4

LEMMA SumZero ==
  ASSUME NEW S, IsFiniteSet(S), NEW f, \A x \in S : f[x] = 0
  PROVE  SumFunctionOnSet(f, S) = 0
<1> DEFINE Good == {T \in SUBSET S : SumFunctionOnSet(f, T) = 0}
<1>1. ASSUME NEW T \in SUBSET S, \A U \in SUBSET T : U # T => U \in Good
      PROVE  T \in Good
  <2>1. CASE T = {}
    BY <2>1, SumEmpty
  <2>2. CASE T # {}
    <3>1. PICK x \in T : SumFunctionOnSet(f, T) = f[x] + SumFunctionOnSet(f, T \ {x})
      BY <2>2, FS_Subset, SumUnfolds
    <3>2. SumFunctionOnSet(f, T \ {x}) = 0 /\ f[x] = 0
      BY <1>1
    <3> QED BY <3>1, <3>2
  <2> QED BY <2>1, <2>2
<1> HIDE DEF Good
<1>2. S \in Good
  BY <1>1, SubsetInduction
<1> QED
  BY <1>2 DEF Good

\* What is zero may be left out of a sum.
LEMMA SumOfNonZero ==
  ASSUME NEW S, IsFiniteSet(S), NEW T \in SUBSET S, NEW f, \A x \in S : f[x] \in Int,
         \A x \in S \ T : f[x] = 0
  PROVE  SumFunctionOnSet(f, S) = SumFunctionOnSet(f, T)
<1>1. IsFiniteSet(T) /\ IsFiniteSet(S \ T)
  BY FS_Subset, FS_Difference
<1>2. T \cup (S \ T) = S /\ T \cap (S \ T) = {}
  OBVIOUS
<1>3. SumFunctionOnSet(f, S) = SumFunctionOnSet(f, T) + SumFunctionOnSet(f, S \ T)
  BY <1>1, <1>2, SumSplits
<1>4. SumFunctionOnSet(f, S \ T) = 0 /\ SumFunctionOnSet(f, T) \in Int
  BY <1>1, SumZero, SumType
<1> QED
  BY <1>3, <1>4

\* Summing over other names of the same things gives the same sum.
LEMMA SumRenamed ==
  ASSUME NEW S, IsFiniteSet(S), NEW h, \A x, y \in S : h[x] = h[y] => x = y,
         NEW f, \A x \in S : f[h[x]] \in Int, NEW g, \A x \in S : g[x] = f[h[x]]
  PROVE  SumFunctionOnSet(f, {h[x] : x \in S}) = SumFunctionOnSet(g, S)
<1> DEFINE image(T) == {h[x] : x \in T}
           Good     == {T \in SUBSET S : SumFunctionOnSet(f, image(T)) = SumFunctionOnSet(g, T)}
<1>1. ASSUME NEW T \in SUBSET S, \A U \in SUBSET T : U # T => U \in Good
      PROVE  T \in Good
  <2>1. IsFiniteSet(T)
    BY FS_Subset
  <2>2. CASE T = {}
    <3>1. image(T) = {}
      BY <2>2
    <3> HIDE DEF image
    <3> QED BY <2>2, <3>1, SumEmpty DEF image
  <2>3. CASE T # {}
    <3>1. PICK x \in T : SumFunctionOnSet(g, T) = g[x] + SumFunctionOnSet(g, T \ {x})
      BY <2>1, <2>3, SumUnfolds
    <3>2. image(T \ {x}) = image(T) \ {h[x]}
      OBVIOUS
    <3>3. IsFiniteSet(image(T))
      BY <2>1, FiniteImage
    <3>4. h[x] \in image(T) /\ \A y \in image(T) : f[y] \in Int
      OBVIOUS
    <3>5. SumFunctionOnSet(f, image(T)) = f[h[x]] + SumFunctionOnSet(f, image(T) \ {h[x]})
      <4> HIDE DEF image
      <4> QED BY <3>3, <3>4, SumRemoves
    <3>6. SumFunctionOnSet(f, image(T \ {x})) = SumFunctionOnSet(g, T \ {x})
      BY <1>1
    <3> HIDE DEF image
    <3>7. SumFunctionOnSet(f, image(T)) = SumFunctionOnSet(g, T)
      BY <3>1, <3>2, <3>5, <3>6
    <3> QED BY <3>7 DEF image
  <2> QED BY <2>2, <2>3
<1> HIDE DEF Good
<1>2. S \in Good
  BY <1>1, SubsetInduction
<1> QED
  BY <1>2 DEF Good

\* The sum over a union of disjoint sets is the sum of the sums over each.
LEMMA SumOfSums ==
  ASSUME NEW I, IsFiniteSet(I), NEW F, \A i \in I : IsFiniteSet(F[i]),
         \A i, j \in I : i # j => F[i] \cap F[j] = {},
         NEW f, \A i \in I : \A x \in F[i] : f[x] \in Int,
         NEW g, \A i \in I : g[i] = SumFunctionOnSet(f, F[i])
  PROVE  SumFunctionOnSet(f, UNION {F[i] : i \in I}) = SumFunctionOnSet(g, I)
<1> DEFINE all(T) == UNION {F[i] : i \in T}
           Good   == {T \in SUBSET I : SumFunctionOnSet(f, all(T)) = SumFunctionOnSet(g, T)}
<1>1. ASSUME NEW T \in SUBSET I, \A U \in SUBSET T : U # T => U \in Good
      PROVE  T \in Good
  <2>1. IsFiniteSet(T)
    BY FS_Subset
  <2>2. CASE T = {}
    <3>1. all(T) = {}
      BY <2>2
    <3> HIDE DEF all
    <3> QED BY <2>2, <3>1, SumEmpty DEF all
  <2>3. CASE T # {}
    <3>1. PICK i \in T : SumFunctionOnSet(g, T) = g[i] + SumFunctionOnSet(g, T \ {i})
      BY <2>1, <2>3, SumUnfolds
    <3>2. all(T) = F[i] \cup all(T \ {i}) /\ F[i] \cap all(T \ {i}) = {}
      OBVIOUS
    <3>3. SumFunctionOnSet(f, all(T \ {i})) = SumFunctionOnSet(g, T \ {i})
      BY <1>1
    <3>4. \A x \in F[i] \cup all(T \ {i}) : f[x] \in Int
      OBVIOUS
    <3>5. IsFiniteSet(F[i]) /\ IsFiniteSet(all(T \ {i}))
      <4>1. IsFiniteSet(T \ {i}) /\ \A j \in T \ {i} : IsFiniteSet(F[j])
        BY FS_Subset
      <4> QED BY <4>1, FiniteUnion
    <3> DEFINE one  == F[i]
               rest == all(T \ {i})
    <3>6. SumFunctionOnSet(f, one \cup rest)
            = SumFunctionOnSet(f, one) + SumFunctionOnSet(f, rest)
      <4>1. /\ IsFiniteSet(one) /\ IsFiniteSet(rest) /\ one \cap rest = {}
            /\ \A x \in one \cup rest : f[x] \in Int
        BY <3>2, <3>4, <3>5
      <4> HIDE DEF one, rest
      <4> QED BY <4>1, SumSplits
    <3> HIDE DEF all
    <3>7. SumFunctionOnSet(f, all(T)) = SumFunctionOnSet(g, T)
      BY <3>1, <3>2, <3>3, <3>6
    <3> QED BY <3>7 DEF all
  <2> QED BY <2>2, <2>3
<1> HIDE DEF Good
<1>2. I \in Good
  BY <1>1, SubsetInduction
<1> QED
  BY <1>2 DEF Good
=============================================================================
