---------------------------- MODULE SumTheorems ----------------------------
(***************************************************************************)
(* What SumFunctionOnSet returns for every finite set.  The sum is a fold, *)
(* a function defined by recursion over the subsets of the set; each fact  *)
(* is shown for a smallest subset that would be a counterexample, as every *)
(* set of finite subsets has one (WFMin).                                  *)
(***************************************************************************)
EXTENDS Functions, FiniteSets, FiniteSetTheorems, WellFoundedInduction, TLAPS

(* The body of the fold, a solution of its equation, and the chosen one     *)
FoldBody(fun, g, s) ==
  IF s = {} THEN 0
  ELSE LET x == CHOOSE x \in s : TRUE IN fun[x] + g[s \ {x}]

SolvesFold(fun, g, S) == g = [s \in SUBSET S |-> FoldBody(fun, g, s)]

FoldFcn(fun, S) == CHOOSE g : SolvesFold(fun, g, S)

LEMMA SumUnfold == ASSUME NEW fun, NEW S PROVE SumFunctionOnSet(fun, S) = FoldFcn(fun, S)[S]
BY DEF SumFunctionOnSet, FoldFunctionOnSet, MapThenFoldSet, FoldFcn, SolvesFold, FoldBody

(* A set of subsets of a finite set has a smallest one.                     *)
LEMMA SmallestSubset ==
  ASSUME NEW S, IsFiniteSet(S), NEW T, T \subseteq SUBSET S, T # {}
  PROVE  \E x \in T : \A y \in T : y \subseteq x => y = x
<1>1. IsWellFoundedOn(StrictSubsetOrdering(S), SUBSET S)
  BY FS_StrictSubsetOrderingWellFounded, FS_FiniteSubsetsOfFinite
<1>2. PICK x \in T : \A y \in T : ~ (<<y, x>> \in StrictSubsetOrdering(S))
  BY <1>1, WFMin
<1> QED
  BY <1>2 DEF StrictSubsetOrdering

----------------------------------------------------------------------------
(* The fold's equation has one solution *)

LEMMA SolutionsAgree ==
  ASSUME NEW fun, NEW S, IsFiniteSet(S), NEW g, NEW h, SolvesFold(fun, g, S), SolvesFold(fun, h, S)
  PROVE  g = h
<1> DEFINE Differ == {s \in SUBSET S : g[s] # h[s]}
<1>1. Differ = {}
  <2> SUFFICES ASSUME Differ # {} PROVE FALSE
    OBVIOUS
  <2>0. Differ \subseteq SUBSET S
    OBVIOUS
  <2>1. PICK s \in Differ : \A y \in Differ : y \subseteq s => y = s
    <3> HIDE DEF Differ
    <3> QED
      BY <2>0, SmallestSubset
  <2>2. g[s] = FoldBody(fun, g, s) /\ h[s] = FoldBody(fun, h, s)
    BY <2>1 DEF SolvesFold
  <2>3. s # {}
    BY <2>1, <2>2 DEF FoldBody
  <2> DEFINE x == CHOOSE x \in s : TRUE
  <2>4. x \in s
    BY <2>3
  <2> HIDE DEF x
  <2>5. s \ {x} \notin Differ /\ s \ {x} \in SUBSET S
    BY <2>1, <2>4
  <2>6. g[s \ {x}] = h[s \ {x}]
    BY <2>5
  <2> QED
    BY <2>1, <2>2, <2>6 DEF FoldBody, x
<1>2. g = [s \in SUBSET S |-> g[s]] /\ h = [s \in SUBSET S |-> h[s]]
  BY DEF SolvesFold
<1> HIDE DEF Differ
<1>3. \A s \in SUBSET S : g[s] = h[s]
  BY <1>1 DEF Differ
<1> QED
  BY <1>2, <1>3

LEMMA SolutionRestricted ==
  ASSUME NEW fun, NEW S, NEW T \in SUBSET S, NEW g, SolvesFold(fun, g, S)
  PROVE  SolvesFold(fun, [s \in SUBSET T |-> g[s]], T)
<1> DEFINE h == [s \in SUBSET T |-> g[s]]
<1>1. ASSUME NEW s \in SUBSET T PROVE h[s] = FoldBody(fun, h, s)
  <2>1. g[s] = FoldBody(fun, g, s)
    BY DEF SolvesFold
  <2>2. \A x : h[s \ {x}] = g[s \ {x}]
    OBVIOUS
  <2> HIDE DEF h
  <2>3. FoldBody(fun, h, s) = FoldBody(fun, g, s)
    <3> DEFINE x == CHOOSE x \in s : TRUE
    <3>1. h[s \ {x}] = g[s \ {x}]
      BY <2>2
    <3> QED
      BY <3>1 DEF FoldBody
  <2>4. h[s] = g[s]
    BY DEF h
  <2> QED
    BY <2>1, <2>3, <2>4
<1> HIDE DEF h
<1>2. h = [s \in SUBSET T |-> h[s]]
  BY DEF h
<1>3. h = [s \in SUBSET T |-> FoldBody(fun, h, s)]
  BY <1>1, <1>2
<1> QED
  BY <1>3 DEF SolvesFold, h

LEMMA SolutionsNested ==
  ASSUME NEW fun, NEW S, IsFiniteSet(S), NEW T \in SUBSET S,
         SolvesFold(fun, FoldFcn(fun, S), S)
  PROVE  SolvesFold(fun, FoldFcn(fun, T), T) /\ FoldFcn(fun, S)[T] = FoldFcn(fun, T)[T]
<1> DEFINE h == [s \in SUBSET T |-> FoldFcn(fun, S)[s]]
<1>1. SolvesFold(fun, h, T)
  BY SolutionRestricted
<1>2. SolvesFold(fun, FoldFcn(fun, T), T)
  BY <1>1 DEF FoldFcn
<1>3. IsFiniteSet(T)
  BY FS_Subset
<1>4. h = FoldFcn(fun, T)
  BY <1>1, <1>2, <1>3, SolutionsAgree
<1>5. h[T] = FoldFcn(fun, S)[T]
  OBVIOUS
<1> HIDE DEF h
<1> QED
  BY <1>2, <1>4, <1>5

LEMMA SolutionExists ==
  ASSUME NEW fun, NEW S, IsFiniteSet(S)
  PROVE  SolvesFold(fun, FoldFcn(fun, S), S)
<1> DEFINE Bad == {T \in SUBSET S : ~SolvesFold(fun, FoldFcn(fun, T), T)}
<1> SUFFICES ASSUME Bad # {} PROVE FALSE
  OBVIOUS
<1>0. Bad \subseteq SUBSET S
  OBVIOUS
<1>1. PICK U \in Bad : \A y \in Bad : y \subseteq U => y = U
  <2> HIDE DEF Bad
  <2> QED
    BY <1>0, SmallestSubset
<1>2. U \in SUBSET S /\ ~SolvesFold(fun, FoldFcn(fun, U), U)
  BY <1>1
<1>3. ASSUME NEW V \in SUBSET U, V # U
      PROVE  SolvesFold(fun, FoldFcn(fun, V), V)
  BY <1>1, <1>2, <1>3
<1> DEFINE v == [V \in SUBSET U |-> FoldFcn(fun, V)[V]]
           h == [s \in SUBSET U |-> FoldBody(fun, v, s)]
<1>4. ASSUME NEW V \in SUBSET U, V # U
      PROVE  h[V] = v[V]
  <2>1. SolvesFold(fun, FoldFcn(fun, V), V)
    BY <1>3, <1>4
  <2>2. FoldFcn(fun, V)[V] = FoldBody(fun, FoldFcn(fun, V), V)
    BY <2>1 DEF SolvesFold
  <2>3. IsFiniteSet(V)
    BY <1>2, FS_Subset
  <2>4. ASSUME NEW W \in SUBSET V PROVE FoldFcn(fun, V)[W] = v[W]
    BY <2>1, <2>3, SolutionsNested
  <2> HIDE DEF v
  <2>5. FoldBody(fun, FoldFcn(fun, V), V) = FoldBody(fun, v, V)
    BY <2>4 DEF FoldBody
  <2>6. v[V] = FoldFcn(fun, V)[V]
    BY DEF v
  <2> QED
    BY <2>2, <2>5, <2>6
<1> HIDE DEF v
<1>5. ASSUME NEW s \in SUBSET U PROVE h[s] = FoldBody(fun, h, s)
  <2>1. CASE s = {}
    BY <2>1 DEF FoldBody
  <2>2. CASE s # {}
    <3> DEFINE x == CHOOSE x \in s : TRUE
    <3>1. x \in s
      BY <2>2
    <3>2. h[s] = fun[x] + v[s \ {x}]
      BY <2>2 DEF FoldBody
    <3> HIDE DEF x, h
    <3>3. s \ {x} \in SUBSET U /\ s \ {x} # U
      BY <3>1
    <3>4. h[s \ {x}] = v[s \ {x}]
      BY <3>3, <1>4
    <3> QED
      BY <2>2, <3>2, <3>4 DEF FoldBody, x
  <2> QED
    BY <2>1, <2>2
<1>6. h = [s \in SUBSET U |-> h[s]]
  OBVIOUS
<1> HIDE DEF h
<1>7. SolvesFold(fun, h, U)
  BY <1>5, <1>6 DEF SolvesFold
<1>8. SolvesFold(fun, FoldFcn(fun, U), U)
  BY <1>7 DEF FoldFcn
<1> QED
  BY <1>2, <1>8

----------------------------------------------------------------------------
(* What a sum is *)

LEMMA SumEmpty == ASSUME NEW fun PROVE SumFunctionOnSet(fun, {}) = 0
<1>1. SolvesFold(fun, FoldFcn(fun, {}), {})
  BY SolutionExists, FS_EmptySet
<1>2. FoldFcn(fun, {})[{}] = FoldBody(fun, FoldFcn(fun, {}), {})
  BY <1>1 DEF SolvesFold
<1> QED
  BY <1>2, SumUnfold DEF FoldBody

LEMMA SumChosen ==
  ASSUME NEW fun, NEW S, IsFiniteSet(S), S # {}
  PROVE  \E x \in S : SumFunctionOnSet(fun, S) = fun[x] + SumFunctionOnSet(fun, S \ {x})
<1> DEFINE x == CHOOSE x \in S : TRUE
<1>1. x \in S
  OBVIOUS
<1>2. SolvesFold(fun, FoldFcn(fun, S), S)
  BY SolutionExists
<1>3. FoldFcn(fun, S)[S] = FoldBody(fun, FoldFcn(fun, S), S)
  BY <1>2 DEF SolvesFold
<1>4. FoldBody(fun, FoldFcn(fun, S), S) = fun[x] + FoldFcn(fun, S)[S \ {x}]
  BY DEF FoldBody
<1> HIDE DEF x
<1>5. FoldFcn(fun, S)[S \ {x}] = FoldFcn(fun, S \ {x})[S \ {x}]
  BY <1>2, SolutionsNested
<1> QED
  BY <1>1, <1>3, <1>4, <1>5, SumUnfold

(* A sum of integers is an integer, a sum of naturals a natural.            *)
LEMMA SumType ==
  ASSUME NEW fun, NEW S, IsFiniteSet(S), \A x \in S : fun[x] \in Int
  PROVE  /\ SumFunctionOnSet(fun, S) \in Int
         /\ (\A x \in S : fun[x] >= 0) => SumFunctionOnSet(fun, S) >= 0
<1> DEFINE Typed(T) == /\ SumFunctionOnSet(fun, T) \in Int
                       /\ (\A x \in S : fun[x] >= 0) => SumFunctionOnSet(fun, T) >= 0
           Bad == {T \in SUBSET S : ~Typed(T)}
<1> SUFFICES ASSUME Bad # {} PROVE FALSE
  OBVIOUS
<1>1. PICK U \in Bad : \A y \in Bad : y \subseteq U => y = U
  <2>1. Bad \subseteq SUBSET S
    OBVIOUS
  <2> HIDE DEF Bad
  <2> QED
    BY <2>1, SmallestSubset
<1>2. U \in SUBSET S /\ ~Typed(U) /\ IsFiniteSet(U)
  BY <1>1, FS_Subset
<1>3. U # {}
  BY <1>2, SumEmpty
<1>4. PICK x \in U : SumFunctionOnSet(fun, U) = fun[x] + SumFunctionOnSet(fun, U \ {x})
  BY <1>2, <1>3, SumChosen
<1>5. U \ {x} \in SUBSET S /\ U \ {x} \subseteq U /\ U \ {x} # U
  BY <1>2
<1>6. Typed(U \ {x})
  <2>1. U \ {x} \notin Bad
    BY <1>1, <1>5
  <2> QED
    BY <2>1, <1>5
<1> QED
  BY <1>2, <1>4, <1>6

(* Any element may be taken out first.                                      *)
LEMMA SumStep ==
  ASSUME NEW fun, NEW S, IsFiniteSet(S), \A x \in S : fun[x] \in Int, NEW a \in S
  PROVE  SumFunctionOnSet(fun, S) = fun[a] + SumFunctionOnSet(fun, S \ {a})
<1> DEFINE Good(T) == \A x \in T : SumFunctionOnSet(fun, T) = fun[x] + SumFunctionOnSet(fun, T \ {x})
           Bad == {T \in SUBSET S : ~Good(T)}
<1> SUFFICES ASSUME Bad # {} PROVE FALSE
  OBVIOUS
<1>1. PICK U \in Bad : \A y \in Bad : y \subseteq U => y = U
  <2>1. Bad \subseteq SUBSET S
    OBVIOUS
  <2> HIDE DEF Bad
  <2> QED
    BY <2>1, SmallestSubset
<1>2. U \in SUBSET S /\ ~Good(U) /\ IsFiniteSet(U)
  BY <1>1, FS_Subset
<1>3. \A V \in SUBSET U : V # U => Good(V)
  BY <1>1, <1>2
<1>4. PICK x \in U : SumFunctionOnSet(fun, U) # fun[x] + SumFunctionOnSet(fun, U \ {x})
  BY <1>2
<1>5. PICK c \in U : SumFunctionOnSet(fun, U) = fun[c] + SumFunctionOnSet(fun, U \ {c})
  BY <1>2, <1>4, SumChosen
<1>6. c # x
  BY <1>4, <1>5
<1> DEFINE rest == SumFunctionOnSet(fun, (U \ {x}) \ {c})
<1>7. SumFunctionOnSet(fun, U \ {c}) = fun[x] + rest
  <2>1. U \ {c} \in SUBSET U /\ U \ {c} # U /\ x \in U \ {c}
    BY <1>6
  <2>2. SumFunctionOnSet(fun, U \ {c}) = fun[x] + SumFunctionOnSet(fun, (U \ {c}) \ {x})
    <3> HIDE DEF Bad
    <3> QED
      BY <2>1, <1>3
  <2>3. (U \ {c}) \ {x} = (U \ {x}) \ {c}
    OBVIOUS
  <2> QED
    BY <2>2, <2>3, Zenon
<1>8. SumFunctionOnSet(fun, U \ {x}) = fun[c] + rest
  <2>1. U \ {x} \in SUBSET U /\ U \ {x} # U /\ c \in U \ {x}
    BY <1>6
  <2> HIDE DEF Bad
  <2> QED
    BY <2>1, <1>3
<1>9. fun[x] \in Int /\ fun[c] \in Int /\ rest \in Int
  <2>1. IsFiniteSet((U \ {x}) \ {c})
    BY <1>2, FS_RemoveElement
  <2>2. \A y \in (U \ {x}) \ {c} : fun[y] \in Int
    BY <1>2
  <2> QED
    BY <1>2, <2>1, <2>2, SumType
<1> HIDE DEF Bad, Good, rest
<1> QED
  BY <1>4, <1>5, <1>7, <1>8, <1>9

(* A sum is the sum over a part and over the rest.                          *)
LEMMA SumSplit ==
  ASSUME NEW fun, NEW S, IsFiniteSet(S), \A x \in S : fun[x] \in Int, NEW P \in SUBSET S
  PROVE  SumFunctionOnSet(fun, S) = SumFunctionOnSet(fun, P) + SumFunctionOnSet(fun, S \ P)
<1> DEFINE Good(T) == SumFunctionOnSet(fun, S) = SumFunctionOnSet(fun, T) + SumFunctionOnSet(fun, S \ T)
           Bad == {T \in SUBSET S : ~Good(T)}
<1> SUFFICES ASSUME Bad # {} PROVE FALSE
  OBVIOUS
<1>1. PICK U \in Bad : \A y \in Bad : y \subseteq U => y = U
  <2>1. Bad \subseteq SUBSET S
    OBVIOUS
  <2> HIDE DEF Bad
  <2> QED
    BY <2>1, SmallestSubset
<1>2. U \in SUBSET S /\ ~Good(U) /\ IsFiniteSet(U)
  BY <1>1, FS_Subset
<1>3. SumFunctionOnSet(fun, S) \in Int
  BY SumType
<1>4. PICK x \in U : TRUE
  <2>1. S \ {} = S
    OBVIOUS
  <2>2. Good({})
    BY <2>1, <1>3, SumEmpty
  <2> QED
    BY <2>2, <1>2
<1> DEFINE V == U \ {x}
<1>5. V \in SUBSET S /\ V \subseteq U /\ V # U
  BY <1>2, <1>4
<1>6. Good(V)
  <2>1. V \notin Bad
    BY <1>1, <1>5
  <2> QED
    BY <2>1, <1>5
<1>7. SumFunctionOnSet(fun, U) = fun[x] + SumFunctionOnSet(fun, V)
  BY <1>2, SumStep
<1>8. SumFunctionOnSet(fun, S \ V) = fun[x] + SumFunctionOnSet(fun, S \ U)
  <2>1. IsFiniteSet(S \ V) /\ x \in S \ V /\ (S \ V) \ {x} = S \ U
    BY <1>2, FS_Subset
  <2>2. \A y \in S \ V : fun[y] \in Int
    OBVIOUS
  <2> HIDE DEF V
  <2> QED
    BY <2>1, <2>2, SumStep
<1>9. /\ fun[x] \in Int /\ SumFunctionOnSet(fun, V) \in Int
      /\ SumFunctionOnSet(fun, S \ U) \in Int
  <2>1. IsFiniteSet(V) /\ IsFiniteSet(S \ U)
    BY <1>5, FS_Subset
  <2>2. \A y \in V : fun[y] \in Int
    BY <1>5
  <2>3. \A y \in S \ U : fun[y] \in Int
    OBVIOUS
  <2> HIDE DEF V
  <2> QED
    BY <1>2, <2>1, <2>2, <2>3, SumType
<1> HIDE DEF V
<1> QED
  BY <1>2, <1>6, <1>7, <1>8, <1>9

(* Equal values, equal sums.                                                *)
LEMMA SumSame ==
  ASSUME NEW f, NEW g, NEW S, IsFiniteSet(S), \A x \in S : f[x] = g[x] /\ f[x] \in Int
  PROVE  SumFunctionOnSet(f, S) = SumFunctionOnSet(g, S)
<1> DEFINE Good(T) == SumFunctionOnSet(f, T) = SumFunctionOnSet(g, T)
           Bad == {T \in SUBSET S : ~Good(T)}
<1> SUFFICES ASSUME Bad # {} PROVE FALSE
  OBVIOUS
<1>1. PICK U \in Bad : \A y \in Bad : y \subseteq U => y = U
  <2>1. Bad \subseteq SUBSET S
    OBVIOUS
  <2> HIDE DEF Bad
  <2> QED
    BY <2>1, SmallestSubset
<1>2. U \in SUBSET S /\ ~Good(U) /\ IsFiniteSet(U)
  BY <1>1, FS_Subset
<1>3. PICK x \in U : TRUE
  BY <1>2, SumEmpty
<1>4. Good(U \ {x})
  <2>1. U \ {x} \in SUBSET S /\ U \ {x} \subseteq U /\ U \ {x} # U
    BY <1>2, <1>3
  <2>2. U \ {x} \notin Bad
    BY <1>1, <2>1
  <2> QED
    BY <2>1, <2>2
<1>5. SumFunctionOnSet(f, U) = f[x] + SumFunctionOnSet(f, U \ {x})
  BY <1>2, SumStep
<1>6. SumFunctionOnSet(g, U) = g[x] + SumFunctionOnSet(g, U \ {x})
  <2>1. \A y \in U : g[y] \in Int
    BY <1>2
  <2> HIDE DEF Bad
  <2> QED
    BY <1>2, <2>1, SumStep
<1>7. f[x] = g[x]
  BY <1>2
<1> QED
  BY <1>2, <1>4, <1>5, <1>6, <1>7

(* A part of naturals sums to no more than the whole, and to the whole only *)
(* when nothing but zeroes is left out.                                     *)
LEMMA SumOfPart ==
  ASSUME NEW fun, NEW S, IsFiniteSet(S), \A x \in S : fun[x] \in Nat, NEW P \in SUBSET S
  PROVE  /\ SumFunctionOnSet(fun, S) \in Nat /\ SumFunctionOnSet(fun, P) \in Nat
         /\ SumFunctionOnSet(fun, P) <= SumFunctionOnSet(fun, S)
         /\ SumFunctionOnSet(fun, P) = SumFunctionOnSet(fun, S) => \A x \in S \ P : fun[x] = 0
<1>1. IsFiniteSet(P) /\ IsFiniteSet(S \ P)
  BY FS_Subset
<1>2. SumFunctionOnSet(fun, S) \in Nat
  BY SumType
<1>3. SumFunctionOnSet(fun, P) \in Nat
  <2>1. \A x \in P : fun[x] \in Int /\ fun[x] >= 0
    OBVIOUS
  <2> QED
    BY <1>1, <2>1, SumType
<1>4. SumFunctionOnSet(fun, S \ P) \in Nat
  <2>1. \A x \in S \ P : fun[x] \in Int /\ fun[x] >= 0
    OBVIOUS
  <2> QED
    BY <1>1, <2>1, SumType
<1>5. SumFunctionOnSet(fun, S) = SumFunctionOnSet(fun, P) + SumFunctionOnSet(fun, S \ P)
  BY SumSplit
<1>6. ASSUME SumFunctionOnSet(fun, P) = SumFunctionOnSet(fun, S), NEW x \in S \ P
      PROVE  fun[x] = 0
  <2> DEFINE R == S \ P
  <2>1. SumFunctionOnSet(fun, R) = 0
    BY <1>3, <1>4, <1>5, <1>6
  <2>2. IsFiniteSet(R) /\ x \in R /\ (\A y \in R : fun[y] \in Int)
    BY <1>1
  <2>3. IsFiniteSet(R \ {x}) /\ \A y \in R \ {x} : fun[y] \in Int /\ fun[y] >= 0
    BY <2>2, FS_RemoveElement
  <2>4. fun[x] \in Nat
    OBVIOUS
  <2> HIDE DEF R
  <2>5. SumFunctionOnSet(fun, R) = fun[x] + SumFunctionOnSet(fun, R \ {x})
    BY <2>2, SumStep
  <2>6. SumFunctionOnSet(fun, R \ {x}) \in Nat
    BY <2>3, SumType
  <2> QED
    BY <2>1, <2>4, <2>5, <2>6
<1> QED
  BY <1>2, <1>3, <1>4, <1>5, <1>6

(* Leaving out zeroes does not change a sum.                                *)
LEMMA SumOfZeroes ==
  ASSUME NEW fun, NEW S, IsFiniteSet(S), \A x \in S : fun[x] = 0
  PROVE  SumFunctionOnSet(fun, S) = 0
<1> DEFINE Bad == {T \in SUBSET S : SumFunctionOnSet(fun, T) # 0}
<1> SUFFICES ASSUME Bad # {} PROVE FALSE
  OBVIOUS
<1>1. PICK U \in Bad : \A y \in Bad : y \subseteq U => y = U
  <2>1. Bad \subseteq SUBSET S
    OBVIOUS
  <2> HIDE DEF Bad
  <2> QED
    BY <2>1, SmallestSubset
<1>2. U \in SUBSET S /\ SumFunctionOnSet(fun, U) # 0 /\ IsFiniteSet(U)
  BY <1>1, FS_Subset
<1>3. PICK x \in U : SumFunctionOnSet(fun, U) = fun[x] + SumFunctionOnSet(fun, U \ {x})
  BY <1>2, SumEmpty, SumChosen
<1>4. SumFunctionOnSet(fun, U \ {x}) = 0
  <2>1. U \ {x} \in SUBSET S /\ U \ {x} \subseteq U /\ U \ {x} # U
    BY <1>2
  <2>2. U \ {x} \notin Bad
    BY <1>1, <2>1
  <2> QED
    BY <2>1, <2>2
<1>5. fun[x] = 0
  BY <1>2
<1> QED
  BY <1>2, <1>3, <1>4, <1>5

LEMMA SumWithoutZeroes ==
  ASSUME NEW fun, NEW S, IsFiniteSet(S), \A x \in S : fun[x] \in Nat,
         NEW P \in SUBSET S, \A x \in S \ P : fun[x] = 0
  PROVE  SumFunctionOnSet(fun, P) = SumFunctionOnSet(fun, S)
<1>1. SumFunctionOnSet(fun, S) = SumFunctionOnSet(fun, P) + SumFunctionOnSet(fun, S \ P)
  BY SumSplit
<1>2. SumFunctionOnSet(fun, S \ P) = 0
  <2>1. IsFiniteSet(S \ P)
    BY FS_Subset
  <2> QED
    BY <2>1, SumOfZeroes
<1>3. SumFunctionOnSet(fun, P) \in Nat
  BY SumOfPart
<1> QED
  BY <1>1, <1>2, <1>3
=============================================================================
