----------------------------- MODULE SumTheorems -----------------------------
(* Induction over numbers and finite sets by a least counterexample, and   *)
(* what it proves of the sums of the community module Functions: the order *)
(* in which a sum takes its summands does not matter.                      *)
EXTENDS Integers, Functions, FiniteSetTheorems, WellFoundedInduction, TLAPS

\* Every set of natural numbers has a least element.
LEMMA LeastElement ==
  ASSUME NEW T, T \subseteq Nat, T # {}
  PROVE  \E x \in T : \A y \in T : x <= y
<1> DEFINE R == {ss \in Nat \X Nat : ss[1] < ss[2]}
<1>1. OpToRel(<, Nat) = R
  BY DEF OpToRel
<1>2. IsWellFoundedOn(R, Nat)
  BY <1>1, NatLessThanWellFounded
<1>3. \E x \in T : \A y \in T : ~ (<<y, x>> \in R)
  <2> HIDE DEF R
  <2> QED
    BY <1>2, WFMin
<1>4. PICK x \in T : \A y \in T : ~ (<<y, x>> \in R)
  BY <1>3
<1>5. ASSUME NEW y \in T PROVE x <= y
  <2>1. x \in Nat /\ y \in Nat
    OBVIOUS
  <2>2. y < x => <<y, x>> \in R
    BY <2>1
  <2> QED
    BY <1>4, <2>1, <2>2
<1> QED
  BY <1>5

\* Among finite sets there is one from which no element can be taken.
LEMMA MinimalSet ==
  ASSUME NEW F, F # {}, \A s \in F : IsFiniteSet(s)
  PROVE  \E s \in F : \A x \in s : s \ {x} \notin F
<1> DEFINE Sizes == {Cardinality(s) : s \in F}
<1>1. \A s \in F : Cardinality(s) \in Nat
  BY FS_CardinalityType
<1>2. PICK n \in Sizes : \A m \in Sizes : n <= m
  <2>1. Sizes \subseteq Nat /\ Sizes # {}
    BY <1>1
  <2> HIDE DEF Sizes
  <2> QED
    BY <2>1, LeastElement
<1>3. PICK s \in F : n = Cardinality(s)
  OBVIOUS
<1>4. ASSUME NEW x \in s, s \ {x} \in F PROVE FALSE
  <2>1. Cardinality(s) <= Cardinality(s \ {x})
    BY <1>2, <1>3, <1>4
  <2>2. Cardinality(s \ {x}) = Cardinality(s) - 1
    BY FS_RemoveElement
  <2> QED
    BY <1>1, <2>1, <2>2
<1> QED
  BY <1>4

\* Every finite set of natural numbers has a greatest element.
LEMMA GreatestElement ==
  ASSUME NEW T, T \subseteq Nat, IsFiniteSet(T), T # {}
  PROVE  \E x \in T : \A y \in T : y <= x
<1> DEFINE Has(s) == \E x \in s : \A y \in s : y <= x
           Without == {s \in SUBSET T : s # {} /\ ~ Has(s)}
<1>1. Without = {}
  <2> SUFFICES ASSUME Without # {} PROVE FALSE
    OBVIOUS
  <2>1. PICK s \in Without : \A x \in s : s \ {x} \notin Without
    <3>1. \A s \in Without : IsFiniteSet(s)
      BY FS_Subset
    <3> HIDE DEF Without
    <3> QED
      BY <3>1, MinimalSet
  <2>2. s \in SUBSET T /\ s # {} /\ ~ Has(s)
    OBVIOUS
  <2>3. PICK x \in s : TRUE
    BY <2>2
  <2>4. PICK u : u = s \ {x}
    OBVIOUS
  <2>5. u \in SUBSET T /\ u \notin Without
    BY <2>1, <2>2, <2>4
  <2>6. CASE u = {}
    <3>1. \A y \in s : y = x
      BY <2>4, <2>6
    <3> QED
      BY <2>2, <2>3, <3>1
  <2>7. CASE u # {}
    <3>1. PICK z \in u : \A y \in u : y <= z
      BY <2>5, <2>7
    <3>2. x \in Nat /\ z \in Nat /\ z \in s /\ \A y \in s : y \in Nat /\ (y = x \/ y <= z)
      BY <2>2, <2>4, <3>1
    <3>3. (\A y \in s : y <= x) \/ (\A y \in s : y <= z)
      BY <3>2
    <3> QED
      BY <2>2, <3>2, <3>3
  <2> QED
    BY <2>6, <2>7
<1>2. T \notin Without
  BY <1>1
<1> QED
  BY <1>2

-----------------------------------------------------------------------------
(* The recursion behind a sum has a solution.                              *)

Pick(s) == CHOOSE x \in s : TRUE
SumStep(W, f, s) == IF s = {} THEN 0 ELSE W[Pick(s)] + f[s \ {Pick(s)}]

LEMMA PickIn == \A s : s # {} => Pick(s) \in s
  BY DEF Pick

Solves(W, dom, f) == f = [s \in dom |-> SumStep(W, f, s)]
Sums(W, S, f) == Solves(W, SUBSET S, f)

LEMMA SumIs ==
  ASSUME NEW W, NEW S
  PROVE  SumFunctionOnSet(W, S) = (CHOOSE f : Sums(W, S, f))[S]
  BY DEF SumFunctionOnSet, FoldFunctionOnSet, MapThenFoldSet, Sums, Solves, SumStep, Pick

UpTo(S, n) == {s \in SUBSET S : Cardinality(s) <= n}

LEMMA SumSolution ==
  ASSUME NEW W, NEW S, IsFiniteSet(S)
  PROVE  \E f : Sums(W, S, f)
<1>1. \A s \in SUBSET S : IsFiniteSet(s) /\ Cardinality(s) \in Nat
  BY FS_Subset, FS_CardinalityType
<1> DEFINE Unsolved == {n \in Nat : ~ \E f : Solves(W, UpTo(S, n), f)}
<1>2. Unsolved = {}
  <2> SUFFICES ASSUME Unsolved # {} PROVE FALSE
    OBVIOUS
  <2>1. PICK n \in Unsolved : \A m \in Unsolved : n <= m
    <3>1. Unsolved \subseteq Nat
      OBVIOUS
    <3> HIDE DEF Unsolved
    <3> QED
      BY <3>1, LeastElement
  <2>2. n \in Nat /\ ~ \E f : Solves(W, UpTo(S, n), f)
    OBVIOUS
  <2>3. \A s \in SUBSET S : s # {} => /\ Pick(s) \in s /\ s \ {Pick(s)} \in SUBSET S
                                      /\ Cardinality(s \ {Pick(s)}) = Cardinality(s) - 1
    BY <1>1, PickIn, FS_RemoveElement
  <2>4. CASE n = 0
    <3> DEFINE f == [s \in UpTo(S, n) |-> 0]
    <3>1. \A s \in UpTo(S, n) : s = {}
      BY <1>1, <2>4, FS_EmptySet DEF UpTo
    <3>2. Solves(W, UpTo(S, n), f)
      BY <3>1 DEF Solves, SumStep
    <3> QED
      BY <2>2, <3>2
  <2>5. CASE n # 0
    <3>1. n - 1 \in Nat /\ n - 1 \notin Unsolved
      <4>1. n - 1 \in Nat /\ ~ (n <= n - 1)
        BY <2>2, <2>5
      <4> HIDE DEF Unsolved
      <4> QED
        BY <2>1, <4>1
    <3>2. PICK f : Solves(W, UpTo(S, n - 1), f)
      BY <3>1
    <3> DEFINE g == [s \in UpTo(S, n) |-> SumStep(W, f, s)]
    <3>3. \A s \in UpTo(S, n) : s # {} => s \ {Pick(s)} \in UpTo(S, n - 1) /\ s \ {Pick(s)} \in UpTo(S, n)
      BY <1>1, <2>2, <2>3 DEF UpTo
    <3>4. \A s \in UpTo(S, n - 1) : f[s] = SumStep(W, f, s)
      BY <3>2 DEF Solves
    <3>5. \A s \in UpTo(S, n) : SumStep(W, g, s) = SumStep(W, f, s)
      <4> SUFFICES ASSUME NEW s \in UpTo(S, n), s # {}
                   PROVE  g[s \ {Pick(s)}] = f[s \ {Pick(s)}]
        <5> HIDE DEF g
        <5> QED
          BY DEF SumStep
      <4>1. PICK t : t = s \ {Pick(s)}
        OBVIOUS
      <4>2. t \in UpTo(S, n - 1) /\ t \in UpTo(S, n)
        BY <3>3, <4>1
      <4>3. g[t] = SumStep(W, f, t)
        BY <4>2
      <4>4. f[t] = SumStep(W, f, t)
        BY <3>4, <4>2
      <4> HIDE DEF g
      <4> QED
        BY <4>1, <4>3, <4>4
    <3>6. Solves(W, UpTo(S, n), g)
      <4>1. \A s \in UpTo(S, n) : g[s] = SumStep(W, g, s)
        BY <3>5
      <4> QED
        BY <3>5 DEF Solves
    <3> QED
      BY <2>2, <3>6
  <2> QED
    BY <2>4, <2>5
<1>3. Cardinality(S) \in Nat /\ UpTo(S, Cardinality(S)) = SUBSET S
  <2>1. \A s \in SUBSET S : Cardinality(s) <= Cardinality(S)
    BY FS_Subset
  <2> QED
    BY <1>1, <2>1 DEF UpTo
<1>4. PICK n \in Nat : n = Cardinality(S)
  BY <1>3
<1>5. n \notin Unsolved
  BY <1>2
<1>6. \E f : Solves(W, UpTo(S, n), f)
  BY <1>5
<1> QED
  BY <1>3, <1>4, <1>6 DEF Sums

-----------------------------------------------------------------------------
(* Sums of natural numbers                                                 *)

\* Two solutions agree where both are defined.
LEMMA SolutionsAgree ==
  ASSUME NEW W, NEW S, NEW T, IsFiniteSet(S), S \subseteq T,
         NEW f, Sums(W, S, f), NEW g, Sums(W, T, g)
  PROVE  f[S] = g[S]
<1> DEFINE Differ == {s \in SUBSET S : f[s] # g[s]}
<1>1. \A s \in SUBSET S : f[s] = SumStep(W, f, s) /\ g[s] = SumStep(W, g, s)
  BY DEF Sums, Solves
<1>2. Differ = {}
  <2> SUFFICES ASSUME Differ # {} PROVE FALSE
    OBVIOUS
  <2>1. \A s \in Differ : IsFiniteSet(s)
    BY FS_Subset
  <2>2. PICK s \in Differ : \A x \in s : s \ {x} \notin Differ
    <3> HIDE DEF Differ
    <3> QED
      BY <2>1, MinimalSet
  <2>3. s \in SUBSET S /\ f[s] # g[s]
    OBVIOUS
  <2>4. CASE s = {}
    BY <1>1, <2>3, <2>4 DEF SumStep
  <2>5. CASE s # {}
    <3>1. Pick(s) \in s
      BY <2>5, PickIn
    <3>2. s \ {Pick(s)} \in SUBSET S /\ s \ {Pick(s)} \notin Differ
      BY <2>2, <2>3, <3>1
    <3>3. f[s \ {Pick(s)}] = g[s \ {Pick(s)}]
      BY <3>2
    <3>4. SumStep(W, f, s) = SumStep(W, g, s)
      BY <3>3 DEF SumStep
    <3> QED
      BY <1>1, <2>3, <3>4
  <2> QED
    BY <2>4, <2>5
<1>3. S \notin Differ
  BY <1>2
<1> QED
  BY <1>3

LEMMA SumOfSolution ==
  ASSUME NEW W, NEW S, NEW T, IsFiniteSet(S), S \subseteq T, NEW g, Sums(W, T, g)
  PROVE  SumFunctionOnSet(W, S) = g[S]
<1>1. PICK f : f = CHOOSE h : Sums(W, S, h)
  OBVIOUS
<1>2. Sums(W, S, f)
  BY <1>1, SumSolution
<1>3. SumFunctionOnSet(W, S) = f[S]
  BY <1>1, SumIs
<1>4. f[S] = g[S]
  BY <1>2, SolutionsAgree
<1> QED
  BY <1>3, <1>4

LEMMA SumEmpty ==
  ASSUME NEW W
  PROVE  SumFunctionOnSet(W, {}) = 0
<1>1. PICK g : Sums(W, {}, g)
  BY SumSolution, FS_EmptySet
<1>2. SumFunctionOnSet(W, {}) = g[{}]
  BY <1>1, SumOfSolution, FS_EmptySet
<1> QED
  BY <1>1, <1>2 DEF Sums, Solves, SumStep

\* One summand is taken out: the one the definition happens to choose.
LEMMA SumPick ==
  ASSUME NEW W, NEW S, IsFiniteSet(S), S # {}
  PROVE  SumFunctionOnSet(W, S) = W[Pick(S)] + SumFunctionOnSet(W, S \ {Pick(S)})
<1>1. PICK g : Sums(W, S, g)
  BY SumSolution
<1>2. PICK t : t = S \ {Pick(S)}
  OBVIOUS
<1>3. IsFiniteSet(t) /\ t \subseteq S /\ S \subseteq S
  BY <1>2, FS_Subset
<1>4. SumFunctionOnSet(W, S) = g[S] /\ SumFunctionOnSet(W, t) = g[t]
  BY <1>1, <1>3, SumOfSolution
<1>5. g[S] = SumStep(W, g, S)
  BY <1>1, <1>3 DEF Sums, Solves
<1>6. g[S] = W[Pick(S)] + g[t]
  BY <1>2, <1>5 DEF SumStep
<1> QED
  BY <1>2, <1>4, <1>6

LEMMA SumNat ==
  ASSUME NEW W, NEW S, IsFiniteSet(S), \A x \in S : W[x] \in Nat
  PROVE  SumFunctionOnSet(W, S) \in Nat
<1> DEFINE Wrong == {s \in SUBSET S : SumFunctionOnSet(W, s) \notin Nat}
<1>1. Wrong = {}
  <2> SUFFICES ASSUME Wrong # {} PROVE FALSE
    OBVIOUS
  <2>1. \A s \in Wrong : IsFiniteSet(s)
    BY FS_Subset
  <2>2. PICK s \in Wrong : \A x \in s : s \ {x} \notin Wrong
    <3> HIDE DEF Wrong
    <3> QED
      BY <2>1, MinimalSet
  <2>3. s \in SUBSET S /\ SumFunctionOnSet(W, s) \notin Nat /\ IsFiniteSet(s)
    BY <2>1
  <2>4. s # {}
    BY <2>3, SumEmpty
  <2>5. Pick(s) \in s /\ s \ {Pick(s)} \in SUBSET S
    BY <2>3, <2>4, PickIn
  <2>6. SumFunctionOnSet(W, s \ {Pick(s)}) \in Nat
    BY <2>2, <2>5
  <2>7. W[Pick(s)] \in Nat
    BY <2>3, <2>5
  <2> QED
    BY <2>3, <2>4, <2>6, <2>7, SumPick
<1>2. S \notin Wrong
  BY <1>1
<1> QED
  BY <1>2

\* Any summand can be taken out.
LEMMA SumRemove ==
  ASSUME NEW W, NEW S, IsFiniteSet(S), \A x \in S : W[x] \in Nat, NEW v \in S
  PROVE  SumFunctionOnSet(W, S) = W[v] + SumFunctionOnSet(W, S \ {v})
<1> DEFINE Splits(s, x) == SumFunctionOnSet(W, s) = W[x] + SumFunctionOnSet(W, s \ {x})
           Wrong == {s \in SUBSET S : \E x \in s : ~ Splits(s, x)}
<1>1. \A s \in SUBSET S : IsFiniteSet(s) /\ SumFunctionOnSet(W, s) \in Nat
  <2> SUFFICES ASSUME NEW s \in SUBSET S PROVE IsFiniteSet(s) /\ SumFunctionOnSet(W, s) \in Nat
    OBVIOUS
  <2>1. IsFiniteSet(s) /\ \A x \in s : W[x] \in Nat
    BY FS_Subset
  <2> QED
    BY <2>1, SumNat
<1>2. Wrong = {}
  <2> SUFFICES ASSUME Wrong # {} PROVE FALSE
    OBVIOUS
  <2>1. PICK s \in Wrong : \A x \in s : s \ {x} \notin Wrong
    <3>1. \A s \in Wrong : IsFiniteSet(s)
      BY <1>1
    <3> HIDE DEF Wrong
    <3> QED
      BY <3>1, MinimalSet
  <2>2. PICK x \in s : ~ Splits(s, x)
    OBVIOUS
  <2>3. PICK y : y = Pick(s)
    OBVIOUS
  <2>4. y \in s /\ s \in SUBSET S
    BY <2>2, <2>3, PickIn
  <2>5. Splits(s, y)
    BY <1>1, <2>2, <2>3, <2>4, SumPick
  <2>6. x # y
    BY <2>2, <2>5
  <2>7. PICK sx, sy, sxy : sx = s \ {x} /\ sy = s \ {y} /\ sxy = (s \ {x}) \ {y}
    OBVIOUS
  <2>8. /\ sx \in SUBSET S /\ sy \in SUBSET S /\ sxy \in SUBSET S
        /\ sxy = sx \ {y} /\ sxy = sy \ {x} /\ y \in sx /\ x \in sy
    BY <2>2, <2>4, <2>6, <2>7
  <2>9. sx \notin Wrong /\ sy \notin Wrong
    BY <2>1, <2>2, <2>4, <2>7
  <2>10. Splits(sx, y) /\ Splits(sy, x)
    BY <2>8, <2>9
  <2>11. /\ SumFunctionOnSet(W, sx) = W[y] + SumFunctionOnSet(W, sxy)
         /\ SumFunctionOnSet(W, sy) = W[x] + SumFunctionOnSet(W, sxy)
         /\ SumFunctionOnSet(W, s) = W[y] + SumFunctionOnSet(W, sy)
    BY <2>5, <2>7, <2>8, <2>10
  <2>12. W[x] \in Nat /\ W[y] \in Nat /\ SumFunctionOnSet(W, sxy) \in Nat
    BY <1>1, <2>2, <2>4, <2>8
  <2>13. SumFunctionOnSet(W, s) = W[x] + SumFunctionOnSet(W, sx)
    BY <2>11, <2>12
  <2> QED
    BY <2>2, <2>7, <2>13
<1>3. S \notin Wrong
  BY <1>2
<1> QED
  BY <1>3

LEMMA SumAdd ==
  ASSUME NEW W, NEW S, IsFiniteSet(S), \A x \in S : W[x] \in Nat, NEW v, v \notin S, W[v] \in Nat
  PROVE  SumFunctionOnSet(W, S \union {v}) = SumFunctionOnSet(W, S) + W[v]
<1>1. PICK T : T = S \union {v}
  OBVIOUS
<1>2. IsFiniteSet(T) /\ v \in T /\ (\A x \in T : W[x] \in Nat) /\ T \ {v} = S
  BY <1>1, FS_AddElement
<1>3. SumFunctionOnSet(W, T) = W[v] + SumFunctionOnSet(W, S)
  BY <1>2, SumRemove
<1>4. SumFunctionOnSet(W, S) \in Nat
  BY SumNat
<1> QED
  BY <1>1, <1>3, <1>4

LEMMA SumMonotone ==
  ASSUME NEW W, NEW T, IsFiniteSet(T), \A x \in T : W[x] \in Nat, NEW S, S \subseteq T
  PROVE  SumFunctionOnSet(W, S) <= SumFunctionOnSet(W, T)
<1> DEFINE Wrong == {t \in SUBSET T : S \subseteq t /\ ~ (SumFunctionOnSet(W, S) <= SumFunctionOnSet(W, t))}
<1>1. \A s \in SUBSET T : IsFiniteSet(s) /\ SumFunctionOnSet(W, s) \in Nat
  <2> SUFFICES ASSUME NEW s \in SUBSET T PROVE IsFiniteSet(s) /\ SumFunctionOnSet(W, s) \in Nat
    OBVIOUS
  <2>1. IsFiniteSet(s) /\ \A x \in s : W[x] \in Nat
    BY FS_Subset
  <2> QED
    BY <2>1, SumNat
<1>2. Wrong = {}
  <2> SUFFICES ASSUME Wrong # {} PROVE FALSE
    OBVIOUS
  <2>1. PICK t \in Wrong : \A x \in t : t \ {x} \notin Wrong
    <3>1. \A s \in Wrong : IsFiniteSet(s)
      BY <1>1
    <3> HIDE DEF Wrong
    <3> QED
      BY <3>1, MinimalSet
  <2>2. t \in SUBSET T /\ S \subseteq t /\ ~ (SumFunctionOnSet(W, S) <= SumFunctionOnSet(W, t))
    OBVIOUS
  <2>3. t # S
    BY <1>1, <2>2
  <2>4. PICK x \in t : x \notin S
    BY <2>2, <2>3
  <2>5. PICK u : u = t \ {x}
    OBVIOUS
  <2>6. u \in SUBSET T /\ S \subseteq u /\ u \notin Wrong
    BY <2>1, <2>2, <2>4, <2>5
  <2>7. SumFunctionOnSet(W, S) <= SumFunctionOnSet(W, u)
    BY <2>6
  <2>8. SumFunctionOnSet(W, t) = W[x] + SumFunctionOnSet(W, u)
    <3>1. IsFiniteSet(t) /\ \A y \in t : W[y] \in Nat
      BY <1>1, <2>2
    <3> QED
      BY <2>5, <3>1, SumRemove
  <2>9. /\ W[x] \in Nat /\ SumFunctionOnSet(W, u) \in Nat /\ SumFunctionOnSet(W, S) \in Nat
    BY <1>1, <2>2, <2>4, <2>6
  <2> QED
    BY <2>2, <2>7, <2>8, <2>9
<1>3. T \notin Wrong
  BY <1>2
<1> QED
  BY <1>3

\* The sum over two sets without a common element.
LEMMA SumDisjoint ==
  ASSUME NEW W, NEW S, NEW T, IsFiniteSet(S), IsFiniteSet(T), S \cap T = {},
         \A x \in S \union T : W[x] \in Nat
  PROVE  SumFunctionOnSet(W, S \union T) = SumFunctionOnSet(W, S) + SumFunctionOnSet(W, T)
<1> DEFINE Splits(t) == SumFunctionOnSet(W, S \union t) = SumFunctionOnSet(W, S) + SumFunctionOnSet(W, t)
           Wrong == {t \in SUBSET T : ~ Splits(t)}
<1>1. SumFunctionOnSet(W, S) \in Nat
  BY SumNat
<1>2. Wrong = {}
  <2> SUFFICES ASSUME Wrong # {} PROVE FALSE
    OBVIOUS
  <2>1. PICK t \in Wrong : \A x \in t : t \ {x} \notin Wrong
    <3>1. \A t \in Wrong : IsFiniteSet(t)
      BY FS_Subset
    <3> HIDE DEF Wrong
    <3> QED
      BY <3>1, MinimalSet
  <2>2. t \in SUBSET T /\ ~ Splits(t)
    OBVIOUS
  <2>3. CASE t = {}
    <3>1. S \union t = S /\ SumFunctionOnSet(W, t) = 0
      BY <2>3, SumEmpty
    <3> QED
      BY <1>1, <2>2, <3>1
  <2>4. CASE t # {}
    <3>1. PICK x \in t : TRUE
      BY <2>4
    <3>2. PICK u, all, rest : u = t \ {x} /\ all = S \union t /\ rest = S \union u
      OBVIOUS
    <3>3. u \in SUBSET T /\ u \notin Wrong /\ x \in all /\ rest = all \ {x}
      BY <2>1, <2>2, <3>1, <3>2
    <3>4. SumFunctionOnSet(W, rest) = SumFunctionOnSet(W, S) + SumFunctionOnSet(W, u)
      BY <3>2, <3>3
    <3>5. /\ IsFiniteSet(t) /\ IsFiniteSet(u) /\ IsFiniteSet(all)
          /\ (\A y \in t : W[y] \in Nat) /\ (\A y \in u : W[y] \in Nat) /\ (\A y \in all : W[y] \in Nat)
      BY <2>2, <3>2, <3>3, FS_Subset, FS_Union
    <3>6. SumFunctionOnSet(W, t) = W[x] + SumFunctionOnSet(W, u)
      BY <3>1, <3>2, <3>5, SumRemove
    <3>7. SumFunctionOnSet(W, all) = W[x] + SumFunctionOnSet(W, rest)
      BY <3>3, <3>5, SumRemove
    <3>8. W[x] \in Nat /\ SumFunctionOnSet(W, u) \in Nat
      BY <3>1, <3>5, SumNat
    <3>9. SumFunctionOnSet(W, all) = SumFunctionOnSet(W, S) + SumFunctionOnSet(W, t)
      BY <1>1, <3>4, <3>6, <3>7, <3>8
    <3> QED
      BY <2>2, <3>2, <3>9
  <2> QED
    BY <2>3, <2>4
<1>3. T \notin Wrong
  BY <1>2
<1> QED
  BY <1>3
=============================================================================
