------------------------------ MODULE SumTheorems ------------------------------
(***************************************************************************)
(* Facts about SumFunctionOnSet, the community modules' sum of the values  *)
(* of a function over a finite set.                                        *)
(***************************************************************************)
EXTENDS Integers, FiniteSets, Functions, FiniteSetTheorems, WellFoundedInduction, TLAPS

Chosen(s) == CHOOSE x \in s : TRUE

\* The equation of the recursive function the sum is defined by.
SumStep(f, g, s) == f[Chosen(s)] + g[s \ {Chosen(s)}]
SumsOn(f, g, S) == g = [s \in SUBSET S |-> IF s = {} THEN 0 ELSE SumStep(f, g, s)]
Sums(f, S) == CHOOSE g : SumsOn(f, g, S)

\* The sum is the value of the recursive function at the whole set.
LEMMA SumIsValue ==
  ASSUME NEW f, NEW S
  PROVE  SumFunctionOnSet(f, S) = Sums(f, S)[S]
  BY DEF SumFunctionOnSet, FoldFunctionOnSet, MapThenFoldSet, SumsOn, SumStep, Sums, Chosen

\* Induction over the subsets of a finite set: if some subset has a property, a
\* minimal one does.
LEMMA MinimalSubset ==
  ASSUME NEW S, IsFiniteSet(S), NEW B \in SUBSET SUBSET S, B # {}
  PROVE  \E T \in B : \A U \in B : U \subseteq T => U = T
<1>1. IsWellFoundedOn(StrictSubsetOrdering(S), SUBSET S)
  BY FS_StrictSubsetOrderingWellFounded, FS_FiniteSubsetsOfFinite
<1>2. PICK T \in B : \A U \in B : ~ (<<U, T>> \in StrictSubsetOrdering(S))
  BY <1>1, WFMin
<1>3. QED
  BY <1>2 DEF StrictSubsetOrdering

\* The chosen element is one.
LEMMA ChosenIn ==
  ASSUME NEW s, s # {}
  PROVE  Chosen(s) \in s
  BY DEF Chosen

\* What the equation of the recursive function says of a subset.
LEMMA SumsStep ==
  ASSUME NEW f, NEW S, NEW g, SumsOn(f, g, S)
  PROVE  /\ g[{}] = 0
         /\ \A s \in SUBSET S : s # {} => g[s] = SumStep(f, g, s)
  BY DEF SumsOn

\* Such a function is determined by its values.
LEMMA SumsIsFunction ==
  ASSUME NEW f, NEW S, NEW g, SumsOn(f, g, S)
  PROVE  g = [s \in SUBSET S |-> g[s]]
  BY DEF SumsOn

\* The equation has one solution.
LEMMA SumsUnique ==
  ASSUME NEW f, NEW S, IsFiniteSet(S), NEW g, NEW h, SumsOn(f, g, S), SumsOn(f, h, S)
  PROVE  g = h
<1> DEFINE Bad == {s \in SUBSET S : g[s] # h[s]}
<1>1. ASSUME Bad # {} PROVE FALSE
  <2>1. Bad \in SUBSET SUBSET S
    OBVIOUS
  <2>2. PICK T \in Bad : \A U \in Bad : U \subseteq T => U = T
    <3> HIDE DEF Bad
    <3>1. QED
      BY <1>1, <2>1, MinimalSubset
  <2>3. T \in SUBSET S /\ g[T] # h[T]
    BY <2>2
  <2>4. T # {}
    BY <2>3, SumsStep
  <2>5. T \ {Chosen(T)} \in SUBSET S /\ T \ {Chosen(T)} # T
    BY <2>3, <2>4, ChosenIn
  <2>6. g[T \ {Chosen(T)}] = h[T \ {Chosen(T)}]
    BY <2>2, <2>5
  <2>7. g[T] = SumStep(f, g, T) /\ h[T] = SumStep(f, h, T)
    <3> HIDE DEF Bad
    <3>1. QED
      BY <2>3, <2>4, SumsStep
  <2>8. QED
    BY <2>3, <2>6, <2>7 DEF SumStep
<1>2. \A s \in SUBSET S : g[s] = h[s]
  BY <1>1
<1>3. g = [s \in SUBSET S |-> g[s]] /\ h = [s \in SUBSET S |-> h[s]]
  BY SumsIsFunction
<1>4. QED
  BY <1>2, <1>3

\* A solution for a set, restricted, is one for a subset.
LEMMA SumsRestrict ==
  ASSUME NEW f, NEW S, NEW g, SumsOn(f, g, S), NEW T \in SUBSET S
  PROVE  SumsOn(f, [s \in SUBSET T |-> g[s]], T)
<1> DEFINE h == [s \in SUBSET T |-> g[s]]
           Body(s, k) == IF s = {} THEN 0 ELSE SumStep(f, k, s)
<1>1. \A s \in SUBSET T : h[s] = Body(s, h)
  <2>1. SUFFICES ASSUME NEW s \in SUBSET T PROVE h[s] = Body(s, h)
    OBVIOUS
  <2>2. CASE s = {}
    BY <2>2, SumsStep
  <2>3. CASE s # {}
    <3>1. s \ {Chosen(s)} \in SUBSET T
      OBVIOUS
    <3>2. h[s] = g[s] /\ h[s \ {Chosen(s)}] = g[s \ {Chosen(s)}]
      BY <3>1
    <3>3. g[s] = SumStep(f, g, s)
      <4> HIDE DEF h, Body
      <4>1. QED
        BY <2>3, SumsStep
    <3>4. QED
      BY <2>3, <3>2, <3>3 DEF SumStep
  <2>4. QED
    BY <2>2, <2>3
<1>2. h = [s \in SUBSET T |-> h[s]]
  OBVIOUS
<1>3. h = [s \in SUBSET T |-> Body(s, h)]
  <2> HIDE DEF h, Body
  <2>1. QED
    BY <1>1, <1>2
<1>4. QED
  BY <1>3 DEF SumsOn

\* The recursion is sound: every finite set has sums.
LEMMA SumsExist ==
  ASSUME NEW f, NEW S, IsFiniteSet(S)
  PROVE  SumsOn(f, Sums(f, S), S)
<1> DEFINE Good(T) == \E g : SumsOn(f, g, T)
           Bad == {T \in SUBSET S : ~ Good(T)}
<1>1. ASSUME Bad # {} PROVE FALSE
  <2>1. Bad \in SUBSET SUBSET S
    OBVIOUS
  <2>2. PICK T \in Bad : \A U \in Bad : U \subseteq T => U = T
    <3> HIDE DEF Bad
    <3>1. QED
      BY <1>1, <2>1, MinimalSubset
  <2> DEFINE h == [s \in SUBSET T |->
                     IF s = {} THEN 0
                     ELSE SumStep(f, [r \in {s \ {Chosen(s)}} |-> Sums(f, r)[r]], s)]
  <2>3. T \in SUBSET S /\ IsFiniteSet(T)
    BY FS_Subset
  <2>4. \A U \in SUBSET T : U # T => SumsOn(f, Sums(f, U), U)
    <3>1. SUFFICES ASSUME NEW U \in SUBSET T, U # T PROVE SumsOn(f, Sums(f, U), U)
      OBVIOUS
    <3>2. Good(U)
      BY <2>2, <2>3, <3>1
    <3>3. QED
      BY <3>2 DEF Sums
  <2>5. \A U \in SUBSET T : U # T => h[U] = Sums(f, U)[U]
    <3>1. SUFFICES ASSUME NEW U \in SUBSET T, U # T PROVE h[U] = Sums(f, U)[U]
      OBVIOUS
    <3>2. CASE U = {}
      <4>1. SumsOn(f, Sums(f, U), U)
        BY <2>4, <3>1
      <4>2. Sums(f, U)[{}] = 0
        BY <4>1, SumsStep
      <4>3. QED
        BY <3>2, <4>2
    <3>3. CASE U # {}
      <4> DEFINE W == U \ {Chosen(U)}
      <4>1. W \in SUBSET U /\ W \in SUBSET T /\ W # T
        BY <3>3, ChosenIn
      <4>2. SumsOn(f, Sums(f, U), U) /\ SumsOn(f, Sums(f, W), W)
        BY <2>4, <3>1, <4>1
      <4>3. IsFiniteSet(W)
        BY <2>3, FS_Subset
      <4>4. Sums(f, W) = [s \in SUBSET W |-> Sums(f, U)[s]]
        <5>1. SumsOn(f, [s \in SUBSET W |-> Sums(f, U)[s]], W)
          BY <4>1, <4>2, SumsRestrict
        <5>2. QED
          BY <4>2, <4>3, <5>1, SumsUnique
      <4>5. Sums(f, W)[W] = Sums(f, U)[W]
        BY <4>4
      <4>6. Sums(f, U)[U] = f[Chosen(U)] + Sums(f, U)[W]
        <5>1. \A s \in SUBSET U : s # {} => Sums(f, U)[s] = SumStep(f, Sums(f, U), s)
          BY <4>2, SumsStep
        <5>2. QED
          BY <3>3, <5>1 DEF SumStep
      <4>7. h[U] = f[Chosen(U)] + Sums(f, W)[W]
        BY <3>3 DEF SumStep
      <4>8. QED
        BY <4>5, <4>6, <4>7
    <3>4. QED
      BY <3>2, <3>3
  <2> DEFINE Body(s) == IF s = {} THEN 0 ELSE SumStep(f, h, s)
  <2>6. \A s \in SUBSET T : h[s] = Body(s)
    <3>1. SUFFICES ASSUME NEW s \in SUBSET T, s # {} PROVE h[s] = Body(s)
      OBVIOUS
    <3>2. s \ {Chosen(s)} \in SUBSET T /\ s \ {Chosen(s)} # T
      BY <3>1, ChosenIn
    <3>3. h[s \ {Chosen(s)}] = Sums(f, s \ {Chosen(s)})[s \ {Chosen(s)}]
      BY <2>5, <3>2
    <3>4. h[s] = f[Chosen(s)] + Sums(f, s \ {Chosen(s)})[s \ {Chosen(s)}]
      BY <3>1 DEF SumStep
    <3>5. QED
      BY <3>1, <3>3, <3>4 DEF SumStep
  <2>7. h = [s \in SUBSET T |-> h[s]]
    OBVIOUS
  <2>8. h = [s \in SUBSET T |-> Body(s)]
    <3> HIDE DEF h, Body
    <3>1. QED
      BY <2>6, <2>7
  <2>9. Good(T)
    BY <2>8 DEF SumsOn
  <2>10. QED
    BY <2>2, <2>9
<1>2. Good(S)
  BY <1>1
<1>3. QED
  BY <1>2 DEF Sums

-----------------------------------------------------------------------------

\* The empty sum.
LEMMA SumOfNone ==
  ASSUME NEW f
  PROVE  SumFunctionOnSet(f, {}) = 0
<1>1. SumsOn(f, Sums(f, {}), {})
  BY SumsExist, FS_EmptySet
<1>2. QED
  BY <1>1, SumsStep, SumIsValue

\* A sum without the chosen element.
LEMMA SumUnfold ==
  ASSUME NEW f, NEW S, IsFiniteSet(S), S # {}
  PROVE  SumFunctionOnSet(f, S) = f[Chosen(S)] + SumFunctionOnSet(f, S \ {Chosen(S)})
<1> DEFINE W == S \ {Chosen(S)}
<1>1. IsFiniteSet(W) /\ W \in SUBSET S
  BY FS_RemoveElement
<1>2. SumsOn(f, Sums(f, S), S) /\ SumsOn(f, Sums(f, W), W)
  BY <1>1, SumsExist
<1>3. Sums(f, W) = [s \in SUBSET W |-> Sums(f, S)[s]]
  <2>1. SumsOn(f, [s \in SUBSET W |-> Sums(f, S)[s]], W)
    BY <1>1, <1>2, SumsRestrict
  <2>2. QED
    BY <1>1, <1>2, <2>1, SumsUnique
<1>4. Sums(f, W)[W] = Sums(f, S)[W]
  BY <1>3
<1>5. Sums(f, S)[S] = SumStep(f, Sums(f, S), S)
  BY <1>2, SumsStep
<1>6. QED
  BY <1>4, <1>5, SumIsValue DEF SumStep

\* A sum of integers is one.
LEMMA SumInt ==
  ASSUME NEW S, IsFiniteSet(S), NEW f, \A x \in S : f[x] \in Int
  PROVE  SumFunctionOnSet(f, S) \in Int
<1> DEFINE Bad == {T \in SUBSET S : SumFunctionOnSet(f, T) \notin Int}
<1>1. ASSUME Bad # {} PROVE FALSE
  <2>1. Bad \in SUBSET SUBSET S
    OBVIOUS
  <2>2. PICK T \in Bad : \A U \in Bad : U \subseteq T => U = T
    <3> HIDE DEF Bad
    <3>1. QED
      BY <1>1, <2>1, MinimalSubset
  <2>3. T \in SUBSET S /\ SumFunctionOnSet(f, T) \notin Int /\ IsFiniteSet(T)
    BY <2>2, FS_Subset
  <2>4. T # {}
    BY <2>3, SumOfNone
  <2>5. Chosen(T) \in T
    BY <2>4, ChosenIn
  <2>6. SumFunctionOnSet(f, T \ {Chosen(T)}) \in Int
    BY <2>2, <2>3, <2>5
  <2>7. f[Chosen(T)] \in Int
    BY <2>3, <2>5
  <2>8. QED
    BY <2>3, <2>4, <2>6, <2>7, SumUnfold
<1>2. QED
  BY <1>1

\* Any element can be the one that is split off.
LEMMA SumRemove ==
  ASSUME NEW S, IsFiniteSet(S), NEW f, \A x \in S : f[x] \in Int, NEW e \in S
  PROVE  SumFunctionOnSet(f, S) = f[e] + SumFunctionOnSet(f, S \ {e})
<1> DEFINE Splits(T, x) == SumFunctionOnSet(f, T) = f[x] + SumFunctionOnSet(f, T \ {x})
           Bad == {T \in SUBSET S : \E x \in T : ~ Splits(T, x)}
<1>1. ASSUME Bad # {} PROVE FALSE
  <2>1. Bad \in SUBSET SUBSET S
    OBVIOUS
  <2>2. PICK T \in Bad : \A U \in Bad : U \subseteq T => U = T
    <3> HIDE DEF Bad
    <3>1. QED
      BY <1>1, <2>1, MinimalSubset
  <2>3. PICK x \in T : ~ Splits(T, x)
    BY <2>2
  <2>4. T \in SUBSET S /\ IsFiniteSet(T) /\ T # {}
    BY <2>2, FS_Subset
  <2> DEFINE c == Chosen(T)
             Rest == T \ {x, c}
  <2>5. c \in T /\ IsFiniteSet(T \ {c}) /\ IsFiniteSet(T \ {x}) /\ IsFiniteSet(Rest)
    BY <2>4, ChosenIn, FS_Subset
  <2>6. Splits(T, c)
    BY <2>4, SumUnfold
  <2>7. x # c
    BY <2>3, <2>6
  <2>8. Splits(T \ {c}, x) /\ Splits(T \ {x}, c)
    <3>1. T \ {c} \notin Bad /\ T \ {x} \notin Bad
      <4>1. T \ {c} # T /\ T \ {x} # T
        BY <2>3, <2>5
      <4> HIDE DEF Bad
      <4>2. QED
        BY <2>2, <4>1
    <3>2. x \in T \ {c} /\ c \in T \ {x}
      BY <2>3, <2>5, <2>7
    <3>3. T \ {c} \in SUBSET S /\ T \ {x} \in SUBSET S
      BY <2>4
    <3> HIDE DEF c, Splits
    <3>4. QED
      BY <3>1, <3>2, <3>3
  <2>9. (T \ {c}) \ {x} = Rest /\ (T \ {x}) \ {c} = Rest
    OBVIOUS
  <2>10. SumFunctionOnSet(f, Rest) \in Int /\ f[x] \in Int /\ f[c] \in Int
    BY <2>3, <2>4, <2>5, SumInt
  <2>11. /\ SumFunctionOnSet(f, T) = f[c] + SumFunctionOnSet(f, T \ {c})
         /\ SumFunctionOnSet(f, T \ {c}) = f[x] + SumFunctionOnSet(f, Rest)
         /\ SumFunctionOnSet(f, T \ {x}) = f[c] + SumFunctionOnSet(f, Rest)
    BY <2>6, <2>8, <2>9
  <2>12. SumFunctionOnSet(f, T) = f[x] + SumFunctionOnSet(f, T \ {x})
    <3> HIDE DEF c, Rest
    <3>1. QED
      BY <2>10, <2>11
  <2>13. QED
    BY <2>3, <2>12
<1>2. S \notin Bad
  BY <1>1
<1>3. QED
  BY <1>2

\* A sum with one more element.
LEMMA SumAdd ==
  ASSUME NEW S, IsFiniteSet(S), NEW e, e \notin S,
         NEW f, \A x \in S \cup {e} : f[x] \in Int
  PROVE  SumFunctionOnSet(f, S \cup {e}) = f[e] + SumFunctionOnSet(f, S)
<1>1. IsFiniteSet(S \cup {e}) /\ (S \cup {e}) \ {e} = S
  BY FS_AddElement
<1>2. QED
  BY <1>1, SumRemove

-----------------------------------------------------------------------------
(* Two functions compared. *)

\* A sum is monotonic in the function.
LEMMA SumLess ==
  ASSUME NEW S, IsFiniteSet(S), NEW f, NEW g,
         \A x \in S : f[x] \in Int /\ g[x] \in Int /\ f[x] <= g[x]
  PROVE  SumFunctionOnSet(f, S) <= SumFunctionOnSet(g, S)
<1> DEFINE Below(T) == SumFunctionOnSet(f, T) <= SumFunctionOnSet(g, T)
           Bad == {T \in SUBSET S : ~ Below(T)}
<1>1. ASSUME Bad # {} PROVE FALSE
  <2>1. Bad \in SUBSET SUBSET S
    OBVIOUS
  <2>2. PICK T \in Bad : \A U \in Bad : U \subseteq T => U = T
    <3> HIDE DEF Bad
    <3>1. QED
      BY <1>1, <2>1, MinimalSubset
  <2>3. T \in SUBSET S /\ ~ Below(T) /\ IsFiniteSet(T)
    BY <2>2, FS_Subset
  <2>4. T # {}
    BY <2>3, SumOfNone
  <2> DEFINE c == Chosen(T)
  <2>5. c \in T /\ IsFiniteSet(T \ {c})
    BY <2>3, <2>4, ChosenIn, FS_Subset
  <2>6. Below(T \ {c})
    BY <2>2, <2>3, <2>5
  <2>7. /\ SumFunctionOnSet(f, T) = f[c] + SumFunctionOnSet(f, T \ {c})
        /\ SumFunctionOnSet(g, T) = g[c] + SumFunctionOnSet(g, T \ {c})
    BY <2>3, <2>4, SumUnfold
  <2>8. /\ SumFunctionOnSet(f, T \ {c}) \in Int /\ SumFunctionOnSet(g, T \ {c}) \in Int
        /\ f[c] \in Int /\ g[c] \in Int /\ f[c] <= g[c]
    <3>1. T \ {c} \in SUBSET S /\ c \in S
      BY <2>3, <2>5
    <3>2. QED
      BY <2>5, <3>1, SumInt
  <2>9. Below(T)
    <3> HIDE DEF c
    <3>1. QED
      BY <2>6, <2>7, <2>8
  <2>10. QED
    BY <2>3, <2>9
<1>2. QED
  BY <1>1

\* A sum depends on the values in the set only.
LEMMA SumSame ==
  ASSUME NEW S, IsFiniteSet(S), NEW f, NEW g,
         \A x \in S : f[x] \in Int /\ f[x] = g[x]
  PROVE  SumFunctionOnSet(f, S) = SumFunctionOnSet(g, S)
<1>1. \A x \in S : f[x] \in Int /\ g[x] \in Int /\ f[x] <= g[x] /\ g[x] <= f[x]
  OBVIOUS
<1>2. SumFunctionOnSet(f, S) <= SumFunctionOnSet(g, S)
  BY <1>1, SumLess
<1>3. SumFunctionOnSet(g, S) <= SumFunctionOnSet(f, S)
  BY <1>1, SumLess
<1>4. SumFunctionOnSet(f, S) \in Int /\ SumFunctionOnSet(g, S) \in Int
  BY <1>1, SumInt
<1>5. QED
  BY <1>2, <1>3, <1>4

\* g differs from f in the value of e only.
LEMMA SumChange ==
  ASSUME NEW S, IsFiniteSet(S), NEW f, NEW g, NEW e \in S,
         \A x \in S : f[x] \in Int /\ g[x] \in Int,
         \A x \in S \ {e} : f[x] = g[x]
  PROVE  SumFunctionOnSet(g, S) = SumFunctionOnSet(f, S) - f[e] + g[e]
<1> DEFINE W == S \ {e}
<1>1. IsFiniteSet(W)
  BY FS_RemoveElement
<1>2. SumFunctionOnSet(f, W) = SumFunctionOnSet(g, W) /\ SumFunctionOnSet(f, W) \in Int
  <2>1. \A x \in W : f[x] \in Int /\ f[x] = g[x]
    OBVIOUS
  <2> HIDE DEF W
  <2>2. QED
    BY <1>1, <2>1, SumSame, SumInt
<1>3. SumFunctionOnSet(f, S) = f[e] + SumFunctionOnSet(f, W)
  BY SumRemove
<1>4. SumFunctionOnSet(g, S) = g[e] + SumFunctionOnSet(g, W)
  BY SumRemove
<1>5. f[e] \in Int /\ g[e] \in Int
  OBVIOUS
<1> HIDE DEF W
<1>6. QED
  BY <1>2, <1>3, <1>4, <1>5

\* The sum of a sum of two functions.
LEMMA SumPlus ==
  ASSUME NEW S, IsFiniteSet(S), NEW f, NEW g, NEW h,
         \A x \in S : f[x] \in Int /\ g[x] \in Int /\ h[x] = f[x] + g[x]
  PROVE  SumFunctionOnSet(h, S) = SumFunctionOnSet(f, S) + SumFunctionOnSet(g, S)
<1> DEFINE Adds(T) == SumFunctionOnSet(h, T) = SumFunctionOnSet(f, T) + SumFunctionOnSet(g, T)
           Bad == {T \in SUBSET S : ~ Adds(T)}
<1>1. ASSUME Bad # {} PROVE FALSE
  <2>1. Bad \in SUBSET SUBSET S
    OBVIOUS
  <2>2. PICK T \in Bad : \A U \in Bad : U \subseteq T => U = T
    <3> HIDE DEF Bad
    <3>1. QED
      BY <1>1, <2>1, MinimalSubset
  <2>3. T \in SUBSET S /\ ~ Adds(T) /\ IsFiniteSet(T)
    BY <2>2, FS_Subset
  <2>4. T # {}
    BY <2>3, SumOfNone
  <2> DEFINE c == Chosen(T)
  <2>5. c \in T /\ IsFiniteSet(T \ {c})
    BY <2>3, <2>4, ChosenIn, FS_Subset
  <2>6. Adds(T \ {c})
    BY <2>2, <2>3, <2>5
  <2>7. /\ SumFunctionOnSet(f, T) = f[c] + SumFunctionOnSet(f, T \ {c})
        /\ SumFunctionOnSet(g, T) = g[c] + SumFunctionOnSet(g, T \ {c})
        /\ SumFunctionOnSet(h, T) = h[c] + SumFunctionOnSet(h, T \ {c})
    BY <2>3, <2>4, SumUnfold
  <2>8. /\ SumFunctionOnSet(f, T \ {c}) \in Int /\ SumFunctionOnSet(g, T \ {c}) \in Int
        /\ f[c] \in Int /\ g[c] \in Int /\ h[c] = f[c] + g[c]
    <3>1. T \ {c} \in SUBSET S /\ c \in S
      BY <2>3, <2>5
    <3>2. QED
      BY <2>5, <3>1, SumInt
  <2>9. Adds(T)
    <3> HIDE DEF c
    <3>1. QED
      BY <2>6, <2>7, <2>8
  <2>10. QED
    BY <2>3, <2>9
<1>2. QED
  BY <1>1

\* A sum of natural numbers is one.
LEMMA SumNat ==
  ASSUME NEW S, IsFiniteSet(S), NEW f, \A x \in S : f[x] \in Nat
  PROVE  SumFunctionOnSet(f, S) \in Nat
<1> DEFINE zero == [x \in S |-> 0]
<1>1. \A x \in S : f[x] \in Int /\ zero[x] \in Int /\ zero[x] <= f[x]
  OBVIOUS
<1>2. SumFunctionOnSet(f, S) \in Int
  BY <1>1, SumInt
<1> DEFINE Bad == {T \in SUBSET S : ~ 0 <= SumFunctionOnSet(f, T)}
<1>3. ASSUME Bad # {} PROVE FALSE
  <2>1. Bad \in SUBSET SUBSET S
    OBVIOUS
  <2>2. PICK T \in Bad : \A U \in Bad : U \subseteq T => U = T
    <3> HIDE DEF Bad
    <3>1. QED
      BY <1>3, <2>1, MinimalSubset
  <2>3. T \in SUBSET S /\ ~ 0 <= SumFunctionOnSet(f, T) /\ IsFiniteSet(T)
    BY <2>2, FS_Subset
  <2>4. T # {}
    BY <2>3, SumOfNone
  <2> DEFINE c == Chosen(T)
  <2>5. c \in T /\ IsFiniteSet(T \ {c})
    BY <2>3, <2>4, ChosenIn, FS_Subset
  <2>6. 0 <= SumFunctionOnSet(f, T \ {c})
    BY <2>2, <2>3, <2>5
  <2>7. SumFunctionOnSet(f, T) = f[c] + SumFunctionOnSet(f, T \ {c})
    BY <2>3, <2>4, SumUnfold
  <2>8. SumFunctionOnSet(f, T \ {c}) \in Int /\ f[c] \in Nat
    <3>1. T \ {c} \in SUBSET S /\ c \in S
      BY <2>3, <2>5
    <3>2. QED
      BY <1>1, <2>5, <3>1, SumInt
  <2>9. QED
    <3> HIDE DEF c
    <3>1. QED
      BY <2>3, <2>6, <2>7, <2>8
<1>4. QED
  BY <1>2, <1>3

\* A sum of natural numbers is at least each of them.
LEMMA SumAtLeast ==
  ASSUME NEW S, IsFiniteSet(S), NEW f, \A x \in S : f[x] \in Nat, NEW e \in S
  PROVE  f[e] <= SumFunctionOnSet(f, S)
<1>1. IsFiniteSet(S \ {e})
  BY FS_RemoveElement
<1>2. SumFunctionOnSet(f, S \ {e}) \in Nat
  BY <1>1, SumNat
<1>3. SumFunctionOnSet(f, S) = f[e] + SumFunctionOnSet(f, S \ {e})
  BY SumRemove
<1>4. QED
  BY <1>2, <1>3

\* A sum over part of a set is a sum over all of it, of a function that is 0 elsewhere.
LEMMA SumWhere ==
  ASSUME NEW S, IsFiniteSet(S), NEW T \in SUBSET S,
         NEW f, \A x \in T : f[x] \in Int
  PROVE  SumFunctionOnSet(f, T) =
           SumFunctionOnSet([x \in S |-> IF x \in T THEN f[x] ELSE 0], S)
<1> DEFINE h == [x \in S |-> IF x \in T THEN f[x] ELSE 0]
           Bad == {U \in SUBSET S :
                     SumFunctionOnSet(f, U \cap T) # SumFunctionOnSet(h, U)}
<1>1. ASSUME Bad # {} PROVE FALSE
  <2>1. Bad \in SUBSET SUBSET S
    OBVIOUS
  <2>2. PICK U \in Bad : \A V \in Bad : V \subseteq U => V = U
    <3> HIDE DEF Bad
    <3>1. QED
      BY <1>1, <2>1, MinimalSubset
  <2>3. /\ U \in SUBSET S /\ SumFunctionOnSet(f, U \cap T) # SumFunctionOnSet(h, U)
        /\ IsFiniteSet(U) /\ IsFiniteSet(U \cap T)
    BY <2>2, FS_Subset
  <2>4. U # {}
    BY <2>3, SumOfNone
  <2> DEFINE c == Chosen(U)
             W == U \ {c}
  <2>5. c \in U
    BY <2>4, ChosenIn
  <2>6. SumFunctionOnSet(f, W \cap T) = SumFunctionOnSet(h, W)
    BY <2>2, <2>3, <2>5
  <2>7. SumFunctionOnSet(h, U) = h[c] + SumFunctionOnSet(h, W)
    <3> HIDE DEF h
    <3>1. QED
      BY <2>3, <2>4, SumUnfold
  <2>8. CASE c \in T
    <3>1. c \in U \cap T /\ (U \cap T) \ {c} = W \cap T
      BY <2>5, <2>8
    <3>2. \A x \in U \cap T : f[x] \in Int
      OBVIOUS
    <3>3. SumFunctionOnSet(f, U \cap T) = f[c] + SumFunctionOnSet(f, W \cap T)
      <4> HIDE DEF c, W
      <4>1. QED
        BY <2>3, <3>1, <3>2, SumRemove
    <3>4. h[c] = f[c]
      BY <2>3, <2>5, <2>8
    <3>5. QED
      BY <2>3, <2>6, <2>7, <3>3, <3>4
  <2>9. CASE c \notin T
    <3>1. U \cap T = W \cap T
      BY <2>9
    <3>2. h[c] = 0
      BY <2>3, <2>5, <2>9
    <3>3. IsFiniteSet(W) /\ \A x \in W : h[x] \in Int
      BY <2>3, FS_Subset
    <3>4. SumFunctionOnSet(h, W) \in Int
      <4> HIDE DEF h, W
      <4>1. QED
        BY <3>3, SumInt
    <3>5. SumFunctionOnSet(h, U) = SumFunctionOnSet(h, W)
      <4> HIDE DEF h, c, W
      <4>1. QED
        BY <2>7, <3>2, <3>4
    <3>6. QED
      BY <2>3, <2>6, <3>1, <3>5
  <2>10. QED
    BY <2>8, <2>9
<1>2. S \notin Bad
  BY <1>1
<1>3. S \cap T = T
  OBVIOUS
<1>4. QED
  BY <1>2, <1>3

\* A sum of zeros.
LEMMA SumZero ==
  ASSUME NEW S, IsFiniteSet(S), NEW f, \A x \in S : f[x] = 0
  PROVE  SumFunctionOnSet(f, S) = 0
<1>1. SumFunctionOnSet(f, {}) = SumFunctionOnSet([x \in S |-> IF x \in {} THEN f[x] ELSE 0], S)
  BY SumWhere
<1> DEFINE g == [x \in S |-> IF x \in {} THEN f[x] ELSE 0]
<1>2. \A x \in S : f[x] \in Int /\ f[x] = g[x]
  OBVIOUS
<1>3. SumFunctionOnSet(f, S) = SumFunctionOnSet(g, S)
  <2> HIDE DEF g
  <2>1. QED
    BY <1>2, SumSame
<1>4. QED
  BY <1>1, <1>3, SumOfNone
================================================================================
