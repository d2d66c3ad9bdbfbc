---------------------------- MODULE SumTheorems ----------------------------
(***************************************************************************)
(* Sums of functions over finite sets: what the accounts of the models add *)
(* up; and lists: of the members of a finite set, folded, or without one   *)
(* element.  The library's induction theorems range over operators; here   *)
(* the least counterexample plays their part.                              *)
(***************************************************************************)
EXTENDS Integers, SequencesExt, SequenceTheorems, FiniteSetTheorems, FunctionTheorems,
        WellFoundedInduction, TLAPS

PickOne(s) == CHOOSE x \in s : TRUE
SumStep(f, g, s) == IF s = {} THEN 0 ELSE f[PickOne(s)] + g[s \ {PickOne(s)}]
SumsUp(f, g, S) == g = [s \in SUBSET S |-> SumStep(f, g, s)]

\* A non-empty set of numbers has a least element.
LEMMA LeastElement ==
  ASSUME NEW T \in SUBSET Nat, T # {}
  PROVE  \E m \in T : \A n \in T : m <= n
<1> DEFINE Less == {ss \in Nat \X Nat : ss[1] < ss[2]}
<1>1. IsWellFoundedOn(Less, Nat)
  BY NatLessThanWellFounded DEF OpToRel
<1>2. PICK m \in T : \A n \in T : <<n, m>> \notin Less
  BY <1>1, WFMin
<1>3. \A n \in T : n < m => <<n, m>> \in Less
  OBVIOUS
<1>4. \A n \in T : ~(n < m)
  BY <1>2, <1>3
<1> HIDE DEF Less
<1> QED BY <1>4

\* What is left of a finite set when an element is taken out.
LEMMA Smaller ==
  ASSUME NEW S, IsFiniteSet(S), NEW x \in S
  PROVE  IsFiniteSet(S \ {x}) /\ Cardinality(S) \in Nat /\ Cardinality(S \ {x}) = Cardinality(S) - 1
BY FS_RemoveElement, FS_CardinalityType

\* Induction over finite sets, the property given as the set of those that have it.
THEOREM SetInduction ==
  ASSUME NEW S, IsFiniteSet(S), NEW W,
         \A s \in SUBSET S : (\A x \in s : s \ {x} \in W) => s \in W
  PROVE  S \in W
<1> DEFINE Rest == {s \in SUBSET S : s \notin W}
           Sizes == {Cardinality(s) : s \in Rest}
<1> SUFFICES ASSUME Rest # {} PROVE FALSE
  OBVIOUS
<1>1. \A s \in SUBSET S : IsFiniteSet(s) /\ Cardinality(s) \in Nat
  BY FS_Subset, FS_CardinalityType
<1>2. PICK s \in Rest : \A t \in Rest : Cardinality(s) <= Cardinality(t)
  <2>1. Sizes \in SUBSET Nat /\ Sizes # {}
    BY <1>1
  <2>2. PICK m \in Sizes : \A n \in Sizes : m <= n
    BY <2>1, LeastElement
  <2> QED BY <2>2
<1>3. PICK x \in s : s \ {x} \notin W
  BY <1>2
<1>4. s \ {x} \in Rest /\ Cardinality(s \ {x}) = Cardinality(s) - 1
  BY <1>1, <1>3, Smaller
<1> QED BY <1>1, <1>2, <1>4

\* The definition of the sum, unfolded.
LEMMA SumUnfolded ==
  ASSUME NEW f, NEW S
  PROVE  SumFunctionOnSet(f, S) = (CHOOSE g : SumsUp(f, g, S))[S]
BY DEF SumFunctionOnSet, FoldFunctionOnSet, MapThenFoldSet, SumsUp, SumStep, PickOne

LEMMA Picked ==
  ASSUME NEW S, S # {}
  PROVE  PickOne(S) \in S
BY DEF PickOne

\* Functions that add up the same way agree.
LEMMA SumsUpUnique ==
  ASSUME NEW f, NEW g, NEW h, NEW S, NEW T, IsFiniteSet(S), S \subseteq T,
         SumsUp(f, g, S), SumsUp(f, h, T)
  PROVE  g[S] = h[S]
<1> DEFINE W == {s \in SUBSET S : g[s] = h[s]}
<1>1. ASSUME NEW s \in SUBSET S, \A x \in s : s \ {x} \in W
      PROVE  s \in W
  <2>1. g[s] = SumStep(f, g, s) /\ h[s] = SumStep(f, h, s)
    BY DEF SumsUp
  <2>2. CASE s = {}
    BY <2>1, <2>2 DEF SumStep
  <2>3. CASE s # {}
    BY <1>1, <2>1, <2>3, Picked DEF SumStep
  <2> QED BY <2>2, <2>3
<1>2. S \in W
  BY <1>1, SetInduction
<1> QED BY <1>2

\* There is such a function: the least set without one would get it from its rest.
LEMMA SumsUpExist ==
  ASSUME NEW f, NEW S, IsFiniteSet(S)
  PROVE  \E g : SumsUp(f, g, S)
<1> DEFINE Has(n) == \E g : g = [s \in {t \in SUBSET S : Cardinality(t) <= n} |-> SumStep(f, g, s)]
           Lacks == {n \in Nat : ~Has(n)}
<1>1. \A s \in SUBSET S : IsFiniteSet(s) /\ Cardinality(s) \in Nat /\ Cardinality(s) <= Cardinality(S)
  BY FS_Subset, FS_CardinalityType
<1>2. Cardinality(S) \in Nat
  BY FS_CardinalityType
<1>3. SUFFICES Has(Cardinality(S))
  <2>1. PICK g : g = [s \in {t \in SUBSET S : Cardinality(t) <= Cardinality(S)} |-> SumStep(f, g, s)]
    BY <1>3
  <2>2. {t \in SUBSET S : Cardinality(t) <= Cardinality(S)} = SUBSET S
    BY <1>1
  <2>3. SumsUp(f, g, S)
    BY <2>1, <2>2 DEF SumsUp
  <2> QED BY <2>3
<1>4. SUFFICES Lacks = {}
  BY <1>2
<1>5. SUFFICES ASSUME Lacks # {} PROVE FALSE
  OBVIOUS
<1>6. PICK m \in Lacks : \A n \in Lacks : m <= n
  BY <1>5, LeastElement
<1> HIDE DEF Has
<1>7. m # 0
  <2>1. \A s \in {t \in SUBSET S : Cardinality(t) <= 0} : s = {}
    BY <1>1, FS_EmptySet
  <2> DEFINE g == [s \in {t \in SUBSET S : Cardinality(t) <= 0} |-> 0]
  <2>2. g = [s \in {t \in SUBSET S : Cardinality(t) <= 0} |-> SumStep(f, g, s)]
    BY <2>1 DEF SumStep
  <2>3. Has(0)
    BY <2>2 DEF Has
  <2> QED BY <2>3
<1>8. m - 1 \in Nat /\ m - 1 \notin Lacks
  BY <1>6, <1>7
<1>9. PICK g : g = [s \in {t \in SUBSET S : Cardinality(t) <= m - 1} |-> SumStep(f, g, s)]
  BY <1>8 DEF Has
<1> DEFINE h == [s \in {t \in SUBSET S : Cardinality(t) <= m} |-> SumStep(f, g, s)]
<1>10. \A s \in {t \in SUBSET S : Cardinality(t) <= m - 1} : h[s] = g[s]
  BY <1>1, <1>8, <1>9
<1>11. \A s \in {t \in SUBSET S : Cardinality(t) <= m} : SumStep(f, g, s) = SumStep(f, h, s)
  <2> SUFFICES ASSUME NEW s \in SUBSET S, Cardinality(s) <= m, s # {}
               PROVE  g[s \ {PickOne(s)}] = h[s \ {PickOne(s)}]
    BY DEF SumStep
  <2>1. Cardinality(s \ {PickOne(s)}) = Cardinality(s) - 1 /\ Cardinality(s) \in Nat
    BY <1>1, Picked, Smaller
  <2>2. s \ {PickOne(s)} \in {t \in SUBSET S : Cardinality(t) <= m - 1}
    BY <2>1
  <2> QED BY <2>2, <1>10
<1>12. h = [s \in {t \in SUBSET S : Cardinality(t) <= m} |-> SumStep(f, h, s)]
  BY <1>11
<1> QED BY <1>12 DEF Has

\* The sum of a set is that of one of its elements, the chosen one, and of the rest.
LEMMA SumPicked ==
  ASSUME NEW f, NEW S, IsFiniteSet(S)
  PROVE  SumFunctionOnSet(f, S) =
           IF S = {} THEN 0 ELSE f[PickOne(S)] + SumFunctionOnSet(f, S \ {PickOne(S)})
<1> DEFINE G(T) == CHOOSE g : SumsUp(f, g, T)
<1>1. SumsUp(f, G(S), S)
  BY SumsUpExist
<1>2. G(S)[S] = SumStep(f, G(S), S)
  BY <1>1 DEF SumsUp
<1>3. CASE S = {}
  BY <1>2, <1>3, SumUnfolded DEF SumStep
<1>4. CASE S # {}
  <2> DEFINE R == S \ {PickOne(S)}
  <2>1. IsFiniteSet(R) /\ R \subseteq S
    BY FS_Subset
  <2>2. SumsUp(f, G(R), R)
    BY <2>1, SumsUpExist
  <2>3. G(R)[R] = G(S)[R]
    BY <2>1, <2>2, <1>1, SumsUpUnique
  <2>4. SumFunctionOnSet(f, R) = G(R)[R] /\ SumFunctionOnSet(f, S) = G(S)[S]
    BY SumUnfolded
  <2> QED BY <1>2, <1>4, <2>3, <2>4 DEF SumStep
<1> QED BY <1>3, <1>4

THEOREM SumEmpty ==
  ASSUME NEW f
  PROVE  SumFunctionOnSet(f, {}) = 0
BY SumPicked, FS_EmptySet

\* Sums of numbers are numbers.
THEOREM SumInt ==
  ASSUME NEW f, NEW S, IsFiniteSet(S), \A x \in S : f[x] \in Int
  PROVE  SumFunctionOnSet(f, S) \in Int
<1> DEFINE W == {s \in SUBSET S : SumFunctionOnSet(f, s) \in Int}
<1>1. ASSUME NEW s \in SUBSET S, \A x \in s : s \ {x} \in W
      PROVE  s \in W
  <2>1. CASE s = {}
    BY <2>1, SumEmpty
  <2>2. CASE s # {}
    <3>1. IsFiniteSet(s) /\ PickOne(s) \in s
      BY <2>2, FS_Subset, Picked
    <3>2. SumFunctionOnSet(f, s) = f[PickOne(s)] + SumFunctionOnSet(f, s \ {PickOne(s)})
      BY <2>2, <3>1, SumPicked
    <3> QED BY <1>1, <3>1, <3>2
  <2> QED BY <2>1, <2>2
<1>2. S \in W
  BY <1>1, SetInduction
<1> QED BY <1>2

\* Any element may be the one that is taken out.
THEOREM SumRemove ==
  ASSUME NEW f, NEW S, IsFiniteSet(S), \A x \in S : f[x] \in Int
  PROVE  \A x \in S : SumFunctionOnSet(f, S) = f[x] + SumFunctionOnSet(f, S \ {x})
<1> DEFINE F(s) == SumFunctionOnSet(f, s)
           W == {s \in SUBSET S : \A y \in s : F(s) = f[y] + F(s \ {y})}
<1>1. ASSUME NEW s \in SUBSET S, \A x \in s : s \ {x} \in W
      PROVE  s \in W
  <2> SUFFICES ASSUME NEW y \in s
               PROVE  F(s) = f[y] + F(s \ {y})
    OBVIOUS
  <2> DEFINE p == PickOne(s)
  <2>1. IsFiniteSet(s) /\ p \in s
    BY FS_Subset, Picked
  <2>2. F(s) = f[p] + F(s \ {p})
    BY <2>1, SumPicked
  <2>3. CASE y = p
    BY <2>2, <2>3
  <2>4. CASE y # p
    <3> DEFINE R == (s \ {p}) \ {y}
               a == F(s \ {p})
               b == F(s \ {y})
               c == F(R)
    <3>1. R = (s \ {y}) \ {p}
      OBVIOUS
    <3>2. a = f[y] + c /\ b = f[p] + c
      BY <1>1, <2>1, <2>4, <3>1
    <3>3. f[p] \in Int /\ f[y] \in Int /\ c \in Int
      BY <2>1, SumInt, FS_Subset
    <3>4. F(s) = f[p] + a
      BY <2>2
    <3>5. SUFFICES F(s) = f[y] + b
      OBVIOUS
    <3> HIDE DEF a, b, c
    <3> QED BY <3>2, <3>3, <3>4
  <2> QED BY <2>3, <2>4
<1>2. S \in W
  BY <1>1, SetInduction
<1> QED BY <1>2

\* An element is added.
THEOREM SumAdd ==
  ASSUME NEW f, NEW S, IsFiniteSet(S), NEW x, x \notin S, \A y \in S \cup {x} : f[y] \in Int
  PROVE  SumFunctionOnSet(f, S \cup {x}) = f[x] + SumFunctionOnSet(f, S)
<1>1. IsFiniteSet(S \cup {x}) /\ (S \cup {x}) \ {x} = S
  BY FS_AddElement
<1>2. SumFunctionOnSet(f, S \cup {x}) = f[x] + SumFunctionOnSet(f, (S \cup {x}) \ {x})
  BY <1>1, SumRemove
<1> QED BY <1>1, <1>2

\* Only the values on the set count.
THEOREM SumSame ==
  ASSUME NEW f, NEW g, NEW S, IsFiniteSet(S), \A x \in S : f[x] = g[x]
  PROVE  SumFunctionOnSet(f, S) = SumFunctionOnSet(g, S)
<1> DEFINE W == {s \in SUBSET S : SumFunctionOnSet(f, s) = SumFunctionOnSet(g, s)}
<1>1. ASSUME NEW s \in SUBSET S, \A x \in s : s \ {x} \in W
      PROVE  s \in W
  <2>1. CASE s = {}
    BY <2>1, SumEmpty
  <2>2. CASE s # {}
    <3>1. IsFiniteSet(s) /\ PickOne(s) \in s
      BY <2>2, FS_Subset, Picked
    <3>2. /\ SumFunctionOnSet(f, s) = f[PickOne(s)] + SumFunctionOnSet(f, s \ {PickOne(s)})
          /\ SumFunctionOnSet(g, s) = g[PickOne(s)] + SumFunctionOnSet(g, s \ {PickOne(s)})
      BY <2>2, <3>1, SumPicked
    <3> QED BY <1>1, <3>1, <3>2
  <2> QED BY <2>1, <2>2
<1>2. S \in W
  BY <1>1, SetInduction
<1> QED BY <1>2

-----------------------------------------------------------------------------
\* The sum of a function that is zero on the set.
THEOREM SumZero ==
  ASSUME NEW f, NEW S, IsFiniteSet(S), \A x \in S : f[x] = 0
  PROVE  SumFunctionOnSet(f, S) = 0
<1> DEFINE W == {s \in SUBSET S : SumFunctionOnSet(f, s) = 0}
<1>1. ASSUME NEW s \in SUBSET S, \A x \in s : s \ {x} \in W
      PROVE  s \in W
  <2>1. CASE s = {}
    BY <2>1, SumEmpty
  <2>2. CASE s # {}
    <3>1. IsFiniteSet(s) /\ PickOne(s) \in s
      BY <2>2, FS_Subset, Picked
    <3>2. SumFunctionOnSet(f, s) = f[PickOne(s)] + SumFunctionOnSet(f, s \ {PickOne(s)})
      BY <2>2, <3>1, SumPicked
    <3> QED BY <1>1, <3>1, <3>2
  <2> QED BY <2>1, <2>2
<1>2. S \in W
  BY <1>1, SetInduction
<1> QED BY <1>2

\* The sum of a function that is nowhere negative.
THEOREM SumNat ==
  ASSUME NEW f, NEW S, IsFiniteSet(S), \A x \in S : f[x] \in Nat
  PROVE  SumFunctionOnSet(f, S) \in Nat
<1> DEFINE W == {s \in SUBSET S : SumFunctionOnSet(f, s) \in Nat}
<1>1. ASSUME NEW s \in SUBSET S, \A x \in s : s \ {x} \in W
      PROVE  s \in W
  <2>1. CASE s = {}
    BY <2>1, SumEmpty
  <2>2. CASE s # {}
    <3>1. IsFiniteSet(s) /\ PickOne(s) \in s
      BY <2>2, FS_Subset, Picked
    <3>2. SumFunctionOnSet(f, s) = f[PickOne(s)] + SumFunctionOnSet(f, s \ {PickOne(s)})
      BY <2>2, <3>1, SumPicked
    <3> QED BY <1>1, <3>1, <3>2
  <2> QED BY <2>1, <2>2
<1>2. S \in W
  BY <1>1, SetInduction
<1> QED BY <1>2

\* The sum of two functions is that of their sums.
THEOREM SumPlus ==
  ASSUME NEW f, NEW g, NEW h, NEW S, IsFiniteSet(S),
         \A x \in S : f[x] \in Int /\ g[x] \in Int /\ h[x] = f[x] + g[x]
  PROVE  SumFunctionOnSet(h, S) = SumFunctionOnSet(f, S) + SumFunctionOnSet(g, S)
<1> DEFINE F(s) == SumFunctionOnSet(f, s)
           G(s) == SumFunctionOnSet(g, s)
           H(s) == SumFunctionOnSet(h, s)
           W == {s \in SUBSET S : H(s) = F(s) + G(s)}
<1>1. ASSUME NEW s \in SUBSET S, \A x \in s : s \ {x} \in W
      PROVE  s \in W
  <2>1. CASE s = {}
    <3>1. F(s) = 0 /\ G(s) = 0 /\ H(s) = 0
      BY <2>1, SumEmpty
    <3> QED BY <3>1
  <2>2. CASE s # {}
    <3> DEFINE p == PickOne(s)
               R == s \ {p}
    <3>1. IsFiniteSet(s) /\ IsFiniteSet(R) /\ p \in s
      BY <2>2, FS_Subset, Picked
    <3>2. F(s) = f[p] + F(R) /\ G(s) = g[p] + G(R) /\ H(s) = h[p] + H(R)
      BY <2>2, <3>1, SumPicked
    <3>3. H(R) = F(R) + G(R)
      BY <1>1, <3>1
    <3>4. F(R) \in Int /\ G(R) \in Int
      BY <3>1, SumInt
    <3>5. f[p] \in Int /\ g[p] \in Int /\ h[p] = f[p] + g[p]
      BY <3>1
    <3> HIDE DEF p, R, F, G, H
    <3>6. H(s) = F(s) + G(s)
      BY <3>2, <3>3, <3>4, <3>5
    <3> QED BY <3>6 DEF F, G, H
  <2> QED BY <2>1, <2>2
<1>2. S \in W
  BY <1>1, SetInduction
<1> QED BY <1>2

\* The sum of the differences is the difference of the sums.
THEOREM SumMinus ==
  ASSUME NEW f, NEW g, NEW h, NEW S, IsFiniteSet(S),
         \A x \in S : f[x] \in Int /\ g[x] \in Int /\ h[x] = f[x] - g[x]
  PROVE  SumFunctionOnSet(h, S) = SumFunctionOnSet(f, S) - SumFunctionOnSet(g, S)
<1>1. \A x \in S : h[x] \in Int /\ f[x] = h[x] + g[x]
  OBVIOUS
<1>2. SumFunctionOnSet(f, S) = SumFunctionOnSet(h, S) + SumFunctionOnSet(g, S)
  BY <1>1, SumPlus
<1>3. SumFunctionOnSet(h, S) \in Int /\ SumFunctionOnSet(g, S) \in Int
  BY <1>1, SumInt
<1> QED BY <1>2, <1>3

\* A function that changes at one element of the set.
THEOREM SumUpdate ==
  ASSUME NEW f, NEW g, NEW S, IsFiniteSet(S), NEW x \in S, g[x] \in Int,
         \A y \in S : f[y] \in Int, \A y \in S \ {x} : g[y] = f[y]
  PROVE  SumFunctionOnSet(g, S) = SumFunctionOnSet(f, S) + (g[x] - f[x])
<1> DEFINE R == S \ {x}
           a == SumFunctionOnSet(f, R)
           b == SumFunctionOnSet(g, R)
<1>1. IsFiniteSet(R) /\ \A y \in S : g[y] \in Int
  BY FS_Subset
<1>2. a = b
  BY <1>1, SumSame
<1>3. SumFunctionOnSet(f, S) = f[x] + a /\ SumFunctionOnSet(g, S) = g[x] + b
  BY <1>1, SumRemove
<1>4. a \in Int /\ f[x] \in Int
  BY <1>1, SumInt
<1> HIDE DEF a, b
<1> QED BY <1>2, <1>3, <1>4

\* What a set sums to is what its two parts do.
THEOREM SumSplit ==
  ASSUME NEW f, NEW S, NEW T, IsFiniteSet(S), T \subseteq S, \A x \in S : f[x] \in Int
  PROVE  SumFunctionOnSet(f, S) = SumFunctionOnSet(f, T) + SumFunctionOnSet(f, S \ T)
<1> DEFINE F(s) == SumFunctionOnSet(f, s)
           W == {s \in SUBSET T : F(S) = F(s) + F(S \ s)}
<1>1. ASSUME NEW s \in SUBSET T, \A x \in s : s \ {x} \in W
      PROVE  s \in W
  <2>1. CASE s = {}
    <3>1. F(s) = 0 /\ S \ s = S /\ F(S) \in Int
      BY <2>1, SumEmpty, SumInt
    <3> QED BY <3>1
  <2>2. CASE s # {}
    <3> DEFINE p == PickOne(s)
               R == s \ {p}
    <3>1. IsFiniteSet(s) /\ IsFiniteSet(R) /\ IsFiniteSet(S \ R) /\ IsFiniteSet(S \ s) /\ p \in s
      BY <2>2, FS_Subset, Picked
    <3>2. F(s) = f[p] + F(R)
      BY <3>1, SumRemove
    <3>3. F(S \ R) = f[p] + F(S \ s)
      <4>1. p \in S \ R /\ (S \ R) \ {p} = S \ s
        BY <3>1
      <4> QED BY <3>1, <4>1, SumRemove
    <3>4. F(S) = F(R) + F(S \ R)
      BY <1>1, <3>1
    <3>5. f[p] \in Int /\ F(R) \in Int /\ F(S \ s) \in Int
      BY <3>1, SumInt
    <3> HIDE DEF p, R, F
    <3>6. F(S) = F(s) + F(S \ s)
      BY <3>2, <3>3, <3>4, <3>5
    <3> QED BY <3>6 DEF F
  <2> QED BY <2>1, <2>2
<1>2. T \in W
  BY <1>1, FS_Subset, SetInduction
<1> QED BY <1>2

\* The sum over a single element.
THEOREM SumOne ==
  ASSUME NEW f, NEW x, f[x] \in Int
  PROVE  SumFunctionOnSet(f, {x}) = f[x]
<1>1. IsFiniteSet({x}) /\ {x} \ {x} = {} /\ \A y \in {x} : f[y] \in Int
  BY FS_Singleton
<1>2. SumFunctionOnSet(f, {x}) = f[x] + SumFunctionOnSet(f, {x} \ {x})
  BY <1>1, SumRemove
<1> QED BY <1>1, <1>2, SumEmpty

\* The same numbers under other names add up to the same.
THEOREM SumRenamed ==
  ASSUME NEW f, NEW h, NEW T, NEW m, IsFiniteSet(T),
         \A t \in T : h[t] = f[m[t]] /\ h[t] \in Int,
         \A s, t \in T : m[s] = m[t] => s = t
  PROVE  /\ IsFiniteSet({m[t] : t \in T})
         /\ SumFunctionOnSet(f, {m[t] : t \in T}) = SumFunctionOnSet(h, T)
<1> DEFINE Names(s) == {m[t] : t \in s}
           F(s) == SumFunctionOnSet(f, Names(s))
           H(s) == SumFunctionOnSet(h, s)
           W == {s \in SUBSET T : IsFiniteSet(Names(s)) /\ F(s) = H(s)}
<1>1. ASSUME NEW s \in SUBSET T, \A x \in s : s \ {x} \in W
      PROVE  s \in W
  <2>1. CASE s = {}
    <3>1. Names(s) = {}
      BY <2>1
    <3> QED BY <2>1, <3>1, SumEmpty, FS_EmptySet
  <2>2. CASE s # {}
    <3> DEFINE p == PickOne(s)
               R == s \ {p}
               N == Names(R)
    <3>1. IsFiniteSet(s) /\ p \in s /\ IsFiniteSet(N) /\ F(R) = H(R)
      BY <1>1, <2>2, FS_Subset, Picked
    <3>2. Names(s) = N \cup {m[p]} /\ m[p] \notin N
      BY <3>1
    <3>3. \A y \in N \cup {m[p]} : f[y] \in Int
      BY <3>1
    <3>4. H(s) = h[p] + H(R)
      BY <2>2, <3>1, SumPicked
    <3>5. SumFunctionOnSet(f, N \cup {m[p]}) = f[m[p]] + SumFunctionOnSet(f, N)
      <4>1. IsFiniteSet(N) /\ m[p] \notin N
        BY <3>1, <3>2
      <4> HIDE DEF N
      <4> QED BY <3>3, <4>1, SumAdd
    <3>6. IsFiniteSet(N \cup {m[p]})
      BY <3>1, FS_AddElement
    <3>7. h[p] = f[m[p]]
      BY <3>1
    <3> QED BY <3>1, <3>2, <3>4, <3>5, <3>6, <3>7
  <2> QED BY <2>1, <2>2
<1> HIDE DEF W
<1>2. T \in W
  BY <1>1, SetInduction
<1> QED BY <1>2 DEF W

\* What a set sums to is what its groups do, each under its key.
Grouping(f, S, K, key, group, part) ==
  /\ IsFiniteSet(S) /\ IsFiniteSet(K)
  /\ \A x \in S : f[x] \in Int /\ key[x] \in K
  /\ \A c \in K : \A x : x \in group[c] <=> x \in S /\ key[x] = c
  /\ \A c \in K : part[c] = SumFunctionOnSet(f, group[c])

THEOREM SumGrouped ==
  ASSUME NEW f, NEW S, NEW K, NEW key, NEW group, NEW part, Grouping(f, S, K, key, group, part)
  PROVE  SumFunctionOnSet(f, S) = SumFunctionOnSet(part, K)
<1> USE DEF Grouping
<1> DEFINE Of(s) == {x \in S : key[x] \in s}
           F(s) == SumFunctionOnSet(f, Of(s))
           P(s) == SumFunctionOnSet(part, s)
           W == {s \in SUBSET K : F(s) = P(s)}
<1>1. ASSUME NEW s \in SUBSET K, \A x \in s : s \ {x} \in W
      PROVE  s \in W
  <2>1. CASE s = {}
    <3>1. Of(s) = {}
      BY <2>1
    <3> QED BY <2>1, <3>1, SumEmpty
  <2>2. CASE s # {}
    <3> DEFINE p == PickOne(s)
               R == s \ {p}
    <3>1. IsFiniteSet(s) /\ p \in s /\ F(R) = P(R)
      BY <1>1, <2>2, FS_Subset, Picked
    <3>2. Of(R) = Of(s) \ group[p] /\ group[p] \subseteq Of(s)
      BY <3>1
    <3>3. IsFiniteSet(Of(s)) /\ \A x \in Of(s) : f[x] \in Int
      BY FS_Subset
    <3>4. F(s) = part[p] + F(R)
      <4> DEFINE A == Of(s)
                 B == group[p]
      <4>1. B \subseteq A /\ A \ B = Of(R) /\ IsFiniteSet(A) /\ \A x \in A : f[x] \in Int
        BY <3>2, <3>3
      <4>2. part[p] = SumFunctionOnSet(f, B)
        BY <3>1
      <4> HIDE DEF A, B
      <4>3. SumFunctionOnSet(f, A) = SumFunctionOnSet(f, B) + SumFunctionOnSet(f, A \ B)
        BY <4>1, SumSplit
      <4> QED BY <4>1, <4>2, <4>3 DEF A
    <3>5. P(s) = part[p] + P(R)
      BY <2>2, <3>1, SumPicked
    <3> QED BY <3>1, <3>4, <3>5
  <2> QED BY <2>1, <2>2
<1>2. K \in W
  <2> HIDE DEF W
  <2> QED BY <1>1, SetInduction
<1>3. Of(K) = S
  OBVIOUS
<1> QED BY <1>2, <1>3

\* Numbers of -1, 0 and 1 add up to no more than there are of them.
THEOREM SumOfUnits ==
  ASSUME NEW f, NEW S, IsFiniteSet(S), \A x \in S : f[x] \in {0 - 1, 0, 1}
  PROVE  SumFunctionOnSet(f, S) \in 0 - Cardinality(S)..Cardinality(S)
<1> DEFINE W == {s \in SUBSET S : SumFunctionOnSet(f, s) \in 0 - Cardinality(s)..Cardinality(s)}
<1>1. ASSUME NEW s \in SUBSET S, \A x \in s : s \ {x} \in W
      PROVE  s \in W
  <2>1. CASE s = {}
    <3>1. SumFunctionOnSet(f, s) = 0 /\ Cardinality(s) = 0
      BY <2>1, SumEmpty, FS_EmptySet
    <3> QED BY <3>1
  <2>2. CASE s # {}
    <3> DEFINE p == PickOne(s)
               r == SumFunctionOnSet(f, s \ {p})
               n == Cardinality(s \ {p})
               q == f[p]
    <3>1. IsFiniteSet(s) /\ p \in s
      BY <2>2, FS_Subset, Picked
    <3>2. SumFunctionOnSet(f, s) = q + r
      BY <2>2, <3>1, SumPicked
    <3>3. r \in 0 - n..n /\ q \in {0 - 1, 0, 1}
      BY <1>1, <3>1
    <3>4. n \in Nat /\ Cardinality(s) = n + 1
      <4>1. IsFiniteSet(s \ {p})
        BY <3>1, FS_Subset
      <4>2. n \in Nat /\ Cardinality(s) \in Nat /\ n = Cardinality(s) - 1
        BY <3>1, <4>1, Smaller, FS_CardinalityType
      <4> HIDE DEF n
      <4> QED BY <4>2
    <3> HIDE DEF r, n, q
    <3>5. q + r \in 0 - (n + 1)..(n + 1)
      BY <3>3, <3>4
    <3> QED BY <3>2, <3>4, <3>5
  <2> QED BY <2>1, <2>2
<1>2. S \in W
  <2> HIDE DEF W
  <2> QED BY <1>1, SetInduction
<1> QED BY <1>2

-----------------------------------------------------------------------------
\* The sum of what is everywhere the same.
THEOREM SumConstant ==
  ASSUME NEW f, NEW S, IsFiniteSet(S), NEW c \in Int, \A x \in S : f[x] = c
  PROVE  SumFunctionOnSet(f, S) = Cardinality(S) * c
<1> DEFINE W == {s \in SUBSET S : SumFunctionOnSet(f, s) = Cardinality(s) * c}
<1>1. ASSUME NEW s \in SUBSET S, \A x \in s : s \ {x} \in W
      PROVE  s \in W
  <2>1. CASE s = {}
    <3>1. SumFunctionOnSet(f, s) = 0 /\ Cardinality(s) = 0
      BY <2>1, SumEmpty, FS_EmptySet
    <3> QED BY <3>1
  <2>2. CASE s # {}
    <3> DEFINE p == PickOne(s)
               n == Cardinality(s \ {p})
    <3>1. IsFiniteSet(s) /\ p \in s
      BY <2>2, FS_Subset, Picked
    <3>2. SumFunctionOnSet(f, s) = f[p] + SumFunctionOnSet(f, s \ {p})
      BY <2>2, <3>1, SumPicked
    <3>3. SumFunctionOnSet(f, s \ {p}) = n * c /\ f[p] = c
      BY <1>1, <3>1
    <3>4. n \in Nat /\ Cardinality(s) = n + 1
      <4>1. IsFiniteSet(s \ {p})
        BY <3>1, FS_Subset
      <4>2. n \in Nat /\ Cardinality(s) \in Nat /\ n = Cardinality(s) - 1
        BY <3>1, <4>1, Smaller, FS_CardinalityType
      <4> HIDE DEF n
      <4> QED BY <4>2
    <3> HIDE DEF n
    <3>5. c + n * c = (n + 1) * c
      BY <3>4
    <3> QED BY <3>2, <3>3, <3>4, <3>5
  <2> QED BY <2>1, <2>2
<1>2. S \in W
  <2> HIDE DEF W
  <2> QED BY <1>1, SetInduction
<1> QED BY <1>2

\* Differences of neighbours add up to the difference of the ends.
THEOREM SumTelescopes ==
  ASSUME NEW f, NEW r, NEW m \in Nat, \A n \in 0..m : r[n] \in Int,
         \A n \in 1..m : f[n] = r[n - 1] - r[n]
  PROVE  SumFunctionOnSet(f, 1..m) = r[0] - r[m]
<1> DEFINE Wrong == {n \in 0..m : SumFunctionOnSet(f, 1..n) # r[0] - r[n]}
<1>1. Wrong = {}
  <2> SUFFICES ASSUME Wrong # {} PROVE FALSE
    OBVIOUS
  <2>1. PICK n \in Wrong : \A k \in Wrong : n <= k
    <3>1. Wrong \in SUBSET Nat
      OBVIOUS
    <3> HIDE DEF Wrong
    <3> QED BY <3>1, LeastElement
  <2>2. n \in 0..m /\ SumFunctionOnSet(f, 1..n) # r[0] - r[n]
    BY <2>1
  <2>3. n # 0
    <3> SUFFICES ASSUME n = 0 PROVE FALSE
      OBVIOUS
    <3>1. 1..n = {} /\ r[0] \in Int
      OBVIOUS
    <3>2. SumFunctionOnSet(f, 1..n) = 0
      BY <3>1, SumEmpty
    <3> QED BY <2>2, <3>1, <3>2
  <2>4. n - 1 \in 0..m /\ n - 1 \notin Wrong
    <3>1. n - 1 \in 0..m /\ ~(n <= n - 1)
      BY <2>2, <2>3
    <3> HIDE DEF Wrong
    <3> QED BY <2>1, <3>1
  <2>5. SumFunctionOnSet(f, 1..(n - 1)) = r[0] - r[n - 1]
    BY <2>4
  <2>6. 1..n = (1..(n - 1)) \cup {n} /\ n \notin 1..(n - 1)
    BY <2>2, <2>3
  <2>7. IsFiniteSet(1..(n - 1))
    BY <2>2, FS_Interval
  <2>8. \A k \in 1..n : f[k] \in Int
    <3> TAKE k \in 1..n
    <3>1. k \in 1..m /\ k \in 0..m /\ k - 1 \in 0..m
      BY <2>2
    <3>2. f[k] = r[k - 1] - r[k] /\ r[k - 1] \in Int /\ r[k] \in Int
      BY <3>1
    <3> QED BY <3>2
  <2>9. SumFunctionOnSet(f, 1..n) = f[n] + SumFunctionOnSet(f, 1..(n - 1))
    <3> DEFINE S == 1..(n - 1)
    <3>1. 1..n = S \cup {n} /\ n \notin S /\ IsFiniteSet(S) /\ \A k \in S \cup {n} : f[k] \in Int
      BY <2>6, <2>7, <2>8
    <3> HIDE DEF S
    <3>2. SumFunctionOnSet(f, S \cup {n}) = f[n] + SumFunctionOnSet(f, S)
      BY <3>1, SumAdd
    <3> QED BY <3>1, <3>2 DEF S
  <2>10. f[n] = r[n - 1] - r[n] /\ r[n] \in Int /\ r[n - 1] \in Int /\ r[0] \in Int
    BY <2>2, <2>3, <2>4
  <2> HIDE DEF Wrong
  <2> QED BY <2>2, <2>5, <2>9, <2>10
<1> QED BY <1>1

-----------------------------------------------------------------------------
\* The values of finitely many arguments are finitely many.
THEOREM FiniteFamily ==
  ASSUME NEW S, IsFiniteSet(S), NEW F, NEW T, \A t \in T : \E x \in S : t = F[x]
  PROVE  IsFiniteSet(T)
<1> DEFINE R == {F[x] : x \in S}
           f == [x \in S |-> F[x]]
<1>1. f \in Surjection(S, R)
  BY DEF Surjection
<1>2. IsFiniteSet(R)
  BY <1>1, FS_Surjection
<1>3. T \subseteq R
  OBVIOUS
<1> HIDE DEF R
<1> QED BY <1>2, <1>3, FS_Subset

\* So are the members of finitely many finite sets.
THEOREM FiniteUnion ==
  ASSUME NEW S, IsFiniteSet(S), NEW F, \A x \in S : IsFiniteSet(F[x]),
         NEW U, \A u \in U : \E x \in S : u \in F[x]
  PROVE  IsFiniteSet(U)
<1> DEFINE R == {F[x] : x \in S}
<1>1. \A t \in R : \E x \in S : t = F[x]
  OBVIOUS
<1>2. \A t \in R : IsFiniteSet(t)
  OBVIOUS
<1>3. U \subseteq UNION R
  OBVIOUS
<1> HIDE DEF R
<1>4. IsFiniteSet(R)
  BY <1>1, FiniteFamily
<1>5. IsFiniteSet(UNION R)
  BY <1>2, <1>4, FS_UNION
<1> QED BY <1>3, <1>5, FS_Subset

\* What two sets without a common member sum to.
Summable(f, A) == IsFiniteSet(A) /\ \A x \in A : f[x] \in Int

THEOREM SumJoined ==
  ASSUME NEW f, NEW T, NEW U, Summable(f, T), Summable(f, U), T \cap U = {}
  PROVE  SumFunctionOnSet(f, T \cup U) = SumFunctionOnSet(f, T) + SumFunctionOnSet(f, U)
<1> USE DEF Summable
<1> DEFINE S == T \cup U
<1>1. IsFiniteSet(S) /\ T \subseteq S /\ S \ T = U
  BY FS_Union
<1>2. \A x \in S : f[x] \in Int
  OBVIOUS
<1> HIDE DEF S
<1>3. SumFunctionOnSet(f, S) = SumFunctionOnSet(f, T) + SumFunctionOnSet(f, S \ T)
  BY <1>1, <1>2, SumSplit
<1> QED BY <1>1, <1>3 DEF S
-----------------------------------------------------------------------------
(***************************************************************************)
(* A finite set as a list: every member once.                              *)
(***************************************************************************)
LEMMA Listing ==
  ASSUME NEW S, IsFiniteSet(S)
  PROVE  /\ SetToSeq(S) \in Seq(S)
         /\ ToSet(SetToSeq(S)) = S
         /\ \A i, j \in DOMAIN SetToSeq(S) : SetToSeq(S)[i] = SetToSeq(S)[j] => i = j
<1> DEFINE n == Cardinality(S)
           s == SetToSeq(S)
<1>1. n \in Nat /\ Bijection(1..n, S) # {}
  BY FS_CardinalityType, Fun_ExistsBij
<1>2. \E f \in [1..n -> S] : IsInjective(f)
  <2>1. PICK f : f \in Bijection(1..n, S)
    BY <1>1
  <2> QED BY <2>1 DEF Bijection, Injection, IsInjective
<1>3. s \in [1..n -> S] /\ IsInjective(s)
  BY <1>2 DEF SetToSeq
<1> HIDE DEF s
<1>4. s \in Seq(S)
  BY <1>1, <1>3
<1>5. s \in Surjection(1..n, S)
  <2>1. s \in Injection(1..n, S)
    BY <1>3 DEF Injection
  <2>2. IsFiniteSet(1..n) /\ Cardinality(1..n) = n
    BY <1>1, FS_Interval
  <2> QED BY <2>1, <2>2, FS_Injection
<1>6. ToSet(s) = S
  BY <1>3, <1>5 DEF ToSet, Surjection
<1> QED BY <1>3, <1>4, <1>6 DEF s, IsInjective

-----------------------------------------------------------------------------
(***************************************************************************)
(* Folds over lists.  FoldLeft is the last value of a run that applies the *)
(* step to each element in turn, so what every step keeps holds of it.     *)
(***************************************************************************)
\* A finite set of numbers that is not empty has a greatest element.
LEMMA Greatest ==
  ASSUME NEW S \in SUBSET Nat, IsFiniteSet(S), S # {}
  PROVE  Max(S) \in S /\ \A n \in S : n <= Max(S)
<1> DEFINE W == {s \in SUBSET S : s = {} \/ \E m \in s : \A n \in s : n <= m}
<1>1. ASSUME NEW s \in SUBSET S, \A x \in s : s \ {x} \in W
      PROVE  s \in W
  <2> SUFFICES ASSUME s # {} PROVE \E m \in s : \A n \in s : n <= m
    OBVIOUS
  <2>1. PICK x : x \in s
    OBVIOUS
  <2>2. CASE s \ {x} = {}
    BY <2>1, <2>2
  <2>3. ASSUME NEW m \in s \ {x}, \A n \in s \ {x} : n <= m
        PROVE  \E p \in s : \A n \in s : n <= p
    <3>1. CASE x <= m
      BY <2>1, <2>3, <3>1
    <3>2. CASE ~(x <= m)
      <4>1. \A n \in s : n <= x
        BY <2>1, <2>3, <3>2
      <4> QED BY <2>1, <4>1
    <3> QED BY <3>1, <3>2
  <2> QED BY <1>1, <2>1, <2>2, <2>3
<1>2. S \in W
  <2> HIDE DEF W
  <2> QED BY <1>1, SetInduction
<1>3. \E m \in S : \A n \in S : m >= n
  <2>1. PICK m \in S : \A n \in S : n <= m
    BY <1>2
  <2>2. \A n \in S : m >= n
    BY <2>1
  <2> QED BY <2>2
<1>4. Max(S) \in S /\ \A n \in S : Max(S) >= n
  BY <1>3 DEF Max
<1> QED BY <1>4

(***************************************************************************)
(* A fold of a list, as the function its definition recurs on: from the    *)
(* indices taken to what they have made of the base.                       *)
(***************************************************************************)
FoldStep(step, base, seq, h, s) == IF s = {} THEN base ELSE step[<<h[s \ {Max(s)}], seq[Max(s)]>>]

FoldedBy(step, base, seq, h) == h = [s \in SUBSET DOMAIN seq |-> FoldStep(step, base, seq, h, s)]

\* A list of X is folded into Acc; a function follows the fold.
Folding(Acc, X, base, seq, step) == base \in Acc /\ seq \in Seq(X) /\ step \in [Acc \X X -> Acc]

Follows(Acc, base, seq, step, h) ==
  /\ h[{}] = base
  /\ \A s \in SUBSET DOMAIN seq : s # {} /\ h[s \ {Max(s)}] \in Acc =>
       h[s] = step[<<h[s \ {Max(s)}], seq[Max(s)]>>]

LEMMA FoldExists ==
  ASSUME NEW step, NEW base, NEW seq, IsFiniteSet(DOMAIN seq), DOMAIN seq \subseteq Nat
  PROVE  \E h : h = [s \in SUBSET DOMAIN seq |-> FoldStep(step, base, seq, h, s)]
<1> DEFINE S == DOMAIN seq
           Upto(n) == {t \in SUBSET S : Cardinality(t) <= n}
           Has(n) == \E g : g = [s \in Upto(n) |-> FoldStep(step, base, seq, g, s)]
           Lacks == {n \in Nat : ~Has(n)}
<1>1. \A s \in SUBSET S : IsFiniteSet(s) /\ Cardinality(s) \in Nat /\ Cardinality(s) <= Cardinality(S)
  BY FS_Subset, FS_CardinalityType
<1>2. Cardinality(S) \in Nat /\ Upto(Cardinality(S)) = SUBSET S
  BY <1>1, FS_CardinalityType
<1>3. SUFFICES Lacks = {}
  <2>1. Has(Cardinality(S))
    BY <1>2, <1>3
  <2> QED BY <1>2, <2>1
<1>4. SUFFICES ASSUME Lacks # {} PROVE FALSE
  OBVIOUS
<1>5. PICK m \in Lacks : \A n \in Lacks : m <= n
  BY <1>4, LeastElement
<1> HIDE DEF Has
<1>6. m # 0
  <2>1. \A s \in Upto(0) : s = {}
    BY <1>1, FS_EmptySet
  <2> DEFINE g == [s \in Upto(0) |-> base]
  <2>2. g = [s \in Upto(0) |-> FoldStep(step, base, seq, g, s)]
    BY <2>1 DEF FoldStep
  <2>3. Has(0)
    BY <2>2 DEF Has
  <2> QED BY <2>3
<1>7. m - 1 \in Nat /\ m - 1 \notin Lacks
  BY <1>5, <1>6
<1>8. PICK g : g = [s \in Upto(m - 1) |-> FoldStep(step, base, seq, g, s)]
  BY <1>7 DEF Has
<1> DEFINE h == [s \in Upto(m) |-> FoldStep(step, base, seq, g, s)]
<1>9. \A s \in Upto(m - 1) : h[s] = g[s]
  BY <1>1, <1>7, <1>8
<1>10. \A s \in Upto(m) : FoldStep(step, base, seq, g, s) = FoldStep(step, base, seq, h, s)
  <2> SUFFICES ASSUME NEW s \in SUBSET S, Cardinality(s) <= m, s # {}
               PROVE  g[s \ {Max(s)}] = h[s \ {Max(s)}]
    BY DEF FoldStep
  <2>1. IsFiniteSet(s) /\ Max(s) \in s
    BY <1>1, Greatest
  <2>2. Cardinality(s \ {Max(s)}) = Cardinality(s) - 1 /\ Cardinality(s) \in Nat
    BY <2>1, Smaller
  <2>3. s \ {Max(s)} \in Upto(m - 1)
    BY <2>2
  <2> QED BY <2>3, <1>9
<1>11. h = [s \in Upto(m) |-> FoldStep(step, base, seq, h, s)]
  BY <1>10
<1> QED BY <1>11 DEF Has

\* A function that recurs like a fold goes through the list from its first
\* element to its last.
LEMMA FoldRuns ==
  ASSUME NEW Acc, NEW X, NEW base, NEW seq, NEW step, Folding(Acc, X, base, seq, step),
         NEW h, Follows(Acc, base, seq, step, h)
  PROVE  \E g \in [0..Len(seq) -> Acc] :
           /\ g[0] = base /\ g[Len(seq)] = h[DOMAIN seq]
           /\ \A n \in 1..Len(seq) : g[n] = step[<<g[n - 1], seq[n]>>]
<1> USE DEF Folding, Follows
<1> DEFINE g == [n \in 0..Len(seq) |-> h[1..n]]
           Bad == {n \in 0..Len(seq) : h[1..n] \notin Acc}
<1>1. Len(seq) \in Nat /\ DOMAIN seq = 1..Len(seq) /\ \A n \in 1..Len(seq) : seq[n] \in X
  BY LenProperties
<1>2. ASSUME NEW n \in 1..Len(seq)
      PROVE  Max(1..n) = n /\ (1..n) \ {Max(1..n)} = 1..(n - 1) /\ 1..n # {}
  <2>0. n \in Nat
    BY <1>1
  <2>1. 1 \in Int /\ n \in Int /\ n \in 1..n
    BY <2>0
  <2>2. IsFiniteSet(1..n) /\ 1..n \in SUBSET Nat
    BY <2>0, <2>1, FS_Interval
  <2>3. Max(1..n) \in 1..n /\ \A i \in 1..n : i <= Max(1..n)
    BY <2>1, <2>2, Greatest
  <2>4. Max(1..n) = n
    <3>1. \A i \in 1..n : n <= i => i = n
      BY <2>0
    <3> QED BY <2>1, <2>3, <3>1
  <2>5. (1..n) \ {n} = 1..(n - 1)
    BY <2>0
  <2> QED BY <2>1, <2>4, <2>5
<1>3. 1..0 = {} /\ h[1..0] = base
  OBVIOUS
<1>4. ASSUME NEW n \in 1..Len(seq), h[1..(n - 1)] \in Acc
      PROVE  h[1..n] = step[<<h[1..(n - 1)], seq[n]>>] /\ h[1..n] \in Acc
  <2>1. 1..n \in SUBSET DOMAIN seq
    BY <1>1
  <2>2. h[1..n] = step[<<h[1..(n - 1)], seq[n]>>]
    BY <1>2, <1>4, <2>1
  <2> QED BY <1>1, <1>4, <2>2
<1>5. Bad = {}
  <2> SUFFICES ASSUME Bad # {} PROVE FALSE
    OBVIOUS
  <2>1. PICK n \in Bad : \A m \in Bad : n <= m
    <3>1. Bad \in SUBSET Nat
      BY <1>1
    <3> QED BY <3>1, LeastElement
  <2>2. n # 0
    BY <1>3, <2>1
  <2>3. n \in 1..Len(seq) /\ n - 1 \in 0..Len(seq) /\ n - 1 \notin Bad
    BY <1>1, <2>1, <2>2
  <2> QED BY <1>4, <2>1, <2>3
<1>6. \A n \in 0..Len(seq) : h[1..n] \in Acc
  BY <1>5
<1>7. g \in [0..Len(seq) -> Acc]
  BY <1>6
<1>8. \A n \in 1..Len(seq) : n \in 0..Len(seq) /\ n - 1 \in 0..Len(seq)
  BY <1>1
<1>9. 0 \in 0..Len(seq) /\ Len(seq) \in 0..Len(seq)
  BY <1>1
<1>10. \A n \in 1..Len(seq) : g[n] = step[<<g[n - 1], seq[n]>>]
  BY <1>4, <1>6, <1>8
<1>11. g[0] = base /\ g[Len(seq)] = h[DOMAIN seq]
  BY <1>1, <1>3, <1>9
<1> HIDE DEF g
<1> QED BY <1>7, <1>10, <1>11

\* The greatest of some indices of a list is one of its indices.
LEMMA IndexIn ==
  ASSUME NEW n \in Nat, NEW s \in SUBSET (1..n), s # {}
  PROVE  Max(s) \in 1..n /\ Max(s) \in s
<1>1. n \in Int /\ 1 \in Int
  OBVIOUS
<1>2. IsFiniteSet(1..n)
  BY <1>1, FS_Interval
<1>3. IsFiniteSet(s) /\ s \in SUBSET Nat
  <2>1. s \subseteq 1..n
    OBVIOUS
  <2>2. IsFiniteSet(s)
    BY <1>2, <2>1, FS_Subset
  <2>3. 1..n \subseteq Nat
    OBVIOUS
  <2> QED BY <2>1, <2>2, <2>3
<1> QED BY <1>3, Greatest

\* What a fold makes stays what its steps make.
LEMMA FoldClosed ==
  ASSUME NEW Acc, NEW X, NEW base, NEW seq, NEW step, Folding(Acc, X, base, seq, step)
  PROVE  \E h \in [SUBSET DOMAIN seq -> Acc] : FoldedBy(step, base, seq, h)
<1> USE DEF Folding, FoldedBy
<1>1. Len(seq) \in Nat /\ DOMAIN seq = 1..Len(seq) /\ \A n \in 1..Len(seq) : seq[n] \in X
  BY LenProperties
<1>2. IsFiniteSet(DOMAIN seq) /\ DOMAIN seq \subseteq Nat
  <2>1. Len(seq) \in Int /\ 1 \in Int
    BY <1>1
  <2> QED BY <1>1, <2>1, FS_Interval
<1>3. PICK h : h = [s \in SUBSET DOMAIN seq |-> FoldStep(step, base, seq, h, s)]
  BY <1>2, FoldExists
<1>4. ASSUME NEW S \in SUBSET DOMAIN seq
      PROVE  h[S] \in Acc
  <2> DEFINE W == {s \in SUBSET S : h[s] \in Acc}
  <2>1. ASSUME NEW s \in SUBSET S, \A x \in s : s \ {x} \in W
        PROVE  s \in W
    <3>1. h[s] = FoldStep(step, base, seq, h, s)
      BY <1>3
    <3>2. CASE s = {}
      BY <3>1, <3>2 DEF FoldStep
    <3>3. CASE s # {}
      <4>1. Max(s) \in 1..Len(seq) /\ Max(s) \in s
        BY <1>1, <3>3, IndexIn
      <4>2. h[s \ {Max(s)}] \in Acc /\ seq[Max(s)] \in X
        BY <1>1, <2>1, <4>1
      <4>3. h[s] = step[<<h[s \ {Max(s)}], seq[Max(s)]>>]
        BY <3>1, <3>3 DEF FoldStep
      <4>4. h[s] \in Acc
        BY <4>2, <4>3
      <4> QED BY <4>4
    <3> QED BY <3>2, <3>3
  <2>2. IsFiniteSet(S)
    BY <1>2, FS_Subset
  <2>3. S \in W
    <3> HIDE DEF W
    <3> QED BY <2>1, <2>2, SetInduction
  <2> QED BY <2>3
<1> QED BY <1>3, <1>4
\* A list without one of its elements.
LEMMA Removed ==
  ASSUME NEW X, NEW s \in Seq(X), NEW n \in DOMAIN s
  PROVE  /\ RemoveAt(s, n) \in Seq(X)
         /\ DOMAIN RemoveAt(s, n) = 1..(Len(s) - 1)
         /\ \A i \in 1..(Len(s) - 1) :
              /\ RemoveAt(s, n)[i] = s[IF i < n THEN i ELSE i + 1]
              /\ (IF i < n THEN i ELSE i + 1) \in DOMAIN s
<1> DEFINE l == Len(s)
           p == SubSeq(s, 1, n - 1)
           q == SubSeq(s, n + 1, l)
<1>1. l \in Nat /\ DOMAIN s = 1..l /\ n \in 1..l
  BY LenProperties
<1>2. p \in Seq(X) /\ Len(p) = n - 1 /\ \A i \in 1..(n - 1) : p[i] = s[i]
  <2>1. 1 \in 1..(l + 1) /\ n - 1 \in (1 - 1)..l
    BY <1>1
  <2> HIDE DEF l
  <2>2. p \in Seq(X) /\ Len(p) = n - 1
    BY <1>1, SubSeqProperties DEF l
  <2>3. \A i \in 1..(n - 1) : p[i] = s[i]
    BY <1>1, SubSeqProperties DEF l
  <2> QED BY <2>2, <2>3
<1>3. q \in Seq(X) /\ Len(q) = l - n /\ \A i \in 1..(l - n) : q[i] = s[n + i]
  BY <1>1, SubSeqProperties
<1> HIDE DEF p, q
<1>4. /\ p \o q \in Seq(X) /\ Len(p \o q) = l - 1
      /\ \A i \in 1..(l - 1) : (p \o q)[i] = IF i <= n - 1 THEN p[i] ELSE q[i - (n - 1)]
  <2>1. Len(p \o q) = Len(p) + Len(q) /\ p \o q \in Seq(X)
    BY <1>2, <1>3, ConcatProperties
  <2>2. \A i \in 1..(Len(p) + Len(q)) : (p \o q)[i] = IF i <= Len(p) THEN p[i] ELSE q[i - Len(p)]
    BY <1>2, <1>3, ConcatProperties
  <2>3. Len(p) = n - 1 /\ Len(p) + Len(q) = l - 1
    BY <1>1, <1>2, <1>3
  <2> QED BY <2>1, <2>2, <2>3
<1>5. ASSUME NEW i \in 1..(l - 1)
      PROVE  (p \o q)[i] = s[IF i < n THEN i ELSE i + 1] /\ (IF i < n THEN i ELSE i + 1) \in 1..l
  <2>1. CASE i < n
    <3>1. i <= n - 1 /\ i \in 1..(n - 1) /\ i \in 1..l
      BY <1>1, <2>1
    <3> QED BY <1>2, <1>4, <2>1, <3>1
  <2>2. CASE ~(i < n)
    <3>1. ~(i <= n - 1) /\ i - (n - 1) \in 1..(l - n) /\ n + (i - (n - 1)) = i + 1 /\ i + 1 \in 1..l
      BY <1>1, <2>2
    <3> QED BY <1>3, <1>4, <2>2, <3>1
  <2> QED BY <2>1, <2>2
<1>6. RemoveAt(s, n) = p \o q
  BY DEF RemoveAt, p, q
<1>7. DOMAIN (p \o q) = 1..(l - 1)
  BY <1>4, LenProperties
<1> QED BY <1>1, <1>4, <1>5, <1>6, <1>7
=============================================================================
