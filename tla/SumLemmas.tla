------------------------------ MODULE SumLemmas ------------------------------
(***************************************************************************)
(* Induction over the naturals stated for a set, and what it gives for the *)
(* sum of a function's values over a finite set of indices.                *)
(***************************************************************************)
EXTENDS Integers, Functions, FiniteSetTheorems, WellFoundedInduction, TLAPS

\* A set of naturals that is not empty has a least member.
LEMMA LeastNumber ==
    ASSUME NEW T, T \subseteq Nat, T # {}
    PROVE  \E n \in T : \A m \in T : n <= m
<1>1. PICK n \in T : \A m \in T : ~(<<m, n>> \in OpToRel(<, Nat))
  BY NatLessThanWellFounded, WFMin
<1>2. \A m \in T : ~(m < n)
  BY <1>1 DEF OpToRel
<1> QED
  BY <1>2

\* A set that has zero and with every number the next has all of them.
LEMMA NumberInduction ==
    ASSUME NEW T, 0 \in T, \A n \in Nat : n \in T => n + 1 \in T
    PROVE  \A n \in Nat : n \in T
<1> SUFFICES ASSUME ~(Nat \subseteq T) PROVE FALSE
  OBVIOUS
<1>1. PICK n \in Nat \ T : \A m \in Nat \ T : n <= m
  BY LeastNumber
<1>2. n # 0 /\ n - 1 \in Nat /\ n - 1 \notin Nat \ T
  BY <1>1
<1> QED
  BY <1>1, <1>2

-------------------------------------------------------------------------------
(* SumFunctionOnSet takes the indices one after the other, always the same *)
(* one of those that are left.                                             *)

Chosen(S) == CHOOSE x \in S : TRUE
SumStep(f, g, S) == IF S = {} THEN 0 ELSE f[Chosen(S)] + g[S \ {Chosen(S)}]
Summing(f, S) == CHOOSE g : g = [s \in SUBSET S |-> SumStep(f, g, s)]

\* What the library's operator is.
LEMMA SumIsSumming ==
    ASSUME NEW f, NEW S
    PROVE  SumFunctionOnSet(f, S) = Summing(f, S)[S]
BY DEF SumFunctionOnSet, FoldFunctionOnSet, MapThenFoldSet, Summing, SumStep, Chosen

\* An index less.
LEMMA ChosenLeaves ==
    ASSUME NEW S, IsFiniteSet(S), S # {}
    PROVE  /\ Chosen(S) \in S /\ IsFiniteSet(S \ {Chosen(S)})
           /\ Cardinality(S \ {Chosen(S)}) = Cardinality(S) - 1
           /\ Cardinality(S) \in Nat /\ Cardinality(S) > 0
<1>1. Chosen(S) \in S
  BY DEF Chosen
<1> QED
  BY <1>1, FS_RemoveElement, FS_CardinalityType, FS_EmptySet

\* There is a function that takes the indices of every subset in turn.
LEMMA SummingStep ==
    ASSUME NEW f, NEW S, IsFiniteSet(S)
    PROVE  \A s \in SUBSET S : Summing(f, S)[s] = SumStep(f, Summing(f, S), s)
<1> DEFINE Upto(n, g) == \A s \in SUBSET S : Cardinality(s) <= n => g[s] = SumStep(f, g, s)
           T == {n \in Nat : \E g : Upto(n, g)}
<1>1. \A s \in SUBSET S : IsFiniteSet(s) /\ Cardinality(s) \in Nat
        /\ Cardinality(s) <= Cardinality(S)
  BY FS_Subset, FS_CardinalityType
<1>2. 0 \in T
  <2>1. \A s \in SUBSET S : Cardinality(s) <= 0 => s = {}
    BY <1>1, FS_EmptySet
  <2>2. Upto(0, [s \in SUBSET S |-> 0])
    BY <2>1 DEF SumStep
  <2> QED
    BY <2>2
<1>3. \A n \in Nat : n \in T => n + 1 \in T
  <2> SUFFICES ASSUME NEW n \in Nat, NEW g, Upto(n, g) PROVE n + 1 \in T
    OBVIOUS
  <2> DEFINE h == [s \in SUBSET S |-> SumStep(f, g, s)]
  <2>1. \A s \in SUBSET S : Cardinality(s) <= n => h[s] = g[s]
    OBVIOUS
  <2>2. \A s \in SUBSET S : h[s] = SumStep(f, g, s)
    OBVIOUS
  <2> HIDE DEF h
  <2>3. ASSUME NEW s \in SUBSET S, Cardinality(s) <= n + 1
        PROVE  h[s] = SumStep(f, h, s)
    <3>1. CASE s = {}
      BY <2>2, <3>1 DEF SumStep
    <3>2. CASE s # {}
      <4>1. s \ {Chosen(s)} \in SUBSET S /\ Cardinality(s \ {Chosen(s)}) <= n
        BY <1>1, <2>3, <3>2, ChosenLeaves
      <4>2. h[s \ {Chosen(s)}] = g[s \ {Chosen(s)}]
        BY <2>1, <4>1
      <4> QED
        BY <2>2, <4>2 DEF SumStep
    <3> QED
      BY <3>1, <3>2
  <2>4. Upto(n + 1, h)
    BY <2>3
  <2> QED
    BY <2>4
<1>4. Cardinality(S) \in T
  <2> HIDE DEF T
  <2> QED
    BY <1>1, <1>2, <1>3, NumberInduction
<1>5. PICK g : Upto(Cardinality(S), g)
  BY <1>4
<1>6. \A s \in SUBSET S : g[s] = SumStep(f, g, s)
  BY <1>1, <1>5
<1> DEFINE h == [s \in SUBSET S |-> g[s]]
<1>7. h = [s \in SUBSET S |-> SumStep(f, h, s)]
  <2>1. ASSUME NEW s \in SUBSET S PROVE h[s] = SumStep(f, h, s)
    <3>1. s # {} => s \ {Chosen(s)} \in SUBSET S
      OBVIOUS
    <3> QED
      BY <1>6, <3>1 DEF SumStep
  <2> QED
    BY <2>1
<1> DEFINE F == Summing(f, S)
           step == [s \in SUBSET S |-> SumStep(f, F, s)]
<1>8. F = step
  BY <1>7 DEF Summing
<1>9. \A s \in SUBSET S : step[s] = SumStep(f, F, s)
  OBVIOUS
<1> HIDE DEF F, step
<1>10. \A s \in SUBSET S : F[s] = SumStep(f, F, s)
  BY <1>8, <1>9
<1> QED
  BY <1>10 DEF F

\* A sum of naturals is a natural.
LEMMA SummingNat ==
    ASSUME NEW S, IsFiniteSet(S), NEW f, \A x \in S : f[x] \in Nat
    PROVE  \A s \in SUBSET S : Summing(f, S)[s] \in Nat
<1> DEFINE T == {n \in Nat : \A s \in SUBSET S : Cardinality(s) = n => Summing(f, S)[s] \in Nat}
<1>1. \A s \in SUBSET S : IsFiniteSet(s) /\ Cardinality(s) \in Nat
  BY FS_Subset, FS_CardinalityType
<1>2. \A s \in SUBSET S : Summing(f, S)[s] = SumStep(f, Summing(f, S), s)
  BY SummingStep
<1>3. 0 \in T
  BY <1>1, <1>2, FS_EmptySet DEF SumStep
<1>4. \A n \in Nat : n \in T => n + 1 \in T
  <2> SUFFICES ASSUME NEW n \in Nat, n \in T, NEW s \in SUBSET S, Cardinality(s) = n + 1
               PROVE  Summing(f, S)[s] \in Nat
    OBVIOUS
  <2>1. /\ s # {} /\ Chosen(s) \in s /\ s \ {Chosen(s)} \in SUBSET S
        /\ Cardinality(s \ {Chosen(s)}) = n
    BY <1>1, ChosenLeaves, FS_EmptySet
  <2>2. f[Chosen(s)] \in Nat /\ Summing(f, S)[s \ {Chosen(s)}] \in Nat
    BY <2>1
  <2>3. SumStep(f, Summing(f, S), s) \in Nat
    BY <2>1, <2>2 DEF SumStep
  <2> QED
    BY <1>2, <2>3
<1>5. \A n \in Nat : n \in T
  <2> HIDE DEF T
  <2> QED
    BY <1>3, <1>4, NumberInduction
<1> QED
  BY <1>1, <1>5

\* Only the values at the indices summed matter.
LEMMA SummingLocal ==
    ASSUME NEW S, IsFiniteSet(S), NEW R \in SUBSET S, NEW f, NEW h,
           \A x \in R : f[x] = h[x]
    PROVE  \A s \in SUBSET R : Summing(f, S)[s] = Summing(h, R)[s]
<1> DEFINE T == {n \in Nat : \A s \in SUBSET R :
                   Cardinality(s) = n => Summing(f, S)[s] = Summing(h, R)[s]}
<1>1. IsFiniteSet(R) /\ \A s \in SUBSET R : IsFiniteSet(s) /\ Cardinality(s) \in Nat
  BY FS_Subset, FS_CardinalityType
<1>2. \A s \in SUBSET R : /\ Summing(f, S)[s] = SumStep(f, Summing(f, S), s)
                          /\ Summing(h, R)[s] = SumStep(h, Summing(h, R), s)
  BY <1>1, SummingStep
<1>3. 0 \in T
  BY <1>1, <1>2, FS_EmptySet DEF SumStep
<1>4. \A n \in Nat : n \in T => n + 1 \in T
  <2> SUFFICES ASSUME NEW n \in Nat, n \in T, NEW s \in SUBSET R, Cardinality(s) = n + 1
               PROVE  Summing(f, S)[s] = Summing(h, R)[s]
    OBVIOUS
  <2>1. /\ s # {} /\ Chosen(s) \in s /\ s \ {Chosen(s)} \in SUBSET R
        /\ Cardinality(s \ {Chosen(s)}) = n
    BY <1>1, ChosenLeaves, FS_EmptySet
  <2>2. f[Chosen(s)] = h[Chosen(s)]
        /\ Summing(f, S)[s \ {Chosen(s)}] = Summing(h, R)[s \ {Chosen(s)}]
    BY <2>1
  <2> QED
    BY <1>2, <2>1, <2>2 DEF SumStep
<1>5. \A n \in Nat : n \in T
  <2> HIDE DEF T
  <2> QED
    BY <1>3, <1>4, NumberInduction
<1> QED
  BY <1>1, <1>5

\* Any index may be taken first.
LEMMA SummingAny ==
    ASSUME NEW S, IsFiniteSet(S), NEW f, \A x \in S : f[x] \in Nat
    PROVE  \A s \in SUBSET S : \A x \in s :
             Summing(f, S)[s] = f[x] + Summing(f, S)[s \ {x}]
<1> DEFINE F == Summing(f, S)
           P(n) == \A s \in SUBSET S : \A x \in s :
                     Cardinality(s) = n => F[s] = f[x] + F[s \ {x}]
           T == {n \in Nat : P(n)}
<1>1. \A s \in SUBSET S : /\ IsFiniteSet(s) /\ Cardinality(s) \in Nat
                          /\ Cardinality(s) = 0 => s = {}
  BY FS_Subset, FS_CardinalityType, FS_EmptySet
<1>2. \A s \in SUBSET S : F[s] = SumStep(f, F, s) /\ F[s] \in Nat
  BY SummingStep, SummingNat
<1> HIDE DEF F
<1>3. 0 \in T
  BY <1>1
<1>4. \A n \in Nat : n \in T => n + 1 \in T
  <2> HIDE DEF P
  <2> SUFFICES ASSUME NEW n \in Nat, P(n) PROVE P(n + 1)
    OBVIOUS
  <2> USE DEF P
  <2> SUFFICES ASSUME NEW s \in SUBSET S, NEW x \in s, Cardinality(s) = n + 1
               PROVE  F[s] = f[x] + F[s \ {x}]
    OBVIOUS
  <2> DEFINE c == Chosen(s)
  <2>1. c \in s /\ F[s] = f[c] + F[s \ {c}]
    BY <1>1, <1>2, ChosenLeaves DEF SumStep
  <2> HIDE DEF c
  <2>2. CASE x = c
    BY <2>1, <2>2
  <2>3. CASE x # c
    <3>1. /\ Cardinality(s \ {c}) = n /\ Cardinality(s \ {x}) = n
          /\ s \ {c} \in SUBSET S /\ s \ {x} \in SUBSET S
      BY <1>1, <2>1, FS_RemoveElement
    <3>2. F[s \ {c}] = f[x] + F[(s \ {c}) \ {x}]
      BY <2>3, <3>1
    <3>3. F[s \ {x}] = f[c] + F[(s \ {c}) \ {x}]
      <4>1. F[s \ {x}] = f[c] + F[(s \ {x}) \ {c}]
        BY <2>1, <2>3, <3>1
      <4>2. (s \ {x}) \ {c} = (s \ {c}) \ {x}
        OBVIOUS
      <4> QED
        BY <4>1, <4>2
    <3>4. F[(s \ {c}) \ {x}] \in Nat /\ f[x] \in Nat /\ f[c] \in Nat
      BY <1>2, <2>1
    <3> DEFINE rest == F[(s \ {c}) \ {x}]
    <3> HIDE DEF rest
    <3>5. F[s] = f[c] + (f[x] + rest) /\ F[s \ {x}] = f[c] + rest
      BY <2>1, <3>2, <3>3 DEF rest
    <3> QED
      BY <3>4, <3>5 DEF rest
  <2> QED
    BY <2>2, <2>3
<1>5. \A n \in Nat : n \in T
  <2> HIDE DEF T
  <2> QED
    BY <1>3, <1>4, NumberInduction
<1> QED
  BY <1>1, <1>5 DEF F

-------------------------------------------------------------------------------
(* What the sums are.                                                      *)

\* The empty sum.
LEMMA SumEmpty == ASSUME NEW f PROVE SumFunctionOnSet(f, {}) = 0
<1>1. Summing(f, {})[{}] = SumStep(f, Summing(f, {}), {})
  BY SummingStep, FS_EmptySet
<1> QED
  BY <1>1, SumIsSumming DEF SumStep

\* The type of a sum.
LEMMA SumNat ==
    ASSUME NEW S, IsFiniteSet(S), NEW f, \A x \in S : f[x] \in Nat
    PROVE  SumFunctionOnSet(f, S) \in Nat
BY SumIsSumming, SummingNat

\* A sum without one of its indices, of a function that may differ elsewhere.
LEMMA SumTake ==
    ASSUME NEW S, IsFiniteSet(S), NEW f, \A x \in S : f[x] \in Nat,
           NEW x \in S, NEW h, \A y \in S \ {x} : h[y] = f[y]
    PROVE  SumFunctionOnSet(f, S) = f[x] + SumFunctionOnSet(h, S \ {x})
<1>1. Summing(f, S)[S] = f[x] + Summing(f, S)[S \ {x}]
  BY SummingAny
<1>2. Summing(f, S)[S \ {x}] = Summing(h, S \ {x})[S \ {x}]
  BY SummingLocal
<1> QED
  BY <1>1, <1>2, SumIsSumming

==============================================================================
