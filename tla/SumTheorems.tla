---------------------------- MODULE SumTheorems -----------------------------
(***************************************************************************)
(* What the sums of the models compute, for every finite set: a sum of     *)
(* naturals is a natural, it does not depend on the order of the elements, *)
(* and it grows with the set.                                              *)
(*                                                                         *)
(* MapThenSumSet and SumFunction recurse over the subsets of their set.    *)
(* The provers cannot use the induction theorems of the library, whose     *)
(* predicate is an operator; the well-foundedness of strict inclusion and  *)
(* the minimal element it gives a set of subsets take their place.         *)
(***************************************************************************)
EXTENDS Integers, FiniteSets, FiniteSetTheorems, TLAPS

\* The element a fold takes from a set first.
Chosen(s) == CHOOSE x \in s : TRUE

\* g is the recursion of a sum of w over the subsets of S.
Unfolds(g, w, S) ==
    g = [s \in SUBSET S |-> IF s = {} THEN 0 ELSE w[Chosen(s)] + g[s \ {Chosen(s)}]]

SumOf(w, S) == (CHOOSE g : Unfolds(g, w, S))[S]

\* A set has the element that is taken from it.
LEMMA ChosenInSet == ASSUME NEW s, s # {} PROVE Chosen(s) \in s
  BY DEF Chosen

\* A minimal counterexample: induction over the subsets of a finite set.
LEMMA MinimalSubset ==
    ASSUME NEW S, IsFiniteSet(S), NEW T \in SUBSET (SUBSET S), T # {}
    PROVE  \E x \in T : \A y \in T : y \subseteq x => y = x
<1>1. IsWellFoundedOn(StrictSubsetOrdering(S), SUBSET S)
  BY FS_StrictSubsetOrderingWellFounded, FS_FiniteSubsetsOfFinite
<1>2. \E x \in T : \A y \in T : ~(<<y, x>> \in StrictSubsetOrdering(S))
  BY <1>1, WFMin
<1> QED
  BY <1>2 DEF StrictSubsetOrdering

\* One step of the recursion.
LEMMA UnfoldStep ==
    ASSUME NEW S, NEW w, NEW g, Unfolds(g, w, S), NEW s \in SUBSET S
    PROVE  g[s] = IF s = {} THEN 0 ELSE w[Chosen(s)] + g[s \ {Chosen(s)}]
<1> DEFINE Body(t) == IF t = {} THEN 0 ELSE w[Chosen(t)] + g[t \ {Chosen(t)}]
<1>1. g = [t \in SUBSET S |-> Body(t)]
  BY DEF Unfolds
<1> HIDE DEF Body
<1>2. g[s] = Body(s)
  BY <1>1
<1> QED
  BY <1>2 DEF Body

\* Two recursions agree on every set both reach.
LEMMA UnfoldsAgree ==
    ASSUME NEW S, IsFiniteSet(S), NEW w, NEW v, NEW g, NEW h, NEW R \in SUBSET S,
           \A x \in R : w[x] = v[x],
           Unfolds(g, w, S), Unfolds(h, v, R)
    PROVE  \A s \in SUBSET R : g[s] = h[s]
<1> DEFINE T == {s \in SUBSET R : g[s] # h[s]}
<1> SUFFICES ASSUME T # {} PROVE FALSE
  OBVIOUS
<1>1. PICK s \in T : \A t \in T : t \subseteq s => t = s
  <2>1. IsFiniteSet(R) /\ T \in SUBSET (SUBSET R)
    BY FS_Subset
  <2> HIDE DEF T
  <2> QED
    BY <2>1, MinimalSubset
<1>2. s \in SUBSET R /\ s \in SUBSET S
  OBVIOUS
<1>3. s # {}
  <2>1. g[{}] = 0 /\ h[{}] = 0
    BY UnfoldStep
  <2> QED
    BY <2>1
<1> DEFINE x == Chosen(s)
<1>4. x \in s /\ x \in R
  BY <1>2, <1>3, ChosenInSet
<1>5. g[s \ {x}] = h[s \ {x}]
  BY <1>1, <1>2, <1>4
<1>6. g[s] = w[x] + g[s \ {x}] /\ h[s] = v[x] + h[s \ {x}]
  BY <1>2, <1>3, UnfoldStep
<1>7. w[x] = v[x]
  BY <1>4
<1> QED
  BY <1>5, <1>6, <1>7

\* The recursion is well defined on every finite set.
LEMMA UnfoldsExist ==
    ASSUME NEW S, IsFiniteSet(S), NEW w
    PROVE  \E g : Unfolds(g, w, S)
<1> DEFINE T == {R \in SUBSET S : ~\E g : Unfolds(g, w, R)}
<1> SUFFICES ASSUME T # {} PROVE FALSE
  OBVIOUS
<1>1. PICK R \in T : \A t \in T : t \subseteq R => t = R
  <2>1. T \in SUBSET (SUBSET S)
    OBVIOUS
  <2> HIDE DEF T
  <2> QED
    BY <2>1, MinimalSubset
<1>2. R \in SUBSET S /\ ~\E g : Unfolds(g, w, R) /\ IsFiniteSet(R)
  BY FS_Subset
<1>3. \A s \in SUBSET R : s # R => \E g : Unfolds(g, w, s)
  BY <1>1, <1>2
<1> DEFINE G(s) == CHOOSE g : Unfolds(g, w, s)
           Below(s) == G(s)[s]
           Top(s) == IF s = {} THEN 0 ELSE w[Chosen(s)] + Below(s \ {Chosen(s)})
           g == [s \in SUBSET R |-> IF s = R THEN Top(R) ELSE Below(s)]
           Body(s) == IF s = {} THEN 0 ELSE w[Chosen(s)] + g[s \ {Chosen(s)}]
<1>4. \A s \in SUBSET R : s # R => Unfolds(G(s), w, s)
  BY <1>3, Zenon
<1>5. \A s \in SUBSET R : s # {} => /\ Chosen(s) \in s
                                    /\ s \ {Chosen(s)} \in SUBSET R
                                    /\ s \ {Chosen(s)} # R
  BY ChosenInSet
<1>6. \A s \in SUBSET R : s # R => g[s] = Below(s)
  <2> HIDE DEF Below, Top
  <2> QED
    OBVIOUS
<1>7. g[R] = Top(R)
  <2> HIDE DEF Below, Top
  <2> QED
    OBVIOUS
<1>8. ASSUME NEW s \in SUBSET R, s # R PROVE Below(s) = Top(s)
  <2> HIDE DEF G
  <2>1. Unfolds(G(s), w, s)
    BY <1>4, <1>8
  <2>2. CASE s = {}
    BY <2>1, <2>2, UnfoldStep
  <2>3. CASE s # {}
    <3> DEFINE r == s \ {Chosen(s)}
    <3>1. r \in SUBSET s /\ r \in SUBSET R /\ r # R
      BY <1>5, <1>8, <2>3
    <3>2. Unfolds(G(r), w, r)
      BY <1>4, <3>1
    <3>3. IsFiniteSet(s)
      BY <1>2, FS_Subset
    <3> HIDE DEF r
    <3>4. G(s)[r] = G(r)[r]
      BY <2>1, <3>1, <3>2, <3>3, UnfoldsAgree
    <3>5. G(s)[s] = w[Chosen(s)] + G(s)[s \ {Chosen(s)}]
      BY <2>1, <2>3, UnfoldStep
    <3> QED
      BY <2>3, <3>4, <3>5 DEF r
  <2> QED
    BY <2>2, <2>3
<1>9. \A s \in SUBSET R : g[s] = Body(s)
  <2> SUFFICES ASSUME NEW s \in SUBSET R PROVE g[s] = Body(s)
    OBVIOUS
  <2>1. g[s] = Top(s)
    <3> HIDE DEF g, Below, Top
    <3> QED
      BY <1>6, <1>7, <1>8
  <2>2. CASE s = {}
    BY <2>1, <2>2
  <2>3. CASE s # {}
    <3>1. g[s \ {Chosen(s)}] = Below(s \ {Chosen(s)})
      BY <1>5, <1>6, <2>3
    <3> HIDE DEF g, Below
    <3> QED
      BY <2>1, <2>3, <3>1
  <2> QED
    BY <2>2, <2>3
<1>10. g = [s \in SUBSET R |-> g[s]]
  <2> HIDE DEF Below, Top
  <2> QED
    OBVIOUS
<1>11. g = [s \in SUBSET R |-> Body(s)]
  <2> HIDE DEF g, Body
  <2> QED
    BY <1>9, <1>10
<1>12. Unfolds(g, w, R)
  <2> HIDE DEF g
  <2> QED
    BY <1>11 DEF Unfolds
<1> QED
  <2> HIDE DEF g
  <2> QED
    BY <1>2, <1>12

\* What the chosen recursion of a sum is.
LEMMA SumUnfolds ==
    ASSUME NEW S, IsFiniteSet(S), NEW w
    PROVE  \E g : Unfolds(g, w, S) /\ SumOf(w, S) = g[S]
<1>1. \E g : Unfolds(g, w, S)
  BY UnfoldsExist
<1>2. Unfolds((CHOOSE g : Unfolds(g, w, S)), w, S)
  BY <1>1, Zenon
<1> QED
  BY <1>2 DEF SumOf

\* Any recursion over a larger set computes the sum of a subset.
LEMMA SumIsUnfolded ==
    ASSUME NEW S, IsFiniteSet(S), NEW w, NEW v, NEW g, Unfolds(g, v, S), NEW R \in SUBSET S,
           \A x \in R : w[x] = v[x]
    PROVE  g[R] = SumOf(w, R)
<1>1. IsFiniteSet(R)
  BY FS_Subset
<1>2. PICK h : Unfolds(h, w, R) /\ SumOf(w, R) = h[R]
  BY <1>1, SumUnfolds
<1> QED
  BY <1>2, UnfoldsAgree

\* The sum over no element.
LEMMA SumEmpty == ASSUME NEW w PROVE SumOf(w, {}) = 0
<1>1. PICK g : Unfolds(g, w, {}) /\ SumOf(w, {}) = g[{}]
  BY FS_EmptySet, SumUnfolds
<1> QED
  BY <1>1, UnfoldStep

\* Equal weights, equal sums.
LEMMA SumCongruence ==
    ASSUME NEW S, IsFiniteSet(S), NEW w, NEW v, \A x \in S : w[x] = v[x]
    PROVE  SumOf(w, S) = SumOf(v, S)
<1>1. PICK g : Unfolds(g, v, S) /\ SumOf(v, S) = g[S]
  BY SumUnfolds
<1> QED
  BY <1>1, SumIsUnfolded

\* The chosen element is added to the sum of the others.
LEMMA SumChosen ==
    ASSUME NEW S, IsFiniteSet(S), S # {}, NEW w
    PROVE  SumOf(w, S) = w[Chosen(S)] + SumOf(w, S \ {Chosen(S)})
<1>1. PICK g : Unfolds(g, w, S) /\ SumOf(w, S) = g[S]
  BY SumUnfolds
<1>2. g[S] = w[Chosen(S)] + g[S \ {Chosen(S)}]
  BY <1>1, UnfoldStep
<1>3. g[S \ {Chosen(S)}] = SumOf(w, S \ {Chosen(S)})
  <2> DEFINE R == S \ {Chosen(S)}
  <2>1. R \in SUBSET S
    OBVIOUS
  <2> HIDE DEF R
  <2>2. g[R] = SumOf(w, R)
    BY <1>1, <2>1, SumIsUnfolded
  <2> QED
    BY <2>2 DEF R
<1> QED
  BY <1>1, <1>2, <1>3

\* A sum of naturals is a natural.
THEOREM SumIsNatural ==
    ASSUME NEW S, IsFiniteSet(S), NEW w, \A x \in S : w[x] \in Nat
    PROVE  SumOf(w, S) \in Nat
<1> DEFINE T == {s \in SUBSET S : SumOf(w, s) \notin Nat}
<1> SUFFICES ASSUME T # {} PROVE FALSE
  OBVIOUS
<1>1. PICK s \in T : \A t \in T : t \subseteq s => t = s
  <2>1. T \in SUBSET (SUBSET S)
    OBVIOUS
  <2> HIDE DEF T
  <2> QED
    BY <2>1, MinimalSubset
<1>2. s \in SUBSET S /\ SumOf(w, s) \notin Nat /\ IsFiniteSet(s)
  BY FS_Subset
<1>3. s # {}
  BY <1>2, SumEmpty
<1>4. Chosen(s) \in s
  BY <1>3, ChosenInSet
<1>5. SumOf(w, s \ {Chosen(s)}) \in Nat
  BY <1>1, <1>2, <1>4
<1>6. SumOf(w, s) = w[Chosen(s)] + SumOf(w, s \ {Chosen(s)})
  BY <1>2, <1>3, SumChosen
<1>7. w[Chosen(s)] \in Nat
  BY <1>2, <1>4
<1> QED
  BY <1>2, <1>5, <1>6, <1>7

\* The order does not matter: any element is added to the sum of the others.
THEOREM SumRemove ==
    ASSUME NEW S, IsFiniteSet(S), NEW w, \A x \in S : w[x] \in Nat, NEW e \in S
    PROVE  SumOf(w, S) = w[e] + SumOf(w, S \ {e})
<1> DEFINE Splits(s) == \A x \in s : SumOf(w, s) = w[x] + SumOf(w, s \ {x})
           T == {s \in SUBSET S : ~Splits(s)}
<1> SUFFICES ASSUME T # {} PROVE FALSE
  OBVIOUS
<1>1. PICK s \in T : \A t \in T : t \subseteq s => t = s
  <2>1. T \in SUBSET (SUBSET S)
    OBVIOUS
  <2> HIDE DEF T
  <2> QED
    BY <2>1, MinimalSubset
<1>2. s \in SUBSET S /\ IsFiniteSet(s)
  BY FS_Subset
<1>3. \A t \in SUBSET s : t # s => Splits(t)
  <2> HIDE DEF Splits
  <2> QED
    BY <1>1, <1>2
<1>4. PICK x \in s : SumOf(w, s) # w[x] + SumOf(w, s \ {x})
  BY <1>1
<1> DEFINE c == Chosen(s)
           rest == s \ {c, x}
<1>5. c \in s /\ SumOf(w, s) = w[c] + SumOf(w, s \ {c})
  BY <1>2, <1>4, ChosenInSet, SumChosen
<1>6. c # x
  BY <1>4, <1>5
<1>7. SumOf(w, s \ {c}) = w[x] + SumOf(w, rest)
  <2>1. s \ {c} \in SUBSET s /\ s \ {c} # s /\ x \in s \ {c} /\ (s \ {c}) \ {x} = rest
    BY <1>5, <1>6
  <2> HIDE DEF c, rest
  <2> QED
    BY <1>3, <2>1
<1>8. SumOf(w, s \ {x}) = w[c] + SumOf(w, rest)
  <2>1. s \ {x} \in SUBSET s /\ s \ {x} # s /\ c \in s \ {x} /\ (s \ {x}) \ {c} = rest
    BY <1>5, <1>6
  <2> HIDE DEF c, rest
  <2> QED
    BY <1>3, <2>1
<1>9. w[c] \in Nat /\ w[x] \in Nat /\ SumOf(w, rest) \in Nat
  <2>1. w[c] \in Nat /\ w[x] \in Nat
    BY <1>2, <1>5
  <2>2. IsFiniteSet(rest) /\ rest \in SUBSET S
    BY <1>2, FS_Subset
  <2> HIDE DEF rest
  <2> QED
    BY <2>1, <2>2, SumIsNatural
<1> HIDE DEF rest, c
<1> QED
  BY <1>4, <1>5, <1>7, <1>8, <1>9

\* A new element adds its weight.
THEOREM SumAdd ==
    ASSUME NEW S, IsFiniteSet(S), NEW e, e \notin S, NEW w,
           \A x \in S \cup {e} : w[x] \in Nat
    PROVE  SumOf(w, S \cup {e}) = SumOf(w, S) + w[e]
<1> DEFINE R == S \cup {e}
<1>1. IsFiniteSet(R) /\ e \in R /\ R \ {e} = S
  BY FS_AddElement
<1>2. SumOf(w, R) = w[e] + SumOf(w, R \ {e})
  <2> HIDE DEF R
  <2>1. \A x \in R : w[x] \in Nat
    BY DEF R
  <2> QED
    BY <1>1, <2>1, SumRemove
<1>3. SumOf(w, S) \in Nat /\ w[e] \in Nat
  BY SumIsNatural
<1> QED
  BY <1>1, <1>2, <1>3

\* A larger set of naturals has the larger sum.
THEOREM SumMonotone ==
    ASSUME NEW S, IsFiniteSet(S), NEW w, \A x \in S : w[x] \in Nat, NEW R \in SUBSET S
    PROVE  SumOf(w, R) <= SumOf(w, S)
<1> DEFINE T == {s \in SUBSET S : R \subseteq s /\ ~(SumOf(w, R) <= SumOf(w, s))}
<1> SUFFICES ASSUME T # {} PROVE FALSE
  OBVIOUS
<1>1. PICK s \in T : \A t \in T : t \subseteq s => t = s
  <2>1. T \in SUBSET (SUBSET S)
    OBVIOUS
  <2> HIDE DEF T
  <2> QED
    BY <2>1, MinimalSubset
<1>2. s \in SUBSET S /\ IsFiniteSet(s) /\ R \subseteq s /\ ~(SumOf(w, R) <= SumOf(w, s))
  BY FS_Subset
<1>3. SumOf(w, R) \in Nat
  BY FS_Subset, SumIsNatural
<1>4. PICK x \in s : x \notin R
  BY <1>2, <1>3
<1>5. SumOf(w, s) = w[x] + SumOf(w, s \ {x}) /\ w[x] \in Nat
  BY <1>2, SumRemove
<1> DEFINE r == s \ {x}
<1>6. r \in SUBSET S /\ R \subseteq r /\ IsFiniteSet(r) /\ r \subseteq s /\ r # s
  BY <1>2, <1>4, FS_Subset
<1>7. SumOf(w, R) <= SumOf(w, r)
  <2> HIDE DEF r
  <2> QED
    BY <1>1, <1>6
<1>8. SumOf(w, r) \in Nat
  <2> HIDE DEF r
  <2> QED
    BY <1>6, SumIsNatural
<1> HIDE DEF T
<1> QED
  BY <1>2, <1>3, <1>5, <1>7, <1>8

\* The sum over two sets without a common element is the sum of their sums.
THEOREM SumDisjoint ==
    ASSUME NEW A, IsFiniteSet(A), NEW B, IsFiniteSet(B), A \cap B = {}, NEW w,
           \A x \in A \cup B : w[x] \in Nat
    PROVE  SumOf(w, A \cup B) = SumOf(w, A) + SumOf(w, B)
<1> DEFINE Adds(s) == SumOf(w, A \cup s) = SumOf(w, A) + SumOf(w, s)
           T == {s \in SUBSET B : ~Adds(s)}
<1> SUFFICES ASSUME T # {} PROVE FALSE
  OBVIOUS
<1>1. PICK s \in T : \A t \in T : t \subseteq s => t = s
  <2>1. T \in SUBSET (SUBSET B)
    OBVIOUS
  <2> HIDE DEF T
  <2> QED
    BY <2>1, MinimalSubset
<1>2. s \in SUBSET B /\ IsFiniteSet(s) /\ ~Adds(s)
  BY FS_Subset
<1>3. SumOf(w, A) \in Nat
  BY SumIsNatural
<1>4. s # {}
  <2>1. A \cup {} = A
    OBVIOUS
  <2> QED
    BY <1>2, <1>3, <2>1, SumEmpty
<1>5. PICK x \in s : TRUE
  BY <1>4
<1> DEFINE r == s \ {x}
<1>6. /\ r \in SUBSET B /\ IsFiniteSet(r) /\ r \subseteq s /\ r # s
      /\ x \notin r /\ x \notin A \cup r /\ r \cup {x} = s /\ (A \cup r) \cup {x} = A \cup s
      /\ \A y \in r \cup {x} : w[y] \in Nat
      /\ \A y \in (A \cup r) \cup {x} : w[y] \in Nat
  BY <1>2, <1>5, FS_Subset
<1> HIDE DEF r
<1>7. Adds(r)
  BY <1>1, <1>6
<1>8. SumOf(w, s) = SumOf(w, r) + w[x]
  BY <1>6, SumAdd
<1>9. SumOf(w, A \cup s) = SumOf(w, A \cup r) + w[x]
  <2> DEFINE q == A \cup r
  <2>1. IsFiniteSet(q) /\ x \notin q /\ q \cup {x} = A \cup s /\ \A y \in q \cup {x} : w[y] \in Nat
    BY <1>6, FS_Union
  <2> HIDE DEF q
  <2>2. SumOf(w, q \cup {x}) = SumOf(w, q) + w[x]
    BY <2>1, SumAdd
  <2> QED
    BY <2>1, <2>2 DEF q
<1>10. SumOf(w, r) \in Nat /\ w[x] \in Nat
  BY <1>6, SumIsNatural
<1> HIDE DEF T
<1> QED
  BY <1>2, <1>3, <1>7, <1>8, <1>9, <1>10

\* Renaming the elements one to one does not change a sum.
THEOREM SumReindex ==
    ASSUME NEW S, IsFiniteSet(S), NEW w, NEW v, NEW f,
           \A x \in S : w[x] \in Nat /\ v[f[x]] = w[x],
           \A x, y \in S : f[x] = f[y] => x = y
    PROVE  SumOf(v, {f[x] : x \in S}) = SumOf(w, S)
<1> DEFINE Img(s) == {f[x] : x \in s}
           T == {s \in SUBSET S : ~(IsFiniteSet(Img(s)) /\ SumOf(v, Img(s)) = SumOf(w, s))}
<1> SUFFICES ASSUME T # {} PROVE FALSE
  OBVIOUS
<1>1. PICK s \in T : \A t \in T : t \subseteq s => t = s
  <2>1. T \in SUBSET (SUBSET S)
    OBVIOUS
  <2> HIDE DEF T
  <2> QED
    BY <2>1, MinimalSubset
<1>2. /\ s \in SUBSET S /\ IsFiniteSet(s)
      /\ ~(IsFiniteSet(Img(s)) /\ SumOf(v, Img(s)) = SumOf(w, s))
  BY FS_Subset
<1>3. s # {}
  <2>1. Img({}) = {}
    OBVIOUS
  <2> QED
    BY <1>2, <2>1, SumEmpty, FS_EmptySet
<1>4. PICK x \in s : TRUE
  BY <1>3
<1> DEFINE r == s \ {x}
<1>5. /\ r \in SUBSET S /\ IsFiniteSet(r) /\ r \subseteq s /\ r # s
      /\ x \notin r /\ r \cup {x} = s
      /\ Img(r) \cup {f[x]} = Img(s) /\ f[x] \notin Img(r)
      /\ \A y \in Img(r) \cup {f[x]} : v[y] \in Nat
      /\ \A y \in r \cup {x} : w[y] \in Nat
      /\ v[f[x]] = w[x]
  BY <1>2, <1>4, FS_Subset
<1> HIDE DEF r
<1>6. IsFiniteSet(Img(r)) /\ SumOf(v, Img(r)) = SumOf(w, r)
  BY <1>1, <1>5
<1> HIDE DEF T, Img
<1>7. SumOf(w, s) = SumOf(w, r) + w[x]
  BY <1>5, SumAdd
<1>8. SumOf(v, Img(s)) = SumOf(v, Img(r)) + v[f[x]] /\ IsFiniteSet(Img(s))
  <2> DEFINE q == Img(r)
             e == f[x]
  <2>1. /\ IsFiniteSet(q) /\ e \notin q /\ q \cup {e} = Img(s)
        /\ \A y \in q \cup {e} : v[y] \in Nat
    BY <1>5, <1>6
  <2> HIDE DEF q, e
  <2>2. SumOf(v, q \cup {e}) = SumOf(v, q) + v[e]
    BY <2>1, SumAdd
  <2>3. IsFiniteSet(q \cup {e})
    BY <2>1, FS_AddElement
  <2> QED
    BY <2>1, <2>2, <2>3 DEF q, e
<1> QED
  BY <1>2, <1>5, <1>6, <1>7, <1>8

\* Two sets that differ in one element at most differ in size by that element.
LEMMA SizeMoves ==
    ASSUME NEW A, IsFiniteSet(A), NEW B, NEW e, A \ {e} = B \ {e}
    PROVE  /\ IsFiniteSet(B) /\ Cardinality(B) \in Nat /\ Cardinality(A) \in Nat
           /\ Cardinality(B) = Cardinality(A) + (IF e \in B THEN 1 ELSE 0) - (IF e \in A THEN 1 ELSE 0)
<1> DEFINE C == A \ {e}
<1>1. IsFiniteSet(C) /\ Cardinality(C) \in Nat /\ e \notin C
  BY FS_RemoveElement, FS_CardinalityType
<1>2. IsFiniteSet(C \cup {e}) /\ Cardinality(C \cup {e}) = Cardinality(C) + 1
  <2> HIDE DEF C
  <2> QED
    BY <1>1, FS_AddElement
<1>3. A = IF e \in A THEN C \cup {e} ELSE C
  OBVIOUS
<1>4. B = IF e \in B THEN C \cup {e} ELSE C
  OBVIOUS
<1> HIDE DEF C
<1>5. ASSUME NEW D, D = IF e \in D THEN C \cup {e} ELSE C
      PROVE  IsFiniteSet(D) /\ Cardinality(D) = Cardinality(C) + (IF e \in D THEN 1 ELSE 0)
  <2>1. CASE e \in D
    <3>1. D = C \cup {e}
      BY <1>5, <2>1
    <3>2. IsFiniteSet(D) /\ Cardinality(D) = Cardinality(C) + 1
      BY <1>2, <3>1
    <3> QED
      BY <2>1, <3>2
  <2>2. CASE e \notin D
    <3>1. D = C
      BY <1>5, <2>2
    <3>2. IsFiniteSet(D) /\ Cardinality(D) = Cardinality(C)
      BY <1>1, <3>1
    <3> QED
      BY <1>1, <2>2, <3>2
  <2> QED
    BY <2>1, <2>2
<1>6. Cardinality(A) = Cardinality(C) + (IF e \in A THEN 1 ELSE 0)
  BY <1>3, <1>5
<1>7. Cardinality(B) = Cardinality(C) + (IF e \in B THEN 1 ELSE 0) /\ IsFiniteSet(B)
  BY <1>4, <1>5
<1> HIDE DEF C
<1> DEFINE a == Cardinality(A)
           b == Cardinality(B)
           c == Cardinality(C)
<1>8. /\ c \in Nat /\ IsFiniteSet(B)
      /\ a = c + (IF e \in A THEN 1 ELSE 0)
      /\ b = c + (IF e \in B THEN 1 ELSE 0)
  BY <1>1, <1>6, <1>7
<1> HIDE DEF a, b, c
<1>9. a \in Nat /\ b \in Nat /\ b = a + (IF e \in B THEN 1 ELSE 0) - (IF e \in A THEN 1 ELSE 0)
  BY <1>8
<1> QED
  BY <1>8, <1>9 DEF a, b

\* A set of positions that is not empty has a last one.
LEMMA LastExists ==
    ASSUME NEW S, NEW n \in Nat, S \subseteq 1..n, S # {}
    PROVE  \E x \in S : \A y \in S : x >= y
<1> DEFINE T == {m \in Nat : \E x \in S : m = n - x}
<1>1. T # {} /\ T \in SUBSET Nat
  <2>1. PICK x \in S : TRUE
    OBVIOUS
  <2>2. n - x \in T
    BY <2>1
  <2> QED
    BY <2>2
<1>2. PICK m \in T : \A y \in T : ~(<<y, m>> \in OpToRel(<, Nat))
  <2> HIDE DEF T
  <2> QED
    BY <1>1, NatLessThanWellFounded, WFMin
<1>3. PICK x \in S : m = n - x
  BY <1>2
<1>4. ASSUME NEW y \in S PROVE x >= y
  <2>1. n - y \in T
    OBVIOUS
  <2>2. ~(n - y < m)
    BY <1>1, <1>2, <2>1 DEF OpToRel
  <2> QED
    BY <1>3, <2>2
<1> QED
  BY <1>4
=============================================================================
