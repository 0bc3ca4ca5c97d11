------------------------- MODULE Electorate_proofs -------------------------
(***************************************************************************)
(* Proof, for any number of users, groups and votes, that every policy     *)
(* gives votes to participants only and no more than there are, and that   *)
(* MainSubstActivePolicy lets the main delegates go first.                 *)
(*                                                                         *)
(* What a policy returns rests on lemmas about sums over finite sets and   *)
(* about picking voters one pair after the other; that the tables hold     *)
(* nobody who has left rests on one lemma per handler.                     *)
(***************************************************************************)
EXTENDS Electorate, FiniteSetTheorems, WellFoundedInduction, TLAPS

-----------------------------------------------------------------------------
(* Finite sets                                                             *)

\* A set of numbers has a least one.
LEMMA LeastNumber ==
    ASSUME NEW S \in SUBSET Nat, S # {}
    PROVE  \E n \in S : \A m \in S : n <= m
<1> DEFINE R == {ss \in Nat \X Nat : ss[1] < ss[2]}
<1>1. IsWellFoundedOn(R, Nat)
    BY NatLessThanWellFounded DEF OpToRel
<1>2. \A m, n \in Nat : m < n => <<m, n>> \in R
    OBVIOUS
<1> HIDE DEF R
<1>3. PICK n \in S : \A m \in S : <<m, n>> \notin R
    BY <1>1, WFMin
<1>4. ASSUME NEW m \in S PROVE n <= m
  <2>1. m \in Nat /\ n \in Nat
    OBVIOUS
  <2>2. ~(m < n)
    BY <1>2, <1>3, <2>1
  <2> QED
    BY <2>1, <2>2
<1> QED
    BY <1>4

\* What holds of a set whenever it holds of that set without any one element
\* holds of every subset of a finite set.
LEMMA SetInduction ==
    ASSUME NEW S, IsFiniteSet(S), NEW P \in SUBSET SUBSET S,
           \A s \in SUBSET S : (\A x \in s : s \ {x} \in P) => s \in P
    PROVE  \A s \in SUBSET S : s \in P
<1> DEFINE Wrong == {n \in Nat : \E s \in (SUBSET S) \ P : Cardinality(s) = n}
<1>1. SUFFICES ASSUME NEW w \in SUBSET S, w \notin P PROVE FALSE
    OBVIOUS
<1>2. Cardinality(w) \in Wrong
  <2>1. Cardinality(w) \in Nat
    BY FS_Subset, FS_CardinalityType
  <2> QED
    BY <1>1, <2>1
<1>3. PICK n \in Wrong : \A m \in Wrong : n <= m
  <2>1. Wrong \in SUBSET Nat /\ Wrong # {}
    BY <1>2
  <2> HIDE DEF Wrong
  <2> QED
    BY <2>1, LeastNumber
<1>4. PICK s \in (SUBSET S) \ P : Cardinality(s) = n
    OBVIOUS
<1>5. PICK x \in s : s \ {x} \notin P
    BY <1>4
<1>6. /\ IsFiniteSet(s) /\ Cardinality(s) \in Nat
      /\ Cardinality(s \ {x}) = Cardinality(s) - 1
      /\ Cardinality(s \ {x}) \in Nat
  <2>1. IsFiniteSet(s)
    BY FS_Subset
  <2>2. Cardinality(s \ {x}) = Cardinality(s) - 1 /\ IsFiniteSet(s \ {x})
    BY <2>1, FS_RemoveElement
  <2> QED
    BY <2>1, <2>2, FS_CardinalityType
<1>7. Cardinality(s \ {x}) \in Wrong
    BY <1>5, <1>6
<1> HIDE DEF Wrong
<1> QED
    BY <1>3, <1>4, <1>6, <1>7

\* One step of a fold by the function F that takes the elements C chooses.
FoldStep(F, base, C, f, s) ==
    IF s = {} THEN base ELSE F[<<C[s], f[s \ {C[s]}]>>]

\* f is that fold over the subsets of S.
IsFold(F, base, C, S, f) == f = [s \in SUBSET S |-> FoldStep(F, base, C, f, s)]

\* C chooses an element of every set but the empty one.
Chooses(C, S) == \A s \in SUBSET S : s # {} => C[s] \in s

\* A fold takes its values in D.
LEMMA FoldType ==
    ASSUME NEW S, IsFiniteSet(S), NEW D, NEW base \in D, NEW F \in [S \X D -> D],
           NEW C, Chooses(C, S), NEW f, IsFold(F, base, C, S, f)
    PROVE  \A s \in SUBSET S : f[s] \in D
<1> DEFINE P == {s \in SUBSET S : f[s] \in D}
<1>1. ASSUME NEW s \in SUBSET S, \A x \in s : s \ {x} \in P PROVE s \in P
  <2>1. f[s] = FoldStep(F, base, C, f, s)
    BY DEF IsFold
  <2>2. CASE s = {}
    BY <2>1, <2>2 DEF FoldStep
  <2>3. CASE s # {}
    <3>1. C[s] \in S /\ f[s \ {C[s]}] \in D
        BY <1>1, <2>3 DEF Chooses
    <3> QED
        BY <2>1, <2>3, <3>1 DEF FoldStep
  <2> QED
    BY <2>2, <2>3
<1> HIDE DEF P
<1>2. P \in SUBSET SUBSET S
    BY DEF P
<1>3. \A s \in SUBSET S : s \in P
    BY <1>1, <1>2, SetInduction
<1> QED
    BY <1>3 DEF P

\* Two folds agree on what both are defined on.
LEMMA FoldsAgree ==
    ASSUME NEW S, IsFiniteSet(S), NEW base, NEW F, NEW C, Chooses(C, S),
           NEW A \in SUBSET S, NEW f, IsFold(F, base, C, A, f),
           NEW B \in SUBSET S, NEW g, IsFold(F, base, C, B, g)
    PROVE  \A s \in SUBSET (A \cap B) : f[s] = g[s]
<1> DEFINE P == {s \in SUBSET (A \cap B) : f[s] = g[s]}
<1>1. ASSUME NEW s \in SUBSET (A \cap B), \A x \in s : s \ {x} \in P PROVE s \in P
  <2>1. f[s] = FoldStep(F, base, C, f, s) /\ g[s] = FoldStep(F, base, C, g, s)
    <3>1. s \in SUBSET A /\ s \in SUBSET B
        OBVIOUS
    <3> QED
        BY <3>1 DEF IsFold
  <2>2. s # {} => f[s \ {C[s]}] = g[s \ {C[s]}]
    <3>1. s \in SUBSET S
        OBVIOUS
    <3> QED
        BY <1>1, <3>1 DEF Chooses
  <2> QED
    BY <2>1, <2>2 DEF FoldStep
<1> HIDE DEF P
<1>2. P \in SUBSET SUBSET (A \cap B)
    BY DEF P
<1>3. IsFiniteSet(A \cap B)
    BY FS_Subset
<1>4. \A s \in SUBSET (A \cap B) : s \in P
    BY <1>1, <1>2, <1>3, SetInduction
<1> QED
    BY <1>4 DEF P

\* The recursion of a fold has a solution.
LEMMA FoldExists ==
    ASSUME NEW S, IsFiniteSet(S), NEW base, NEW F, NEW C, Chooses(C, S)
    PROVE  \E f : IsFold(F, base, C, S, f)
<1> DEFINE P == {s \in SUBSET S : \E f : IsFold(F, base, C, s, f)}
<1>1. ASSUME NEW s \in SUBSET S, \A x \in s : s \ {x} \in P PROVE s \in P
  <2> DEFINE part(x) == CHOOSE f : IsFold(F, base, C, s \ {x}, f)
             h == [t \in SUBSET s |-> IF t = {} THEN base
                                      ELSE F[<<C[t], part(C[t])[t \ {C[t]}]>>]]
  <2>1. \A x \in s : IsFold(F, base, C, s \ {x}, part(x))
    BY <1>1
  <2>2. ASSUME NEW t \in SUBSET s, t # {}, NEW x \in s \ t
        PROVE  part(C[t])[t \ {C[t]}] = part(x)[t \ {C[t]}]
    <3>1. C[t] \in t
        BY <2>2 DEF Chooses
    <3>2. /\ s \ {C[t]} \in SUBSET S /\ s \ {x} \in SUBSET S
          /\ t \ {C[t]} \in SUBSET ((s \ {C[t]}) \cap (s \ {x}))
        OBVIOUS
    <3>3. /\ IsFold(F, base, C, s \ {x}, part(x))
          /\ IsFold(F, base, C, s \ {C[t]}, part(C[t]))
        BY <2>1, <3>1
    <3> HIDE DEF part
    <3> QED
        BY <3>2, <3>3, FoldsAgree
  <2>3. ASSUME NEW x \in s, NEW t \in SUBSET (s \ {x}) PROVE h[t] = part(x)[t]
    <3>1. part(x)[t] = FoldStep(F, base, C, part(x), t)
        <4>1. IsFold(F, base, C, s \ {x}, part(x))
            BY <2>1
        <4> HIDE DEF part
        <4> QED
            BY <4>1 DEF IsFold
    <3>2. CASE t = {}
        BY <3>1, <3>2 DEF FoldStep
    <3>3. CASE t # {}
        <4>1. t \in SUBSET s /\ x \in s \ t
            OBVIOUS
        <4>2. h[t] = F[<<C[t], part(C[t])[t \ {C[t]}]>>]
            BY <3>3
        <4>3. part(C[t])[t \ {C[t]}] = part(x)[t \ {C[t]}]
            <5> HIDE DEF part, h
            <5> QED
                BY <2>2, <3>3, <4>1
        <4> HIDE DEF h, part
        <4> QED
            BY <3>1, <3>3, <4>2, <4>3 DEF FoldStep
    <3> QED
        BY <3>2, <3>3
  <2>4. ASSUME NEW t \in SUBSET s PROVE h[t] = FoldStep(F, base, C, h, t)
    <3>1. CASE t = {}
        BY <3>1 DEF FoldStep
    <3>2. CASE t # {}
        <4>1. C[t] \in s /\ t \ {C[t]} \in SUBSET (s \ {C[t]})
            BY <3>2 DEF Chooses
        <4>2. h[t] = F[<<C[t], part(C[t])[t \ {C[t]}]>>]
            BY <3>2
        <4> HIDE DEF h, part
        <4>3. h[t \ {C[t]}] = part(C[t])[t \ {C[t]}]
            BY <2>3, <4>1
        <4> QED
            BY <3>2, <4>2, <4>3 DEF FoldStep
    <3> QED
        BY <3>1, <3>2
  <2>5. h = [t \in SUBSET s |-> h[t]]
    OBVIOUS
  <2> HIDE DEF h
  <2>6. IsFold(F, base, C, s, h)
    BY <2>4, <2>5 DEF IsFold
  <2> QED
    BY <2>6
<1> HIDE DEF P
<1>2. P \in SUBSET SUBSET S
    BY DEF P
<1>3. \A s \in SUBSET S : s \in P
    BY <1>1, <1>2, SetInduction
<1> QED
    BY <1>3 DEF P

-----------------------------------------------------------------------------
(* Sums                                                                    *)

Sum(f, S) == SumFunctionOnSet(f, S)

\* The values of f on S are numbers.
Counts(f, S) == \A x \in S : f[x] \in Nat

First(s) == CHOOSE x \in s : TRUE

\* One step of a sum, and h is the sum over each subset of S.
SumStep(f, h, s) == IF s = {} THEN 0 ELSE f[First(s)] + h[s \ {First(s)}]
Sums(f, S, h) == h = [s \in SUBSET S |-> SumStep(f, h, s)]

\* The recursion of a sum has a solution, and the sum is its value.
LEMMA SumsExist ==
    ASSUME NEW S, IsFiniteSet(S), NEW f, Counts(f, S)
    PROVE  \E h : Sums(f, S, h) /\ Sum(f, S) = h[S]
<1> DEFINE C == [s \in SUBSET S |-> First(s)]
           F == [p \in S \X Nat |-> f[p[1]] + p[2]]
<1>1. Chooses(C, S)
    BY DEF Chooses, First
<1>2. F \in [S \X Nat -> Nat]
    BY DEF Counts
<1>3. PICK g : IsFold(F, 0, C, S, g)
  <2> HIDE DEF C, F
  <2> QED
    BY <1>1, FoldExists
<1>4. \A s \in SUBSET S : g[s] \in Nat
  <2> HIDE DEF C, F
  <2> QED
    BY <1>1, <1>2, <1>3, FoldType
<1>5. ASSUME NEW s \in SUBSET S PROVE FoldStep(F, 0, C, g, s) = SumStep(f, g, s)
  <2>1. CASE s = {}
    BY <2>1 DEF FoldStep, SumStep
  <2>2. CASE s # {}
    <3>1. C[s] = First(s) /\ First(s) \in S /\ g[s \ {First(s)}] \in Nat
        BY <1>4, <2>2 DEF First
    <3>2. F[<<First(s), g[s \ {First(s)}]>>] = f[First(s)] + g[s \ {First(s)}]
        BY <3>1
    <3> HIDE DEF F, C
    <3> QED
        BY <2>2, <3>1, <3>2 DEF FoldStep, SumStep
  <2> QED
    BY <2>1, <2>2
<1>6. Sums(f, S, g)
  <2> HIDE DEF F, C
  <2> QED
    BY <1>3, <1>5 DEF IsFold, Sums
<1> DEFINE h == CHOOSE h : h = [s \in SUBSET S |-> SumStep(f, h, s)]
<1>7. Sums(f, S, h)
    BY <1>6 DEF Sums
<1>8. Sum(f, S) = h[S]
    BY DEF Sum, SumFunctionOnSet, FoldFunctionOnSet, MapThenFoldSet, SumStep, First
<1> HIDE DEF h
<1> QED
    BY <1>7, <1>8

\* The solutions of sums over A and B agree on what both are defined on.
LEMMA SumsAgree ==
    ASSUME NEW S, IsFiniteSet(S), NEW f,
           NEW A \in SUBSET S, NEW g, Sums(f, A, g),
           NEW B \in SUBSET S, NEW h, Sums(f, B, h)
    PROVE  \A s \in SUBSET (A \cap B) : g[s] = h[s]
<1> DEFINE P == {s \in SUBSET (A \cap B) : g[s] = h[s]}
<1>1. ASSUME NEW s \in SUBSET (A \cap B), \A x \in s : s \ {x} \in P PROVE s \in P
  <2>1. g[s] = SumStep(f, g, s) /\ h[s] = SumStep(f, h, s)
    <3>1. s \in SUBSET A /\ s \in SUBSET B
        OBVIOUS
    <3> QED
        BY <3>1 DEF Sums
  <2>2. s # {} => g[s \ {First(s)}] = h[s \ {First(s)}]
    BY <1>1 DEF First
  <2> QED
    BY <2>1, <2>2 DEF SumStep
<1> HIDE DEF P
<1>2. P \in SUBSET SUBSET (A \cap B) /\ IsFiniteSet(A \cap B)
    BY FS_Subset DEF P
<1>3. \A s \in SUBSET (A \cap B) : s \in P
    BY <1>1, <1>2, SetInduction
<1> QED
    BY <1>3 DEF P

\* A sum is a number, and that of any one element and of the others.
LEMMA SumSplit ==
    ASSUME NEW S, IsFiniteSet(S), NEW f, Counts(f, S)
    PROVE  /\ Sum(f, {}) = 0
           /\ Sum(f, S) \in Nat
           /\ \A x \in S : Sum(f, S) = f[x] + Sum(f, S \ {x})
<1>1. PICK h : Sums(f, S, h) /\ Sum(f, S) = h[S]
    BY SumsExist
<1>2. ASSUME NEW T \in SUBSET S PROVE Sum(f, T) = h[T]
  <2>1. IsFiniteSet(T) /\ Counts(f, T)
    BY FS_Subset DEF Counts
  <2>2. PICK g : Sums(f, T, g) /\ Sum(f, T) = g[T]
    BY <2>1, SumsExist
  <2>3. S \in SUBSET S /\ T \in SUBSET (S \cap T)
    OBVIOUS
  <2>4. h[T] = g[T]
    BY <1>1, <2>2, <2>3, SumsAgree
  <2> QED
    BY <2>2, <2>4
<1>3. \A s \in SUBSET S : h[s] = SumStep(f, h, s)
    BY <1>1 DEF Sums
<1> DEFINE Q == {s \in SUBSET S : h[s] \in Nat}
<1>4. ASSUME NEW s \in SUBSET S, \A x \in s : s \ {x} \in Q PROVE s \in Q
  <2>1. CASE s = {}
    <3>1. h[s] = SumStep(f, h, s)
        BY <1>3
    <3>2. h[s] = 0
        BY <2>1, <3>1 DEF SumStep
    <3> QED
        BY <3>2
  <2>2. CASE s # {}
    <3>1. First(s) \in s /\ h[s] = f[First(s)] + h[s \ {First(s)}]
        BY <1>3, <2>2 DEF SumStep, First
    <3>2. f[First(s)] \in Nat /\ h[s \ {First(s)}] \in Nat
        BY <1>4, <3>1 DEF Counts
    <3> QED
        BY <3>1, <3>2
  <2> QED
    BY <2>1, <2>2
<1> HIDE DEF Q
<1>5. \A s \in SUBSET S : h[s] \in Nat
  <2>1. Q \in SUBSET SUBSET S
    BY DEF Q
  <2>2. \A s \in SUBSET S : s \in Q
    BY <1>4, <2>1, SetInduction
  <2> QED
    BY <2>2 DEF Q
<1> DEFINE P == {s \in SUBSET S : \A x \in s : h[s] = f[x] + h[s \ {x}]}
<1>6. ASSUME NEW s \in SUBSET S, \A x \in s : s \ {x} \in P PROVE s \in P
  <2>1. SUFFICES ASSUME NEW x \in s PROVE h[s] = f[x] + h[s \ {x}]
    OBVIOUS
  <2>2. PICK c \in s : h[s] = f[c] + h[s \ {c}]
    BY <1>3 DEF SumStep, First
  <2>3. CASE x = c
    BY <2>2, <2>3
  <2>4. CASE x # c
    <3> DEFINE r == (s \ {c}) \ {x}
    <3>1. h[s \ {c}] = f[x] + h[r]
        BY <1>6, <2>4
    <3>2. h[s \ {x}] = f[c] + h[r]
        <4>1. r = (s \ {x}) \ {c}
            OBVIOUS
        <4> QED
            BY <1>6, <2>4, <4>1
    <3>3. f[x] \in Nat /\ f[c] \in Nat /\ h[r] \in Nat
        BY <1>5 DEF Counts
    <3> HIDE DEF r
    <3> QED
        BY <2>2, <3>1, <3>2, <3>3
  <2> QED
    BY <2>3, <2>4
<1> HIDE DEF P
<1>7. \A s \in SUBSET S : s \in P
  <2>1. P \in SUBSET SUBSET S
    BY DEF P
  <2> QED
    BY <1>6, <2>1, SetInduction
<1>8. S \in SUBSET S /\ {} \in SUBSET S
    OBVIOUS
<1>9. h[S] \in Nat /\ h[{}] = 0 /\ \A x \in S : h[S] = f[x] + h[S \ {x}]
    BY <1>3, <1>5, <1>7, <1>8 DEF P, SumStep
<1> QED
    BY <1>2, <1>9


\* The same of every subset.
LEMMA SumRule ==
    ASSUME NEW S, IsFiniteSet(S), NEW f, Counts(f, S), NEW s \in SUBSET S
    PROVE  /\ Sum(f, s) \in Nat
           /\ s = {} => Sum(f, s) = 0
           /\ \A x \in s : /\ f[x] \in Nat /\ Sum(f, s \ {x}) \in Nat
                           /\ Sum(f, s) = f[x] + Sum(f, s \ {x})
<1>1. IsFiniteSet(s) /\ Counts(f, s)
    BY FS_Subset DEF Counts
<1>2. ASSUME NEW x \in s PROVE f[x] \in Nat /\ Sum(f, s \ {x}) \in Nat
  <2>1. IsFiniteSet(s \ {x}) /\ Counts(f, s \ {x})
    BY <1>1, FS_Subset DEF Counts
  <2> QED
    BY <1>1, <2>1, SumSplit DEF Counts
<1> QED
    BY <1>1, <1>2, SumSplit

\* The sums of f over the subsets of S, element by element.
Takes(f, S) ==
    \A s \in SUBSET S : \A x \in s :
        /\ f[x] \in Nat /\ Sum(f, s \ {x}) \in Nat
        /\ Sum(f, s) = f[x] + Sum(f, s \ {x})

\* Sums over finite sets are taken element by element.
LEMMA SumTakes ==
    ASSUME NEW S, IsFiniteSet(S), NEW f, Counts(f, S)
    PROVE  Takes(f, S)
<1> SUFFICES ASSUME NEW s \in SUBSET S
             PROVE  \A x \in s : /\ f[x] \in Nat /\ Sum(f, s \ {x}) \in Nat
                                 /\ Sum(f, s) = f[x] + Sum(f, s \ {x})
    BY DEF Takes
<1> QED
    BY SumRule

\* A sum of smaller values is smaller.
LEMMA SumMonotone ==
    ASSUME NEW S, IsFiniteSet(S), NEW f, Counts(f, S), NEW g, Counts(g, S),
           \A x \in S : f[x] <= g[x]
    PROVE  Sum(f, S) <= Sum(g, S)
<1> DEFINE P == {s \in SUBSET S : Sum(f, s) <= Sum(g, s)}
<1>t. Takes(f, S) /\ Takes(g, S)
    BY SumTakes
<1>1. ASSUME NEW s \in SUBSET S, \A x \in s : s \ {x} \in P PROVE s \in P
  <2>1. CASE s = {}
    BY <2>1, SumRule
  <2>2. CASE s # {}
    <3>1. PICK x \in s : TRUE
        BY <2>2
    <3>2. Sum(f, s \ {x}) <= Sum(g, s \ {x}) /\ f[x] <= g[x]
        BY <1>1
    <3>3. Sum(f, s) = f[x] + Sum(f, s \ {x}) /\ f[x] \in Nat /\ Sum(f, s \ {x}) \in Nat
        BY <1>t DEF Takes
    <3>4. Sum(g, s) = g[x] + Sum(g, s \ {x}) /\ g[x] \in Nat /\ Sum(g, s \ {x}) \in Nat
        BY <1>t DEF Takes
    <3> QED
        BY <3>2, <3>3, <3>4
  <2> QED
    BY <2>1, <2>2
<1> HIDE DEF P
<1>2. P \in SUBSET SUBSET S
    BY DEF P
<1>3. S \in P
    BY <1>1, <1>2, SetInduction
<1> QED
    BY <1>3 DEF P

\* A sum of the same values is the same.
LEMMA SumSame ==
    ASSUME NEW S, IsFiniteSet(S), NEW f, Counts(f, S), NEW g, \A x \in S : f[x] = g[x]
    PROVE  Sum(f, S) = Sum(g, S)
<1>1. Counts(g, S) /\ \A x \in S : f[x] <= g[x] /\ g[x] <= f[x]
    BY DEF Counts
<1>2. Sum(f, S) <= Sum(g, S) /\ Sum(g, S) <= Sum(f, S)
    BY <1>1, SumMonotone
<1>3. Sum(f, S) \in Nat /\ Sum(g, S) \in Nat
    BY <1>1, SumSplit
<1> QED
    BY <1>2, <1>3

\* A sum of equal values.
LEMMA SumConstant ==
    ASSUME NEW S, IsFiniteSet(S), NEW c \in Nat, NEW f, \A x \in S : f[x] = c
    PROVE  Sum(f, S) = c * Cardinality(S)
<1> DEFINE P == {s \in SUBSET S : Sum(f, s) = c * Cardinality(s)}
<1>1. Counts(f, S)
    BY DEF Counts
<1>t. Takes(f, S)
    BY <1>1, SumTakes
<1>2. ASSUME NEW s \in SUBSET S, \A x \in s : s \ {x} \in P PROVE s \in P
  <2>1. CASE s = {}
    BY <1>1, <2>1, SumRule, FS_EmptySet
  <2>2. CASE s # {}
    <3>1. PICK x \in s : TRUE
        BY <2>2
    <3>2. Sum(f, s \ {x}) = c * Cardinality(s \ {x})
        BY <1>2
    <3>3. Sum(f, s) = c + Sum(f, s \ {x})
        BY <1>t DEF Takes
    <3>4. /\ Cardinality(s) \in Nat /\ Cardinality(s \ {x}) \in Nat
          /\ Cardinality(s) = Cardinality(s \ {x}) + 1
        <4>1. IsFiniteSet(s) /\ IsFiniteSet(s \ {x})
            BY FS_Subset
        <4> QED
            BY <4>1, FS_RemoveElement, FS_CardinalityType
    <3> DEFINE n == Cardinality(s \ {x})
    <3>5. c + c * n = c * (n + 1)
        <4>1. n \in Nat
            BY <3>4
        <4> HIDE DEF n
        <4> QED
            BY <4>1
    <3> QED
        BY <3>2, <3>3, <3>4, <3>5
  <2> QED
    BY <2>1, <2>2
<1> HIDE DEF P
<1>3. P \in SUBSET SUBSET S
    BY DEF P
<1>4. S \in P
    BY <1>2, <1>3, SetInduction
<1> QED
    BY <1>4 DEF P

\* A sum of sums is the sum of both.
LEMMA SumOfTwo ==
    ASSUME NEW S, IsFiniteSet(S), NEW f, Counts(f, S), NEW g, Counts(g, S),
           NEW h, \A x \in S : h[x] = f[x] + g[x]
    PROVE  Sum(h, S) = Sum(f, S) + Sum(g, S)
<1> DEFINE P == {s \in SUBSET S : Sum(h, s) = Sum(f, s) + Sum(g, s)}
<1>1. Counts(h, S)
    BY DEF Counts
<1>t. Takes(f, S) /\ Takes(g, S) /\ Takes(h, S)
    BY <1>1, SumTakes
<1>2. ASSUME NEW s \in SUBSET S, \A x \in s : s \ {x} \in P PROVE s \in P
  <2>1. CASE s = {}
    BY <1>1, <2>1, SumRule
  <2>2. CASE s # {}
    <3>1. PICK x \in s : TRUE
        BY <2>2
    <3>2. Sum(h, s \ {x}) = Sum(f, s \ {x}) + Sum(g, s \ {x}) /\ h[x] = f[x] + g[x]
        BY <1>2
    <3>3. Sum(f, s) = f[x] + Sum(f, s \ {x}) /\ f[x] \in Nat /\ Sum(f, s \ {x}) \in Nat
        BY <1>t DEF Takes
    <3>4. Sum(g, s) = g[x] + Sum(g, s \ {x}) /\ g[x] \in Nat /\ Sum(g, s \ {x}) \in Nat
        BY <1>t DEF Takes
    <3>5. Sum(h, s) = h[x] + Sum(h, s \ {x})
        BY <1>t DEF Takes
    <3> QED
        BY <3>2, <3>3, <3>4, <3>5
  <2> QED
    BY <2>1, <2>2
<1> HIDE DEF P
<1>3. P \in SUBSET SUBSET S
    BY DEF P
<1>4. S \in P
    BY <1>2, <1>3, SetInduction
<1> QED
    BY <1>4 DEF P

\* The sum over two sets that share no element.
LEMMA SumUnion ==
    ASSUME NEW A, IsFiniteSet(A), NEW B, IsFiniteSet(B), A \cap B = {},
           NEW f, Counts(f, A \cup B)
    PROVE  Sum(f, A \cup B) = Sum(f, A) + Sum(f, B)
<1> DEFINE P == {s \in SUBSET B : Sum(f, A \cup s) = Sum(f, A) + Sum(f, s)}
<1>1. IsFiniteSet(A \cup B) /\ A \in SUBSET (A \cup B)
    BY FS_Union
<1>t. Takes(f, A \cup B)
    BY <1>1, SumTakes
<1>2. ASSUME NEW s \in SUBSET B, \A x \in s : s \ {x} \in P PROVE s \in P
  <2>1. A \cup s \in SUBSET (A \cup B) /\ s \in SUBSET (A \cup B)
    OBVIOUS
  <2>2. CASE s = {}
    <3>1. Sum(f, A) \in Nat
        BY <1>1, SumRule
    <3>2. Sum(f, s) = 0
        BY <1>1, <2>1, <2>2, SumRule
    <3>3. A \cup s = A
        BY <2>2
    <3>4. Sum(f, A \cup s) = Sum(f, A)
        BY <3>3
    <3> QED
        BY <3>1, <3>2, <3>4
  <2>3. CASE s # {}
    <3>1. PICK x \in s : TRUE
        BY <2>3
    <3>2. Sum(f, A \cup (s \ {x})) = Sum(f, A) + Sum(f, s \ {x})
        BY <1>2
    <3>3. (A \cup s) \ {x} = A \cup (s \ {x}) /\ x \in A \cup s
        OBVIOUS
    <3>4. Sum(f, s) = f[x] + Sum(f, s \ {x}) /\ f[x] \in Nat /\ Sum(f, s \ {x}) \in Nat
        BY <1>t, <2>1, <3>1 DEF Takes
    <3>5. Sum(f, A \cup s) = f[x] + Sum(f, A \cup (s \ {x}))
        BY <1>t, <2>1, <3>3 DEF Takes
    <3>6. Sum(f, A) \in Nat
        BY <1>1, SumRule
    <3> QED
        BY <3>2, <3>4, <3>5, <3>6
  <2> QED
    BY <2>2, <2>3
<1> HIDE DEF P
<1>3. P \in SUBSET SUBSET B
    BY DEF P
<1>4. B \in P
    BY <1>2, <1>3, SetInduction
<1> QED
    BY <1>4 DEF P

\* The sum over a part is no larger.
LEMMA SumSubset ==
    ASSUME NEW S, IsFiniteSet(S), NEW f, Counts(f, S), NEW T \in SUBSET S
    PROVE  Sum(f, T) <= Sum(f, S)
<1>1. T \cup (S \ T) = S /\ IsFiniteSet(T) /\ IsFiniteSet(S \ T)
    BY FS_Subset
<1>2. Sum(f, S) = Sum(f, T) + Sum(f, S \ T)
  <2>1. T \cap (S \ T) = {} /\ Counts(f, T \cup (S \ T))
    BY <1>1
  <2>2. Sum(f, T \cup (S \ T)) = Sum(f, T) + Sum(f, S \ T)
    BY <1>1, <2>1, SumUnion
  <2> QED
    BY <1>1, <2>2
<1>3. Sum(f, T) \in Nat /\ Sum(f, S \ T) \in Nat
    BY SumRule
<1> QED
    BY <1>2, <1>3

\* What is bounded on every one of disjoint blocks is bounded by the whole.
LEMMA SumBlocks ==
    ASSUME NEW S, IsFiniteSet(S), NEW f, Counts(f, S),
           NEW U, IsFiniteSet(U), NEW h, Counts(h, U), NEW B \in [U -> SUBSET S],
           \A u, v \in U : u # v => B[u] \cap B[v] = {},
           \A u \in U : h[u] <= Sum(f, B[u])
    PROVE  Sum(h, U) <= Sum(f, S)
<1> DEFINE all(s) == UNION {B[u] : u \in s}
           P == {s \in SUBSET U : Sum(h, s) <= Sum(f, all(s))}
<1>t. Takes(h, U)
    BY SumTakes
<1>1. ASSUME NEW s \in SUBSET U, \A x \in s : s \ {x} \in P PROVE s \in P
  <2>1. CASE s = {}
    <3>1. all(s) = {}
        BY <2>1
    <3>2. Sum(h, s) = 0 /\ Sum(f, all(s)) = 0
        BY <2>1, <3>1, SumRule
    <3> QED
        BY <3>2
  <2>2. CASE s # {}
    <3>1. PICK x \in s : TRUE
        BY <2>2
    <3> DEFINE r == all(s \ {x})
    <3>2. Sum(h, s \ {x}) <= Sum(f, r)
        BY <1>1
    <3>3. /\ all(s) = B[x] \cup r /\ B[x] \cap r = {}
          /\ B[x] \in SUBSET S /\ r \in SUBSET S /\ all(s) \in SUBSET S
        OBVIOUS
    <3> HIDE DEF r, all
    <3>4. Sum(f, all(s)) = Sum(f, B[x]) + Sum(f, r)
        <4>1. IsFiniteSet(B[x]) /\ IsFiniteSet(r) /\ Counts(f, B[x] \cup r)
            BY <3>3, FS_Subset DEF Counts
        <4> QED
            BY <3>3, <4>1, SumUnion
    <3>5. /\ Sum(h, s) = h[x] + Sum(h, s \ {x})
          /\ h[x] \in Nat /\ Sum(h, s \ {x}) \in Nat
        BY <1>t DEF Takes
    <3>6. Sum(f, B[x]) \in Nat /\ Sum(f, r) \in Nat
        BY <3>3, SumRule
    <3>7. h[x] <= Sum(f, B[x])
        OBVIOUS
    <3> QED
        BY <3>2, <3>4, <3>5, <3>6, <3>7
  <2> QED
    BY <2>1, <2>2
<1> HIDE DEF P
<1>2. U \in P
  <2>1. P \in SUBSET SUBSET U
    BY DEF P
  <2> QED
    BY <1>1, <2>1, SetInduction
<1>3. all(U) \in SUBSET S
    OBVIOUS
<1>4. Sum(h, U) <= Sum(f, all(U))
    BY <1>2 DEF P
<1> HIDE DEF all
<1>5. Sum(f, all(U)) <= Sum(f, S)
    BY <1>3, SumSubset
<1>6. Sum(h, U) \in Nat /\ Sum(f, all(U)) \in Nat /\ Sum(f, S) \in Nat
    BY <1>3, SumRule, SumSplit
<1> QED
    BY <1>4, <1>5, <1>6

\* The rows and the columns of a table.
Row(M, B, a) == [b \in B |-> M[<<a, b>>]]
Column(M, A, b) == [a \in A |-> M[<<a, b>>]]

\* A table has the same sum by rows and by columns.
LEMMA SumSwap ==
    ASSUME NEW A, IsFiniteSet(A), NEW B, IsFiniteSet(B),
           NEW M, \A a \in A : \A b \in B : M[<<a, b>>] \in Nat
    PROVE  Sum([a \in A |-> Sum(Row(M, B, a), B)], A)
           = Sum([b \in B |-> Sum(Column(M, A, b), A)], B)
<1> DEFINE f == [a \in A |-> Sum(Row(M, B, a), B)]
           g(s) == [b \in B |-> Sum(Column(M, A, b), s)]
           P == {s \in SUBSET A : Sum(f, s) = Sum(g(s), B)}
<1>1. \A a \in A : Counts(Row(M, B, a), B)
    BY DEF Counts, Row
<1>2. \A b \in B : Counts(Column(M, A, b), A)
    BY DEF Counts, Column
<1>3. Counts(f, A)
    BY <1>1, SumSplit DEF Counts
<1>4. ASSUME NEW s \in SUBSET A PROVE Counts(g(s), B)
  <2>1. \A b \in B : Sum(Column(M, A, b), s) \in Nat
    BY <1>2, SumRule
  <2> QED
    BY <2>1 DEF Counts
<1>5. \A b \in B : Takes(Column(M, A, b), A)
    BY <1>2, SumTakes
<1>6. Takes(f, A)
    BY <1>3, SumTakes
<1>7. ASSUME NEW s \in SUBSET A, \A x \in s : s \ {x} \in P PROVE s \in P
  <2>1. CASE s = {}
    <3>1. Sum(f, s) = 0
        BY <1>3, <2>1, SumRule
    <3>2. \A b \in B : g(s)[b] = 0
        <4>1. \A b \in B : Sum(Column(M, A, b), s) = 0
            BY <1>2, <2>1, SumRule
        <4> QED
            BY <4>1
    <3>3. Sum(g(s), B) = 0 * Cardinality(B) /\ Cardinality(B) \in Nat
        <4> HIDE DEF g
        <4> QED
            BY <3>2, SumConstant, FS_CardinalityType
    <3>4. Sum(g(s), B) = 0
        <4> HIDE DEF g
        <4> QED
            BY <3>3
    <3> QED
        BY <3>1, <3>4
  <2>2. CASE s # {}
    <3>1. PICK x \in s : TRUE
        BY <2>2
    <3>2. Sum(f, s \ {x}) = Sum(g(s \ {x}), B)
        BY <1>7
    <3>3. f[x] = Sum(Row(M, B, x), B)
        OBVIOUS
    <3>4. \A b \in B : g(s)[b] = Row(M, B, x)[b] + g(s \ {x})[b]
        <4> SUFFICES ASSUME NEW b \in B
                     PROVE  g(s)[b] = Row(M, B, x)[b] + g(s \ {x})[b]
            OBVIOUS
        <4>1. Sum(Column(M, A, b), s) = Column(M, A, b)[x] + Sum(Column(M, A, b), s \ {x})
            BY <1>5 DEF Takes
        <4>2. Column(M, A, b)[x] = Row(M, B, x)[b]
            BY DEF Row, Column
        <4> QED
            BY <4>1, <4>2
    <3> HIDE DEF f, g
    <3>5. Counts(Row(M, B, x), B) /\ Counts(g(s \ {x}), B)
        BY <1>1, <1>4
    <3>6. Sum(g(s), B) = Sum(Row(M, B, x), B) + Sum(g(s \ {x}), B)
        BY <3>4, <3>5, SumOfTwo
    <3>7. Sum(f, s) = f[x] + Sum(f, s \ {x})
        BY <1>6 DEF Takes
    <3> QED
        BY <3>2, <3>3, <3>6, <3>7
  <2> QED
    BY <2>1, <2>2
<1>8. A \in P
  <2>1. P \in SUBSET SUBSET A
    OBVIOUS
  <2> HIDE DEF P
  <2> QED
    BY <1>7, <2>1, SetInduction
<1> QED
    BY <1>8

\* A finite set has a subset of every smaller size.
LEMMA SubsetOfSize ==
    ASSUME NEW S, IsFiniteSet(S), NEW n \in Nat, n <= Cardinality(S)
    PROVE  \E T \in SUBSET S : Cardinality(T) = n
<1> DEFINE P == {s \in SUBSET S : n <= Cardinality(s) => \E T \in SUBSET s : Cardinality(T) = n}
<1>1. ASSUME NEW s \in SUBSET S, \A x \in s : s \ {x} \in P PROVE s \in P
  <2>1. IsFiniteSet(s) /\ Cardinality(s) \in Nat
    BY FS_Subset, FS_CardinalityType
  <2>2. CASE Cardinality(s) = n \/ ~(n <= Cardinality(s))
    BY <2>2
  <2>3. CASE n < Cardinality(s)
    <3>1. s # {}
        BY <2>3, FS_EmptySet
    <3>2. PICK x \in s : TRUE
        BY <3>1
    <3>3. Cardinality(s \ {x}) = Cardinality(s) - 1
        BY <2>1, FS_RemoveElement
    <3>4. n <= Cardinality(s \ {x})
        BY <2>1, <2>3, <3>3
    <3>5. PICK T \in SUBSET (s \ {x}) : Cardinality(T) = n
        BY <1>1, <3>4
    <3> QED
        BY <3>5
  <2> QED
    BY <2>1, <2>2, <2>3
<1> HIDE DEF P
<1>2. S \in P
  <2>1. P \in SUBSET SUBSET S
    BY DEF P
  <2> QED
    BY <1>1, <2>1, SetInduction
<1> QED
    BY <1>2 DEF P

-----------------------------------------------------------------------------
(* Orders                                                                  *)

\* The place of a member of a sequence.
LEMMA PositionIs ==
    ASSUME NEW q, q \in Seq(ToSet(q)), NEW x \in ToSet(q)
    PROVE  Position(q, x) \in 1..Len(q) /\ q[Position(q, x)] = x
<1>1. \E i \in DOMAIN q : q[i] = x
    BY DEF ToSet
<1>2. Position(q, x) \in DOMAIN q /\ q[Position(q, x)] = x
    BY <1>1 DEF Position
<1> QED
    BY <1>2

\* The first of some members of a sequence is one of them.
LEMMA FirstInIs ==
    ASSUME NEW q, q \in Seq(ToSet(q)), NEW xs \in SUBSET ToSet(q), xs # {}
    PROVE  FirstIn(q, xs) \in xs
<1> DEFINE places == {Position(q, x) : x \in xs}
<1>1. \A x \in xs : Position(q, x) \in Nat
    BY PositionIs
<1>2. PICK n \in places : \A m \in places : n <= m
  <2>1. places \in SUBSET Nat /\ places # {}
    BY <1>1
  <2> HIDE DEF places
  <2> QED
    BY <2>1, LeastNumber
<1>3. PICK x \in xs : Position(q, x) = n
    OBVIOUS
<1>4. \A y \in xs : Position(q, x) <= Position(q, y)
    BY <1>2, <1>3
<1> QED
    BY <1>4 DEF FirstIn

\* The last of some members of a sequence is one of them.
LEMMA LastInIs ==
    ASSUME NEW q, q \in Seq(ToSet(q)), NEW xs \in SUBSET ToSet(q), xs # {}
    PROVE  LastIn(q, xs) \in xs
<1> DEFINE places == {Len(q) - Position(q, x) : x \in xs}
<1>1. \A x \in xs : Position(q, x) \in 1..Len(q) /\ Len(q) \in Nat
    BY PositionIs
<1>2. PICK n \in places : \A m \in places : n <= m
  <2>1. places \in SUBSET Nat /\ places # {}
    BY <1>1
  <2> HIDE DEF places
  <2> QED
    BY <2>1, LeastNumber
<1>3. PICK x \in xs : Len(q) - Position(q, x) = n
    OBVIOUS
<1>4. \A y \in xs : Position(q, y) <= Position(q, x)
  <2> SUFFICES ASSUME NEW y \in xs PROVE Position(q, y) <= Position(q, x)
    OBVIOUS
  <2>1. Len(q) - Position(q, x) <= Len(q) - Position(q, y)
    BY <1>2, <1>3
  <2> QED
    BY <1>1, <2>1
<1> QED
    BY <1>4 DEF LastIn

\* The last of some pairs is one of them.
LEMMA LastPairIs ==
    ASSUME NEW order, order \in Seq(ToSet(order)),
           NEW ps \in SUBSET (Groups \X ToSet(order)), ps # {}
    PROVE  LastPair(order, ps) \in ps
<1> DEFINE gs == {p[1] : p \in ps}
           g == LastIn(GroupOrder, gs)
           us == {p[2] : p \in {q \in ps : q[1] = g}}
           u == LastIn(order, us)
<1>1. g \in gs
  <2>1. gs \in SUBSET ToSet(GroupOrder) /\ gs # {}
    BY DEF Groups
  <2>2. GroupOrder \in Seq(ToSet(GroupOrder))
    BY ElectorateAssumption
  <2> HIDE DEF gs
  <2> QED
    BY <2>1, <2>2, LastInIs
<1>2. us \in SUBSET ToSet(order) /\ us # {}
  <2>1. PICK p \in ps : p[1] = g
    BY <1>1
  <2> HIDE DEF g
  <2> QED
    BY <2>1
<1>3. u \in us
  <2> HIDE DEF us
  <2> QED
    BY <1>2, LastInIs
<1>4. PICK p \in ps : p[1] = g /\ p[2] = u
  <2> HIDE DEF u, g
  <2> QED
    BY <1>3
<1>5. p = <<g, u>>
  <2> HIDE DEF g, u
  <2> QED
    BY <1>4
<1>6. LastPair(order, ps) = <<g, u>>
    BY DEF LastPair
<1> QED
    BY <1>5, <1>6

-----------------------------------------------------------------------------
(* Picking voters                                                          *)

\* The votes that are left and the users who have been picked.
Lefts == [power : [Groups -> Nat], picked : SUBSET Users]

\* Users, groups and memberships are finite.
LEMMA Finite ==
    /\ IsFiniteSet(ToSet(UserOrder)) /\ IsFiniteSet(Groups)
    /\ policy \in Policies => /\ Users \in SUBSET ToSet(UserOrder) /\ IsFiniteSet(Users)
                              /\ Pairs \in SUBSET (Groups \X Users) /\ IsFiniteSet(Pairs)
<1>1. ASSUME NEW q, q \in Seq(ToSet(q)) PROVE IsFiniteSet(ToSet(q))
  <2>1. Len(q) \in Nat /\ q \in [1..Len(q) -> ToSet(q)]
    BY <1>1
  <2>2. q \in Surjection(1..Len(q), ToSet(q))
    BY <2>1 DEF Surjection, ToSet
  <2>3. IsFiniteSet(1..Len(q))
    BY <2>1, FS_Interval
  <2> QED
    BY <2>2, <2>3, FS_Surjection
<1>2. IsFiniteSet(ToSet(UserOrder)) /\ IsFiniteSet(Groups)
    BY <1>1, ElectorateAssumption DEF Groups
<1>3. ASSUME policy \in Policies
      PROVE  /\ Users \in SUBSET ToSet(UserOrder) /\ IsFiniteSet(Users)
             /\ Pairs \in SUBSET (Groups \X Users) /\ IsFiniteSet(Pairs)
  <2>1. Pairs \in SUBSET (Groups \X ToSet(UserOrder))
    BY <1>3, ElectorateAssumption DEF Pairs
  <2>2. Users \in SUBSET ToSet(UserOrder)
    BY <2>1 DEF Users
  <2>3. IsFiniteSet(Users)
    BY <1>2, <2>2, FS_Subset
  <2>4. Pairs \in SUBSET (Groups \X Users)
    BY <2>1 DEF Users
  <2>5. IsFiniteSet(Groups \X Users)
    BY <1>2, <2>3, FS_Product
  <2> QED
    BY <2>2, <2>3, <2>4, <2>5, FS_Subset
<1> QED
    BY <1>2, <1>3

\* What picking from the pairs ps makes of the votes w and the users k: votes
\* become voters one by one; who is not picked finds no vote left; every group
\* has given its votes to members among the pairs.
Picked(w, k, ps, r) ==
    /\ r \in Lefts
    /\ k \subseteq r.picked /\ r.picked \subseteq k \cup {p[2] : p \in ps}
    /\ \A g \in Groups : r.power[g] <= w[g]
    /\ Sum(r.power, Groups) + Cardinality(r.picked) = Sum(w, Groups) + Cardinality(k)
    /\ \A p \in ps : p[2] \in r.picked \/ r.power[p[1]] = 0
    /\ \A g \in Groups :
          w[g] - r.power[g] <= Cardinality({u \in r.picked \ k : <<g, u>> \in ps})
    /\ \A u \in r.picked \ k : \E p \in ps : p[2] = u /\ w[p[1]] > 0

\* Nothing is picked from no pairs.
LEMMA PickNone ==
    ASSUME policy \in Policies, NEW w \in [Groups -> Nat], NEW k \in SUBSET Users
    PROVE  Picked(w, k, {}, [power |-> w, picked |-> k])
<1> DEFINE r == [power |-> w, picked |-> k]
<1>1. /\ r \in Lefts /\ r.power = w /\ r.picked = k
      /\ \A g \in Groups : r.power[g] <= w[g] /\ w[g] - r.power[g] = 0
    BY DEF Lefts
<1> HIDE DEF r
<1>2. \A g \in Groups : {u \in r.picked \ k : <<g, u>> \in {}} = {}
    BY <1>1
<1>3. \A g \in Groups : w[g] - r.power[g] <= Cardinality({u \in r.picked \ k : <<g, u>> \in {}})
  <2> SUFFICES ASSUME NEW g \in Groups
               PROVE  w[g] - r.power[g] <= Cardinality({u \in r.picked \ k : <<g, u>> \in {}})
    OBVIOUS
  <2>1. Cardinality({u \in r.picked \ k : <<g, u>> \in {}}) = 0
    BY <1>2, FS_EmptySet
  <2> QED
    BY <1>1, <2>1
<1> QED
    BY <1>1, <1>3 DEF Picked, r

\* Picking from one pair more.
LEMMA PickOne ==
    ASSUME policy \in Policies, NEW w \in [Groups -> Nat], NEW k \in SUBSET Users,
           NEW qs \in SUBSET (Groups \X Users), NEW l, Picked(w, k, qs, l),
           NEW p \in Groups \X Users
    PROVE  Picked(w, k, qs \cup {p}, Pick(l, p))
<1> DEFINE g == p[1]
           u == p[2]
           ps == qs \cup {p}
           r == Pick(l, p)
           given(h) == {v \in l.picked \ k : <<h, v>> \in qs}
           gives(h) == {v \in r.picked \ k : <<h, v>> \in ps}
<1>1. /\ g \in Groups /\ u \in Users /\ p = <<g, u>>
      /\ l \in Lefts /\ l.power \in [Groups -> Nat] /\ l.picked \in SUBSET Users
    BY DEF Picked, Lefts
<1>2. IsFiniteSet(Users) /\ IsFiniteSet(Groups)
    BY Finite
<1>3. CASE u \in l.picked \/ l.power[g] = 0
  <2>1. r = l
    BY <1>3 DEF Pick
  <2>2. \A h \in Groups : given(h) \in SUBSET gives(h) /\ IsFiniteSet(gives(h))
    <3>1. \A h \in Groups : given(h) \in SUBSET gives(h) /\ gives(h) \in SUBSET Users
        BY <1>1, <2>1
    <3> HIDE DEF gives, given
    <3> QED
        BY <1>2, <3>1, FS_Subset
  <2>3. \A h \in Groups : w[h] - l.power[h] <= Cardinality(gives(h))
    <3> SUFFICES ASSUME NEW h \in Groups
                 PROVE  w[h] - l.power[h] <= Cardinality(gives(h))
        OBVIOUS
    <3>1. w[h] - l.power[h] <= Cardinality(given(h))
        BY DEF Picked
    <3>2. w[h] \in Nat /\ l.power[h] \in Nat
        BY <1>1
    <3> HIDE DEF given, gives
    <3>3. /\ Cardinality(given(h)) <= Cardinality(gives(h))
          /\ Cardinality(given(h)) \in Nat /\ Cardinality(gives(h)) \in Nat
        <4>1. IsFiniteSet(given(h))
            BY <2>2, FS_Subset
        <4> QED
            BY <2>2, <4>1, FS_Subset, FS_CardinalityType
    <3> QED
        BY <3>1, <3>2, <3>3
  <2>4. \A q \in ps : q[2] \in l.picked \/ l.power[q[1]] = 0
    BY <1>3 DEF Picked
  <2>5. l.picked \subseteq k \cup {q[2] : q \in ps}
    BY DEF Picked
  <2>6. \A v \in l.picked \ k : \E q \in ps : q[2] = v /\ w[q[1]] > 0
    BY DEF Picked
  <2>7. Picked(w, k, ps, l)
    <3> HIDE DEF ps
    <3>1. \A h \in Groups :
            w[h] - l.power[h] <= Cardinality({v \in l.picked \ k : <<h, v>> \in ps})
        BY <2>1, <2>3
    <3> HIDE DEF r
    <3> QED
        BY <2>4, <2>5, <2>6, <3>1 DEF Picked
  <2> QED
    BY <2>1, <2>7
<1>4. CASE u \notin l.picked /\ l.power[g] # 0
  <2> DEFINE n == l.power[g]
             f == [l.power EXCEPT ![g] = @ - 1]
  <2>1. r = [power |-> f, picked |-> l.picked \cup {u}]
    BY <1>4 DEF Pick
  <2>2. /\ f \in [Groups -> Nat] /\ f[g] = n - 1 /\ n \in Nat
        /\ \A h \in Groups \ {g} : f[h] = l.power[h]
    BY <1>1, <1>4
  <2>3. r \in Lefts /\ r.power = f /\ r.picked = l.picked \cup {u}
    BY <1>1, <2>1, <2>2 DEF Lefts
  <2> HIDE DEF r, f, n
  <2>4. \A h \in Groups : f[h] <= l.power[h] /\ f[h] <= w[h]
    <3> SUFFICES ASSUME NEW h \in Groups PROVE f[h] <= l.power[h] /\ f[h] <= w[h]
        OBVIOUS
    <3>1. l.power[h] <= w[h] /\ l.power[h] \in Nat /\ w[h] \in Nat /\ f[h] \in Nat
        BY <1>1, <2>2 DEF Picked
    <3>2. f[h] <= l.power[h]
        BY <1>1, <2>2, <3>1 DEF n
    <3> QED
        BY <3>1, <3>2
  <2>5. k \subseteq r.picked /\ r.picked \subseteq k \cup {q[2] : q \in ps} /\ u \notin k
    <3>1. k \subseteq l.picked /\ l.picked \subseteq k \cup {q[2] : q \in qs}
        BY DEF Picked
    <3> QED
        BY <1>4, <2>3, <3>1
  <2>6. Sum(f, Groups) + Cardinality(r.picked) = Sum(w, Groups) + Cardinality(k)
    <3>1. Sum(l.power, Groups) + Cardinality(l.picked) = Sum(w, Groups) + Cardinality(k)
        BY DEF Picked
    <3>2. Counts(l.power, Groups) /\ Counts(f, Groups)
        BY <1>1, <2>2 DEF Counts
    <3>3. Takes(l.power, Groups) /\ Takes(f, Groups)
        BY <1>2, <3>2, SumTakes
    <3>4. /\ Sum(l.power, Groups) = n + Sum(l.power, Groups \ {g})
          /\ Sum(l.power, Groups \ {g}) \in Nat
        BY <1>1, <3>3 DEF Takes, n
    <3>5. Sum(f, Groups) = f[g] + Sum(f, Groups \ {g})
        BY <1>1, <3>3 DEF Takes
    <3>6. Sum(f, Groups \ {g}) = Sum(l.power, Groups \ {g})
        <4>1. IsFiniteSet(Groups \ {g}) /\ Counts(f, Groups \ {g})
            BY <1>2, <3>2, FS_Subset DEF Counts
        <4> QED
            BY <2>2, <4>1, SumSame
    <3>7. Cardinality(r.picked) = Cardinality(l.picked) + 1 /\ Cardinality(l.picked) \in Nat
        <4>1. IsFiniteSet(l.picked)
            BY <1>1, <1>2, FS_Subset
        <4> QED
            BY <1>4, <2>3, <4>1, FS_AddElement, FS_CardinalityType
    <3> QED
        BY <2>2, <3>1, <3>4, <3>5, <3>6, <3>7
  <2>7. \A q \in ps : q[2] \in r.picked \/ f[q[1]] = 0
    <3> SUFFICES ASSUME NEW q \in ps PROVE q[2] \in r.picked \/ f[q[1]] = 0
        OBVIOUS
    <3>1. CASE q = p
        BY <2>3, <3>1
    <3>2. CASE q \in qs
        <4>1. q[2] \in l.picked \/ l.power[q[1]] = 0
            BY <3>2 DEF Picked
        <4>2. q[1] \in Groups /\ (l.power[q[1]] = 0 => q[1] # g)
            BY <1>4, <3>2
        <4> QED
            BY <2>2, <2>3, <4>1, <4>2
    <3> QED
        BY <3>1, <3>2
  <2>8. \A h \in Groups : w[h] - f[h] <= Cardinality(gives(h))
    <3> SUFFICES ASSUME NEW h \in Groups PROVE w[h] - f[h] <= Cardinality(gives(h))
        OBVIOUS
    <3>1. w[h] - l.power[h] <= Cardinality(given(h))
        BY DEF Picked
    <3>2. w[h] \in Nat /\ l.power[h] \in Nat /\ f[h] \in Nat
        BY <1>1, <2>2
    <3>3. given(h) \in SUBSET gives(h) /\ gives(h) \in SUBSET Users
        BY <1>1, <2>3
    <3>4. h = g => u \in gives(h) \ given(h)
        BY <1>1, <1>4, <2>3, <2>5
    <3> HIDE DEF given, gives
    <3>5. IsFiniteSet(gives(h)) /\ IsFiniteSet(given(h))
        BY <1>2, <3>3, FS_Subset
    <3>6. Cardinality(given(h)) \in Nat /\ Cardinality(gives(h)) \in Nat
        BY <3>5, FS_CardinalityType
    <3>7. CASE h = g
        <4>1. Cardinality(given(h) \cup {u}) = Cardinality(given(h)) + 1
            BY <3>4, <3>5, <3>7, FS_AddElement
        <4>2. Cardinality(given(h) \cup {u}) <= Cardinality(gives(h))
            <5>1. given(h) \cup {u} \in SUBSET gives(h)
                BY <3>3, <3>4, <3>7
            <5> QED
                BY <3>5, <5>1, FS_Subset
        <4>3. l.power[h] = n /\ f[h] = n - 1 /\ n \in Nat
            BY <2>2, <3>7 DEF n
        <4> QED
            BY <3>1, <3>2, <3>6, <4>1, <4>2, <4>3
    <3>8. CASE h # g
        <4>1. f[h] = l.power[h]
            BY <2>2, <3>8
        <4>2. Cardinality(given(h)) <= Cardinality(gives(h))
            BY <3>3, <3>5, FS_Subset
        <4> QED
            BY <3>1, <3>2, <3>6, <4>1, <4>2
    <3> QED
        BY <3>7, <3>8
  <2>9. \A v \in r.picked \ k : \E q \in ps : q[2] = v /\ w[q[1]] > 0
    <3> SUFFICES ASSUME NEW v \in r.picked \ k
                 PROVE  \E q \in ps : q[2] = v /\ w[q[1]] > 0
        OBVIOUS
    <3>1. CASE v \in l.picked
        BY <3>1 DEF Picked
    <3>2. CASE v = u
        <4>1. l.power[g] <= w[g] /\ l.power[g] \in Nat /\ w[g] \in Nat
            BY <1>1 DEF Picked
        <4>2. w[g] > 0
            BY <1>4, <4>1
        <4> QED
            BY <3>2, <4>2
    <3> QED
        BY <2>3, <3>1, <3>2
  <2>10. Picked(w, k, ps, r)
    <3> HIDE DEF ps
    <3>1. \A h \in Groups :
            w[h] - r.power[h] <= Cardinality({v \in r.picked \ k : <<h, v>> \in ps})
        BY <2>3, <2>8
    <3> QED
        BY <2>3, <2>4, <2>5, <2>6, <2>7, <2>9, <3>1 DEF Picked
  <2> QED
    BY <2>10 DEF r
<1> QED
    BY <1>3, <1>4

\* One step of PickAll, and h is what it makes of each subset of S.
PickStep(order, base, h, ps) ==
    IF ps = {} THEN base
    ELSE Pick(h[ps \ {LastPair(order, ps)}], LastPair(order, ps))
Picks(order, base, S, h) == h = [ps \in SUBSET S |-> PickStep(order, base, h, ps)]

\* The recursion of PickAll has a solution, and PickAll is its value.
LEMMA PicksExist ==
    ASSUME policy \in Policies, NEW w \in [Groups -> Nat], NEW k \in SUBSET Users,
           NEW order, order \in Seq(ToSet(order)),
           NEW S \in SUBSET Pairs, S \subseteq Groups \X ToSet(order)
    PROVE  \E h : Picks(order, [power |-> w, picked |-> k], S, h)
                  /\ PickAll(w, k, order, S) = h[S]
<1> DEFINE base == [power |-> w, picked |-> k]
           C == [ps \in SUBSET S |-> LastPair(order, ps)]
           F == [x \in S \X Lefts |-> Pick(x[2], x[1])]
<1>1. IsFiniteSet(S) /\ S \in SUBSET (Groups \X Users)
    BY Finite, FS_Subset
<1>2. Chooses(C, S)
  <2>1. \A ps \in SUBSET S : ps # {} => LastPair(order, ps) \in ps
    BY LastPairIs
  <2> QED
    BY <2>1 DEF Chooses
<1>3. base \in Lefts
    BY DEF Lefts
<1>4. F \in [S \X Lefts -> Lefts]
  <2> SUFFICES ASSUME NEW p \in S, NEW l \in Lefts PROVE Pick(l, p) \in Lefts
    OBVIOUS
  <2>1. p[1] \in Groups /\ p[2] \in Users
    BY <1>1
  <2>2. CASE p[2] \in l.picked \/ l.power[p[1]] = 0
    BY <2>2 DEF Pick
  <2>3. CASE p[2] \notin l.picked /\ l.power[p[1]] # 0
    <3> DEFINE f == [l.power EXCEPT ![p[1]] = @ - 1]
    <3>1. f \in [Groups -> Nat]
        BY <2>1, <2>3 DEF Lefts
    <3>2. Pick(l, p) = [power |-> f, picked |-> l.picked \cup {p[2]}]
        BY <2>3 DEF Pick
    <3> HIDE DEF f
    <3> QED
        BY <2>1, <3>1, <3>2 DEF Lefts
  <2> QED
    BY <2>2, <2>3
<1>5. PICK g : IsFold(F, base, C, S, g)
  <2> HIDE DEF base, C, F
  <2> QED
    BY <1>1, <1>2, FoldExists
<1>6. \A ps \in SUBSET S : g[ps] \in Lefts
  <2> HIDE DEF base, C, F
  <2> QED
    BY <1>1, <1>2, <1>3, <1>4, <1>5, FoldType
<1>7. ASSUME NEW ps \in SUBSET S
      PROVE  FoldStep(F, base, C, g, ps) = PickStep(order, base, g, ps)
  <2>1. CASE ps = {}
    BY <2>1 DEF FoldStep, PickStep
  <2>2. CASE ps # {}
    <3> DEFINE p == LastPair(order, ps)
    <3>1. C[ps] = p /\ p \in S
        BY <1>2, <2>2 DEF Chooses
    <3> HIDE DEF p
    <3>2. g[ps \ {p}] \in Lefts
        BY <1>6
    <3>3. F[<<p, g[ps \ {p}]>>] = Pick(g[ps \ {p}], p)
        BY <3>1, <3>2
    <3> HIDE DEF F, C, base
    <3> QED
        BY <2>2, <3>1, <3>3 DEF FoldStep, PickStep, p
  <2> QED
    BY <2>1, <2>2
<1>8. Picks(order, base, S, g)
  <2> HIDE DEF F, C, base
  <2> QED
    BY <1>5, <1>7 DEF IsFold, Picks
<1> DEFINE h == CHOOSE h : h = [ps \in SUBSET S |-> PickStep(order, base, h, ps)]
<1>9. Picks(order, base, S, h)
  <2> HIDE DEF base
  <2> QED
    BY <1>8 DEF Picks
<1>10. PickAll(w, k, order, S) = h[S]
    BY DEF PickAll, MapThenFoldSet, PickStep
<1> HIDE DEF h
<1> QED
    BY <1>9, <1>10

\* What picking from all the pairs comes to.
LEMMA PickAllPicks ==
    ASSUME policy \in Policies, NEW w \in [Groups -> Nat], NEW k \in SUBSET Users,
           NEW order, order \in Seq(ToSet(order)),
           NEW S \in SUBSET Pairs, S \subseteq Groups \X ToSet(order)
    PROVE  Picked(w, k, S, PickAll(w, k, order, S))
<1> DEFINE base == [power |-> w, picked |-> k]
<1>1. PICK h : Picks(order, base, S, h) /\ PickAll(w, k, order, S) = h[S]
    BY PicksExist
<1>2. IsFiniteSet(S) /\ S \in SUBSET (Groups \X Users)
    BY Finite, FS_Subset
<1> DEFINE P == {ps \in SUBSET S : Picked(w, k, ps, h[ps])}
<1>3. ASSUME NEW ps \in SUBSET S, \A p \in ps : ps \ {p} \in P PROVE ps \in P
  <2>1. h[ps] = PickStep(order, base, h, ps)
    <3> HIDE DEF base
    <3> QED
        BY <1>1 DEF Picks
  <2>2. CASE ps = {}
    <3>1. h[ps] = base
        BY <2>1, <2>2 DEF PickStep
    <3>2. Picked(w, k, {}, base)
        BY PickNone
    <3> HIDE DEF base
    <3> QED
        BY <2>2, <3>1, <3>2
  <2>3. CASE ps # {}
    <3> DEFINE p == LastPair(order, ps)
               qs == ps \ {p}
    <3>1. h[ps] = Pick(h[qs], p)
        BY <2>1, <2>3 DEF PickStep
    <3>2. p \in ps
        BY <2>3, LastPairIs
    <3> HIDE DEF p
    <3>3. Picked(w, k, qs, h[qs]) /\ qs \cup {p} = ps
        BY <1>3, <3>2
    <3>4. qs \in SUBSET (Groups \X Users) /\ p \in Groups \X Users
        BY <1>2, <3>2
    <3>5. Picked(w, k, qs \cup {p}, Pick(h[qs], p))
        <4> HIDE DEF qs
        <4> QED
            BY <3>3, <3>4, PickOne
    <3> HIDE DEF qs
    <3> QED
        BY <3>1, <3>3, <3>5
  <2> QED
    BY <2>2, <2>3
<1>4. S \in P
  <2>1. P \in SUBSET SUBSET S
    OBVIOUS
  <2> HIDE DEF P
  <2> QED
    BY <1>2, <1>3, <2>1, SetInduction
<1> QED
    BY <1>1, <1>4

-----------------------------------------------------------------------------
(* The invariant                                                           *)

\* What the roles of a membership can be.
Ranks == RolesOf(policy) \cup {"none", "out"}

\* The tables of a meeting.
Tables ==
    [here : SUBSET Users, voters : SUBSET Users, role : [Pairs -> Ranks],
     share : [Pairs -> 0..MaxVotes], votes : [Groups -> 0..MaxVotes],
     to : [Groups -> Groups \cup {NoGroup}], transfer : [Users -> Users \cup {Nobody}],
     active : Seq(Users), activeOn : BOOLEAN]

\* A membership that may give its user a vote.
Counted(s, p) ==
    \/ s.role[p] \in RolesOf(policy)
    \/ policy = "skr_agarrad" /\ s.role[p] # "out"

\* Potential voters, members who count and both ends of a transfer are
\* participants.
Sound(s) ==
    /\ s \in Tables
    /\ IsInjective(s.active)
    /\ s.voters \subseteq s.here
    /\ \A p \in Pairs : Counted(s, p) => p[2] \in s.here
    /\ \A u \in Users : s.transfer[u] # Nobody => u \in s.here /\ s.transfer[u] \in s.here

\* The requests there may be in flight.
GroupRequests ==
    [kind : {"group"}, of : Groups, votes : 0..MaxVotes, to : Groups \cup {NoGroup}]
MemberRequests ==
    [kind : {"member"}, of : Pairs, role : RolesOf(policy) \cup {"none"},
     share : 0..MaxVotes, old : RolesOf(policy) \cup {"none"}, lost : BOOLEAN]
TransferRequests ==
    [kind : {"transfer", "reassign"}, of : Users, target : Users, lost : BOOLEAN]
DelegationRequests ==
    [kind : {"delegation"}, of : Groups, weights : UNION {[us -> 1..MaxVotes] : us \in SUBSET Users}]

\* The one in flight knows of the role it replaces, or that the row is gone.
InFlight ==
    /\ req \in {Idle} \cup GroupRequests \cup MemberRequests \cup TransferRequests
               \cup DelegationRequests
    /\ req.kind = "member" => /\ policy # "skr_agarrad"
                              /\ req.lost \/ db.role[req.of] = req.old
    /\ req.kind = "delegation" => policy = "gv_auto_before_p"

ElectorateInv == policy \in Policies /\ Sound(db) /\ InFlight

-----------------------------------------------------------------------------
(* The policies                                                            *)

\* k votes are d for each of n users and one more for some of them.
LEMMA DivideVotes ==
    ASSUME NEW k \in Nat, NEW n \in Nat \ {0}
    PROVE  /\ k \div n \in Nat /\ k % n \in Nat /\ k % n < n
           /\ (k \div n) * n + (k % n) = k
    OBVIOUS

\* The votes of a group, shared out among the users of E as calc_group_votes_equal
\* does, are given to them all.
LEMMA ShareOut ==
    ASSUME NEW U, IsFiniteSet(U), NEW E \in SUBSET U, E # {}, NEW k \in Nat, NEW f,
           \A u \in U : f[u] = IF u \notin E THEN 0
                               ELSE (k \div Cardinality(E))
                                    + (IF u \in Shuffled(E, k % Cardinality(E)) THEN 1 ELSE 0)
    PROVE  Counts(f, U) /\ Sum(f, U) = k
<1> DEFINE n == Cardinality(E)
           d == k \div n
           m == k % n
           L == Shuffled(E, m)
           one == [u \in U |-> IF u \in L THEN 1 ELSE 0]
           each == [u \in U |-> d]
<1>1. IsFiniteSet(E) /\ n \in Nat \ {0}
    BY FS_Subset, FS_CardinalityType, FS_EmptySet
<1>2. d \in Nat /\ m \in Nat /\ m < n /\ d * n + m = k
  <2> HIDE DEF n
  <2> QED
    BY <1>1, DivideVotes
<1>3. L \in SUBSET E /\ Cardinality(L) = m
  <2>1. \E T \in SUBSET E : Cardinality(T) = m
    <3> HIDE DEF m
    <3> QED
        BY <1>1, <1>2, SubsetOfSize
  <2> HIDE DEF m
  <2> QED
    BY <2>1 DEF Shuffled
<1>4. \A u \in U : f[u] = IF u \notin E THEN 0 ELSE d + one[u]
    OBVIOUS
<1>5. /\ \A u \in U : one[u] \in Nat /\ each[u] = d
      /\ \A u \in L : one[u] = 1
      /\ \A u \in U \ L : one[u] = 0
    BY <1>2, <1>3
<1> HIDE DEF n, d, m, L, one, each
<1>6. \A u \in U : f[u] \in Nat
    BY <1>2, <1>4, <1>5
<1>7. Sum(f, E) = k
  <2>1. Counts(one, E) /\ Counts(each, E) /\ \A u \in E : f[u] = each[u] + one[u]
    BY <1>2, <1>4, <1>5 DEF Counts
  <2>2. Sum(f, E) = Sum(each, E) + Sum(one, E)
    BY <1>1, <2>1, SumOfTwo
  <2>3. Sum(each, E) = d * n
    BY <1>1, <1>2, <1>5, SumConstant DEF n
  <2>4. /\ IsFiniteSet(L) /\ IsFiniteSet(E \ L) /\ L \cap (E \ L) = {} /\ L \cup (E \ L) = E
        /\ E \in SUBSET U
    BY <1>1, <1>3, FS_Subset
  <2>5. Sum(one, L) = 1 * m
    BY <1>3, <1>5, <2>4, SumConstant
  <2>6. Sum(one, E \ L) = 0 * Cardinality(E \ L)
    BY <1>5, <2>4, SumConstant
  <2>7. Sum(one, E) = Sum(one, L) + Sum(one, E \ L)
    <3>1. Counts(one, L \cup (E \ L))
        BY <2>1, <2>4 DEF Counts
    <3>2. Sum(one, L \cup (E \ L)) = Sum(one, L) + Sum(one, E \ L)
        BY <2>4, <3>1, SumUnion
    <3> QED
        BY <2>4, <3>2
  <2>8. Cardinality(E \ L) \in Nat
    BY <2>4, FS_CardinalityType
  <2> QED
    BY <1>1, <1>2, <2>2, <2>3, <2>4, <2>5, <2>6, <2>7, <2>8
<1>8. Sum(f, U \ E) = 0
  <2>1. IsFiniteSet(U \ E) /\ \A u \in U \ E : f[u] = 0
    BY <1>4, FS_Subset
  <2>2. Sum(f, U \ E) = 0 * Cardinality(U \ E) /\ Cardinality(U \ E) \in Nat
    BY <2>1, SumConstant, FS_CardinalityType
  <2> QED
    BY <2>2
<1>9. Sum(f, U) = Sum(f, E) + Sum(f, U \ E)
  <2>1. /\ IsFiniteSet(U \ E) /\ E \cap (U \ E) = {} /\ E \cup (U \ E) = U
        /\ Counts(f, E \cup (U \ E))
    BY <1>6, FS_Subset DEF Counts
  <2>2. Sum(f, E \cup (U \ E)) = Sum(f, E) + Sum(f, U \ E)
    BY <1>1, <2>1, SumUnion
  <2> QED
    BY <2>1, <2>2
<1> QED
    BY <1>6, <1>7, <1>8, <1>9 DEF Counts

\* GroupAutoRandomBeforePoll gives the votes of groups to participants.
LEMMA GroupVotesEqualSound ==
    ASSUME policy \in Policies, NEW s, Sound(s)
    PROVE  /\ DOMAIN GroupVotesEqual(s) \subseteq s.here
           /\ SumFunction(GroupVotesEqual(s)) <= TotalVotes(s)
<1> DEFINE held(g) == {g} \cup Delegated(s, g)
           votes(g) == SumFunctionOnSet(s.votes, held(g))
           entitled(g) == Members(s, g) \cap s.voters \cap Active(s)
           groups == {g \in KeepVotes(s) : votes(g) > 0 /\ entitled(g) # {}}
           lucky(g) == Shuffled(entitled(g), votes(g) % Cardinality(entitled(g)))
           from(g, u) == IF u \notin entitled(g) THEN 0
                         ELSE (votes(g) \div Cardinality(entitled(g)))
                              + (IF u \in lucky(g) THEN 1 ELSE 0)
           U == UNION {entitled(g) : g \in groups}
           M == [x \in groups \X U |-> from(x[1], x[2])]
           V == [u \in U |-> SumFunction([g \in groups |-> from(g, u)])]
<1>1. GroupVotesEqual(s) = V
    BY DEF GroupVotesEqual
<1>2. IsFiniteSet(Groups) /\ IsFiniteSet(Users) /\ s \in Tables
    BY Finite DEF Sound
<1>3. U \subseteq s.here /\ U \in SUBSET Users /\ groups \in SUBSET Groups
    BY DEF Members, Sound, KeepVotes
<1>4. IsFiniteSet(U) /\ IsFiniteSet(groups)
  <2> HIDE DEF U, groups
  <2> QED
    BY <1>2, <1>3, FS_Subset
<1>5. Counts(s.votes, Groups)
    BY <1>2 DEF Counts, Tables
<1>6. ASSUME NEW g \in groups
      PROVE  /\ held(g) \in SUBSET Groups /\ votes(g) = Sum(s.votes, held(g)) /\ votes(g) \in Nat
             /\ Counts(Row(M, U, g), U) /\ Sum(Row(M, U, g), U) = votes(g)
             /\ \A u \in U : M[<<g, u>>] = from(g, u) /\ M[<<g, u>>] \in Nat
  <2>1. held(g) \in SUBSET Groups
    BY <1>3 DEF Delegated
  <2>2. votes(g) = Sum(s.votes, held(g))
    BY DEF Sum
  <2>3. Sum(s.votes, held(g)) \in Nat
    <3> HIDE DEF held
    <3> QED
        BY <1>2, <1>5, <2>1, SumRule
  <2>4. \A u \in U : M[<<g, u>>] = from(g, u) /\ Row(M, U, g)[u] = from(g, u)
    BY DEF Row
  <2>5. entitled(g) \in SUBSET U /\ entitled(g) # {}
    OBVIOUS
  <2> HIDE DEF M, U, entitled, votes, groups, held
  <2>6. Counts(Row(M, U, g), U) /\ Sum(Row(M, U, g), U) = votes(g)
    <3> DEFINE k == votes(g)
               E == entitled(g)
    <3>1. \A u \in U : Row(M, U, g)[u]
                       = IF u \notin E THEN 0
                         ELSE (k \div Cardinality(E))
                              + (IF u \in Shuffled(E, k % Cardinality(E)) THEN 1 ELSE 0)
        BY <2>4
    <3>2. k \in Nat /\ E \in SUBSET U /\ E # {}
        BY <2>2, <2>3, <2>5
    <3> HIDE DEF k, E
    <3>3. Counts(Row(M, U, g), U) /\ Sum(Row(M, U, g), U) = k
        BY <1>4, <3>1, <3>2, ShareOut
    <3> QED
        BY <3>3 DEF k
  <2>7. \A u \in U : M[<<g, u>>] \in Nat
    BY <2>4, <2>6 DEF Counts
  <2> HIDE DEF from
  <2> QED
    BY <2>1, <2>2, <2>3, <2>4, <2>6, <2>7
<1> DEFINE rows == [g \in groups |-> Sum(Row(M, U, g), U)]
           columns == [u \in U |-> Sum(Column(M, groups, u), groups)]
<1>7. Sum(rows, groups) = Sum(columns, U)
  <2>1. \A g \in groups : \A u \in U : M[<<g, u>>] \in Nat
    <3> HIDE DEF M, U, groups
    <3> QED
        BY <1>6
  <2> HIDE DEF M, U, groups
  <2> QED
    BY <1>4, <2>1, SumSwap
<1>8. V = columns
  <2>1. ASSUME NEW u \in U PROVE V[u] = columns[u]
    <3>1. Column(M, groups, u) = [g \in groups |-> from(g, u)]
        BY DEF Column
    <3>2. DOMAIN [g \in groups |-> from(g, u)] = groups
        OBVIOUS
    <3> HIDE DEF M, groups, from
    <3> QED
        BY <3>1, <3>2 DEF SumFunction, Sum
  <2>2. V = [u \in U |-> V[u]] /\ columns = [u \in U |-> columns[u]]
    OBVIOUS
  <2> HIDE DEF V, columns, U
  <2> QED
    BY <2>1, <2>2
<1>9. SumFunction(GroupVotesEqual(s)) = Sum(columns, U)
  <2>1. DOMAIN V = U
    OBVIOUS
  <2> HIDE DEF V, U, columns
  <2> QED
    BY <1>1, <1>8, <2>1 DEF SumFunction, Sum
<1>10. Sum(rows, groups) <= Sum(s.votes, Groups)
  <2> DEFINE B == [g \in groups |-> held(g)]
  <2>1. B \in [groups -> SUBSET Groups]
    <3> HIDE DEF groups, held
    <3> QED
        BY <1>6
  <2>2. \A g, h \in groups : g # h => B[g] \cap B[h] = {}
    <3> SUFFICES ASSUME NEW g \in groups, NEW h \in groups, g # h, NEW x \in B[g] \cap B[h]
                 PROVE  FALSE
        OBVIOUS
    <3>1. s.to[g] = NoGroup /\ s.to[h] = NoGroup /\ NoGroup \notin Groups
        BY ElectorateAssumption DEF KeepVotes
    <3>2. (x = g \/ s.to[x] = g) /\ (x = h \/ s.to[x] = h)
        BY DEF Delegated
    <3>3. g \in Groups /\ h \in Groups
        BY <1>3
    <3> QED
        BY <3>1, <3>2, <3>3
  <2>3. ASSUME NEW g \in groups PROVE rows[g] \in Nat /\ rows[g] <= Sum(s.votes, B[g])
    <3>1. rows[g] = Sum(Row(M, U, g), U) /\ B[g] = held(g)
        OBVIOUS
    <3> HIDE DEF rows, B, held, votes, groups, U, M, from
    <3> QED
        BY <1>6, <3>1
  <2>4. Counts(rows, groups)
    <3> HIDE DEF rows, groups
    <3> QED
        BY <2>3 DEF Counts
  <2> HIDE DEF rows, B, groups
  <2> QED
    BY <1>2, <1>4, <1>5, <2>1, <2>2, <2>3, <2>4, SumBlocks
<1>11. TotalVotes(s) = Sum(s.votes, Groups)
    BY <1>2 DEF TotalVotes, SumFunction, Sum, Tables
<1>12. DOMAIN GroupVotesEqual(s) \subseteq s.here
    BY <1>1, <1>3
<1> HIDE DEF rows, columns, groups, U
<1> QED
    BY <1>7, <1>9, <1>10, <1>11, <1>12

\* What a policy that gives everybody one vote gives.
LEMMA EqualWeights ==
    ASSUME NEW us, IsFiniteSet(us)
    PROVE  /\ DOMAIN Equal(us, 1) = us
           /\ SumFunction(Equal(us, 1)) = Cardinality(us)
<1>1. DOMAIN Equal(us, 1) = us /\ \A u \in us : Equal(us, 1)[u] = 1
    BY DEF Equal
<1>2. SumFunction(Equal(us, 1)) = Sum(Equal(us, 1), us)
    BY <1>1 DEF SumFunction, Sum
<1>3. Sum(Equal(us, 1), us) = 1 * Cardinality(us) /\ Cardinality(us) \in Nat
    BY <1>1, SumConstant, FS_CardinalityType
<1> QED
    BY <1>1, <1>2, <1>3

\* GroupVotesBeforePoll gives votes to potential voters, and counts them.
LEMMA MemberSharesSound ==
    ASSUME policy \in Policies, NEW s, Sound(s)
    PROVE  /\ DOMAIN MemberShares(s) \subseteq s.here
           /\ SumFunction(MemberShares(s)) \in Nat
           /\ TotalVotes(s) \in Nat
<1> DEFINE given(u) == {p \in Pairs : /\ p[2] = u /\ s.share[p] > 0
                                      /\ s.role[p] # "out" /\ s.votes[p[1]] > 0}
           U == {v \in s.voters : given(v) # {}}
           V == [u \in U |-> SumFunctionOnSet(s.share, given(u))]
<1>1. MemberShares(s) = V
    BY DEF MemberShares
<1>2. s \in Tables /\ U \subseteq s.here /\ s.here \in SUBSET Users
    BY DEF Sound, Tables
<1>3. Counts(s.share, Pairs) /\ Counts(s.votes, Groups)
    BY <1>2 DEF Counts, Tables
<1>4. ASSUME NEW u \in U PROVE V[u] \in Nat
  <2>1. V[u] = Sum(s.share, given(u)) /\ given(u) \in SUBSET Pairs
    BY DEF Sum
  <2> HIDE DEF V, given
  <2> QED
    BY <1>3, <2>1, Finite, SumRule
<1>5. SumFunction(V) = Sum(V, U)
    BY DEF SumFunction, Sum
<1>6. DOMAIN V = U
    OBVIOUS
<1>7. TotalVotes(s) = Sum(s.votes, Groups)
    BY <1>2 DEF TotalVotes, SumFunction, Sum, Tables
<1>8. Sum(s.votes, Groups) \in Nat
    BY <1>3, Finite, SumSplit
<1> HIDE DEF V, U
<1>9. Sum(V, U) \in Nat
  <2>1. IsFiniteSet(U)
    BY <1>2, Finite, FS_Subset
  <2>2. Counts(V, U)
    BY <1>4 DEF Counts
  <2> QED
    BY <2>1, <2>2, SumSplit
<1> QED
    BY <1>1, <1>2, <1>5, <1>6, <1>7, <1>8, <1>9

\* What PickAll is given: votes that are left, users and memberships.
LEMMA CandidatesAre ==
    ASSUME policy \in Policies, NEW s, Sound(s), NEW role, NEW order,
           NEW us \in SUBSET ToSet(order)
    PROVE  /\ Candidates(s, role, us) \in SUBSET Pairs
           /\ Candidates(s, role, us) \subseteq Groups \X ToSet(order)
           /\ \A p \in Candidates(s, role, us) :
                 p[2] \in us /\ s.role[p] = role /\ s.votes[p[1]] > 0
<1>1. Pairs \in SUBSET (Groups \X Users)
    BY Finite
<1> QED
    BY <1>1 DEF Candidates

\* The order of main_or_subst_er.py and those it lets vote.
Turn(s) == IF s.activeOn THEN s.active ELSE UserOrder
Able(s) == IF s.activeOn THEN ToSet(s.active) ELSE s.here

LEMMA TurnIs ==
    ASSUME policy \in Policies, NEW s, Sound(s)
    PROVE  Turn(s) \in Seq(ToSet(Turn(s))) /\ Able(s) \in SUBSET ToSet(Turn(s))
<1>1. s \in Tables
    BY DEF Sound
<1>2. CASE s.activeOn
  <2>1. s.active \in Seq(Users)
    BY <1>1 DEF Tables
  <2>2. Len(s.active) \in Nat /\ s.active = [i \in 1..Len(s.active) |-> s.active[i]]
    BY <2>1
  <2>3. \A i \in 1..Len(s.active) : s.active[i] \in ToSet(s.active)
    BY <2>1 DEF ToSet
  <2>4. s.active \in Seq(ToSet(s.active))
    BY <2>2, <2>3
  <2> QED
    BY <1>2, <2>4 DEF Turn, Able
<1>3. CASE ~s.activeOn
  <2>1. UserOrder \in Seq(ToSet(UserOrder)) /\ Users \in SUBSET ToSet(UserOrder)
    BY Finite, ElectorateAssumption
  <2>2. s.here \in SUBSET Users
    BY <1>1 DEF Tables
  <2> QED
    BY <1>3, <2>1, <2>2 DEF Turn, Able
<1> QED
    BY <1>2, <1>3

\* MainSubstActivePolicy picks the main delegates and then the substitutes, and
\* each voter takes a vote that was left.
LEMMA MainOrSubstitutePicks ==
    ASSUME policy \in Policies, NEW s, Sound(s)
    PROVE  LET mains == Candidates(s, "main", Able(s))
               others == Candidates(s, "substitute", Able(s))
           IN  \E main, all :
                  /\ Picked(s.votes, {}, mains, main)
                  /\ Picked(main.power, main.picked, others, all)
                  /\ MainOrSubstitute(s) = Equal(all.picked, 1)
<1> DEFINE mains == Candidates(s, "main", Able(s))
           others == Candidates(s, "substitute", Able(s))
           main == PickAll(s.votes, {}, Turn(s), mains)
           all == PickAll(main.power, main.picked, Turn(s), others)
<1>1. MainOrSubstitute(s) = Equal(all.picked, 1)
    BY DEF MainOrSubstitute, Turn, Able
<1>2. s.votes \in [Groups -> Nat] /\ {} \in SUBSET Users
    BY DEF Sound, Tables
<1>3. Turn(s) \in Seq(ToSet(Turn(s))) /\ Able(s) \in SUBSET ToSet(Turn(s))
    BY TurnIs
<1>4. /\ mains \in SUBSET Pairs /\ mains \subseteq Groups \X ToSet(Turn(s))
      /\ others \in SUBSET Pairs /\ others \subseteq Groups \X ToSet(Turn(s))
    BY <1>3, CandidatesAre
<1> HIDE DEF mains, others
<1>5. Picked(s.votes, {}, mains, main)
    BY <1>2, <1>3, <1>4, PickAllPicks
<1>6. main.power \in [Groups -> Nat] /\ main.picked \in SUBSET Users
    BY <1>5 DEF Picked, Lefts
<1>7. Picked(main.power, main.picked, others, all)
  <2> HIDE DEF main
  <2> QED
    BY <1>3, <1>4, <1>6, PickAllPicks
<1> HIDE DEF main, all
<1> QED
    BY <1>1, <1>5, <1>7 DEF mains, others

\* A sum of votes is what is left and what has been given.
LEMMA PickedSum ==
    ASSUME policy \in Policies, NEW w, NEW k \in SUBSET Users, NEW ps, NEW r, Picked(w, k, ps, r)
    PROVE  /\ r.power \in [Groups -> Nat] /\ Sum(r.power, Groups) \in Nat
           /\ r.picked \in SUBSET Users /\ IsFiniteSet(r.picked) /\ Cardinality(r.picked) \in Nat
           /\ Cardinality(k) \in Nat
           /\ Sum(r.power, Groups) + Cardinality(r.picked) = Sum(w, Groups) + Cardinality(k)
<1>1. r.power \in [Groups -> Nat] /\ r.picked \in SUBSET Users
    BY DEF Picked, Lefts
<1>2. Counts(r.power, Groups) /\ IsFiniteSet(Groups) /\ IsFiniteSet(r.picked) /\ IsFiniteSet(k)
    BY <1>1, Finite, FS_Subset DEF Counts
<1>3. Sum(r.power, Groups) + Cardinality(r.picked) = Sum(w, Groups) + Cardinality(k)
    BY DEF Picked
<1> QED
    BY <1>1, <1>2, <1>3, SumSplit, FS_CardinalityType

\* MainSubstActivePolicy gives votes to participants and no more than there are.
LEMMA MainOrSubstituteSound ==
    ASSUME policy = "main_subst_active", policy \in Policies, NEW s, Sound(s)
    PROVE  /\ DOMAIN MainOrSubstitute(s) \subseteq s.here
           /\ SumFunction(MainOrSubstitute(s)) <= TotalVotes(s)
<1> DEFINE mains == Candidates(s, "main", Able(s))
           others == Candidates(s, "substitute", Able(s))
<1>1. PICK main, all :
        /\ Picked(s.votes, {}, mains, main)
        /\ Picked(main.power, main.picked, others, all)
        /\ MainOrSubstitute(s) = Equal(all.picked, 1)
    BY MainOrSubstitutePicks
<1>2. RolesOf(policy) = {"main", "substitute"}
    BY DEF RolesOf
<1>3. \A p \in mains \cup others : p[2] \in s.here
  <2>1. \A p \in mains \cup others : p \in Pairs /\ s.role[p] \in RolesOf(policy)
    BY <1>2 DEF Candidates
  <2> QED
    BY <2>1 DEF Sound, Counted
<1> HIDE DEF mains, others
<1>4. all.picked \subseteq s.here
    BY <1>1, <1>3 DEF Picked
<1>5. TotalVotes(s) = Sum(s.votes, Groups)
    BY DEF TotalVotes, SumFunction, Sum, Tables, Sound
<1>6. /\ Sum(main.power, Groups) + Cardinality(main.picked) = Sum(s.votes, Groups) + Cardinality({})
      /\ main.picked \in SUBSET Users
    BY <1>1, PickedSum
<1>7. /\ Sum(all.power, Groups) + Cardinality(all.picked)
           = Sum(main.power, Groups) + Cardinality(main.picked)
      /\ Sum(all.power, Groups) \in Nat /\ Cardinality(all.picked) \in Nat
      /\ IsFiniteSet(all.picked)
    BY <1>1, <1>6, PickedSum
<1>8. Cardinality({}) = 0 /\ Sum(s.votes, Groups) \in Nat
  <2>1. Counts(s.votes, Groups)
    BY DEF Counts, Sound, Tables
  <2> QED
    BY <2>1, Finite, SumSplit, FS_EmptySet
<1>9. SumFunction(MainOrSubstitute(s)) = Cardinality(all.picked)
    BY <1>1, <1>7, EqualWeights
<1> QED
    BY <1>1, <1>4, <1>5, <1>6, <1>7, <1>8, <1>9, EqualWeights

\* MainSubstActivePolicy keeps the order it promises.
LEMMA MainOrSubstituteOrder ==
    ASSUME policy = "main_subst_active", Sound(db), policy \in Policies
    PROVE  MainDelegatesFirst
<1> DEFINE mains == Candidates(db, "main", Able(db))
           others == Candidates(db, "substitute", Able(db))
           main(g) == {u \in Users : InGroupAs(db, g, u, "main")}
           voters == DOMAIN Voters(db)
<1>1. PICK m, all :
        /\ Picked(db.votes, {}, mains, m)
        /\ Picked(m.power, m.picked, others, all)
        /\ MainOrSubstitute(db) = Equal(all.picked, 1)
    BY MainOrSubstitutePicks
<1>2. voters = all.picked
    BY <1>1 DEF Voters, Equal
<1>3. /\ m.picked \subseteq voters /\ IsFiniteSet(voters) /\ voters \in SUBSET Users
      /\ m.power \in [Groups -> Nat] /\ db.votes \in [Groups -> Nat]
  <2>1. m.picked \in SUBSET Users /\ m.power \in [Groups -> Nat]
    BY <1>1, PickedSum
  <2>2. IsFiniteSet(all.picked) /\ all.picked \in SUBSET Users
    BY <1>1, <2>1, PickedSum
  <2>3. m.picked \subseteq all.picked
    BY <1>1 DEF Picked
  <2> QED
    BY <1>2, <2>1, <2>2, <2>3 DEF Sound, Tables
<1>4. ASSUME NEW g \in Groups, NEW u \in main(g) \cap Able(db), u \notin voters
      PROVE  Cardinality(voters \cap main(g)) >= db.votes[g]
  <2>1. IsFiniteSet(voters \cap main(g)) /\ Cardinality(voters \cap main(g)) \in Nat
    BY <1>3, FS_Subset, FS_CardinalityType
  <2>2. CASE db.votes[g] = 0
    BY <2>1, <2>2
  <2>3. CASE db.votes[g] # 0
    <3> DEFINE given == {v \in m.picked \ {} : <<g, v>> \in mains}
    <3>1. db.votes[g] \in Nat /\ db.votes[g] > 0
        BY <1>3, <2>3
    <3>2. <<g, u>> \in mains
        BY <3>1 DEF Candidates, InGroupAs
    <3>3. m.power[g] = 0
        <4>1. \A p \in mains : p[2] \in m.picked \/ m.power[p[1]] = 0
            BY <1>1 DEF Picked
        <4>2. u \notin m.picked
            BY <1>3, <1>4
        <4> HIDE DEF mains
        <4> QED
            BY <3>2, <4>1, <4>2
    <3>4. db.votes[g] - m.power[g] <= Cardinality(given)
        <4> HIDE DEF mains
        <4> QED
            BY <1>1 DEF Picked
    <3>5. given \in SUBSET (voters \cap main(g))
        <4>1. \A v \in given : v \in voters /\ v \in Users /\ <<g, v>> \in mains
            BY <1>3
        <4>2. \A v \in given : InGroupAs(db, g, v, "main")
            BY <4>1 DEF Candidates, InGroupAs
        <4> QED
            BY <4>1, <4>2
    <3> HIDE DEF given
    <3>6. Cardinality(given) <= Cardinality(voters \cap main(g)) /\ Cardinality(given) \in Nat
        <4>1. IsFiniteSet(given)
            BY <2>1, <3>5, FS_Subset
        <4> QED
            BY <2>1, <3>5, <4>1, FS_Subset, FS_CardinalityType
    <3> QED
        BY <2>1, <3>1, <3>3, <3>4, <3>6
  <2> QED
    BY <2>2, <2>3
<1>5. \A g \in Groups :
        main(g) \cap Able(db) \subseteq voters \/ Cardinality(voters \cap main(g)) >= db.votes[g]
  <2> HIDE DEF main, voters
  <2> QED
    BY <1>4
<1> QED
    BY <1>5 DEF MainDelegatesFirst, Able

\* Two votes for some of the voters and one for the others.
LEMMA OneOrTwo ==
    ASSUME NEW P, IsFiniteSet(P), NEW Q \in SUBSET P,
           NEW f, f = [u \in P |-> IF u \in Q THEN 2 ELSE 1]
    PROVE  SumFunction(f) = Cardinality(P) + Cardinality(Q)
<1>1. SumFunction(f) = Sum(f, P)
  <2>1. DOMAIN f = P
    OBVIOUS
  <2> QED
    BY <2>1 DEF SumFunction, Sum
<1>2. /\ IsFiniteSet(Q) /\ IsFiniteSet(P \ Q) /\ Q \cap (P \ Q) = {} /\ Q \cup (P \ Q) = P
      /\ \A u \in Q : f[u] = 2
      /\ \A u \in P \ Q : f[u] = 1
      /\ \A u \in P : f[u] \in Nat
    BY FS_Subset
<1>3. Sum(f, P) = Sum(f, Q) + Sum(f, P \ Q)
  <2>1. Counts(f, Q \cup (P \ Q))
    BY <1>2 DEF Counts
  <2>2. Sum(f, Q \cup (P \ Q)) = Sum(f, Q) + Sum(f, P \ Q)
    BY <1>2, <2>1, SumUnion
  <2> QED
    BY <1>2, <2>2
<1>4. Sum(f, Q) = 2 * Cardinality(Q) /\ Sum(f, P \ Q) = 1 * Cardinality(P \ Q)
    BY <1>2, SumConstant
<1>5. /\ Cardinality(P \ Q) = Cardinality(P) - Cardinality(Q)
      /\ Cardinality(P) \in Nat /\ Cardinality(Q) \in Nat
  <2>1. Cardinality(P \ Q) = Cardinality(P) - Cardinality(P \cap Q) /\ P \cap Q = Q
    BY FS_Difference
  <2> QED
    BY <1>2, <2>1, FS_CardinalityType
<1> QED
    BY <1>1, <1>3, <1>4, <1>5

\* Who is picked from pairs when the votes that were left are given again was
\* picked the first time.
LEMMA PickedAgain ==
    ASSUME NEW w, NEW k, NEW ps, NEW l, Picked(w, k, ps, l), ps \subseteq Groups \X Users,
           NEW v \in [Groups -> Nat], NEW j, NEW r, Picked(v, j, ps, r),
           \A g \in Groups : v[g] <= l.power[g]
    PROVE  r.picked \subseteq j \cup l.picked
<1> SUFFICES ASSUME NEW u \in r.picked \ j PROVE u \in l.picked
    OBVIOUS
<1>1. PICK p \in ps : p[2] = u /\ v[p[1]] > 0
    BY DEF Picked
<1>2. p[1] \in Groups /\ l.power[p[1]] \in Nat /\ v[p[1]] \in Nat
    BY DEF Picked, Lefts
<1>3. l.power[p[1]] # 0
    BY <1>1, <1>2
<1>4. p[2] \in l.picked \/ l.power[p[1]] = 0
    BY DEF Picked
<1> QED
    BY <1>1, <1>3, <1>4

\* SKKFum gives no more votes than there are: whoever gets a second vote has one.
LEMMA FullmaktigeSound ==
    ASSUME policy \in Policies, NEW s, Sound(s)
    PROVE  /\ DOMAIN Fullmaktige(s) \subseteq s.here
           /\ SumFunction(Fullmaktige(s)) <= TotalVotes(s)
<1> DEFINE us == s.voters \cap Active(s)
           a == Candidates(s, "del_2", us)
           b == Candidates(s, "del_1", us)
           c == Candidates(s, "suppleant", us)
           p1 == PickAll(s.votes, {}, UserOrder, a)
           p2 == PickAll(p1.power, p1.picked, UserOrder, b)
           s1 == PickAll(p2.power, {}, UserOrder, a)
           s2 == PickAll(s1.power, s1.picked, UserOrder, b)
           p3 == PickAll(s2.power, p2.picked, UserOrder, c)
           s3 == PickAll(p3.power, s2.picked, UserOrder, c)
<1>1. Fullmaktige(s) = [u \in p3.picked \cup s3.picked |-> IF u \in s3.picked THEN 2 ELSE 1]
    BY DEF Fullmaktige
<1>2. UserOrder \in Seq(ToSet(UserOrder)) /\ us \in SUBSET ToSet(UserOrder) /\ us \subseteq s.here
    BY Finite, ElectorateAssumption DEF Sound, Tables
<1> HIDE DEF us
<1>3. \A ps \in {a, b, c} : /\ ps \in SUBSET Pairs /\ ps \subseteq Groups \X ToSet(UserOrder)
                            /\ ps \subseteq Groups \X Users
                            /\ \A p \in ps : p[2] \in s.here
  <2>1. \A role : Candidates(s, role, us) \in SUBSET Pairs
                  /\ Candidates(s, role, us) \subseteq Groups \X ToSet(UserOrder)
                  /\ \A p \in Candidates(s, role, us) : p[2] \in us
    BY <1>2, CandidatesAre
  <2>2. Pairs \in SUBSET (Groups \X Users)
    BY Finite
  <2> HIDE DEF Candidates
  <2> QED
    BY <1>2, <2>1, <2>2
<1> HIDE DEF a, b, c
<1>4. Picked(s.votes, {}, a, p1) /\ p1.power \in [Groups -> Nat] /\ p1.picked \in SUBSET Users
  <2>1. s.votes \in [Groups -> Nat] /\ {} \in SUBSET Users
    BY DEF Sound, Tables
  <2>2. Picked(s.votes, {}, a, p1)
    BY <1>2, <1>3, <2>1, PickAllPicks
  <2> HIDE DEF p1
  <2> QED
    BY <2>1, <2>2, PickedSum
<1> HIDE DEF p1
<1>5. Picked(p1.power, p1.picked, b, p2) /\ p2.power \in [Groups -> Nat] /\ p2.picked \in SUBSET Users
  <2>1. Picked(p1.power, p1.picked, b, p2)
    BY <1>2, <1>3, <1>4, PickAllPicks
  <2> HIDE DEF p2
  <2> QED
    BY <1>4, <2>1, PickedSum
<1> HIDE DEF p2
<1>6. Picked(p2.power, {}, a, s1) /\ s1.power \in [Groups -> Nat] /\ s1.picked \in SUBSET Users
  <2>1. {} \in SUBSET Users
    OBVIOUS
  <2>2. Picked(p2.power, {}, a, s1)
    BY <1>2, <1>3, <1>5, <2>1, PickAllPicks
  <2> HIDE DEF s1
  <2> QED
    BY <2>1, <2>2, PickedSum
<1> HIDE DEF s1
<1>7. Picked(s1.power, s1.picked, b, s2) /\ s2.power \in [Groups -> Nat] /\ s2.picked \in SUBSET Users
  <2>1. Picked(s1.power, s1.picked, b, s2)
    BY <1>2, <1>3, <1>6, PickAllPicks
  <2> HIDE DEF s2
  <2> QED
    BY <1>6, <2>1, PickedSum
<1> HIDE DEF s2
<1>8. Picked(s2.power, p2.picked, c, p3) /\ p3.power \in [Groups -> Nat] /\ p3.picked \in SUBSET Users
  <2>1. Picked(s2.power, p2.picked, c, p3)
    BY <1>2, <1>3, <1>5, <1>7, PickAllPicks
  <2> HIDE DEF p3
  <2> QED
    BY <1>5, <2>1, PickedSum
<1> HIDE DEF p3
<1>9. Picked(p3.power, s2.picked, c, s3) /\ s3.picked \in SUBSET Users
  <2>1. Picked(p3.power, s2.picked, c, s3)
    BY <1>2, <1>3, <1>7, <1>8, PickAllPicks
  <2> HIDE DEF s3
  <2> QED
    BY <1>7, <2>1, PickedSum
<1> HIDE DEF s3
<1>10. p1.picked \subseteq p2.picked /\ p2.picked \subseteq p3.picked
    BY <1>5, <1>8 DEF Picked
<1>11. s1.picked \subseteq p1.picked
  <2>1. \A g \in Groups : p2.power[g] <= p1.power[g]
    BY <1>5 DEF Picked
  <2> QED
    BY <1>3, <1>4, <1>5, <1>6, <2>1, PickedAgain
<1>12. s2.picked \subseteq s1.picked \cup p2.picked
  <2>1. \A g \in Groups : s1.power[g] <= p2.power[g]
    BY <1>6 DEF Picked
  <2> QED
    BY <1>3, <1>5, <1>6, <1>7, <2>1, PickedAgain
<1>13. s3.picked \subseteq s2.picked \cup p3.picked
  <2>1. \A g \in Groups : p3.power[g] <= p3.power[g]
    BY <1>8
  <2> QED
    BY <1>3, <1>8, <1>9, <2>1, PickedAgain
<1>14. s3.picked \in SUBSET p3.picked /\ p3.picked \cup s3.picked = p3.picked
    BY <1>10, <1>11, <1>12, <1>13
<1>15. p3.picked \subseteq s.here
  <2>1. p1.picked \subseteq {p[2] : p \in a}
    BY <1>4 DEF Picked
  <2>2. p2.picked \subseteq p1.picked \cup {p[2] : p \in b}
    BY <1>5 DEF Picked
  <2>3. p3.picked \subseteq p2.picked \cup {p[2] : p \in c}
    BY <1>8 DEF Picked
  <2> QED
    BY <1>3, <2>1, <2>2, <2>3
<1>16. Fullmaktige(s) = [u \in p3.picked |-> IF u \in s3.picked THEN 2 ELSE 1]
    BY <1>1, <1>14 DEF p1, p2, p3, s1, s2, s3
<1>17. SumFunction(Fullmaktige(s)) = Cardinality(p3.picked) + Cardinality(s3.picked)
  <2>1. IsFiniteSet(p3.picked)
    BY <1>8, Finite, FS_Subset
  <2> QED
    BY <1>14, <1>16, <2>1, OneOrTwo
<1>18. Cardinality(p3.picked) + Cardinality(s3.picked) <= Sum(s.votes, Groups)
  <2>1. /\ Sum(p1.power, Groups) + Cardinality(p1.picked) = Sum(s.votes, Groups) + Cardinality({})
        /\ Sum(p1.power, Groups) \in Nat /\ Cardinality(p1.picked) \in Nat
    BY <1>4, PickedSum
  <2>2. /\ Sum(p2.power, Groups) + Cardinality(p2.picked)
             = Sum(p1.power, Groups) + Cardinality(p1.picked)
        /\ Sum(p2.power, Groups) \in Nat /\ Cardinality(p2.picked) \in Nat
    BY <1>4, <1>5, PickedSum
  <2>3. /\ Sum(s1.power, Groups) + Cardinality(s1.picked) = Sum(p2.power, Groups) + Cardinality({})
        /\ Sum(s1.power, Groups) \in Nat /\ Cardinality(s1.picked) \in Nat
    BY <1>6, PickedSum
  <2>4. /\ Sum(s2.power, Groups) + Cardinality(s2.picked)
             = Sum(s1.power, Groups) + Cardinality(s1.picked)
        /\ Sum(s2.power, Groups) \in Nat /\ Cardinality(s2.picked) \in Nat
    BY <1>6, <1>7, PickedSum
  <2>5. /\ Sum(p3.power, Groups) + Cardinality(p3.picked)
             = Sum(s2.power, Groups) + Cardinality(p2.picked)
        /\ Sum(p3.power, Groups) \in Nat /\ Cardinality(p3.picked) \in Nat
    BY <1>5, <1>8, PickedSum
  <2>6. /\ Sum(s3.power, Groups) + Cardinality(s3.picked)
             = Sum(p3.power, Groups) + Cardinality(s2.picked)
        /\ Sum(s3.power, Groups) \in Nat /\ Cardinality(s3.picked) \in Nat
    BY <1>7, <1>9, PickedSum
  <2>7. Cardinality({}) = 0 /\ Sum(s.votes, Groups) \in Nat
    <3>1. Counts(s.votes, Groups)
        BY DEF Counts, Sound, Tables
    <3> QED
        BY <3>1, Finite, SumSplit, FS_EmptySet
  <2> QED
    BY <2>1, <2>2, <2>3, <2>4, <2>5, <2>6, <2>7
<1>19. TotalVotes(s) = Sum(s.votes, Groups)
    BY DEF TotalVotes, SumFunction, Sum, Tables, Sound
<1>20. DOMAIN Fullmaktige(s) \subseteq s.here
    BY <1>15, <1>16
<1> QED
    BY <1>17, <1>18, <1>19, <1>20

\* MainSubstDelegatePolicy gives a vote for every main delegate, to participants.
LEMMA MainOrDelegateSound ==
    ASSUME policy = "main_subst_delegate", policy \in Policies, NEW s, Sound(s)
    PROVE  /\ DOMAIN MainOrDelegate(s) \subseteq s.here
           /\ SumFunction(MainOrDelegate(s)) <= Cardinality(Mains(s))
<1> DEFINE away == {u \in Mains(s) : s.transfer[u] # Nobody}
           us == (Mains(s) \ away) \cup {s.transfer[u] : u \in away}
           votesFor == [u \in Mains(s) |-> IF u \in away THEN s.transfer[u] ELSE u]
<1>1. MainOrDelegate(s) = Equal(us, 1)
    BY DEF MainOrDelegate
<1>2. Mains(s) \in SUBSET Users /\ \A u \in Mains(s) : u \in s.here
  <2>1. RolesOf(policy) = {"main", "substitute"}
    BY DEF RolesOf
  <2>2. ASSUME NEW g \in Groups, NEW u \in Users, <<g, u>> \in Pairs, s.role[<<g, u>>] = "main"
        PROVE  u \in s.here
    <3>1. Counted(s, <<g, u>>)
        BY <2>1, <2>2 DEF Counted
    <3> QED
        BY <2>2, <3>1 DEF Sound
  <2> QED
    BY <2>2 DEF Mains
<1>3. us \subseteq s.here
    BY <1>2 DEF Sound
<1>4. votesFor \in Surjection(Mains(s), us)
    BY DEF Surjection
<1>5. IsFiniteSet(Mains(s))
    BY <1>2, Finite, FS_Subset
<1>6. IsFiniteSet(us) /\ Cardinality(us) <= Cardinality(Mains(s))
  <2> HIDE DEF us, votesFor
  <2> QED
    BY <1>4, <1>5, FS_Surjection
<1> HIDE DEF us
<1> QED
    BY <1>1, <1>3, <1>6, EqualWeights

\* SKRAgarradERP gives the voters of the other groups no more votes than there
\* are groups: one for the voter's group and one for each that delegates to it.
LEMMA AgarradSound ==
    ASSUME policy = "skr_agarrad", policy \in Policies, NEW s, Sound(s)
    PROVE  LET weights == Agarrad(s)
               ordinary == DOMAIN weights \ Members(s, SKRGroup)
           IN  /\ DOMAIN weights \subseteq s.here
               /\ SumFunctionOnSet(weights, ordinary) <= Cardinality(Groups)
<1> DEFINE present(g) == Members(s, g) \cap Active(s)
           voting == {g \in Groups \ {SKRGroup} : s.to[g] = NoGroup /\ present(g) # {}}
           voter(g) == FirstIn(UserOrder, present(g))
           last(u) == LastIn(GroupOrder, {g \in voting : voter(g) = u})
           us == {voter(g) : g \in voting}
           others == [u \in us |-> Cardinality(Delegated(s, last(u))) + 1]
           skr == SKRUser(s)
           more == SumFunction(others) + 2 * Cardinality(Delegated(s, SKRGroup)) - 1
           weights == Agarrad(s)
           ordinary == DOMAIN weights \ Members(s, SKRGroup)
           blocks == [u \in us |-> {last(u)} \cup Delegated(s, last(u))]
           ones == [g \in Groups |-> 1]
<1>1. weights = IF Members(s, SKRGroup) = {} THEN others
                ELSE [u \in DOMAIN others \cup {skr} |-> IF u = skr THEN more ELSE others[u]]
    BY DEF Agarrad, FirstMembers
<1>2. /\ UserOrder \in Seq(ToSet(UserOrder)) /\ GroupOrder \in Seq(ToSet(GroupOrder))
      /\ Users \in SUBSET ToSet(UserOrder) /\ IsFiniteSet(Groups) /\ IsFiniteSet(Users)
      /\ NoGroup \notin Groups /\ s \in Tables
    BY Finite, ElectorateAssumption DEF Sound
<1>3. \A g \in Groups : Members(s, g) \in SUBSET Users /\ Members(s, g) \subseteq s.here
  <2>1. \A p \in Pairs : s.role[p] # "out" => p[2] \in s.here
    BY DEF Sound, Counted
  <2> QED
    BY <2>1 DEF Members
<1>4. ASSUME NEW g \in voting PROVE voter(g) \in present(g)
  <2>1. present(g) \in SUBSET ToSet(UserOrder) /\ present(g) # {}
    BY <1>2, <1>3
  <2> HIDE DEF present
  <2> QED
    BY <1>2, <2>1, FirstInIs
<1>5. us \in SUBSET Users /\ us \subseteq s.here
  <2>1. \A g \in voting : voter(g) \in Members(s, g) /\ g \in Groups
    BY <1>4
  <2> HIDE DEF voter, voting
  <2> QED
    BY <1>3, <2>1
<1>6. ASSUME NEW u \in us
      PROVE  last(u) \in Groups /\ voter(last(u)) = u /\ s.to[last(u)] = NoGroup
  <2> DEFINE mine == {g \in voting : voter(g) = u}
  <2>1. mine \in SUBSET ToSet(GroupOrder) /\ mine # {}
    BY DEF Groups
  <2>2. last(u) \in mine
    <3>1. last(u) = LastIn(GroupOrder, mine)
        OBVIOUS
    <3> HIDE DEF mine, last
    <3> QED
        BY <1>2, <2>1, <3>1, LastInIs
  <2> HIDE DEF last, voter
  <2> QED
    BY <2>2
<1>7. ASSUME NEW u \in us
      PROVE  /\ blocks[u] \in SUBSET Groups /\ others[u] \in Nat
             /\ others[u] = Sum(ones, blocks[u])
  <2> DEFINE ds == Delegated(s, last(u))
             l == last(u)
  <2>1. ds \in SUBSET Groups /\ l \in Groups /\ l \notin ds
    BY <1>2, <1>6 DEF Delegated
  <2>2. IsFiniteSet(ds)
    BY <1>2, <2>1, FS_Subset
  <2>3. blocks[u] = {l} \cup ds /\ others[u] = Cardinality(ds) + 1
    OBVIOUS
  <2> HIDE DEF l, ds, blocks, others
  <2>4. /\ IsFiniteSet({l} \cup ds) /\ Cardinality({l} \cup ds) = Cardinality(ds) + 1
        /\ Cardinality(ds) \in Nat
    <3>1. {l} \cup ds = ds \cup {l}
        OBVIOUS
    <3> QED
        BY <2>1, <2>2, <3>1, FS_AddElement, FS_CardinalityType
  <2>5. \A g \in {l} \cup ds : ones[g] = 1
    BY <2>1
  <2> HIDE DEF ones
  <2>6. Sum(ones, {l} \cup ds) = 1 * Cardinality({l} \cup ds)
    BY <2>4, <2>5, SumConstant
  <2> QED
    BY <2>1, <2>3, <2>4, <2>6
<1>8. \A u, v \in us : u # v => blocks[u] \cap blocks[v] = {}
  <2> SUFFICES ASSUME NEW u \in us, NEW v \in us, u # v, NEW g \in blocks[u] \cap blocks[v]
               PROVE  FALSE
    OBVIOUS
  <2>1. /\ g = last(u) \/ (g \in Groups /\ s.to[g] = last(u))
        /\ g = last(v) \/ (g \in Groups /\ s.to[g] = last(v))
    BY DEF Delegated
  <2> HIDE DEF last, voter
  <2> QED
    BY <1>2, <1>6, <2>1
<1>9. Sum(others, us) <= Cardinality(Groups)
  <2>1. Counts(ones, Groups) /\ \A g \in Groups : ones[g] = 1
    BY DEF Counts
  <2>2. blocks \in [us -> SUBSET Groups] /\ Counts(others, us)
    <3>1. blocks = [u \in us |-> blocks[u]]
        OBVIOUS
    <3> HIDE DEF blocks, us, others
    <3> QED
        BY <1>7, <3>1 DEF Counts
  <2>3. IsFiniteSet(us)
    <3> HIDE DEF us
    <3> QED
        BY <1>2, <1>5, FS_Subset
  <2> HIDE DEF ones, blocks, us, others
  <2>4. \A u \in us : others[u] <= Sum(ones, blocks[u])
    BY <1>7
  <2>5. Sum(others, us) <= Sum(ones, Groups)
    BY <1>2, <1>8, <2>1, <2>2, <2>3, <2>4, SumBlocks
  <2>6. Sum(ones, Groups) = 1 * Cardinality(Groups) /\ Cardinality(Groups) \in Nat
    BY <1>2, <2>1, SumConstant, FS_CardinalityType
  <2> QED
    BY <2>5, <2>6
<1>10. /\ DOMAIN weights \subseteq s.here /\ ordinary \in SUBSET us
       /\ \A u \in ordinary : weights[u] = others[u]
  <2>1. DOMAIN others = us
    OBVIOUS
  <2> HIDE DEF others, us, more
  <2>2. CASE Members(s, SKRGroup) = {}
    BY <1>1, <1>5, <2>1, <2>2
  <2>3. CASE Members(s, SKRGroup) # {}
    <3>1. skr \in Members(s, SKRGroup) /\ skr \in s.here
        <4>1. SKRGroup \in Groups
            BY ElectorateAssumption
        <4>2. /\ Members(s, SKRGroup) \in SUBSET ToSet(UserOrder)
              /\ Members(s, SKRGroup) \subseteq s.here
            BY <1>2, <1>3, <4>1
        <4> QED
            BY <1>2, <2>3, <4>2, FirstInIs DEF SKRUser
    <3> HIDE DEF skr, weights
    <3>2. weights = [u \in us \cup {skr} |-> IF u = skr THEN more ELSE others[u]]
        BY <1>1, <2>1, <2>3
    <3> QED
        BY <1>5, <3>1, <3>2
  <2> QED
    BY <2>2, <2>3
<1>11. Sum(weights, ordinary) <= Sum(others, us)
  <2>1. Counts(others, us) /\ IsFiniteSet(us)
    <3> HIDE DEF others, us
    <3> QED
        BY <1>2, <1>5, <1>7, FS_Subset DEF Counts
  <2> HIDE DEF others, us, weights, ordinary
  <2>2. IsFiniteSet(ordinary) /\ Counts(others, ordinary)
    BY <1>10, <2>1, FS_Subset DEF Counts
  <2>3. Sum(others, ordinary) = Sum(weights, ordinary)
    BY <1>10, <2>2, SumSame
  <2>4. Sum(others, ordinary) <= Sum(others, us)
    BY <1>10, <2>1, SumSubset
  <2> QED
    BY <2>3, <2>4
<1>12. /\ Sum(weights, ordinary) \in Int /\ Sum(others, us) \in Int /\ Cardinality(Groups) \in Int
  <2>1. Counts(others, us) /\ IsFiniteSet(us)
    <3> HIDE DEF others, us
    <3> QED
        BY <1>2, <1>5, <1>7, FS_Subset DEF Counts
  <2> HIDE DEF others, us, weights, ordinary
  <2>2. IsFiniteSet(ordinary) /\ Counts(weights, ordinary)
    BY <1>10, <2>1, FS_Subset DEF Counts
  <2> QED
    BY <1>2, <2>1, <2>2, SumSplit, FS_CardinalityType
<1> HIDE DEF others, us, weights, ordinary
<1>13. Sum(weights, ordinary) <= Cardinality(Groups)
    BY <1>9, <1>11, <1>12
<1> QED
    BY <1>10, <1>13 DEF Sum, weights, ordinary

\* What every policy gives votes to, and how many.
LEMMA PoliciesSound ==
    ASSUME policy \in Policies, Sound(db)
    PROVE  VotersAreParticipants /\ WeightWithinVotes
<1> DEFINE weights == Voters(db)
<1>1. CASE policy = "group_auto_eq_rnd_bf"
  <2>1. weights = GroupVotesEqual(db)
    BY <1>1 DEF Voters
  <2> QED
    BY <1>1, <2>1, GroupVotesEqualSound DEF VotersAreParticipants, WeightWithinVotes
<1>2. CASE policy = "gv_auto_before_p"
  <2>1. weights = MemberShares(db)
    BY <1>2 DEF Voters
  <2>2. ~Refused(db) => ~(SumFunction(MemberShares(db)) > TotalVotes(db))
    BY <1>2 DEF Refused
  <2>3. /\ DOMAIN MemberShares(db) \subseteq db.here
        /\ ~Refused(db) => SumFunction(MemberShares(db)) <= TotalVotes(db)
    BY <2>2, MemberSharesSound
  <2> QED
    BY <1>2, <2>1, <2>3 DEF VotersAreParticipants, WeightWithinVotes
<1>3. CASE policy = "main_subst_active"
  <2>1. weights = MainOrSubstitute(db)
    BY <1>3 DEF Voters
  <2> QED
    BY <1>3, <2>1, MainOrSubstituteSound DEF VotersAreParticipants, WeightWithinVotes
<1>4. CASE policy = "main_subst_delegate"
  <2>1. weights = MainOrDelegate(db)
    BY <1>4 DEF Voters
  <2> QED
    BY <1>4, <2>1, MainOrDelegateSound DEF VotersAreParticipants, WeightWithinVotes
<1>5. CASE policy = "skk_kfum"
  <2>1. weights = Fullmaktige(db)
    BY <1>5 DEF Voters
  <2> QED
    BY <1>5, <2>1, FullmaktigeSound DEF VotersAreParticipants, WeightWithinVotes
<1>6. CASE policy = "skr_agarrad"
  <2>1. weights = Agarrad(db)
    BY <1>6 DEF Voters
  <2> QED
    BY <1>6, <2>1, AgarradSound DEF VotersAreParticipants, WeightWithinVotes
<1>7. CASE policy \notin {"group_auto_eq_rnd_bf", "gv_auto_before_p", "main_subst_active",
                          "main_subst_delegate", "skk_kfum", "skr_agarrad"}
  <2>1. weights = PotentialVoters(db)
    BY <1>7 DEF Voters
  <2>2. DOMAIN PotentialVoters(db) \subseteq db.voters /\ db.voters \subseteq db.here
    BY DEF PotentialVoters, Equal, Sound
  <2> QED
    BY <1>7, <2>1, <2>2 DEF VotersAreParticipants, WeightWithinVotes
<1> QED
    BY <1>1, <1>2, <1>3, <1>4, <1>5, <1>6, <1>7

-----------------------------------------------------------------------------
(* The list of active users                                                *)

\* One step of the recursion of Without, and a function that takes all of them.
LeftBy(q, us, f, n) ==
    IF n = 0 THEN <<>>
    ELSE IF q[n] \in us THEN f[n - 1] ELSE Append(f[n - 1], q[n])
IsLeft(q, us, f, n) == f = [i \in 0..n |-> LeftBy(q, us, f, i)]

\* The recursion of Without has a solution for every length.
LEMMA LeftExists ==
    ASSUME NEW q, NEW us, NEW n \in Nat
    PROVE  \E f : IsLeft(q, us, f, n)
<1> DEFINE Bad == {m \in Nat : ~\E f : IsLeft(q, us, f, m)}
<1>1. \E f : IsLeft(q, us, f, 0)
  <2>1. IsLeft(q, us, [i \in 0..0 |-> <<>>], 0)
    BY DEF IsLeft, LeftBy
  <2> QED
    BY <2>1
<1>2. ASSUME NEW m \in Nat \ {0}, NEW f, IsLeft(q, us, f, m - 1)
      PROVE  \E h : IsLeft(q, us, h, m)
  <2> DEFINE h == [i \in 0..m |-> IF i = m THEN LeftBy(q, us, f, m) ELSE f[i]]
  <2>1. \A i \in 0..(m - 1) : f[i] = LeftBy(q, us, f, i)
    BY <1>2 DEF IsLeft
  <2>2. \A i \in 0..m : h[i] = LeftBy(q, us, f, i)
    BY <2>1
  <2>3. \A i \in 1..m : h[i - 1] = f[i - 1]
    OBVIOUS
  <2> HIDE DEF h
  <2>4. \A i \in 0..m : LeftBy(q, us, h, i) = LeftBy(q, us, f, i)
    BY <2>3 DEF LeftBy
  <2>5. h = [i \in 0..m |-> LeftBy(q, us, h, i)]
    BY <2>2, <2>4 DEF h
  <2> QED
    BY <2>5 DEF IsLeft
<1>3. ASSUME Bad # {} PROVE FALSE
  <2>1. PICK m \in Bad : \A j \in Bad : m <= j
    BY <1>3, LeastNumber
  <2>2. m \in Nat \ {0}
    BY <1>1
  <2>3. m - 1 \in Nat /\ m - 1 \notin Bad
    BY <2>1, <2>2
  <2> QED
    BY <1>2, <2>1, <2>2, <2>3
<1> QED
    BY <1>3

\* The rows that are left are rows there were, each of them once.
LEMMA WithoutIs ==
    ASSUME NEW T, NEW q \in Seq(T), IsInjective(q), NEW us
    PROVE  Without(q, us) \in Seq(T) /\ IsInjective(Without(q, us))
<1> DEFINE f == CHOOSE f : IsLeft(q, us, f, Len(q))
           Good(i) == /\ f[i] \in Seq(T) /\ IsInjective(f[i])
                      /\ \A a \in 1..Len(f[i]) : \E j \in 1..i : f[i][a] = q[j]
           Wrong == {i \in 0..Len(q) : ~Good(i)}
<1>1. Len(q) \in Nat /\ \A i \in 1..Len(q) : q[i] \in T
    OBVIOUS
<1>2. IsLeft(q, us, f, Len(q))
    BY <1>1, LeftExists
<1>3. Without(q, us) = f[Len(q)]
    BY DEF Without, IsLeft, LeftBy
<1> HIDE DEF f
<1>4. \A i \in 0..Len(q) : f[i] = LeftBy(q, us, f, i)
    BY <1>2 DEF IsLeft
<1>5. Good(0)
  <2>1. f[0] = <<>>
    BY <1>1, <1>4 DEF LeftBy
  <2> QED
    BY <2>1 DEF IsInjective
<1>6. ASSUME NEW i \in 1..Len(q), Good(i - 1) PROVE Good(i)
  <2>1. i \in Nat /\ i # 0 /\ i - 1 \in Nat /\ q[i] \in T /\ f[i] = LeftBy(q, us, f, i)
    BY <1>1, <1>4
  <2>2. CASE q[i] \in us
    <3>1. f[i] = f[i - 1]
        BY <2>1, <2>2 DEF LeftBy
    <3>2. \A a \in 1..Len(f[i]) : \E j \in 1..i : f[i][a] = q[j]
        <4>1. \A j \in 1..(i - 1) : j \in 1..i
            BY <2>1
        <4> QED
            BY <1>6, <3>1, <4>1
    <3> QED
        BY <1>6, <3>1, <3>2
  <2>3. CASE q[i] \notin us
    <3> DEFINE p == f[i - 1]
    <3>1. f[i] = Append(p, q[i])
        BY <2>1, <2>3 DEF LeftBy
    <3>2. /\ p \in Seq(T) /\ IsInjective(p)
          /\ \A a \in 1..Len(p) : \E j \in 1..(i - 1) : p[a] = q[j]
        BY <1>6
    <3> HIDE DEF p
    <3>3. /\ f[i] \in Seq(T) /\ Len(f[i]) = Len(p) + 1 /\ Len(p) \in Nat
          /\ f[i][Len(p) + 1] = q[i]
          /\ \A a \in 1..Len(p) : f[i][a] = p[a]
        BY <2>1, <3>1, <3>2
    <3>4. \A j \in 1..(i - 1) : q[j] # q[i]
        <4>1. DOMAIN q = 1..Len(q) /\ \A j \in 1..(i - 1) : j \in 1..Len(q) /\ j # i
            BY <1>1
        <4> QED
            BY <4>1 DEF IsInjective
    <3>5. \A a \in 1..Len(p) : p[a] # q[i]
        BY <3>2, <3>4
    <3>6. \A a, b \in 1..Len(p) : p[a] = p[b] => a = b
        BY <3>2 DEF IsInjective
    <3>7. \A a, b \in 1..(Len(p) + 1) : f[i][a] = f[i][b] => a = b
        BY <3>3, <3>5, <3>6
    <3>8. DOMAIN f[i] = 1..(Len(p) + 1)
        BY <3>3
    <3>9. \A a \in 1..(Len(p) + 1) : \E j \in 1..i : f[i][a] = q[j]
        <4>1. i \in 1..i /\ \A j \in 1..(i - 1) : j \in 1..i
            BY <2>1
        <4> QED
            BY <3>2, <3>3, <4>1
    <3> QED
        BY <3>3, <3>7, <3>8, <3>9 DEF IsInjective
  <2> QED
    BY <2>2, <2>3
<1>7. ASSUME Wrong # {} PROVE FALSE
  <2>1. PICK m \in Wrong : \A j \in Wrong : m <= j
    <3>1. Wrong \in SUBSET Nat
        BY <1>1
    <3> HIDE DEF Wrong
    <3> QED
        BY <1>7, <3>1, LeastNumber
  <2>2. m \in 1..Len(q)
    BY <1>1, <1>5
  <2>3. m - 1 \in 0..Len(q)
    BY <1>1, <2>2
  <2>4. m - 1 \notin Wrong
    <3>1. ~(m <= m - 1)
        BY <1>1, <2>2
    <3> HIDE DEF Wrong
    <3> QED
        BY <2>1, <3>1
  <2>5. Good(m - 1)
    BY <2>3, <2>4
  <2> HIDE DEF Good
  <2> QED
    BY <1>6, <2>1, <2>2, <2>5
<1>8. Len(q) \in 0..Len(q)
    BY <1>1
<1> QED
    BY <1>3, <1>7, <1>8

\* A user who was not in the list is appended to it.
LEMMA AppendIs ==
    ASSUME NEW T, NEW q \in Seq(T), IsInjective(q), NEW u \in T, u \notin ToSet(q)
    PROVE  Append(q, u) \in Seq(T) /\ IsInjective(Append(q, u))
<1> DEFINE r == Append(q, u)
<1>1. /\ r \in Seq(T) /\ Len(q) \in Nat /\ DOMAIN r = 1..(Len(q) + 1) /\ DOMAIN q = 1..Len(q)
      /\ r[Len(q) + 1] = u
      /\ \A a \in 1..Len(q) : r[a] = q[a]
    OBVIOUS
<1> HIDE DEF r
<1>2. \A a \in 1..Len(q) : q[a] # u
    BY <1>1 DEF ToSet
<1>3. \A a, b \in 1..Len(q) : q[a] = q[b] => a = b
    BY <1>1 DEF IsInjective
<1>4. \A a, b \in 1..(Len(q) + 1) : r[a] = r[b] => a = b
    BY <1>1, <1>2, <1>3
<1>5. IsInjective(r)
    BY <1>1, <1>4 DEF IsInjective
<1> QED
    BY <1>1, <1>5 DEF r

-----------------------------------------------------------------------------
(* The handlers                                                            *)

\* The tables are sound but for memberships of u, who may not be a participant.
Almost(s, u) ==
    /\ s \in Tables
    /\ IsInjective(s.active)
    /\ s.voters \subseteq s.here
    /\ \A p \in Pairs : Counted(s, p) => p[2] \in s.here \cup {u}
    /\ \A v \in Users : s.transfer[v] # Nobody => v \in s.here /\ s.transfer[v] \in s.here

\* No role is called "none" or "out".
LEMMA RoleNames ==
    ASSUME NEW name
    PROVE  "none" \notin RolesOf(name) /\ "out" \notin RolesOf(name)
    BY DEF RolesOf

\* Whoever is granted the potential voter role is a participant.
LEMMA GrantedSound ==
    ASSUME policy \in Policies, NEW u \in Users, NEW s, Almost(s, u)
    PROVE  Sound(Granted(s, u)) /\ Granted(s, u).role = s.role
<1> DEFINE t == Granted(s, u)
<1>1. s \in Tables
    BY DEF Almost
<1>2. /\ t \in Tables /\ t.here = s.here \cup {u} /\ t.voters = s.voters \cup {u}
      /\ t.role = s.role /\ t.transfer = s.transfer /\ t.active = s.active
    BY <1>1 DEF Granted, Tables
<1> HIDE DEF t
<1>3. \A p \in Pairs : Counted(t, p) <=> Counted(s, p)
    BY <1>2 DEF Counted
<1>4. Sound(t)
    BY <1>2, <1>3 DEF Almost, Sound
<1> QED
    BY <1>2, <1>4 DEF t

\* Whoever loses the potential voter role remains a participant.
LEMMA TakenSound ==
    ASSUME policy \in Policies, NEW u \in Users, NEW s, Sound(s)
    PROVE  LET t == PotentialVoterTaken(s, u)
           IN  /\ Sound(t) /\ t.role = s.role /\ t.here = s.here /\ u \notin t.voters
               /\ t.transfer = s.transfer /\ t.active = s.active
<1> DEFINE t == PotentialVoterTaken(s, u)
           n == [p \in Pairs |-> IF /\ p[2] = u /\ u \in s.voters /\ policy = "gv_auto_before_p"
                                 THEN 0 ELSE s.share[p]]
<1>1. s \in Tables
    BY DEF Sound
<1>2. n \in [Pairs -> 0..MaxVotes]
    BY <1>1, ElectorateAssumption DEF Tables
<1>3. t = [s EXCEPT !.voters = s.voters \ {u}, !.share = n]
    BY DEF PotentialVoterTaken
<1> HIDE DEF n, t
<1>4. /\ t \in Tables /\ t.here = s.here /\ t.voters = s.voters \ {u}
      /\ t.role = s.role /\ t.transfer = s.transfer /\ t.active = s.active
    BY <1>1, <1>2, <1>3 DEF Tables
<1>5. \A p \in Pairs : Counted(t, p) <=> Counted(s, p)
    BY <1>4 DEF Counted
<1>6. Sound(t)
    BY <1>4, <1>5 DEF Sound
<1> QED
    BY <1>4, <1>6 DEF t

\* Transfers that are removed leave the others.
LEMMA DropSound ==
    ASSUME policy \in Policies, NEW us, NEW s, Sound(s)
    PROVE  Sound(DropTransfers(s, us)) /\ DropTransfers(s, us).role = s.role
<1> DEFINE t == DropTransfers(s, us)
           x == [u \in Users |-> IF u \in us THEN Nobody ELSE s.transfer[u]]
<1>1. s \in Tables
    BY DEF Sound
<1>2. x \in [Users -> Users \cup {Nobody}] /\ \A u \in Users : x[u] # Nobody => x[u] = s.transfer[u]
    BY <1>1 DEF Tables
<1>3. t = [s EXCEPT !.transfer = x]
    BY DEF DropTransfers
<1> HIDE DEF x, t
<1>4. /\ t \in Tables /\ t.here = s.here /\ t.voters = s.voters
      /\ t.role = s.role /\ t.transfer = x /\ t.active = s.active
    BY <1>1, <1>2, <1>3 DEF Tables
<1>5. \A p \in Pairs : Counted(t, p) <=> Counted(s, p)
    BY <1>4 DEF Counted
<1>6. Sound(t)
  <2>1. \A u \in Users : t.transfer[u] # Nobody => u \in t.here /\ t.transfer[u] \in t.here
    BY <1>2, <1>4 DEF Sound
  <2> QED
    BY <1>4, <1>5, <2>1 DEF Sound
<1> QED
    BY <1>4, <1>6 DEF t

\* Whoever gets a group role is made a participant.
LEMMA RoleAddedSound ==
    ASSUME policy \in Policies, NEW u \in Users, NEW r, NEW s, Almost(s, u)
    PROVE  Sound(RoleAdded(s, u, r)) /\ RoleAdded(s, u, r).role = s.role
<1> DEFINE t == Granted(s, u)
           us == IF r = "main" THEN {v \in Users : s.transfer[v] = u} ELSE {}
<1>1. RoleAdded(s, u, r) = DropTransfers(t, us)
    BY DEF RoleAdded
<1>2. Sound(t) /\ t.role = s.role
    BY GrantedSound
<1> HIDE DEF t, us
<1> QED
    BY <1>1, <1>2, DropSound

\* Whoever loses a group role remains a participant.
LEMMA RoleRemovedSound ==
    ASSUME policy \in Policies, NEW g, NEW u \in Users, NEW r, NEW s, Sound(s)
    PROVE  Sound(RoleRemoved(s, g, u, r)) /\ RoleRemoved(s, g, u, r).role = s.role
<1> DEFINE elsewhere == \E h \in Groups \ {g} : \E o \in RolesOf(policy) : InGroupAs(s, h, u, o)
           t == IF elsewhere THEN s ELSE PotentialVoterTaken(s, u)
           given == {u} \cap {v \in Users : s.transfer[v] # Nobody
                                            /\ InGroupAs(s, g, s.transfer[v], "substitute")}
           received == {v \in Users : s.transfer[v] = u /\ InGroupAs(s, g, v, "main")}
           us == CASE r = "main" -> given [] r = "substitute" -> received [] OTHER -> {}
<1>1. RoleRemoved(s, g, u, r) = DropTransfers(t, us)
    BY DEF RoleRemoved
<1>2. Sound(t) /\ t.role = s.role
    BY TakenSound
<1> HIDE DEF t, us
<1> QED
    BY <1>1, <1>2, DropSound

\* Nothing of a participant who leaves is left.
LEMMA LeftSound ==
    ASSUME policy \in Policies, NEW u \in Users, NEW s, Sound(s)
    PROVE  /\ Sound(Left(s, u))
           /\ \A p \in Pairs : Left(s, u).role[p] \in {s.role[p], "out"}
<1> DEFINE k == PotentialVoterTaken(s, u)
           out == [p \in Pairs |-> IF p[2] = u THEN "out" ELSE s.role[p]]
           n == [p \in Pairs |-> IF p[2] = u THEN 0 ELSE k.share[p]]
           a == Without(k.active, {u})
           mine == {v \in Users : v = u \/ s.transfer[v] = u}
           x == [v \in Users |-> IF v \in mine THEN Nobody ELSE k.transfer[v]]
           t == Left(s, u)
<1>1. /\ Sound(k) /\ k.role = s.role /\ k.here = s.here /\ u \notin k.voters
      /\ k.transfer = s.transfer /\ k.active = s.active /\ k \in Tables /\ s \in Tables
    BY TakenSound DEF Sound
<1>2. t = [k EXCEPT !.here = k.here \ {u}, !.role = out, !.share = n, !.active = a, !.transfer = x]
    BY DEF Left, DropTransfers
<1>3. out \in [Pairs -> Ranks] /\ n \in [Pairs -> 0..MaxVotes] /\ x \in [Users -> Users \cup {Nobody}]
    BY <1>1, ElectorateAssumption DEF Tables, Ranks
<1>4. a \in Seq(Users) /\ IsInjective(a)
    BY <1>1, WithoutIs DEF Tables, Sound
<1>5. \A v \in Users : x[v] # Nobody => /\ v # u /\ x[v] = s.transfer[v] /\ s.transfer[v] # u
    BY <1>1
<1> HIDE DEF k, n, a, x, t
<1>6. /\ t \in Tables /\ t.here = s.here \ {u} /\ t.voters = k.voters /\ t.role = out
      /\ t.transfer = x /\ t.active = a
  <2> HIDE DEF out
  <2> QED
    BY <1>1, <1>2, <1>3, <1>4 DEF Tables
<1>7. k.voters \subseteq s.here \ {u}
    BY <1>1 DEF Sound
<1>8. ASSUME NEW p \in Pairs, Counted(t, p) PROVE p[2] \in s.here \ {u}
  <2>1. t.role[p] # "out"
    BY <1>8, RoleNames DEF Counted
  <2>2. p[2] # u /\ t.role[p] = s.role[p]
    BY <1>6, <2>1
  <2>3. Counted(s, p)
    BY <1>8, <2>2 DEF Counted
  <2> QED
    BY <2>2, <2>3 DEF Sound
<1>9. \A v \in Users : x[v] # Nobody => v \in s.here \ {u} /\ x[v] \in s.here \ {u}
    BY <1>5 DEF Sound
<1>10. Sound(t)
    BY <1>4, <1>6, <1>7, <1>8, <1>9 DEF Sound
<1>11. \A p \in Pairs : t.role[p] \in {s.role[p], "out"}
    BY <1>6
<1> QED
    BY <1>10, <1>11 DEF t

\* Saving a group touches its votes, its delegation and shares of its members.
LEMMA GroupSavedSound ==
    ASSUME policy \in Policies, NEW g \in Groups, NEW votes \in 0..MaxVotes,
           NEW to \in Groups \cup {NoGroup}, NEW s, Sound(s)
    PROVE  Sound(GroupSaved(s, g, votes, to)) /\ GroupSaved(s, g, votes, to).role = s.role
<1> DEFINE mine == {p \in Pairs : p[1] = g}
           sum == SumFunctionOnSet(s.share, mine)
           clear == votes = 0 \/ sum = 0 \/ sum > votes
           n == [p \in Pairs |-> IF p \in mine /\ clear THEN 0 ELSE s.share[p]]
           w == [s.votes EXCEPT ![g] = votes]
           d == [s.to EXCEPT ![g] = to]
           t == GroupSaved(s, g, votes, to)
<1>1. s \in Tables
    BY DEF Sound
<1>2. t = [s EXCEPT !.votes = w, !.to = d, !.share = n]
    BY DEF GroupSaved
<1> HIDE DEF clear, mine
<1>3. /\ n \in [Pairs -> 0..MaxVotes] /\ w \in [Groups -> 0..MaxVotes]
      /\ d \in [Groups -> Groups \cup {NoGroup}]
    BY <1>1, ElectorateAssumption DEF Tables
<1> HIDE DEF n, w, d, t
<1>4. /\ t \in Tables /\ t.here = s.here /\ t.voters = s.voters
      /\ t.role = s.role /\ t.transfer = s.transfer /\ t.active = s.active
    BY <1>1, <1>2, <1>3 DEF Tables
<1>5. \A p \in Pairs : Counted(t, p) <=> Counted(s, p)
    BY <1>4 DEF Counted
<1>6. Sound(t)
    BY <1>4, <1>5 DEF Sound
<1> QED
    BY <1>4, <1>6 DEF t

\* The tables when a membership row is written.
Written(s, p, r, n) == [s EXCEPT !.role[p] = r, !.share[p] = n]

\* A membership row of u is written: the tables are sound but for u.
LEMMA RowWritten ==
    ASSUME policy \in Policies, NEW p \in Pairs, NEW r \in Ranks, NEW n \in 0..MaxVotes,
           NEW s, Sound(s)
    PROVE  /\ Almost(Written(s, p, r, n), p[2])
           /\ Written(s, p, r, n).role[p] = r
           /\ \A q \in Pairs \ {p} : Written(s, p, r, n).role[q] = s.role[q]
           /\ (Counted(Written(s, p, r, n), p) => p[2] \in s.here) => Sound(Written(s, p, r, n))
<1> DEFINE x == [s.role EXCEPT ![p] = r]
           y == [s.share EXCEPT ![p] = n]
           t == Written(s, p, r, n)
<1>1. s \in Tables
    BY DEF Sound
<1>2. x \in [Pairs -> Ranks] /\ y \in [Pairs -> 0..MaxVotes]
    BY <1>1 DEF Tables
<1>3. t = [s EXCEPT !.role = x, !.share = y]
    BY DEF Written
<1>4. x[p] = r /\ \A q \in Pairs \ {p} : x[q] = s.role[q]
    BY <1>1 DEF Tables
<1> HIDE DEF x, y, t
<1>5. /\ t \in Tables /\ t.here = s.here /\ t.voters = s.voters
      /\ t.role = x /\ t.transfer = s.transfer /\ t.active = s.active
    BY <1>1, <1>2, <1>3 DEF Tables
<1>6. \A q \in Pairs \ {p} : Counted(t, q) => q[2] \in s.here
    BY <1>4, <1>5 DEF Counted, Sound
<1>7. Almost(t, p[2])
    BY <1>5, <1>6 DEF Sound, Almost
<1>8. (Counted(t, p) => p[2] \in s.here) => Sound(t)
    BY <1>5, <1>6 DEF Sound
<1> QED
    BY <1>4, <1>5, <1>7, <1>8 DEF t

-----------------------------------------------------------------------------
(* The steps                                                               *)

\* Before the meeting has any rows.
LEMMA InitSound == Init => ElectorateInv
<1> SUFFICES ASSUME Init PROVE ElectorateInv
    OBVIOUS
<1>1. policy \in Policies /\ req = Idle
    BY DEF Init
<1>2. /\ db.here = Users /\ db.voters = Users /\ db.role = [p \in Pairs |-> "out"]
      /\ db.transfer = [u \in Users |-> Nobody] /\ db.active = <<>>
    BY DEF Init
<1>3. db \in Tables
    BY ElectorateAssumption DEF Init, Tables, Ranks
<1>4. IsInjective(db.active)
    BY <1>2 DEF IsInjective
<1>5. \A p \in Pairs : ~Counted(db, p)
    BY <1>2, RoleNames DEF Counted
<1>6. Sound(db)
    BY <1>2, <1>3, <1>4, <1>5 DEF Sound
<1>7. InFlight
    BY <1>1 DEF InFlight, Idle
<1> QED
    BY <1>1, <1>6, <1>7 DEF ElectorateInv

\* The meeting keeps its policy, and with it its users and memberships.
LEMMA SamePolicy ==
    ASSUME policy' = policy
    PROVE  /\ Users' = Users /\ Pairs' = Pairs /\ Tables' = Tables
           /\ GroupRequests' = GroupRequests /\ MemberRequests' = MemberRequests
           /\ TransferRequests' = TransferRequests /\ DelegationRequests' = DelegationRequests
<1>1. Pairs' = Pairs /\ Ranks' = Ranks
    BY DEF Pairs, Ranks
<1>2. Users' = Users
    BY <1>1 DEF Users
<1> QED
    BY <1>1, <1>2 DEF Tables, GroupRequests, MemberRequests, TransferRequests, DelegationRequests

\* Tables that are sound are so when they are committed.
LEMMA SoundWhenCommitted ==
    ASSUME policy' = policy, NEW t, Sound(t), db' = t
    PROVE  Sound(db)'
<1>1. Users' = Users /\ Pairs' = Pairs /\ Tables' = Tables
    BY SamePolicy
<1>2. \A p : Counted(db, p)' <=> Counted(t, p)
    BY DEF Counted
<1> QED
    BY <1>1, <1>2 DEF Sound

\* A request that commits at once leaves the one in flight knowing what it did.
LEMMA CommitKeeps ==
    ASSUME ElectorateInv, NEW t, Sound(t), Commit(t),
           \A p \in Pairs : t.role[p] \in {db.role[p], "out"} \/ db.role[p] = "out"
    PROVE  ElectorateInv'
<1>1. policy' = policy /\ db' = t
    BY DEF Commit
<1>2. Sound(db)'
    BY <1>1, SoundWhenCommitted
<1>3. /\ Pairs' = Pairs /\ GroupRequests' = GroupRequests /\ MemberRequests' = MemberRequests
      /\ TransferRequests' = TransferRequests /\ DelegationRequests' = DelegationRequests
    BY <1>1, SamePolicy
<1>4. CASE req.kind = "member"
  <2>1. req \in MemberRequests /\ policy # "skr_agarrad"
    BY <1>4 DEF ElectorateInv, InFlight, Idle, GroupRequests, TransferRequests, DelegationRequests
  <2>2. req.of \in Pairs /\ req.old # "out"
    BY <2>1, RoleNames DEF MemberRequests
  <2>3. req.lost \/ db.role[req.of] = req.old
    BY <1>4 DEF ElectorateInv, InFlight
  <2>4. CASE t.role[req.of] = "out"
    <3>1. req' = [req EXCEPT !.lost = TRUE]
      BY <1>4, <2>4 DEF Commit
    <3>2. req' \in MemberRequests /\ req'.kind = "member" /\ req'.lost
      BY <2>1, <3>1 DEF MemberRequests
    <3> QED
      BY <1>1, <1>2, <1>3, <2>1, <3>2 DEF ElectorateInv, InFlight
  <2>5. CASE t.role[req.of] # "out"
    <3>1. req' = req
      BY <1>4, <2>5 DEF Commit
    <3>2. req.lost \/ t.role[req.of] = req.old
      BY <2>2, <2>3, <2>5
    <3> QED
      BY <1>1, <1>2, <1>3, <1>4, <2>1, <3>1, <3>2 DEF ElectorateInv, InFlight
  <2> QED
    BY <2>4, <2>5
<1>5. CASE req.kind \in {"transfer", "reassign"}
  <2>1. req \in TransferRequests
    BY <1>5 DEF ElectorateInv, InFlight, Idle, GroupRequests, MemberRequests, DelegationRequests
  <2>2. req' = req \/ req' = [req EXCEPT !.lost = TRUE]
    BY DEF Commit
  <2>3. req' \in TransferRequests /\ req'.kind \notin {"member", "delegation"}
    BY <2>1, <2>2 DEF TransferRequests
  <2> QED
    BY <1>1, <1>2, <1>3, <2>3 DEF ElectorateInv, InFlight
<1>6. CASE req.kind \notin {"member", "transfer", "reassign"}
  <2>1. req' = req
    BY <1>6 DEF Commit
  <2> QED
    BY <1>1, <1>2, <1>3, <1>6, <2>1 DEF ElectorateInv, InFlight, Idle
<1> QED
    BY <1>4, <1>5, <1>6

\* A request that finishes leaves none in flight.
LEMMA FinishKeeps ==
    ASSUME ElectorateInv, NEW t, NEW kind, NEW saves, Finish(kind, t, saves), saves => Sound(t)
    PROVE  ElectorateInv'
<1>1. policy' = policy /\ req' = Idle
    BY DEF Finish
<1>2. Sound(db)'
  <2>1. Sound(db) /\ ((db' = t /\ Sound(t)) \/ db' = db)
    BY DEF Finish, ElectorateInv
  <2> QED
    BY <1>1, <2>1, SoundWhenCommitted
<1> QED
    BY <1>1, <1>2 DEF ElectorateInv, InFlight, Idle

\* A request that begins changes no table.
LEMMA BeginKeeps ==
    ASSUME ElectorateInv, NEW r, Begin(r),
           r \in GroupRequests \cup MemberRequests \cup TransferRequests \cup DelegationRequests,
           r.kind = "member" => policy # "skr_agarrad" /\ db.role[r.of] = r.old,
           r.kind = "delegation" => policy = "gv_auto_before_p"
    PROVE  ElectorateInv'
<1>1. policy' = policy /\ db' = db /\ req' = r
    BY DEF Begin
<1>2. Sound(db)'
    BY <1>1, SoundWhenCommitted DEF ElectorateInv
<1>3. /\ GroupRequests' = GroupRequests /\ MemberRequests' = MemberRequests
      /\ TransferRequests' = TransferRequests /\ DelegationRequests' = DelegationRequests
    BY <1>1, SamePolicy
<1> QED
    BY <1>1, <1>2, <1>3 DEF ElectorateInv, InFlight

\* The user of a membership.
LEMMA MemberIsUser ==
    ASSUME NEW p \in Pairs
    PROVE  p[2] \in Users
    BY DEF Users

LEMMA GivePotentialVoterKeeps ==
    ASSUME ElectorateInv, NEW u \in Users, GivePotentialVoter(u)
    PROVE  ElectorateInv'
<1> DEFINE t == Granted(db, u)
<1>1. policy \in Policies /\ Almost(db, u) /\ Commit(t)
    BY DEF ElectorateInv, Sound, Almost, GivePotentialVoter
<1>2. Sound(t) /\ t.role = db.role
    BY <1>1, GrantedSound
<1> HIDE DEF t
<1> QED
    BY <1>1, <1>2, CommitKeeps

LEMMA TakePotentialVoterKeeps ==
    ASSUME ElectorateInv, NEW u \in Users, TakePotentialVoter(u)
    PROVE  ElectorateInv'
<1> DEFINE t == PotentialVoterTaken(db, u)
<1>1. policy \in Policies /\ Sound(db) /\ Commit(t)
    BY DEF ElectorateInv, TakePotentialVoter
<1>2. Sound(t) /\ t.role = db.role
    BY <1>1, TakenSound
<1> HIDE DEF t
<1> QED
    BY <1>1, <1>2, CommitKeeps

LEMMA LeaveKeeps ==
    ASSUME ElectorateInv, NEW u \in Users, Leave(u)
    PROVE  ElectorateInv'
<1> DEFINE t == Left(db, u)
<1>1. policy \in Policies /\ Sound(db) /\ Commit(t)
    BY DEF ElectorateInv, Leave
<1>2. Sound(t) /\ \A p \in Pairs : t.role[p] \in {db.role[p], "out"}
    BY <1>1, LeftSound
<1> HIDE DEF t
<1> QED
    BY <1>1, <1>2, CommitKeeps

LEMMA DeleteTransferKeeps ==
    ASSUME ElectorateInv, NEW u \in Users, DeleteTransfer(u)
    PROVE  ElectorateInv'
<1> DEFINE t == DropTransfers(db, {u})
<1>1. policy \in Policies /\ Sound(db) /\ Commit(t)
    BY DEF ElectorateInv, DeleteTransfer
<1>2. Sound(t) /\ t.role = db.role
    BY <1>1, DropSound
<1> HIDE DEF t
<1> QED
    BY <1>1, <1>2, CommitKeeps

\* The ActiveUser rows are written and nothing else.
LEMMA ActiveWritten ==
    ASSUME policy \in Policies, Sound(db), NEW a \in Seq(Users), IsInjective(a)
    PROVE  Sound([db EXCEPT !.active = a])
<1> DEFINE t == [db EXCEPT !.active = a]
<1>1. db \in Tables
    BY DEF Sound
<1>2. /\ t \in Tables /\ t.here = db.here /\ t.voters = db.voters
      /\ t.role = db.role /\ t.transfer = db.transfer /\ t.active = a
    BY <1>1 DEF Tables
<1> HIDE DEF t
<1>3. \A p \in Pairs : Counted(t, p) <=> Counted(db, p)
    BY <1>2 DEF Counted
<1>4. Sound(t)
    BY <1>2, <1>3 DEF Sound
<1> QED
    BY <1>4 DEF t

LEMMA BecomeActiveKeeps ==
    ASSUME ElectorateInv, NEW u \in Users, BecomeActive(u)
    PROVE  ElectorateInv'
<1> DEFINE a == Append(db.active, u)
           t == [db EXCEPT !.active = a]
<1>1. policy \in Policies /\ Sound(db) /\ db \in Tables /\ Commit(t)
    BY DEF ElectorateInv, BecomeActive, Sound
<1>2. db.active \in Seq(Users) /\ IsInjective(db.active) /\ u \notin ToSet(db.active)
    BY <1>1 DEF Sound, Tables, BecomeActive
<1>3. a \in Seq(Users) /\ IsInjective(a)
    BY <1>2, AppendIs
<1> HIDE DEF a
<1>4. t.role = db.role
    BY <1>1 DEF Tables
<1>5. Sound(t)
    BY <1>1, <1>3, ActiveWritten
<1> HIDE DEF t
<1> QED
    BY <1>1, <1>4, <1>5, CommitKeeps

LEMMA BecomeInactiveKeeps ==
    ASSUME ElectorateInv, NEW us, BecomeInactive(us)
    PROVE  ElectorateInv'
<1> DEFINE a == Without(db.active, us)
           t == [db EXCEPT !.active = a]
<1>1. policy \in Policies /\ Sound(db) /\ db \in Tables /\ Commit(t)
    BY DEF ElectorateInv, BecomeInactive, Sound
<1>2. db.active \in Seq(Users) /\ IsInjective(db.active)
    BY <1>1 DEF Sound, Tables
<1>3. a \in Seq(Users) /\ IsInjective(a)
    BY <1>2, WithoutIs
<1> HIDE DEF a
<1>4. t.role = db.role
    BY <1>1 DEF Tables
<1>5. Sound(t)
    BY <1>1, <1>3, ActiveWritten
<1> HIDE DEF t
<1> QED
    BY <1>1, <1>4, <1>5, CommitKeeps

LEMMA ToggleActiveKeeps ==
    ASSUME ElectorateInv, ToggleActive
    PROVE  ElectorateInv'
<1> DEFINE t == [db EXCEPT !.activeOn = ~db.activeOn]
<1>1. policy \in Policies /\ Sound(db) /\ db \in Tables /\ Commit(t)
    BY DEF ElectorateInv, ToggleActive, Sound
<1>2. /\ t \in Tables /\ t.here = db.here /\ t.voters = db.voters
      /\ t.role = db.role /\ t.transfer = db.transfer /\ t.active = db.active
  <2>1. (~db.activeOn) \in BOOLEAN
    OBVIOUS
  <2> QED
    BY <1>1, <2>1 DEF Tables
<1> HIDE DEF t
<1>3. \A p \in Pairs : Counted(t, p) <=> Counted(db, p)
    BY <1>2 DEF Counted
<1>4. Sound(t)
    BY <1>1, <1>2, <1>3 DEF Sound
<1> QED
    BY <1>1, <1>2, <1>4, CommitKeeps

LEMMA CreateMembershipKeeps ==
    ASSUME ElectorateInv, NEW p \in Pairs, NEW r \in RolesOf(policy) \cup {"none"},
           CreateMembership(p, r)
    PROVE  ElectorateInv'
<1> DEFINE row == [db EXCEPT !.role[p] = r]
           t == IF r = "none" THEN row ELSE RoleAdded(row, p[2], r)
<1>1. policy \in Policies /\ Sound(db) /\ db \in Tables /\ Commit(t)
    BY DEF ElectorateInv, CreateMembership, Sound
<1>2. db.role[p] = "out" /\ p[2] \in db.here /\ p[2] \in Users /\ r \in Ranks
    BY MemberIsUser DEF CreateMembership, Ranks
<1>3. db.share[p] \in 0..MaxVotes /\ row = Written(db, p, r, db.share[p])
    BY <1>1 DEF Tables, Written
<1> HIDE DEF row
<1>4. Almost(row, p[2]) /\ Sound(row)
    BY <1>1, <1>2, <1>3, RowWritten
<1>5. \A q \in Pairs : row.role[q] = db.role[q] \/ q = p
    BY <1>1, <1>2, <1>3, RowWritten
<1>6. Sound(t) /\ t.role = row.role
    BY <1>1, <1>2, <1>4, RoleAddedSound
<1> HIDE DEF t
<1> QED
    BY <1>1, <1>2, <1>5, <1>6, CommitKeeps

LEMMA DeleteMembershipKeeps ==
    ASSUME ElectorateInv, NEW p \in Pairs, DeleteMembership(p)
    PROVE  ElectorateInv'
<1> DEFINE told == IF db.role[p] = "none" THEN db ELSE RoleRemoved(db, p[1], p[2], db.role[p])
           t == [told EXCEPT !.role[p] = "out", !.share[p] = 0]
<1>1. policy \in Policies /\ Sound(db) /\ db \in Tables /\ Commit(t)
    BY DEF ElectorateInv, DeleteMembership, Sound
<1>2. p[2] \in Users /\ "out" \in Ranks /\ 0 \in 0..MaxVotes
    BY MemberIsUser, ElectorateAssumption DEF Ranks
<1>3. Sound(told) /\ told.role = db.role
    BY <1>1, <1>2, RoleRemovedSound
<1>4. t = Written(told, p, "out", 0)
    BY DEF Written
<1> HIDE DEF told, t
<1>5. t.role[p] = "out" /\ \A q \in Pairs : t.role[q] \in {db.role[q], "out"}
    BY <1>1, <1>2, <1>3, <1>4, RowWritten
<1>6. ~Counted(t, p)
    BY <1>5, RoleNames DEF Counted
<1>7. Sound(t)
    BY <1>1, <1>2, <1>3, <1>4, <1>6, RowWritten
<1> QED
    BY <1>1, <1>5, <1>7, CommitKeeps

LEMMA UpdateGroupKeeps ==
    ASSUME ElectorateInv, NEW g \in Groups, NEW n \in 0..MaxVotes,
           NEW h \in Groups \cup {NoGroup}, UpdateGroup(g, n, h)
    PROVE  ElectorateInv'
<1> DEFINE t == GroupSaved(db, g, n, h)
<1>1. policy \in Policies /\ Sound(db) /\ Commit(t)
    BY DEF ElectorateInv, UpdateGroup
<1>2. Sound(t) /\ t.role = db.role
    BY <1>1, GroupSavedSound
<1> HIDE DEF t
<1> QED
    BY <1>1, <1>2, CommitKeeps

\* Only GroupVotesBeforePoll reads the shares of the members.
LEMMA SharesAreOf ==
    ASSUME policy \in Policies, Reading("shares")
    PROVE  policy = "gv_auto_before_p"
    BY DEF Reading, Reads

LEMMA BeginGroupKeeps ==
    ASSUME ElectorateInv, NEW g \in Groups, NEW n \in 0..MaxVotes,
           NEW h \in Groups \cup {NoGroup}, BeginGroup(g, n, h)
    PROVE  ElectorateInv'
<1> DEFINE r == [kind |-> "group", of |-> g, votes |-> n, to |-> h]
<1>1. Begin(r) /\ r \in GroupRequests /\ r.kind = "group"
    BY DEF BeginGroup, GroupRequests
<1> HIDE DEF r
<1> QED
    BY <1>1, BeginKeeps

LEMMA BeginMemberKeeps ==
    ASSUME ElectorateInv, NEW p \in Pairs, NEW r \in RolesOf(policy) \cup {"none"},
           NEW n \in 0..MaxVotes, BeginMember(p, r, n)
    PROVE  ElectorateInv'
<1> DEFINE q == [kind |-> "member", of |-> p, role |-> r, share |-> n,
                 old |-> db.role[p], lost |-> FALSE]
<1>1. policy \in Policies /\ db.role[p] \in RolesOf(policy) \cup {"none"}
    BY DEF ElectorateInv, Sound, Tables, Ranks, BeginMember
<1>2. Begin(q) /\ q \in MemberRequests /\ q.kind = "member" /\ q.of = p /\ q.old = db.role[p]
    BY <1>1 DEF BeginMember, MemberRequests
<1>3. policy # "skr_agarrad"
  <2> SUFFICES ASSUME policy = "skr_agarrad" PROVE FALSE
    OBVIOUS
  <2>1. RolesOf(policy) = {}
    BY DEF RolesOf
  <2>2. ~Reading("shares")
    BY <1>1, SharesAreOf
  <2> QED
    BY <1>1, <2>1, <2>2 DEF BeginMember
<1> HIDE DEF q
<1> QED
    BY <1>2, <1>3, BeginKeeps

LEMMA BeginTransferKeeps ==
    ASSUME ElectorateInv, NEW u \in Users, NEW v \in Users, BeginTransfer(u, v)
    PROVE  ElectorateInv'
<1> DEFINE r == [kind |-> IF db.transfer[u] = Nobody THEN "transfer" ELSE "reassign",
                 of |-> u, target |-> v, lost |-> FALSE]
<1>1. Begin(r) /\ r \in TransferRequests /\ r.kind \in {"transfer", "reassign"}
    BY DEF BeginTransfer, TransferRequests
<1> HIDE DEF r
<1> QED
    BY <1>1, BeginKeeps

LEMMA BeginDelegationKeeps ==
    ASSUME ElectorateInv, NEW g \in Groups, NEW us \in SUBSET Users,
           NEW weights \in [us -> 1..MaxVotes], BeginDelegation(g, weights)
    PROVE  ElectorateInv'
<1> DEFINE r == [kind |-> "delegation", of |-> g, weights |-> weights]
<1>1. Begin(r) /\ r \in DelegationRequests /\ r.kind = "delegation"
    BY DEF BeginDelegation, DelegationRequests
<1>2. policy = "gv_auto_before_p"
    BY SharesAreOf DEF ElectorateInv, BeginDelegation
<1> HIDE DEF r
<1> QED
    BY <1>1, <1>2, BeginKeeps

LEMMA FinishGroupKeeps ==
    ASSUME ElectorateInv, FinishGroup
    PROVE  ElectorateInv'
<1> DEFINE t == GroupSaved(db, req.of, req.votes, req.to)
<1>1. policy \in Policies /\ Sound(db) /\ req.kind = "group" /\ Finish("group", t, TRUE)
    BY DEF ElectorateInv, FinishGroup, Finish
<1>2. req \in GroupRequests
    BY <1>1 DEF ElectorateInv, InFlight, Idle, MemberRequests, TransferRequests, DelegationRequests
<1>3. req.of \in Groups /\ req.votes \in 0..MaxVotes /\ req.to \in Groups \cup {NoGroup}
    BY <1>2 DEF GroupRequests
<1>4. Sound(t)
    BY <1>1, <1>3, GroupSavedSound
<1> HIDE DEF t
<1> QED
    BY <1>1, <1>4, FinishKeeps

\* A role that replaces another one is that of a member who still has it; the
\* user of a membership that has come back is granted potential voter again.
LEMMA FinishMemberKeeps ==
    ASSUME ElectorateInv, FinishMember
    PROVE  ElectorateInv'
<1> DEFINE p == req.of
           row == [db EXCEPT !.role[p] = req.role, !.share[p] = req.share]
           added == req.role # "none" /\ (req.old = "none" \/ req.lost)
           removed == req.role = "none" /\ req.old # "none"
           t == CASE added -> RoleAdded(row, p[2], req.role)
                  [] removed -> RoleRemoved(row, p[1], p[2], req.old)
                  [] OTHER -> row
           saves == req.lost => db.role[p] = "out"
<1>1. policy \in Policies /\ Sound(db) /\ req.kind = "member" /\ Finish("member", t, saves)
    BY DEF ElectorateInv, FinishMember, Finish
<1>2. /\ req \in MemberRequests /\ policy # "skr_agarrad"
      /\ req.lost \/ db.role[p] = req.old
    BY <1>1 DEF ElectorateInv, InFlight, Idle, GroupRequests, TransferRequests, DelegationRequests
<1>3. /\ p \in Pairs /\ req.role \in Ranks /\ req.share \in 0..MaxVotes
      /\ req.old \in RolesOf(policy) \cup {"none"}
    BY <1>2 DEF MemberRequests, Ranks
<1>4. p[2] \in Users
    BY <1>3, MemberIsUser
<1>5. row = Written(db, p, req.role, req.share)
    BY DEF Written
<1> HIDE DEF row, saves
<1>6. /\ Almost(row, p[2]) /\ row.role[p] = req.role
      /\ (Counted(row, p) => p[2] \in db.here) => Sound(row)
    BY <1>1, <1>3, <1>5, RowWritten
<1> HIDE DEF p
<1>7. CASE added
  <2>1. t = RoleAdded(row, p[2], req.role)
    BY <1>7
  <2> HIDE DEF t
  <2>2. Sound(t)
    BY <1>1, <1>4, <1>6, <2>1, RoleAddedSound
  <2> QED
    BY <1>1, <2>2, FinishKeeps
<1>8. CASE removed
  <2>1. t = RoleRemoved(row, p[1], p[2], req.old)
    BY <1>8
  <2>2. ~Counted(row, p)
    BY <1>2, <1>6, <1>8, RoleNames DEF Counted
  <2>3. Sound(row)
    BY <1>6, <2>2
  <2> HIDE DEF t
  <2>4. Sound(t)
    BY <1>1, <1>4, <2>1, <2>3, RoleRemovedSound
  <2> QED
    BY <1>1, <2>4, FinishKeeps
<1>9. CASE ~added /\ ~removed
  <2>1. t = row
    BY <1>9
  <2>2. Counted(row, p) => p[2] \in db.here
    <3> SUFFICES ASSUME Counted(row, p) PROVE p[2] \in db.here
      OBVIOUS
    <3>1. req.role # "none"
      BY <1>2, <1>6, RoleNames DEF Counted
    <3>2. db.role[p] \in RolesOf(policy)
      BY <1>2, <1>3, <1>9, <3>1 DEF p
    <3>3. Counted(db, p)
      BY <3>2 DEF Counted
    <3> QED
      BY <1>1, <1>3, <3>3 DEF Sound
  <2>3. Sound(t)
    BY <1>6, <2>1, <2>2
  <2> HIDE DEF t
  <2> QED
    BY <1>1, <2>3, FinishKeeps
<1> QED
    BY <1>7, <1>8, <1>9

\* A transfer is saved between users who are still participants.
LEMMA TransferredSound ==
    ASSUME ElectorateInv, req.kind \in {"transfer", "reassign"},
           {req.of, req.target} \subseteq db.here
    PROVE  Sound(Transferred)
<1> DEFINE x == [db.transfer EXCEPT ![req.of] = req.target]
           t == Transferred
<1>1. Sound(db) /\ db \in Tables
    BY DEF ElectorateInv, Sound
<1>2. req \in TransferRequests
    BY DEF ElectorateInv, InFlight, Idle, GroupRequests, MemberRequests, DelegationRequests
<1>3. req.of \in Users /\ req.target \in Users
    BY <1>2 DEF TransferRequests
<1>4. x \in [Users -> Users \cup {Nobody}]
    BY <1>1, <1>3 DEF Tables
<1>5. \A u \in Users : x[u] = IF u = req.of THEN req.target ELSE db.transfer[u]
    BY <1>1 DEF Tables
<1>6. t = [db EXCEPT !.transfer = x]
    BY DEF Transferred
<1> HIDE DEF x, t
<1>7. /\ t \in Tables /\ t.here = db.here /\ t.voters = db.voters
      /\ t.role = db.role /\ t.transfer = x /\ t.active = db.active
    BY <1>1, <1>4, <1>6 DEF Tables
<1>8. \A p \in Pairs : Counted(t, p) <=> Counted(db, p)
    BY <1>7 DEF Counted
<1>9. \A u \in Users : x[u] # Nobody => u \in db.here /\ x[u] \in db.here
    BY <1>1, <1>5 DEF Sound
<1>10. Sound(t)
    BY <1>1, <1>7, <1>8, <1>9 DEF Sound
<1> QED
    BY <1>10 DEF t

LEMMA SaveTransferKeeps ==
    ASSUME ElectorateInv, req.kind \in {"transfer", "reassign"}, NEW inserts, SaveTransfer(inserts)
    PROVE  ElectorateInv'
<1> DEFINE saves == /\ {req.of, req.target} \subseteq db.here
                    /\ inserts => db.transfer[req.of] = Nobody
<1>1. Finish(req.kind, Transferred, saves)
    BY DEF SaveTransfer
<1>2. saves => Sound(Transferred)
    BY TransferredSound
<1> HIDE DEF saves
<1> QED
    BY <1>1, <1>2, FinishKeeps

\* A membership that is created without a role gives nobody a vote under
\* GroupVotesBeforePoll, which reads potential voters.
LEMMA FinishDelegationKeeps ==
    ASSUME ElectorateInv, FinishDelegation
    PROVE  ElectorateInv'
<1> DEFINE given(p) == p[1] = req.of /\ p[2] \in DOMAIN req.weights
           row(p) == IF given(p) THEN req.weights[p[2]] ELSE 0
           n == [p \in Pairs |-> IF p[1] = req.of THEN row(p) ELSE db.share[p]]
           x == [p \in Pairs |-> IF given(p) /\ db.role[p] = "out" THEN "none" ELSE db.role[p]]
           t == [db EXCEPT !.share = n, !.role = x]
<1>1. /\ policy \in Policies /\ Sound(db) /\ db \in Tables
      /\ req.kind = "delegation" /\ Finish("delegation", t, TRUE)
    BY DEF ElectorateInv, FinishDelegation, Finish, Sound
<1>2. req \in DelegationRequests /\ policy = "gv_auto_before_p"
    BY <1>1 DEF ElectorateInv, InFlight, Idle, GroupRequests, MemberRequests, TransferRequests
<1>3. \A u \in DOMAIN req.weights : req.weights[u] \in 0..MaxVotes
  <2>1. PICK us \in SUBSET Users : req.weights \in [us -> 1..MaxVotes]
    BY <1>2 DEF DelegationRequests
  <2> QED
    BY <2>1, ElectorateAssumption
<1>4. n \in [Pairs -> 0..MaxVotes]
  <2>1. \A p \in Pairs : row(p) \in 0..MaxVotes
    BY <1>3, ElectorateAssumption
  <2> HIDE DEF row
  <2> QED
    BY <1>1, <2>1 DEF Tables
<1>5. x \in [Pairs -> Ranks] /\ \A p \in Pairs : x[p] \in {"none", db.role[p]}
    BY <1>1 DEF Tables, Ranks
<1> HIDE DEF n, x
<1>6. /\ t \in Tables /\ t.here = db.here /\ t.voters = db.voters
      /\ t.role = x /\ t.transfer = db.transfer /\ t.active = db.active
    BY <1>1, <1>4, <1>5 DEF Tables
<1> HIDE DEF t
<1>7. \A p \in Pairs : Counted(t, p) => Counted(db, p)
    BY <1>2, <1>5, <1>6, RoleNames DEF Counted
<1>8. Sound(t)
    BY <1>1, <1>6, <1>7 DEF Sound
<1> QED
    BY <1>1, <1>8, FinishKeeps

LEMMA BeginKeepsAll ==
    ASSUME ElectorateInv, BeginNext
    PROVE  ElectorateInv'
<1>1. CASE \E u, v \in Users : BeginTransfer(u, v)
    BY <1>1, BeginTransferKeeps
<1>2. CASE \E p \in Pairs, r \in RolesOf(policy) \cup {"none"}, n \in 0..MaxVotes :
              BeginMember(p, r, n)
    BY <1>2, BeginMemberKeeps
<1>3. CASE \E g \in Groups : \E n \in 0..MaxVotes, h \in Groups \cup {NoGroup} :
              BeginGroup(g, n, h)
    BY <1>3, BeginGroupKeeps
<1>4. CASE \E g \in Groups : \E us \in SUBSET Users : \E weights \in [us -> 1..MaxVotes] :
              BeginDelegation(g, weights)
    BY <1>4, BeginDelegationKeeps
<1> QED
    BY <1>1, <1>2, <1>3, <1>4 DEF BeginNext

LEMMA CommitKeepsAll ==
    ASSUME ElectorateInv,
           \/ \E u \in Users : \/ GivePotentialVoter(u) \/ TakePotentialVoter(u) \/ Leave(u)
                               \/ DeleteTransfer(u) \/ BecomeActive(u)
           \/ \E us \in SUBSET ToSet(db.active) : BecomeInactive(us)
           \/ \E p \in Pairs : \/ DeleteMembership(p)
                               \/ \E r \in RolesOf(policy) \cup {"none"} : CreateMembership(p, r)
           \/ \E g \in Groups, n \in 0..MaxVotes, h \in Groups \cup {NoGroup} : UpdateGroup(g, n, h)
           \/ ToggleActive
    PROVE  ElectorateInv'
<1>1. ASSUME NEW u \in Users,
             \/ GivePotentialVoter(u) \/ TakePotentialVoter(u) \/ Leave(u)
             \/ DeleteTransfer(u) \/ BecomeActive(u)
      PROVE  ElectorateInv'
    BY <1>1, GivePotentialVoterKeeps, TakePotentialVoterKeeps, LeaveKeeps, DeleteTransferKeeps,
       BecomeActiveKeeps
<1>2. CASE \E us \in SUBSET ToSet(db.active) : BecomeInactive(us)
    BY <1>2, BecomeInactiveKeeps
<1>3. ASSUME NEW p \in Pairs,
             \/ DeleteMembership(p)
             \/ \E r \in RolesOf(policy) \cup {"none"} : CreateMembership(p, r)
      PROVE  ElectorateInv'
    BY <1>3, DeleteMembershipKeeps, CreateMembershipKeeps
<1>4. CASE \E g \in Groups, n \in 0..MaxVotes, h \in Groups \cup {NoGroup} : UpdateGroup(g, n, h)
    BY <1>4, UpdateGroupKeeps
<1>5. CASE ToggleActive
    BY <1>5, ToggleActiveKeeps
<1> QED
    BY <1>1, <1>2, <1>3, <1>4, <1>5

\* Nothing changes in a step in which nothing happens.
LEMMA StutterKeeps ==
    ASSUME ElectorateInv, UNCHANGED vars
    PROVE  ElectorateInv'
<1>1. policy' = policy /\ db' = db /\ req' = req
    BY DEF vars
<1>2. Sound(db)'
    BY <1>1, SoundWhenCommitted DEF ElectorateInv
<1>3. /\ GroupRequests' = GroupRequests /\ MemberRequests' = MemberRequests
      /\ TransferRequests' = TransferRequests /\ DelegationRequests' = DelegationRequests
    BY <1>1, SamePolicy
<1> QED
    BY <1>1, <1>2, <1>3 DEF ElectorateInv, InFlight

\* Under every policy, whatever requests overlap, the potential voters, the
\* members whose role gives a vote and both ends of every transfer are
\* participants, and the membership a request is about to save has the role the
\* request replaces unless it is gone.
THEOREM ElectorateInvariant == Spec => []ElectorateInv
<1>1. Init => ElectorateInv
    BY InitSound
<1>2. ElectorateInv /\ [Next]_vars => ElectorateInv'
  <2> SUFFICES ASSUME ElectorateInv, [Next]_vars PROVE ElectorateInv'
    OBVIOUS
  <2>1. CASE BeginNext
    BY <2>1, BeginKeepsAll
  <2>2. CASE FinishGroup
    BY <2>2, FinishGroupKeeps
  <2>3. CASE FinishMember
    BY <2>3, FinishMemberKeeps
  <2>4. CASE FinishTransfer
    BY <2>4, SaveTransferKeeps DEF FinishTransfer
  <2>5. CASE FinishReassign
    BY <2>5, SaveTransferKeeps DEF FinishReassign
  <2>6. CASE FinishDelegation
    BY <2>6, FinishDelegationKeeps
  <2>7. CASE UNCHANGED vars
    BY <2>7, StutterKeeps
  <2> QED
    BY <2>1, <2>2, <2>3, <2>4, <2>5, <2>6, <2>7, CommitKeepsAll DEF Next
<1> QED
    BY <1>1, <1>2, PTL DEF Spec

\* Whoever gets a vote is a participant, and the policies that share out votes
\* never share out more than the groups, main delegates or groups give: for every
\* get_voters, with any users, groups, delegations and transfers.
THEOREM RegistersSound == Spec => []RegistersAreSound
<1>1. ElectorateInv => RegistersAreSound
  <2> SUFFICES ASSUME ElectorateInv PROVE RegistersAreSound
    OBVIOUS
  <2>1. policy \in Policies /\ Sound(db)
    BY DEF ElectorateInv
  <2>2. TypeOK
    <3>1. db.active \in Seq(Users)
      BY <2>1 DEF Sound, Tables
    <3>2. ToSet(db.active) \subseteq Users
      BY <3>1 DEF ToSet
    <3> QED
      BY <2>1, <3>2 DEF Sound, Tables, Ranks, TypeOK
  <2> QED
    BY <2>1, <2>2, PoliciesSound DEF RegistersAreSound
<1> QED
    BY <1>1, ElectorateInvariant, PTL

\* A main delegate who could vote goes without only when main delegates of the
\* group have all its votes: MainSubstActivePolicy, with any number of groups that
\* share members.
THEOREM MainDelegatesGoFirst == Spec => []MainDelegatesFirst
<1>1. ElectorateInv => MainDelegatesFirst
  <2> SUFFICES ASSUME ElectorateInv, policy = "main_subst_active" PROVE MainDelegatesFirst
    BY DEF MainDelegatesFirst
  <2> QED
    BY MainOrSubstituteOrder DEF ElectorateInv
<1> QED
    BY <1>1, ElectorateInvariant, PTL
=============================================================================
