------------------------- MODULE SpeakerQueue_proofs -------------------------
(***************************************************************************)
(* Proof, for any number of users, workers and rows and any of the         *)
(* methods, that the stored order is the queue, of what reordering a list  *)
(* repairs, and of who may be put ahead of whom.                           *)
(*                                                                         *)
(* First what the operators do: sorting, leaving users out, the incoming   *)
(* order, the two methods and Reorder.  Then the steps.                    *)
(***************************************************************************)
EXTENDS SpeakerQueue, FiniteSetTheorems, SequenceTheorems, WellFoundedInduction, TLAPS

\* A set of numbers has a least one.
LEMMA LeastNumber ==
    ASSUME NEW S \in SUBSET Nat, S # {}
    PROVE  \E n \in S : \A m \in S : n <= m
<1> DEFINE R == {ss \in Nat \X Nat : ss[1] < ss[2]}
<1>1. IsWellFoundedOn(R, Nat)
    BY NatLessThanWellFounded DEF OpToRel
<1>2. \A m, n \in Nat : m < n => <<m, n>> \in R
    OBVIOUS
<1> HIDE DEF R
<1>3. PICK n \in S : \A m \in S : <<m, n>> \notin R
    BY <1>1, WFMin
<1>4. ASSUME NEW m \in S PROVE n <= m
  <2>1. m \in Nat /\ n \in Nat
    OBVIOUS
  <2>2. ~(m < n)
    BY <1>2, <1>3, <2>1
  <2> QED
    BY <2>1, <2>2
<1> QED
    BY <1>4

\* Min finds it.
LEMMA MinIsLeast ==
    ASSUME NEW S \in SUBSET Nat, S # {}
    PROVE  Min(S) \in S /\ \A m \in S : Min(S) <= m
BY LeastNumber DEF Min

-----------------------------------------------------------------------------
(* Sorting                                                                 *)

\* y comes before x when sorted by key.
Comes(key, y, x) == key[y] < key[x] \/ (key[y] = key[x] /\ y < x)

\* s is S, sorted by key.
SortsInto(s, S, key) ==
    /\ s \in [1 .. Cardinality(S) -> S]
    /\ \A i, j \in 1 .. Cardinality(S) : i < j => Comes(key, s[i], s[j])

\* The place of x in the sorted order, counted.
Place(S, key, x) == Cardinality({y \in S : Comes(key, y, x)}) + 1

\* Places are numbers up to the size of the set, and grow with the order.
LEMMA PlacesGrow ==
    ASSUME NEW S \in SUBSET Nat, IsFiniteSet(S), NEW key, \A x \in S : key[x] \in Int
    PROVE  /\ Cardinality(S) \in Nat
           /\ \A x \in S : Place(S, key, x) \in 1 .. Cardinality(S)
           /\ \A x, y \in S : Comes(key, y, x) => Place(S, key, y) < Place(S, key, x)
           /\ \A x, y \in S : Comes(key, y, x) \/ Comes(key, x, y) \/ x = y
<1> DEFINE Ahead_(x) == {y \in S : Comes(key, y, x)}
<1>1. Cardinality(S) \in Nat
    BY FS_CardinalityType
<1>2. \A x \in S : IsFiniteSet(Ahead_(x)) /\ Cardinality(Ahead_(x)) \in Nat
    BY FS_Subset, FS_CardinalityType
<1>3. \A x \in S : x \in Nat /\ key[x] \in Int
    OBVIOUS
<1>4. ASSUME NEW x \in S PROVE Cardinality(Ahead_(x)) <= Cardinality(S) - 1
  <2>1. Ahead_(x) \in SUBSET (S \ {x})
    BY <1>3 DEF Comes
  <2>2. IsFiniteSet(S \ {x}) /\ Cardinality(S \ {x}) = Cardinality(S) - 1
    BY FS_RemoveElement
  <2> HIDE DEF Ahead_
  <2> QED
    BY <2>1, <2>2, FS_Subset
<1>5. ASSUME NEW x \in S, NEW y \in S, Comes(key, y, x)
      PROVE  Cardinality(Ahead_(y)) < Cardinality(Ahead_(x))
  <2>1. y \in Ahead_(x)
    BY <1>5
  <2>2. Ahead_(y) \in SUBSET (Ahead_(x) \ {y})
    <3>1. ASSUME NEW z \in S, Comes(key, z, y) PROVE Comes(key, z, x) /\ z # y
      <4>1. /\ x \in Nat /\ y \in Nat /\ z \in Nat
            /\ key[x] \in Int /\ key[y] \in Int /\ key[z] \in Int
        BY <1>3
      <4> QED
        BY <1>5, <3>1, <4>1 DEF Comes
    <3> QED
      BY <3>1
  <2>3. IsFiniteSet(Ahead_(x) \ {y}) /\ Cardinality(Ahead_(x) \ {y}) = Cardinality(Ahead_(x)) - 1
    BY <1>2, <2>1, FS_RemoveElement
  <2>4. Cardinality(Ahead_(x)) \in Nat /\ Cardinality(Ahead_(y)) \in Nat
    BY <1>2
  <2> HIDE DEF Ahead_
  <2>5. Cardinality(Ahead_(y)) <= Cardinality(Ahead_(x) \ {y})
    BY <2>2, <2>3, FS_Subset
  <2> QED
    BY <2>3, <2>4, <2>5
<1>6. \A x, y \in S : Comes(key, y, x) \/ Comes(key, x, y) \/ x = y
    BY <1>3 DEF Comes
<1>7. \A x \in S : Place(S, key, x) = Cardinality(Ahead_(x)) + 1
    BY DEF Place
<1> HIDE DEF Ahead_
<1>8. \A x \in S : Place(S, key, x) \in 1 .. Cardinality(S)
    BY <1>1, <1>2, <1>4, <1>7
<1>9. ASSUME NEW x \in S, NEW y \in S, Comes(key, y, x)
      PROVE  Place(S, key, y) < Place(S, key, x)
    BY <1>2, <1>5, <1>7, <1>9
<1> QED
    BY <1>1, <1>6, <1>8, <1>9

\* A finite set of numbers can be sorted.
LEMMA SortedExists ==
    ASSUME NEW S \in SUBSET Nat, IsFiniteSet(S), NEW key, \A x \in S : key[x] \in Int
    PROVE  \E s : SortsInto(s, S, key)
<1> DEFINE n == Cardinality(S)
           place == [x \in S |-> Place(S, key, x)]
           s == [k \in 1 .. n |-> CHOOSE x \in S : place[x] = k]
<1>1. n \in Nat /\ place \in [S -> 1 .. n]
    BY PlacesGrow
<1>2. \A x, y \in S : Comes(key, y, x) => place[y] < place[x]
    BY PlacesGrow
<1>3. \A x, y \in S : Comes(key, y, x) \/ Comes(key, x, y) \/ x = y
    BY PlacesGrow
<1> HIDE DEF n, place
<1>4. \A x, y \in S : place[x] \in Int /\ place[y] \in Int
    BY <1>1
<1>5. place \in Injection(S, 1 .. n)
    BY <1>1, <1>2, <1>3, <1>4 DEF Injection, IsInjective
<1>6. IsFiniteSet(1 .. n) /\ Cardinality(1 .. n) = n
    BY <1>1, FS_Interval
<1>7. place \in Surjection(S, 1 .. n)
    BY <1>5, <1>6, FS_Injection DEF n
<1>8. \A k \in 1 .. n : \E x \in S : place[x] = k
    BY <1>7 DEF Surjection
<1>9. \A k \in 1 .. n : s[k] \in S /\ place[s[k]] = k
    BY <1>8
<1>10. s \in [1 .. n -> S]
    BY <1>9
<1> HIDE DEF s
<1>11. ASSUME NEW i \in 1 .. n, NEW j \in 1 .. n, i < j PROVE Comes(key, s[i], s[j])
  <2>1. s[i] # s[j]
    BY <1>1, <1>9, <1>11
  <2>2. ~Comes(key, s[j], s[i])
    <3>1. s[i] \in S /\ s[j] \in S /\ place[s[i]] = i /\ place[s[j]] = j
      BY <1>9
    <3>2. i \in Int /\ j \in Int
      BY <1>1
    <3>3. Comes(key, s[j], s[i]) => j < i
      BY <1>2, <3>1
    <3> QED
      BY <1>11, <3>2, <3>3
  <2> QED
    BY <1>3, <1>9, <2>1, <2>2
<1> QED
    BY <1>10, <1>11 DEF SortsInto, n

\* What SortedBy returns: each element once, in the order of the keys.
LEMMA SortedBySound ==
    ASSUME NEW S \in SUBSET Nat, IsFiniteSet(S), NEW key, \A x \in S : key[x] \in Int,
           NEW s, s = SortedBy(S, key)
    PROVE  /\ Cardinality(S) \in Nat /\ s \in [1 .. Cardinality(S) -> S]
           /\ \A i, j \in 1 .. Cardinality(S) : i < j <=> Comes(key, s[i], s[j])
           /\ \A i, j \in 1 .. Cardinality(S) : s[i] = s[j] => i = j
           /\ \A x \in S : \E i \in 1 .. Cardinality(S) : s[i] = x
<1> DEFINE n == Cardinality(S)
<1>1. SortsInto(s, S, key)
  <2>1. s = CHOOSE t : t \in [1 .. Cardinality(S) -> S] /\ SortsInto(t, S, key)
    BY DEF SortedBy, SortsInto, Comes
  <2>2. \E t : t \in [1 .. Cardinality(S) -> S] /\ SortsInto(t, S, key)
    BY SortedExists DEF SortsInto
  <2> QED
    BY <2>1, <2>2
<1>2. n \in Nat /\ IsFiniteSet(1 .. n) /\ Cardinality(1 .. n) = n
  <2>1. n \in Nat
    BY PlacesGrow
  <2> QED
    BY <2>1, FS_Interval
<1>3. s \in [1 .. n -> S] /\ \A i, j \in 1 .. n : i < j => Comes(key, s[i], s[j])
    BY <1>1 DEF SortsInto
<1>4. ASSUME NEW i \in 1 .. n, NEW j \in 1 .. n, s[i] = s[j] \/ Comes(key, s[i], s[j])
      PROVE  i <= j /\ (s[i] = s[j] => i = j)
  <2>1. i < j => Comes(key, s[i], s[j])
    BY <1>3
  <2>2. j < i => Comes(key, s[j], s[i])
    BY <1>3
  <2>3. /\ s[i] \in Nat /\ s[j] \in Nat /\ key[s[i]] \in Int /\ key[s[j]] \in Int
        /\ i \in Int /\ j \in Int
    <3>1. s[i] \in S /\ s[j] \in S
      BY <1>3
    <3>2. i \in Int /\ j \in Int
      BY <1>2
    <3>3. \A x \in S : x \in Nat /\ key[x] \in Int
      OBVIOUS
    <3> QED
      BY <3>1, <3>2, <3>3
  <2> HIDE DEF n
  <2> QED
    BY <1>4, <2>1, <2>2, <2>3 DEF Comes
<1>5. \A i, j \in 1 .. n : s[i] = s[j] => i = j
    BY <1>4
<1>6. ASSUME NEW i \in 1 .. n, NEW j \in 1 .. n, Comes(key, s[i], s[j]) PROVE i < j
  <2>1. i <= j /\ i \in Int /\ j \in Int
    BY <1>4, <1>6
  <2>2. i # j
    <3>1. s[i] \in Nat /\ key[s[i]] \in Int
      BY <1>3
    <3> QED
      BY <1>6, <3>1 DEF Comes
  <2> QED
    BY <2>1, <2>2
<1>7. s \in Surjection(1 .. n, S)
  <2>1. s \in Injection(1 .. n, S)
    BY <1>3, <1>5 DEF Injection, IsInjective
  <2> QED
    BY <1>2, <2>1, FS_Injection DEF n
<1> QED
    BY <1>2, <1>3, <1>5, <1>6, <1>7 DEF Surjection

-----------------------------------------------------------------------------
(* Sequences of users                                                      *)

\* A function on an initial segment is a sequence.
LEMMA FunctionIsSeq ==
    ASSUME NEW T, NEW n \in Nat, NEW f \in [1 .. n -> T]
    PROVE  f \in Seq(T) /\ Len(f) = n /\ DOMAIN f = 1 .. n
OBVIOUS

\* A sequence is a function on an initial segment.
LEMMA SeqIsFunction ==
    ASSUME NEW T, NEW q \in Seq(T)
    PROVE  /\ Len(q) \in Nat /\ DOMAIN q = 1 .. Len(q)
           /\ \A i \in 1 .. Len(q) : q[i] \in T
           /\ IsFiniteSet(DOMAIN q) /\ DOMAIN q \in SUBSET Nat
<1>1. Len(q) \in Nat /\ DOMAIN q = 1 .. Len(q) /\ \A i \in 1 .. Len(q) : q[i] \in T
    OBVIOUS
<1> QED
    BY <1>1, FS_Interval

\* What stays of an order when users are left out.
LEMMA WithoutSound ==
    ASSUME NEW ord \in Seq(Users), NEW us, NEW w, w = Without(ord, us)
    PROVE  /\ w \in Seq(Users) /\ Range(w) = Range(ord) \ us
           /\ IsInjective(ord) => IsInjective(w)
           /\ \A u, v : Ahead(w, u, v) => Ahead(ord, u, v)
<1> DEFINE S == {i \in DOMAIN ord : ord[i] \notin us}
           key == [i \in DOMAIN ord |-> i]
           n == Cardinality(S)
           kept == SortedBy(S, key)
<1>1. S \in SUBSET Nat /\ IsFiniteSet(S) /\ \A i \in S : key[i] \in Int /\ key[i] = i
  <2>1. S \in SUBSET DOMAIN ord /\ DOMAIN ord \in SUBSET Nat /\ IsFiniteSet(DOMAIN ord)
    BY SeqIsFunction
  <2>2. \A i \in S : key[i] = i
    OBVIOUS
  <2> HIDE DEF S, key
  <2> QED
    BY <2>1, <2>2, FS_Subset
<1>2. \A i \in S : i \in DOMAIN ord /\ ord[i] \in Users /\ ord[i] \notin us
    BY SeqIsFunction
<1>3. \A i \in DOMAIN ord : ord[i] \notin us => i \in S
    OBVIOUS
<1>4. w = [k \in DOMAIN kept |-> ord[kept[k]]]
    BY DEF Without
<1> HIDE DEF S, key, kept
<1>5. /\ n \in Nat /\ kept \in [1 .. n -> S]
      /\ \A i, j \in 1 .. n : i < j => Comes(key, kept[i], kept[j])
      /\ \A i, j \in 1 .. n : kept[i] = kept[j] => i = j
      /\ \A x \in S : \E i \in 1 .. n : kept[i] = x
  <2>1. kept = SortedBy(S, key)
    BY DEF kept
  <2>2. \A i \in S : key[i] \in Int
    BY <1>1
  <2>3. /\ Cardinality(S) \in Nat /\ kept \in [1 .. Cardinality(S) -> S]
        /\ \A i, j \in 1 .. Cardinality(S) : i < j <=> Comes(key, kept[i], kept[j])
        /\ \A i, j \in 1 .. Cardinality(S) : kept[i] = kept[j] => i = j
        /\ \A x \in S : \E i \in 1 .. Cardinality(S) : kept[i] = x
    BY <1>1, <2>1, <2>2, SortedBySound
  <2> QED
    BY <2>3
<1> HIDE DEF n
<1>6. /\ w \in [1 .. n -> Users] /\ DOMAIN w = 1 .. n
      /\ \A k \in 1 .. n : kept[k] \in S /\ w[k] = ord[kept[k]]
    BY <1>2, <1>4, <1>5
<1>7. w \in Seq(Users)
    BY <1>5, <1>6, FunctionIsSeq
<1>8. Range(w) = Range(ord) \ us
  <2>1. ASSUME NEW u \in Range(w) PROVE u \in Range(ord) \ us
    BY <1>2, <1>6, <2>1 DEF Range
  <2>2. ASSUME NEW u \in Range(ord) \ us PROVE u \in Range(w)
    <3>1. PICK i \in DOMAIN ord : u = ord[i]
      BY DEF Range
    <3>2. PICK k \in 1 .. n : kept[k] = i
      BY <1>3, <1>5, <3>1
    <3> QED
      BY <1>6, <3>1, <3>2 DEF Range
  <2> QED
    BY <2>1, <2>2
<1>9. ASSUME IsInjective(ord) PROVE IsInjective(w)
  <2>1. ASSUME NEW i \in 1 .. n, NEW j \in 1 .. n, w[i] = w[j] PROVE i = j
    <3>1. kept[i] = kept[j]
      BY <1>2, <1>6, <1>9, <2>1 DEF IsInjective
    <3> QED
      BY <1>5, <3>1
  <2> QED
    BY <1>6, <2>1 DEF IsInjective
<1>10. ASSUME NEW u, NEW v, Ahead(w, u, v) PROVE Ahead(ord, u, v)
  <2>1. PICK i \in 1 .. n, j \in 1 .. n : i < j /\ w[i] = u /\ w[j] = v
    BY <1>6, <1>10 DEF Ahead
  <2>2. kept[i] \in S /\ kept[j] \in S /\ Comes(key, kept[i], kept[j])
    BY <1>5, <1>6, <2>1
  <2>3. kept[i] < kept[j]
    BY <1>1, <2>2 DEF Comes
  <2> QED
    BY <1>2, <1>6, <2>1, <2>2, <2>3 DEF Ahead
<1> QED
    BY <1>7, <1>8, <1>9, <1>10

-----------------------------------------------------------------------------
(* The incoming order                                                      *)

\* The rows by pk.
RowSeqs == Seq([user : Users, stage : Stages])

\* The unfinished rows are some of the rows.
LEMMA UnfinishedRows ==
    ASSUME NEW rs \in RowSeqs
    PROVE  /\ Len(rs) \in Nat /\ DOMAIN rs = 1 .. Len(rs)
           /\ \A p \in DOMAIN rs : rs[p].user \in Users /\ rs[p].stage \in Stages
           /\ Unfinished(rs) \in SUBSET DOMAIN rs /\ Current(rs) \in SUBSET Unfinished(rs)
           /\ Unfinished(rs) \in SUBSET Nat
           /\ IsFiniteSet(Unfinished(rs)) /\ IsFiniteSet(Current(rs))
<1>1. Len(rs) \in Nat /\ DOMAIN rs = 1 .. Len(rs)
    BY DEF RowSeqs
<1>2. \A p \in DOMAIN rs : rs[p].user \in Users /\ rs[p].stage \in Stages
  <2>1. ASSUME NEW p \in DOMAIN rs PROVE rs[p] \in [user : Users, stage : Stages]
    BY <1>1, SeqIsFunction DEF RowSeqs
  <2> QED
    BY <2>1
<1>3. Unfinished(rs) \in SUBSET DOMAIN rs /\ Current(rs) \in SUBSET Unfinished(rs)
    BY DEF Unfinished, Current
<1>4. IsFiniteSet(DOMAIN rs)
    BY <1>1, FS_Interval
<1>5. IsFiniteSet(Unfinished(rs)) /\ IsFiniteSet(Current(rs))
    BY <1>3, <1>4, FS_Subset
<1> QED
    BY <1>1, <1>2, <1>3, <1>5

\* The incoming order is the queue of the rows, and keeps the order of those
\* who were in the list's order already.
LEMMA IncomingSound ==
    ASSUME NEW rs \in RowSeqs, OneTurnEach(rs), NEW ord \in Seq(Users),
           NEW inc, inc = Incoming(rs, ord)
    PROVE  /\ inc \in Seq(Users) /\ InOrder(rs, inc)
           /\ \A u \in Range(ord) : \A v : Ahead(inc, v, u) => Ahead(ord, v, u)
<1> DEFINE S == Unfinished(rs)
           At(p) == {i \in DOMAIN ord : ord[i] = rs[p].user}
           key == [p \in DOMAIN rs |-> IF At(p) = {} THEN Len(ord) + 1 ELSE Min(At(p))]
           n == Cardinality(S)
           sorted == SortedBy(S, key)
<1>1. /\ Len(ord) \in Nat /\ DOMAIN ord = 1 .. Len(ord) /\ DOMAIN ord \in SUBSET Nat
      /\ \A i \in 1 .. Len(ord) : ord[i] \in Users
    BY SeqIsFunction
<1>2. /\ S \in SUBSET Nat /\ IsFiniteSet(S)
      /\ \A p \in S : p \in DOMAIN rs /\ rs[p].user \in Users
    BY UnfinishedRows
<1>3. ASSUME NEW p \in S
      PROVE  \/ At(p) = {} /\ key[p] = Len(ord) + 1
             \/ key[p] \in 1 .. Len(ord) /\ ord[key[p]] = rs[p].user
  <2>1. key[p] = IF At(p) = {} THEN Len(ord) + 1 ELSE Min(At(p))
    BY <1>2
  <2>2. At(p) \in SUBSET Nat /\ \A i \in At(p) : i \in 1 .. Len(ord) /\ ord[i] = rs[p].user
    BY <1>1
  <2> HIDE DEF At, key
  <2>3. CASE At(p) # {}
    BY <2>1, <2>2, <2>3, MinIsLeast
  <2> QED
    BY <2>1, <2>3
<1>4. \A p \in S, i \in 1 .. Len(ord) : ord[i] = rs[p].user => At(p) # {}
    BY <1>1
<1>5. ASSUME NEW p \in S PROVE key[p] \in Int
  <2> HIDE DEF S, key, At
  <2> QED
    BY <1>1, <1>3
<1>6. inc = [k \in DOMAIN sorted |-> rs[sorted[k]].user]
    BY DEF Incoming
<1>7. \A u : u \in UsersOf(rs, S) <=> \E p \in S : u = rs[p].user
    BY DEF UsersOf
<1>8. \A p, q \in S : rs[p].user = rs[q].user => p = q
    BY DEF OneTurnEach
<1> HIDE DEF S, key, sorted, At
<1>9. /\ n \in Nat /\ sorted \in [1 .. n -> S]
      /\ \A i, j \in 1 .. n : i < j => Comes(key, sorted[i], sorted[j])
      /\ \A i, j \in 1 .. n : sorted[i] = sorted[j] => i = j
      /\ \A x \in S : \E i \in 1 .. n : sorted[i] = x
  <2>1. sorted = SortedBy(S, key)
    BY DEF sorted
  <2>2. /\ Cardinality(S) \in Nat /\ sorted \in [1 .. Cardinality(S) -> S]
        /\ \A i, j \in 1 .. Cardinality(S) : i < j <=> Comes(key, sorted[i], sorted[j])
        /\ \A i, j \in 1 .. Cardinality(S) : sorted[i] = sorted[j] => i = j
        /\ \A x \in S : \E i \in 1 .. Cardinality(S) : sorted[i] = x
    BY <1>2, <1>5, <2>1, SortedBySound
  <2> QED
    BY <2>2
<1> HIDE DEF n
<1>10. /\ inc \in [1 .. n -> Users] /\ DOMAIN inc = 1 .. n
       /\ \A k \in 1 .. n : sorted[k] \in S /\ inc[k] = rs[sorted[k]].user
  <2>1. DOMAIN sorted = 1 .. n /\ \A k \in 1 .. n : sorted[k] \in S
    BY <1>9
  <2>2. \A k \in 1 .. n : rs[sorted[k]].user \in Users
    BY <1>2, <2>1
  <2> QED
    BY <1>6, <2>1, <2>2
<1>11. inc \in Seq(Users)
    BY <1>9, <1>10, FunctionIsSeq
<1>12. InOrder(rs, inc)
  <2>1. ASSUME NEW i \in 1 .. n, NEW j \in 1 .. n, inc[i] = inc[j] PROVE i = j
    BY <1>8, <1>9, <1>10, <2>1
  <2>2. IsInjective(inc)
    BY <1>10, <2>1 DEF IsInjective
  <2>3. ASSUME NEW u \in Range(inc) PROVE u \in UsersOf(rs, S)
    <3>1. PICK k \in 1 .. n : u = inc[k]
      BY <1>10 DEF Range
    <3> QED
      BY <1>7, <1>10, <3>1
  <2>4. ASSUME NEW u \in UsersOf(rs, S) PROVE u \in Range(inc)
    <3>1. PICK p \in S : u = rs[p].user
      BY <1>7
    <3>2. PICK k \in 1 .. n : sorted[k] = p
      BY <1>9
    <3> QED
      BY <1>10, <3>1, <3>2 DEF Range
  <2> QED
    BY <2>2, <2>3, <2>4 DEF InOrder, S
<1>13. ASSUME NEW u \in Range(ord), NEW v, Ahead(inc, v, u) PROVE Ahead(ord, v, u)
  <2>1. PICK i \in 1 .. n, j \in 1 .. n : i < j /\ inc[i] = v /\ inc[j] = u
    BY <1>10, <1>13 DEF Ahead
  <2>2. PICK p \in S, q \in S : p = sorted[i] /\ q = sorted[j]
    BY <1>10, <2>1
  <2>3. v = rs[p].user /\ u = rs[q].user /\ Comes(key, p, q)
    BY <1>9, <1>10, <2>1, <2>2
  <2>4. At(q) # {}
    BY <1>1, <1>4, <2>3 DEF Range
  <2>5. key[q] \in 1 .. Len(ord) /\ ord[key[q]] = u
    BY <1>3, <2>3, <2>4
  <2>6. key[p] \in Int /\ key[q] \in Int /\ p \in Nat /\ q \in Nat
    BY <1>2, <1>5
  <2>7. key[p] # key[q]
    <3>1. ASSUME key[p] = key[q] PROVE FALSE
      <4>1. p < q
        BY <2>3, <2>6, <3>1 DEF Comes
      <4>2. ord[key[p]] = rs[p].user
        BY <1>1, <1>3, <2>5, <3>1
      <4>3. p = q
        BY <1>8, <2>3, <2>5, <3>1, <4>2
      <4> QED
        BY <2>6, <4>1, <4>3
    <3> QED
      BY <3>1
  <2>8. key[p] < key[q]
    BY <2>3, <2>6, <2>7 DEF Comes
  <2>9. key[p] \in 1 .. Len(ord) /\ ord[key[p]] = v
    BY <1>1, <1>3, <2>3, <2>5, <2>6, <2>8
  <2> QED
    BY <1>1, <2>5, <2>8, <2>9 DEF Ahead
<1> QED
    BY <1>11, <1>12, <1>13

-----------------------------------------------------------------------------
(* The methods                                                             *)

\* How often somebody has spoken is a number.
LEMMA SpokenCountType ==
    ASSUME NEW rs \in RowSeqs, NEW u
    PROVE  SpokenCount(rs, u) \in Nat
<1> DEFINE turns == {p \in DOMAIN rs : rs[p] = [user |-> u, stage |-> "spoken"]}
<1>1. DOMAIN rs = 1 .. Len(rs) /\ Len(rs) \in Nat
    BY UnfinishedRows
<1>2. turns \in SUBSET DOMAIN rs /\ IsFiniteSet(DOMAIN rs)
    BY <1>1, FS_Interval
<1>3. Cardinality(turns) \in Nat
    BY <1>2, FS_Subset, FS_CardinalityType
<1> HIDE DEF turns
<1>4. SpokenCount(rs, u) = IF MaxTimes > 0 /\ Cardinality(turns) > MaxTimes
                           THEN MaxTimes ELSE Cardinality(turns)
    BY DEF SpokenCount, turns
<1> QED
    BY <1>3, <1>4, QueueAssumption

\* The priority method reorders an order by turns spoken and changes it for no
\* other reason.
LEMMA BySpokenCountSound ==
    ASSUME NEW rs \in RowSeqs, NEW q \in Seq(Users), NEW t, t = BySpokenCount(rs, q)
    PROVE  /\ t \in Seq(Users) /\ Len(t) = Len(q) /\ Range(t) = Range(q)
           /\ IsInjective(q) => IsInjective(t)
           /\ \A i, j \in DOMAIN t : i < j => SpokenCount(rs, t[i]) <= SpokenCount(rs, t[j])
           /\ \A u, v : Ahead(t, v, u) =>
                  Ahead(q, v, u) \/ SpokenCount(rs, v) < SpokenCount(rs, u)
<1> DEFINE n == Len(q)
           key == [i \in DOMAIN q |-> SpokenCount(rs, q[i])]
           sorted == SortedBy(DOMAIN q, key)
<1>1. /\ n \in Nat /\ DOMAIN q = 1 .. n /\ DOMAIN q \in SUBSET Nat
      /\ IsFiniteSet(DOMAIN q) /\ \A i \in 1 .. n : q[i] \in Users
    BY SeqIsFunction
<1>2. Cardinality(DOMAIN q) = n
    BY <1>1, FS_Interval
<1>3. \A i \in DOMAIN q : key[i] = SpokenCount(rs, q[i])
    OBVIOUS
<1>4. \A i \in DOMAIN q : key[i] \in Int
    BY <1>3, SpokenCountType
<1>5. t = [k \in DOMAIN sorted |-> q[sorted[k]]]
    BY DEF BySpokenCount
<1> HIDE DEF key, sorted
<1>6. /\ sorted \in [1 .. n -> 1 .. n]
      /\ \A i, j \in 1 .. n : i < j => Comes(key, sorted[i], sorted[j])
      /\ \A i, j \in 1 .. n : sorted[i] = sorted[j] => i = j
      /\ \A x \in 1 .. n : \E i \in 1 .. n : sorted[i] = x
  <2>1. sorted = SortedBy(DOMAIN q, key)
    BY DEF sorted
  <2>2. PICK D : D = DOMAIN q
    OBVIOUS
  <2>3. /\ D \in SUBSET Nat /\ IsFiniteSet(D) /\ sorted = SortedBy(D, key)
        /\ \A i \in D : key[i] \in Int
    BY <1>1, <1>4, <2>1, <2>2
  <2>4. /\ sorted \in [1 .. Cardinality(D) -> D]
        /\ \A i, j \in 1 .. Cardinality(D) : i < j <=> Comes(key, sorted[i], sorted[j])
        /\ \A i, j \in 1 .. Cardinality(D) : sorted[i] = sorted[j] => i = j
        /\ \A x \in D : \E i \in 1 .. Cardinality(D) : sorted[i] = x
    BY <2>3, SortedBySound
  <2>5. Cardinality(D) = n /\ D = 1 .. n
    BY <1>1, <1>2, <2>2
  <2> QED
    BY <2>4, <2>5
<1> HIDE DEF n
<1>7. /\ t \in [1 .. n -> Users] /\ DOMAIN t = 1 .. n
      /\ \A k \in 1 .. n : sorted[k] \in 1 .. n /\ t[k] = q[sorted[k]]
  <2>1. DOMAIN sorted = 1 .. n /\ \A k \in 1 .. n : sorted[k] \in 1 .. n
    BY <1>6
  <2> QED
    BY <1>1, <1>5, <2>1
<1>8. t \in Seq(Users) /\ Len(t) = n
    BY <1>1, <1>7, FunctionIsSeq
<1>9. Range(t) = Range(q)
  <2>1. ASSUME NEW u \in Range(t) PROVE u \in Range(q)
    <3>1. PICK k \in 1 .. n : u = t[k]
      BY <1>7 DEF Range
    <3> QED
      BY <1>1, <1>7, <3>1 DEF Range
  <2>2. ASSUME NEW u \in Range(q) PROVE u \in Range(t)
    <3>1. PICK i \in 1 .. n : u = q[i]
      BY <1>1 DEF Range
    <3>2. PICK k \in 1 .. n : sorted[k] = i
      BY <1>6, <3>1
    <3> QED
      BY <1>7, <3>1, <3>2 DEF Range
  <2> QED
    BY <2>1, <2>2
<1>10. ASSUME IsInjective(q) PROVE IsInjective(t)
  <2>1. ASSUME NEW i \in 1 .. n, NEW j \in 1 .. n, t[i] = t[j] PROVE i = j
    <3>1. sorted[i] = sorted[j]
      BY <1>1, <1>7, <1>10, <2>1 DEF IsInjective
    <3> QED
      BY <1>6, <3>1
  <2> QED
    BY <1>7, <2>1 DEF IsInjective
<1>11. ASSUME NEW i \in 1 .. n, NEW j \in 1 .. n, i < j
       PROVE  \/ SpokenCount(rs, t[i]) < SpokenCount(rs, t[j])
              \/ SpokenCount(rs, t[i]) = SpokenCount(rs, t[j]) /\ sorted[i] < sorted[j]
  <2>1. Comes(key, sorted[i], sorted[j])
    BY <1>6, <1>11
  <2>2. /\ key[sorted[i]] = SpokenCount(rs, t[i])
        /\ key[sorted[j]] = SpokenCount(rs, t[j])
    BY <1>1, <1>3, <1>7
  <2> QED
    BY <2>1, <2>2 DEF Comes
<1>12. ASSUME NEW i \in DOMAIN t, NEW j \in DOMAIN t, i < j
       PROVE  SpokenCount(rs, t[i]) <= SpokenCount(rs, t[j])
  <2>1. SpokenCount(rs, t[i]) \in Nat /\ SpokenCount(rs, t[j]) \in Nat
    BY SpokenCountType
  <2> QED
    BY <1>7, <1>11, <1>12, <2>1
<1>13. ASSUME NEW u, NEW v, Ahead(t, v, u)
       PROVE  Ahead(q, v, u) \/ SpokenCount(rs, v) < SpokenCount(rs, u)
  <2>1. PICK i \in 1 .. n, j \in 1 .. n : i < j /\ t[i] = v /\ t[j] = u
    BY <1>7, <1>13 DEF Ahead
  <2>2. CASE SpokenCount(rs, t[i]) < SpokenCount(rs, t[j])
    BY <2>1, <2>2
  <2>3. CASE sorted[i] < sorted[j]
    BY <1>1, <1>7, <2>1, <2>3 DEF Ahead
  <2> QED
    BY <1>11, <2>1, <2>2, <2>3
<1> QED
    BY <1>8, <1>9, <1>10, <1>12, <1>13 DEF n

\* line is the line of the first k to be ordered, after the safe speakers.
IsLine(rs, safe, sorted, n, line) ==
    line = [k \in 0 .. n |->
               IF k = 0 THEN safe
               ELSE Append(line[k - 1], Successor(rs, sorted, line[k - 1]))]

\* The lines of the alternating method are well defined.
LEMMA LinesExist ==
    ASSUME NEW rs, NEW safe, NEW sorted, NEW n \in Nat
    PROVE  \E line : IsLine(rs, safe, sorted, n, line)
<1> DEFINE Bad == {m \in Nat : ~ \E line : IsLine(rs, safe, sorted, m, line)}
<1>1. CASE Bad # {}
  <2>1. PICK m \in Bad : \A k \in Bad : m <= k
    BY <1>1, LeastNumber
  <2>2. m \in Nat /\ ~ \E line : IsLine(rs, safe, sorted, m, line)
    OBVIOUS
  <2>3. m # 0
    <3>1. IsLine(rs, safe, sorted, 0, [k \in 0 .. 0 |-> safe])
      BY DEF IsLine
    <3> QED
      BY <2>2, <3>1
  <2>4. m - 1 \in Nat /\ m - 1 \notin Bad
    BY <2>1, <2>2, <2>3
  <2>5. PICK f : IsLine(rs, safe, sorted, m - 1, f)
    BY <2>4
  <2> DEFINE g == [k \in 0 .. m |-> IF k < m THEN f[k]
                       ELSE Append(f[m - 1], Successor(rs, sorted, f[m - 1]))]
  <2>6. \A k \in 0 .. (m - 1) :
           f[k] = IF k = 0 THEN safe ELSE Append(f[k - 1], Successor(rs, sorted, f[k - 1]))
    BY <2>5 DEF IsLine
  <2>7. \A k \in 0 .. (m - 1) : g[k] = f[k]
    BY <2>2
  <2>8. g[m] = Append(f[m - 1], Successor(rs, sorted, f[m - 1]))
    BY <2>2
  <2>9. g = [k \in 0 .. m |-> g[k]]
    OBVIOUS
  <2> HIDE DEF g
  <2>10. ASSUME NEW k \in 0 .. m
         PROVE  g[k] = IF k = 0 THEN safe ELSE Append(g[k - 1], Successor(rs, sorted, g[k - 1]))
    <3>1. CASE k = m
      BY <2>2, <2>3, <2>4, <2>7, <2>8, <3>1
    <3>2. CASE k # m
      <4>1. k \in 0 .. (m - 1) /\ (k # 0 => k - 1 \in 0 .. (m - 1))
        BY <2>2, <3>2
      <4> QED
        BY <2>6, <2>7, <4>1
    <3> QED
      BY <3>1, <3>2
  <2>11. IsLine(rs, safe, sorted, m, g)
    BY <2>9, <2>10 DEF IsLine
  <2> QED
    BY <2>2, <2>11
<1>2. CASE Bad = {}
    BY <1>2
<1> QED
    BY <1>1, <1>2

\* Users without doubles do not all fit into a shorter line.
LEMMA SomebodyIsLeft ==
    ASSUME NEW w \in Seq(Users), NEW line \in Seq(Users), IsInjective(w), Len(w) > Len(line)
    PROVE  \E i \in DOMAIN w : w[i] \notin Range(line)
<1> DEFINE S == 1 .. Len(w)
           T == 1 .. Len(line)
           at == [i \in S |-> CHOOSE j \in T : line[j] = w[i]]
<1>1. /\ Len(w) \in Nat /\ Len(line) \in Nat /\ DOMAIN w = S /\ DOMAIN line = T
    BY SeqIsFunction
<1>2. IsFiniteSet(S) /\ IsFiniteSet(T) /\ Cardinality(T) < Cardinality(S)
  <2>1. ASSUME NEW n \in Nat PROVE IsFiniteSet(1 .. n) /\ Cardinality(1 .. n) = n
    <3>1. 1 \in Int /\ n \in Int /\ (n > 0 \/ n = 0)
      OBVIOUS
    <3>2. IsFiniteSet(1 .. n) /\ Cardinality(1 .. n) = IF 1 > n THEN 0 ELSE n - 1 + 1
      BY <3>1, FS_Interval
    <3>3. (IF 1 > n THEN 0 ELSE n - 1 + 1) = n
      BY <3>1
    <3> QED
      BY <3>2, <3>3
  <2>2. /\ IsFiniteSet(1 .. Len(w)) /\ Cardinality(1 .. Len(w)) = Len(w)
        /\ IsFiniteSet(1 .. Len(line)) /\ Cardinality(1 .. Len(line)) = Len(line)
    BY <1>1, <2>1
  <2> QED
    BY <1>1, <2>2
<1>3. SUFFICES ASSUME \A i \in S : w[i] \in Range(line) PROVE FALSE
    BY <1>1
<1>4. \A i \in S : \E j \in T : line[j] = w[i]
    BY <1>1, <1>3 DEF Range
<1>5. \A i \in S : at[i] \in T /\ line[at[i]] = w[i]
    BY <1>4
<1>6. at \in [S -> T]
    BY <1>5
<1> HIDE DEF S, T, at
<1>7. PICK i \in S, j \in S : i # j /\ at[i] = at[j]
    BY <1>2, <1>6, FS_PigeonHole
<1>8. w[i] = w[j]
    BY <1>5, <1>7
<1> QED
    BY <1>1, <1>7, <1>8 DEF IsInjective

\* Lines without doubles of the same users, one of which is as long as the
\* other, have the same users.
LEMMA SameLength ==
    ASSUME NEW w \in Seq(Users), NEW line \in Seq(Users), IsInjective(w), IsInjective(line),
           Len(w) = Len(line), Range(line) \subseteq Range(w)
    PROVE  Range(line) = Range(w)
<1>1. SUFFICES ASSUME NEW u \in Range(w), u \notin Range(line) PROVE FALSE
    OBVIOUS
<1> DEFINE more == Append(line, u)
<1>2. /\ Len(w) \in Nat /\ Len(line) = Len(w)
      /\ DOMAIN w = 1 .. Len(w) /\ DOMAIN line = 1 .. Len(w)
      /\ \A i \in 1 .. Len(w) : w[i] \in Users /\ line[i] \in Users
    BY SeqIsFunction
<1>3. u \in Users
    BY <1>2 DEF Range
<1>4. /\ more \in Seq(Users) /\ Len(more) = Len(w) + 1 /\ DOMAIN more = 1 .. (Len(w) + 1)
      /\ more[Len(w) + 1] = u /\ \A i \in 1 .. Len(w) : more[i] = line[i]
    BY <1>2, <1>3
<1> HIDE DEF more
<1>5. IsInjective(more)
  <2>1. \A i \in 1 .. Len(w) : line[i] # u
    BY <1>1, <1>2 DEF Range
  <2>2. ASSUME NEW i \in 1 .. (Len(w) + 1), NEW j \in 1 .. (Len(w) + 1), more[i] = more[j]
        PROVE  i = j
    <3>1. CASE i = Len(w) + 1 /\ j # Len(w) + 1
      BY <1>2, <1>4, <2>1, <2>2, <3>1
    <3>2. CASE i # Len(w) + 1 /\ j = Len(w) + 1
      BY <1>2, <1>4, <2>1, <2>2, <3>2
    <3>3. CASE i # Len(w) + 1 /\ j # Len(w) + 1
      <4>1. i \in 1 .. Len(w) /\ j \in 1 .. Len(w)
        BY <1>2, <3>3
      <4> QED
        BY <1>2, <1>4, <2>2, <4>1 DEF IsInjective
    <3> QED
      BY <3>1, <3>2, <3>3
  <2> QED
    BY <1>4, <2>2 DEF IsInjective
<1>6. Len(more) > Len(w)
    BY <1>2, <1>4
<1>7. PICK i \in DOMAIN more : more[i] \notin Range(w)
    BY <1>4, <1>5, <1>6, SomebodyIsLeft
<1>8. more[i] \in Range(line) \cup {u}
    BY <1>2, <1>4, <1>7 DEF Range
<1> QED
    BY <1>1, <1>7, <1>8

\* Of those not in before, s, the x-th, is the first, or prioritised and has
\* passed only others who have spoken as often.
IsNext(rs, sorted, before, s, x) ==
    /\ s = sorted[x] /\ s \notin before
    /\ \A j \in DOMAIN sorted : j < x /\ sorted[j] \notin before =>
          /\ s \in Prioritised /\ sorted[j] \notin Prioritised
          /\ SpokenCount(rs, s) = SpokenCount(rs, sorted[j])

\* Nobody prioritised who has spoken as often as s comes after those in before.
NobodyWaits(rs, sorted, before, s) ==
    \A j \in DOMAIN sorted :
        sorted[j] \notin before /\ SpokenCount(rs, sorted[j]) = SpokenCount(rs, s)
        => sorted[j] \notin Prioritised

\* Who comes next is the first who is left, or a prioritised user who passes
\* only others who have spoken as often; after somebody who is not prioritised
\* it is somebody who is, if there is one who has spoken as often.
LEMMA SuccessorSound ==
    ASSUME NEW rs \in RowSeqs, NEW sorted \in Seq(Users), NEW line \in Seq(Users),
           \A i, j \in DOMAIN sorted :
               i < j => SpokenCount(rs, sorted[i]) <= SpokenCount(rs, sorted[j]),
           \E i \in DOMAIN sorted : sorted[i] \notin Range(line),
           NEW s, s = Successor(rs, sorted, line)
    PROVE  \E i \in DOMAIN sorted :
              /\ IsNext(rs, sorted, Range(line), s, i)
              /\ line # <<>> /\ Last(line) \notin Prioritised /\ s \notin Prioritised =>
                    NobodyWaits(rs, sorted, Range(line), s)
<1> DEFINE left == {i \in DOMAIN sorted : sorted[i] \notin Range(line)}
           first == Min(left)
           prio == {i \in left : /\ sorted[i] \in Prioritised
                                 /\ SpokenCount(rs, sorted[i]) = SpokenCount(rs, sorted[first])}
<1>1. DOMAIN sorted \in SUBSET Nat
    BY SeqIsFunction
<1>2. left \in SUBSET Nat /\ left # {} /\ prio \in SUBSET Nat
    BY <1>1
<1>3. \A i : i \in left <=> i \in DOMAIN sorted /\ sorted[i] \notin Range(line)
    OBVIOUS
<1>4. \A i : i \in prio <=> /\ i \in left /\ sorted[i] \in Prioritised
                            /\ SpokenCount(rs, sorted[i]) = SpokenCount(rs, sorted[first])
    OBVIOUS
<1>5. s = IF line # <<>> /\ Last(line) \notin Prioritised /\ prio # {}
          THEN sorted[Min(prio)] ELSE sorted[first]
    BY DEF Successor
<1> HIDE DEF left, prio
<1>6. first \in left /\ \A j \in left : first <= j
    BY <1>2, MinIsLeast
<1> HIDE DEF first
<1>7. CASE line # <<>> /\ Last(line) \notin Prioritised /\ prio # {}
  <2>1. PICK i \in prio : s = sorted[i] /\ \A j \in prio : i <= j
    BY <1>2, <1>5, <1>7, MinIsLeast
  <2>2. i \in DOMAIN sorted /\ s = sorted[i] /\ s \notin Range(line) /\ s \in Prioritised
    BY <1>3, <1>4, <2>1
  <2>3. ASSUME NEW j \in DOMAIN sorted, j < i, sorted[j] \notin Range(line)
        PROVE  sorted[j] \notin Prioritised /\ SpokenCount(rs, s) = SpokenCount(rs, sorted[j])
    <3>1. j \in left /\ first \in DOMAIN sorted /\ first <= j
      BY <1>3, <1>6, <2>3
    <3>2. i \in Nat /\ j \in Nat /\ first \in Nat
      BY <1>1, <2>2, <3>1
    <3>3. SpokenCount(rs, sorted[i]) = SpokenCount(rs, sorted[first])
      BY <1>4, <2>1
    <3>4. SpokenCount(rs, sorted[j]) <= SpokenCount(rs, sorted[i])
      BY <2>2, <2>3
    <3>5. first # j => SpokenCount(rs, sorted[first]) <= SpokenCount(rs, sorted[j])
      <4>1. first # j => first < j
        BY <3>1, <3>2
      <4> QED
        BY <3>1, <4>1
    <3>6. SpokenCount(rs, sorted[j]) \in Nat /\ SpokenCount(rs, sorted[i]) \in Nat
      BY SpokenCountType
    <3>7. SpokenCount(rs, s) = SpokenCount(rs, sorted[j])
      BY <2>1, <3>3, <3>4, <3>5, <3>6
    <3>8. j \notin prio
      BY <2>1, <2>3, <3>2
    <3> QED
      BY <1>4, <2>1, <3>1, <3>3, <3>7, <3>8
  <2>4. IsNext(rs, sorted, Range(line), s, i)
    BY <2>2, <2>3 DEF IsNext
  <2> QED
    BY <2>2, <2>4
<1>8. CASE ~(line # <<>> /\ Last(line) \notin Prioritised /\ prio # {})
  <2>1. first \in DOMAIN sorted /\ s = sorted[first] /\ s \notin Range(line)
    BY <1>3, <1>5, <1>6, <1>8
  <2>2. ASSUME NEW j \in DOMAIN sorted, j < first, sorted[j] \notin Range(line) PROVE FALSE
    <3>1. first <= j /\ j \in Nat /\ first \in Nat
      BY <1>1, <1>3, <1>6, <2>1, <2>2
    <3> QED
      BY <2>2, <3>1
  <2>3. ASSUME line # <<>>, Last(line) \notin Prioritised, NEW j \in DOMAIN sorted,
               sorted[j] \notin Range(line), SpokenCount(rs, sorted[j]) = SpokenCount(rs, s)
        PROVE  sorted[j] \notin Prioritised
    BY <1>3, <1>4, <1>8, <2>1, <2>3
  <2>4. IsNext(rs, sorted, Range(line), s, first)
    BY <2>1, <2>2 DEF IsNext
  <2>5. ASSUME line # <<>>, Last(line) \notin Prioritised
        PROVE  NobodyWaits(rs, sorted, Range(line), s)
    BY <2>3, <2>5 DEF NobodyWaits
  <2> QED
    BY <2>1, <2>4, <2>5
<1> QED
    BY <1>7, <1>8

\* Two orders without a user in common, one after the other.
LEMMA ConcatSound ==
    ASSUME NEW p \in Seq(Users), NEW q \in Seq(Users), IsInjective(p), IsInjective(q),
           \A i \in 1 .. Len(p), j \in 1 .. Len(q) : p[i] # q[j]
    PROVE  /\ (p \o q) \in Seq(Users) /\ IsInjective(p \o q) /\ Range(p \o q) = Range(p) \cup Range(q)
           /\ Len(p \o q) = Len(p) + Len(q)
           /\ \A i \in 1 .. Len(p) : (p \o q)[i] = p[i]
           /\ \A i \in 1 .. Len(q) : (p \o q)[Len(p) + i] = q[i]
           /\ \A i \in 1 .. (Len(p) + Len(q)) :
                 \/ i \in 1 .. Len(p) /\ (p \o q)[i] = p[i]
                 \/ i - Len(p) \in 1 .. Len(q) /\ (p \o q)[i] = q[i - Len(p)]
<1>1. PICK c : c = p \o q
    OBVIOUS
<1>2. /\ Len(p) \in Nat /\ DOMAIN p = 1 .. Len(p) /\ Len(q) \in Nat /\ DOMAIN q = 1 .. Len(q)
    BY SeqIsFunction
<1>3. /\ c \in Seq(Users) /\ Len(c) = Len(p) + Len(q) /\ DOMAIN c = 1 .. Len(c)
      /\ \A i \in 1 .. Len(p) : c[i] = p[i]
      /\ \A i \in 1 .. Len(q) : c[Len(p) + i] = q[i]
    BY <1>1, <1>2
<1>4. ASSUME NEW i \in 1 .. Len(c)
      PROVE  \/ i \in 1 .. Len(p) /\ c[i] = p[i]
             \/ i - Len(p) \in 1 .. Len(q) /\ c[i] = q[i - Len(p)]
  <2>1. CASE i <= Len(p)
    BY <1>2, <1>3, <2>1
  <2>2. CASE i > Len(p)
    <3>1. i - Len(p) \in 1 .. Len(q) /\ Len(p) + (i - Len(p)) = i
      BY <1>2, <1>3, <2>2
    <3> QED
      BY <1>3, <3>1
  <2> QED
    BY <1>2, <1>3, <2>1, <2>2
<1>5. \A i \in 1 .. Len(p), j \in 1 .. Len(q) : p[i] # q[j]
    OBVIOUS
<1>6. ASSUME NEW i \in 1 .. Len(c), NEW j \in 1 .. Len(c), c[i] = c[j] PROVE i = j
  <2>1. CASE i \in 1 .. Len(p) /\ c[i] = p[i] /\ j \in 1 .. Len(p) /\ c[j] = p[j]
    BY <1>2, <1>6, <2>1 DEF IsInjective
  <2>2. CASE /\ i - Len(p) \in 1 .. Len(q) /\ c[i] = q[i - Len(p)]
             /\ j - Len(p) \in 1 .. Len(q) /\ c[j] = q[j - Len(p)]
    <3>1. i - Len(p) = j - Len(p)
      BY <1>2, <1>6, <2>2 DEF IsInjective
    <3> QED
      BY <1>2, <1>3, <3>1
  <2> QED
    BY <1>4, <1>5, <1>6, <2>1, <2>2
<1>7. IsInjective(c)
    BY <1>3, <1>6 DEF IsInjective
<1>8. ASSUME NEW u \in Range(c) PROVE u \in Range(p) \cup Range(q)
  <2>1. PICK i \in 1 .. Len(c) : u = c[i]
    BY <1>3 DEF Range
  <2> QED
    BY <1>2, <1>4, <2>1 DEF Range
<1>9. ASSUME NEW u \in Range(p) PROVE u \in Range(c)
  <2>1. PICK i \in 1 .. Len(p) : u = p[i]
    BY <1>2 DEF Range
  <2>2. i \in 1 .. Len(c)
    BY <1>2, <1>3
  <2> QED
    BY <1>3, <2>1, <2>2 DEF Range
<1>10. ASSUME NEW u \in Range(q) PROVE u \in Range(c)
  <2>1. PICK i \in 1 .. Len(q) : u = q[i]
    BY <1>2 DEF Range
  <2>2. Len(p) + i \in 1 .. Len(c)
    BY <1>2, <1>3
  <2> QED
    BY <1>3, <2>1, <2>2 DEF Range
<1> QED
    BY <1>1, <1>3, <1>4, <1>7, <1>8, <1>9, <1>10

\* One more at the end of an order.
LEMMA AppendSound ==
    ASSUME NEW p \in Seq(Users), IsInjective(p), NEW u \in Users, u \notin Range(p)
    PROVE  /\ Append(p, u) \in Seq(Users) /\ IsInjective(Append(p, u))
           /\ Range(Append(p, u)) = Range(p) \cup {u}
           /\ Len(Append(p, u)) = Len(p) + 1 /\ Append(p, u)[Len(p) + 1] = u
           /\ \A i \in 1 .. Len(p) : Append(p, u)[i] = p[i]
<1>1. PICK c : c = Append(p, u)
    OBVIOUS
<1>2. /\ Len(p) \in Nat /\ DOMAIN p = 1 .. Len(p)
      /\ c \in Seq(Users) /\ Len(c) = Len(p) + 1 /\ DOMAIN c = 1 .. (Len(p) + 1)
      /\ c[Len(p) + 1] = u /\ \A i \in 1 .. Len(p) : c[i] = p[i]
    BY <1>1, SeqIsFunction
<1>3. \A i \in 1 .. Len(p) : p[i] # u
    BY <1>2 DEF Range
<1>4. ASSUME NEW i \in DOMAIN c
      PROVE  i \in 1 .. Len(p) \/ i = Len(p) + 1
    BY <1>2
<1>5. ASSUME NEW i \in DOMAIN c, NEW j \in DOMAIN c, c[i] = c[j] PROVE i = j
  <2>1. CASE i \in 1 .. Len(p) /\ j \in 1 .. Len(p)
    BY <1>2, <1>5, <2>1 DEF IsInjective
  <2> QED
    BY <1>2, <1>3, <1>4, <1>5, <2>1
<1>6. IsInjective(c)
    BY <1>5 DEF IsInjective
<1>7. ASSUME NEW x \in Range(c) PROVE x \in Range(p) \cup {u}
  <2>1. PICK i \in DOMAIN c : x = c[i]
    BY DEF Range
  <2> QED
    BY <1>2, <1>4, <2>1 DEF Range
<1>8. ASSUME NEW x \in Range(p) \cup {u} PROVE x \in Range(c)
  <2>1. CASE x = u
    <3>1. Len(p) + 1 \in DOMAIN c
      BY <1>2
    <3> QED
      BY <1>2, <2>1, <3>1 DEF Range
  <2>2. CASE x \in Range(p)
    <3>1. PICK i \in 1 .. Len(p) : x = p[i]
      BY <1>2, <2>2 DEF Range
    <3>2. i \in DOMAIN c
      BY <1>2
    <3> QED
      BY <1>2, <3>1, <3>2 DEF Range
  <2> QED
    BY <2>1, <2>2
<1> QED
    BY <1>1, <1>2, <1>6, <1>7, <1>8

\* line is a line of the safe speakers and k more, each of them once, that
\* starts with the safe ones.
LineOf(safe, sorted, k, line) ==
    /\ line \in Seq(Users) /\ Len(line) = Len(safe) + k /\ IsInjective(line)
    /\ \A i \in 1 .. Len(safe) : line[i] = safe[i]
    /\ Range(line) \subseteq Range(safe) \cup Range(sorted)

\* The users to be ordered come sorted by turns spoken, each of them once, and
\* none of the safe speakers is among them.
Sorted(rs, safe, sorted) ==
    /\ IsInjective(safe) /\ IsInjective(sorted)
    /\ \A i \in 1 .. Len(safe), j \in 1 .. Len(sorted) : safe[i] # sorted[j]
    /\ \A i, j \in DOMAIN sorted :
          i < j => SpokenCount(rs, sorted[i]) <= SpokenCount(rs, sorted[j])

\* The k-th to be ordered is somebody who was left, as the last of the line.
LEMMA LineGrows ==
    ASSUME NEW rs \in RowSeqs, NEW safe \in Seq(Users), NEW sorted \in Seq(Users),
           Sorted(rs, safe, sorted),
           NEW k \in 0 .. (Len(sorted) - 1), NEW line, LineOf(safe, sorted, k, line),
           NEW s, s = Successor(rs, sorted, line)
    PROVE  /\ LineOf(safe, sorted, k + 1, Append(line, s))
           /\ \A i \in 1 .. (Len(safe) + k) : Append(line, s)[i] = line[i]
           /\ Append(line, s)[Len(safe) + k + 1] = s
           /\ \E i \in DOMAIN sorted : sorted[i] \notin Range(line)
<1>1. /\ line \in Seq(Users) /\ Len(line) = Len(safe) + k /\ IsInjective(line)
      /\ \A i \in 1 .. Len(safe) : line[i] = safe[i]
      /\ Range(line) \subseteq Range(safe) \cup Range(sorted)
    BY DEF LineOf
<1>2. /\ Len(safe) \in Nat /\ DOMAIN safe = 1 .. Len(safe)
      /\ Len(sorted) \in Nat /\ DOMAIN sorted = 1 .. Len(sorted)
      /\ \A i \in 1 .. Len(sorted) : sorted[i] \in Users
      /\ DOMAIN line = 1 .. (Len(safe) + k) /\ k \in Nat /\ k < Len(sorted)
    BY <1>1, SeqIsFunction
<1>3. \E i \in DOMAIN sorted : sorted[i] \notin Range(line)
  <2>1. PICK all : all = safe \o sorted
    OBVIOUS
  <2>2. /\ (safe \o sorted) \in Seq(Users) /\ IsInjective(safe \o sorted)
        /\ Len(safe \o sorted) = Len(safe) + Len(sorted)
        /\ \A i \in 1 .. (Len(safe) + Len(sorted)) :
              \/ i \in 1 .. Len(safe) /\ (safe \o sorted)[i] = safe[i]
              \/ /\ i - Len(safe) \in 1 .. Len(sorted)
                 /\ (safe \o sorted)[i] = sorted[i - Len(safe)]
    BY ConcatSound DEF Sorted
  <2>3. /\ all \in Seq(Users) /\ IsInjective(all) /\ Len(all) = Len(safe) + Len(sorted)
        /\ \A i \in 1 .. Len(all) :
              \/ i \in 1 .. Len(safe) /\ all[i] = safe[i]
              \/ (i - Len(safe) \in 1 .. Len(sorted) /\ all[i] = sorted[i - Len(safe)])
    BY <2>2, <2>1
  <2>4. Len(all) > Len(line) /\ DOMAIN all = 1 .. Len(all)
    BY <1>1, <1>2, <2>3, SeqIsFunction
  <2>5. PICK i \in 1 .. Len(all) : all[i] \notin Range(line)
    BY <1>1, <2>3, <2>4, SomebodyIsLeft
  <2>6. ~(i \in 1 .. Len(safe) /\ all[i] = safe[i])
    <3>1. ASSUME i \in 1 .. Len(safe), all[i] = safe[i] PROVE all[i] \in Range(line)
      <4>1. i \in DOMAIN line /\ line[i] = all[i]
        BY <1>1, <1>2, <3>1
      <4> QED
        BY <4>1 DEF Range
    <3> QED
      BY <2>5, <3>1
  <2> QED
    BY <1>2, <2>3, <2>5, <2>6
<1>4. \E i \in DOMAIN sorted : s = sorted[i] /\ s \notin Range(line)
    BY <1>1, <1>3, SuccessorSound DEF Sorted, IsNext
<1>5. s \in Users /\ s \in Range(sorted) /\ s \notin Range(line)
    BY <1>2, <1>4 DEF Range
<1>6. PICK more : more = Append(line, s)
    OBVIOUS
<1>7. /\ Append(line, s) \in Seq(Users) /\ IsInjective(Append(line, s))
      /\ Range(Append(line, s)) = Range(line) \cup {s}
      /\ Len(Append(line, s)) = Len(line) + 1 /\ Append(line, s)[Len(line) + 1] = s
      /\ \A i \in 1 .. Len(line) : Append(line, s)[i] = line[i]
    BY <1>1, <1>5, AppendSound
<1>8. /\ more \in Seq(Users) /\ IsInjective(more) /\ Range(more) = Range(line) \cup {s}
      /\ Len(more) = Len(line) + 1 /\ more[Len(line) + 1] = s
      /\ \A i \in 1 .. Len(line) : more[i] = line[i]
    BY <1>7, <1>6
<1>9. /\ Len(more) = Len(safe) + (k + 1) /\ more[Len(safe) + k + 1] = s
      /\ \A i \in 1 .. (Len(safe) + k) : more[i] = line[i]
      /\ \A i \in 1 .. Len(safe) : more[i] = safe[i]
    BY <1>1, <1>2, <1>8
<1>10. Range(more) \subseteq Range(safe) \cup Range(sorted)
    BY <1>1, <1>5, <1>8
<1>11. LineOf(safe, sorted, k + 1, more)
    BY <1>8, <1>9, <1>10 DEF LineOf
<1> QED
    BY <1>3, <1>6, <1>9, <1>11

\* The lines grow from the safe speakers to everybody, and none changes what
\* came before.
LEMMA LinesGrow ==
    ASSUME NEW rs \in RowSeqs, NEW safe \in Seq(Users), NEW sorted \in Seq(Users),
           Sorted(rs, safe, sorted),
           NEW f, IsLine(rs, safe, sorted, Len(sorted), f)
    PROVE  \A k \in 0 .. Len(sorted) :
              /\ LineOf(safe, sorted, k, f[k])
              /\ \A j \in 0 .. k : \A i \in 1 .. (Len(safe) + j) : f[k][i] = f[j][i]
<1> DEFINE Good(k) == /\ LineOf(safe, sorted, k, f[k])
                      /\ \A j \in 0 .. k : \A i \in 1 .. (Len(safe) + j) : f[k][i] = f[j][i]
           Bad == {k \in 0 .. Len(sorted) : ~Good(k)}
<1>1. Len(sorted) \in Nat /\ Len(safe) \in Nat
    BY SeqIsFunction
<1>2. f[0] = safe
    BY <1>1 DEF IsLine
<1>3. ASSUME NEW k \in 0 .. (Len(sorted) - 1)
      PROVE  f[k + 1] = Append(f[k], Successor(rs, sorted, f[k]))
  <2>1. /\ k + 1 \in 0 .. Len(sorted) /\ k + 1 # 0 /\ (k + 1) - 1 = k
    BY <1>1
  <2>2. \A m \in 0 .. Len(sorted) :
           f[m] = IF m = 0 THEN safe ELSE Append(f[m - 1], Successor(rs, sorted, f[m - 1]))
    BY DEF IsLine
  <2>3. f[k + 1] = Append(f[(k + 1) - 1], Successor(rs, sorted, f[(k + 1) - 1]))
    BY <2>1, <2>2
  <2> QED
    BY <2>1, <2>3
<1>4. Good(0)
  <2>1. \A i \in 1 .. Len(safe) : safe[i] = safe[i]
    OBVIOUS
  <2>2. LineOf(safe, sorted, 0, safe)
    BY <1>1, SeqIsFunction DEF LineOf, Sorted, Range
  <2>3. \A j \in 0 .. 0 : j = 0
    OBVIOUS
  <2> QED
    BY <1>2, <2>2, <2>3
<1>5. ASSUME NEW k \in 0 .. (Len(sorted) - 1), Good(k) PROVE Good(k + 1)
  <2>1. PICK s : s = Successor(rs, sorted, f[k])
    OBVIOUS
  <2>2. PICK line : line = f[k]
    OBVIOUS
  <2>3. LineOf(safe, sorted, k, line) /\ s = Successor(rs, sorted, line)
    BY <1>5, <2>1, <2>2
  <2>4. /\ LineOf(safe, sorted, k + 1, Append(line, s))
        /\ \A i \in 1 .. (Len(safe) + k) : Append(line, s)[i] = line[i]
  <3>1. LineOf(safe, sorted, k + 1, Append(line, s))
    BY <2>3, LineGrows
  <3>2. line \in Seq(Users) /\ Len(line) = Len(safe) + k
    BY <2>3 DEF LineOf
  <3>3. \A i \in 1 .. Len(line) : Append(line, s)[i] = line[i]
    BY <1>1, <3>2
  <3> QED
    BY <3>1, <3>2, <3>3
  <2>5. /\ LineOf(safe, sorted, k + 1, Append(f[k], s))
        /\ \A i \in 1 .. (Len(safe) + k) : Append(f[k], s)[i] = f[k][i]
    BY <2>2, <2>4
  <2>6. f[k + 1] = Append(f[k], s)
    BY <1>3, <2>1
  <2>7. ASSUME NEW j \in 0 .. (k + 1), NEW i \in 1 .. (Len(safe) + j)
        PROVE  f[k + 1][i] = f[j][i]
    <3>1. CASE j = k + 1
      BY <3>1
    <3>2. CASE j # k + 1
      <4>1. j \in 0 .. k /\ i \in 1 .. (Len(safe) + k)
        BY <1>1, <3>2
      <4>2. f[k + 1][i] = f[k][i]
        BY <2>5, <2>6, <4>1
      <4> QED
        BY <1>5, <4>1, <4>2
    <3> QED
      BY <3>1, <3>2
  <2> QED
    BY <2>5, <2>6, <2>7
<1> HIDE DEF Good
<1>6. CASE Bad # {}
  <2>1. PICK k \in Bad : \A j \in Bad : k <= j
    <3>1. Bad \in SUBSET Nat
      BY <1>1
    <3> HIDE DEF Bad
    <3> QED
      BY <1>6, <3>1, LeastNumber
  <2>2. k \in 0 .. Len(sorted) /\ ~Good(k) /\ k # 0
    BY <1>4
  <2>3. k - 1 \in 0 .. (Len(sorted) - 1) /\ k - 1 \in 0 .. Len(sorted) /\ (k - 1) + 1 = k
    BY <1>1, <2>2
  <2>4. k - 1 \notin Bad
    BY <1>1, <2>1, <2>2
  <2>5. Good(k - 1)
    BY <2>3, <2>4
  <2>6. Good((k - 1) + 1)
    BY <1>5, <2>3, <2>5
  <2> QED
    BY <2>2, <2>3, <2>6
<1>7. CASE Bad = {}
  <2>1. \A k \in 0 .. Len(sorted) : Good(k)
    BY <1>7
  <2> QED
    BY <2>1 DEF Good
<1> QED
    BY <1>6, <1>7

\* Who stands in a position of the alternated order after the safe speakers,
\* and whom of those who come later that one has passed.
LEMMA WhoIsNext ==
    ASSUME NEW rs \in RowSeqs, NEW safe \in Seq(Users), NEW sorted \in Seq(Users),
           Sorted(rs, safe, sorted), NEW f, IsLine(rs, safe, sorted, Len(sorted), f),
           NEW new, new = f[Len(sorted)],
           NEW a \in 1 .. Len(new), a > Len(safe)
    PROVE  \E x \in DOMAIN sorted :
              /\ IsNext(rs, sorted, {new[i] : i \in 1 .. (a - 1)}, new[a], x)
              /\ a > 1 /\ new[a - 1] \notin Prioritised /\ new[a] \notin Prioritised =>
                    NobodyWaits(rs, sorted, {new[i] : i \in 1 .. (a - 1)}, new[a])
<1> DEFINE m == Len(safe)
           n == Len(sorted)
           k == a - m - 1
<1>1. m \in Nat /\ n \in Nat /\ DOMAIN sorted = 1 .. n
    BY SeqIsFunction
<1>2. \A j \in 0 .. n : /\ LineOf(safe, sorted, j, f[j])
                        /\ \A h \in 0 .. j : \A i \in 1 .. (m + h) : f[j][i] = f[h][i]
    BY LinesGrow
<1>3. new \in Seq(Users) /\ Len(new) = m + n /\ IsInjective(new)
  <2>1. n \in 0 .. n
    BY <1>1
  <2>2. LineOf(safe, sorted, n, new)
    BY <1>2, <2>1
  <2> QED
    BY <2>2 DEF LineOf
<1>4. a \in Nat /\ k \in 0 .. (n - 1) /\ m + k + 1 = a /\ m + k = a - 1
    BY <1>1, <1>3
<1> HIDE DEF k
<1>5. PICK line : line = f[k]
    OBVIOUS
<1>6. LineOf(safe, sorted, k, line)
    BY <1>1, <1>2, <1>4, <1>5
<1>7. line \in Seq(Users) /\ Len(line) = a - 1 /\ DOMAIN line = 1 .. (a - 1)
  <2>1. line \in Seq(Users) /\ Len(line) = a - 1
    BY <1>4, <1>6 DEF LineOf
  <2> QED
    BY <2>1, SeqIsFunction
<1>8. \A i \in 1 .. (a - 1) : new[i] = line[i]
    BY <1>1, <1>2, <1>4, <1>5
<1>9. PICK s : s = Successor(rs, sorted, line)
    OBVIOUS
<1>10. new[a] = s
  <2>1. f[k + 1] = Append(line, s)
    <3>1. /\ k + 1 \in 0 .. n /\ k + 1 # 0 /\ (k + 1) - 1 = k
      BY <1>1, <1>4
    <3>2. \A j \in 0 .. n :
             f[j] = IF j = 0 THEN safe ELSE Append(f[j - 1], Successor(rs, sorted, f[j - 1]))
      BY DEF IsLine
    <3>3. f[k + 1] = Append(f[(k + 1) - 1], Successor(rs, sorted, f[(k + 1) - 1]))
      BY <3>1, <3>2
    <3> QED
      BY <1>5, <1>9, <3>1, <3>3
  <2>2. new[a] = f[k + 1][a]
    <3>1. n \in 0 .. n /\ k + 1 \in 0 .. n /\ a \in 1 .. (m + (k + 1))
      BY <1>1, <1>4
    <3> QED
      BY <1>2, <3>1
  <2>3. Append(line, s)[Len(line) + 1] = s
    BY <1>7
  <2>4. Len(line) + 1 = a
    BY <1>4, <1>7
  <2> QED
    BY <2>1, <2>2, <2>3, <2>4
<1>11. \E i \in DOMAIN sorted : sorted[i] \notin Range(line)
    BY <1>4, <1>6, <1>9, LineGrows
<1>12. PICK x \in DOMAIN sorted :
         /\ IsNext(rs, sorted, Range(line), s, x)
         /\ line # <<>> /\ Last(line) \notin Prioritised /\ s \notin Prioritised =>
               NobodyWaits(rs, sorted, Range(line), s)
    BY <1>7, <1>9, <1>11, SuccessorSound DEF Sorted
<1>13. Range(line) = {new[i] : i \in 1 .. (a - 1)}
    BY <1>7, <1>8 DEF Range
<1>14. ASSUME a > 1 PROVE line # <<>> /\ Last(line) = new[a - 1]
  <2>1. a - 1 \in 1 .. (a - 1)
    BY <1>4, <1>14
  <2>2. Last(line) = line[Len(line)]
    BY DEF Last
  <2>3. line # <<>>
    <3>1. Len(line) # 0
      BY <1>4, <1>7, <1>14
    <3> QED
      BY <3>1
  <2> QED
    BY <1>7, <1>8, <2>1, <2>2, <2>3
<1> QED
    BY <1>10, <1>12, <1>13, <1>14

\* Somebody may stand before another because the method says so.
Reason(rs, v, u) ==
    \/ SpokenCount(rs, v) < SpokenCount(rs, u) /\ Method # "simple"
    \/ /\ Method = "gender_prio" /\ SpokenCount(rs, v) = SpokenCount(rs, u)
       /\ v \in Prioritised /\ u \notin Prioritised

\* new is the safe speakers and after them the users of q, in the order of q
\* but for the reasons of the method.
IsOrdered(rs, safe, q, new) ==
    /\ new \in Seq(Users) /\ IsInjective(new) /\ Range(new) = Range(safe) \cup Range(q)
    /\ Len(new) = Len(safe) + Len(q)
    /\ \A i \in 1 .. Len(safe) : new[i] = safe[i]
    /\ \A a, b \in 1 .. Len(new) :
          Len(safe) < a /\ a < b => Ahead(q, new[a], new[b]) \/ Reason(rs, new[a], new[b])

\* Two in a row who are not prioritised, the second after the safe speakers,
\* pass nobody prioritised who has spoken as often.
IsAlternating(rs, safe, new) ==
    \A a, b \in 1 .. Len(new) :
        /\ Len(safe) < a /\ 1 < a /\ a < b
        /\ new[a - 1] \notin Prioritised /\ new[a] \notin Prioritised
        /\ SpokenCount(rs, new[b]) = SpokenCount(rs, new[a])
        => new[b] \notin Prioritised

\* The alternating method orders, and alternates.
LEMMA AlternatedSound ==
    ASSUME NEW rs \in RowSeqs, NEW safe \in Seq(Users), NEW sorted \in Seq(Users),
           Sorted(rs, safe, sorted), Method = "gender_prio",
           NEW new, new = Alternated(rs, safe, sorted)
    PROVE  IsOrdered(rs, safe, sorted, new) /\ IsAlternating(rs, safe, new)
<1> DEFINE m == Len(safe)
           n == Len(sorted)
<1>1. /\ m \in Nat /\ n \in Nat /\ DOMAIN sorted = 1 .. n /\ DOMAIN safe = 1 .. m
    BY SeqIsFunction
<1>2. PICK f : IsLine(rs, safe, sorted, n, f) /\ new = f[n]
  <2>1. PICK f : f = CHOOSE line : IsLine(rs, safe, sorted, n, line)
    OBVIOUS
  <2>2. IsLine(rs, safe, sorted, n, f)
    BY <1>1, <2>1, LinesExist
  <2>3. new = f[n]
    BY <2>1 DEF Alternated, IsLine
  <2> QED
    BY <2>2, <2>3
<1>3. LineOf(safe, sorted, n, new)
  <2>1. n \in 0 .. n
    BY <1>1
  <2> QED
    BY <1>2, <2>1, LinesGrow
<1>4. /\ new \in Seq(Users) /\ Len(new) = m + n /\ IsInjective(new) /\ DOMAIN new = 1 .. (m + n)
      /\ \A i \in 1 .. m : new[i] = safe[i]
      /\ Range(new) \subseteq Range(safe) \cup Range(sorted)
    BY <1>3, SeqIsFunction DEF LineOf
<1>5. Range(new) = Range(safe) \cup Range(sorted)
  <2>1. /\ (safe \o sorted) \in Seq(Users) /\ IsInjective(safe \o sorted)
        /\ Range(safe \o sorted) = Range(safe) \cup Range(sorted)
        /\ Len(safe \o sorted) = m + n
    BY ConcatSound DEF Sorted
  <2>2. PICK all : all = safe \o sorted
    OBVIOUS
  <2>3. /\ all \in Seq(Users) /\ IsInjective(all) /\ Range(all) = Range(safe) \cup Range(sorted)
        /\ Len(all) = Len(new)
    BY <1>4, <2>1, <2>2
  <2> QED
    BY <1>4, <2>3, SameLength
<1>6. ASSUME NEW a \in 1 .. Len(new), a > m
      PROVE  \E x \in DOMAIN sorted :
                /\ IsNext(rs, sorted, {new[i] : i \in 1 .. (a - 1)}, new[a], x)
                /\ a > 1 /\ new[a - 1] \notin Prioritised /\ new[a] \notin Prioritised =>
                      NobodyWaits(rs, sorted, {new[i] : i \in 1 .. (a - 1)}, new[a])
    BY <1>2, <1>6, WhoIsNext
<1>7. ASSUME NEW a \in 1 .. Len(new), NEW b \in 1 .. Len(new), m < a, a < b
      PROVE  /\ Ahead(sorted, new[a], new[b]) \/ Reason(rs, new[a], new[b])
             /\ /\ 1 < a /\ new[a - 1] \notin Prioritised /\ new[a] \notin Prioritised
                /\ SpokenCount(rs, new[b]) = SpokenCount(rs, new[a])
                => new[b] \notin Prioritised
  <2>1. a \in Nat /\ b \in Nat /\ b > m
    BY <1>1, <1>4, <1>7
  <2>2. PICK y \in DOMAIN sorted : new[b] = sorted[y]
    BY <1>6, <2>1 DEF IsNext
  <2>3. \A i \in 1 .. Len(new) : i < b => sorted[y] # new[i]
    BY <1>4, <2>1, <2>2 DEF IsInjective
  <2>4. sorted[y] \notin {new[i] : i \in 1 .. (a - 1)}
    <3>1. \A i \in 1 .. (a - 1) : i \in 1 .. Len(new) /\ i < b
      BY <1>1, <1>4, <1>7, <2>1
    <3> QED
      BY <2>3, <3>1
  <2>5. PICK x \in DOMAIN sorted :
          /\ new[a] = sorted[x]
          /\ y < x =>
                /\ new[a] \in Prioritised /\ sorted[y] \notin Prioritised
                /\ SpokenCount(rs, new[a]) = SpokenCount(rs, sorted[y])
          /\ /\ a > 1 /\ new[a - 1] \notin Prioritised /\ new[a] \notin Prioritised
             /\ SpokenCount(rs, sorted[y]) = SpokenCount(rs, new[a])
             => sorted[y] \notin Prioritised
    <3>1. PICK x \in DOMAIN sorted :
             /\ IsNext(rs, sorted, {new[i] : i \in 1 .. (a - 1)}, new[a], x)
             /\ a > 1 /\ new[a - 1] \notin Prioritised /\ new[a] \notin Prioritised =>
                   NobodyWaits(rs, sorted, {new[i] : i \in 1 .. (a - 1)}, new[a])
      BY <1>6, <1>7
    <3>2. /\ new[a] = sorted[x]
          /\ y < x =>
                /\ new[a] \in Prioritised /\ sorted[y] \notin Prioritised
                /\ SpokenCount(rs, new[a]) = SpokenCount(rs, sorted[y])
      BY <2>4, <3>1 DEF IsNext
    <3>3. /\ a > 1 /\ new[a - 1] \notin Prioritised /\ new[a] \notin Prioritised
          /\ SpokenCount(rs, sorted[y]) = SpokenCount(rs, new[a])
          => sorted[y] \notin Prioritised
      BY <2>4, <3>1 DEF NobodyWaits
    <3> QED
      BY <3>2, <3>3
  <2>6. x \in Nat /\ y \in Nat /\ x # y
    BY <1>1, <1>7, <2>3, <2>5
  <2>7. CASE x < y
    BY <1>7, <2>1, <2>2, <2>5, <2>7 DEF Ahead
  <2>8. CASE y < x
    BY <1>7, <2>1, <2>2, <2>5, <2>8 DEF Reason
  <2> QED
    BY <2>6, <2>7, <2>8
<1>8. IsOrdered(rs, safe, sorted, new)
    BY <1>4, <1>5, <1>7 DEF IsOrdered
<1>9. IsAlternating(rs, safe, new)
    BY <1>7 DEF IsAlternating
<1> QED
    BY <1>8, <1>9

\* Every method orders the others after the safe speakers.
LEMMA MethodReorderSound ==
    ASSUME NEW rs \in RowSeqs, NEW safe \in Seq(Users), NEW q \in Seq(Users),
           IsInjective(safe), IsInjective(q),
           \A i \in 1 .. Len(safe), j \in 1 .. Len(q) : safe[i] # q[j],
           NEW new, new = MethodReorder(rs, safe, q)
    PROVE  /\ IsOrdered(rs, safe, q, new)
           /\ Method = "gender_prio" => IsAlternating(rs, safe, new)
<1>1. /\ Len(safe) \in Nat /\ Len(q) \in Nat
      /\ DOMAIN safe = 1 .. Len(safe) /\ DOMAIN q = 1 .. Len(q)
    BY SeqIsFunction
<1>2. PICK t : t = BySpokenCount(rs, q)
    OBVIOUS
<1>3. /\ t \in Seq(Users) /\ Len(t) = Len(q) /\ Range(t) = Range(q) /\ IsInjective(t)
      /\ DOMAIN t = 1 .. Len(q)
      /\ \A i, j \in DOMAIN t : i < j => SpokenCount(rs, t[i]) <= SpokenCount(rs, t[j])
      /\ \A u, v : Ahead(t, v, u) => Ahead(q, v, u) \/ SpokenCount(rs, v) < SpokenCount(rs, u)
  <2>1. /\ t \in Seq(Users) /\ Len(t) = Len(q) /\ Range(t) = Range(q)
        /\ IsInjective(q) => IsInjective(t)
        /\ \A i, j \in DOMAIN t : i < j => SpokenCount(rs, t[i]) <= SpokenCount(rs, t[j])
        /\ \A u, v : Ahead(t, v, u) => Ahead(q, v, u) \/ SpokenCount(rs, v) < SpokenCount(rs, u)
    BY <1>2, BySpokenCountSound
  <2> QED
    BY <2>1, SeqIsFunction
<1>4. \A i \in 1 .. Len(safe), j \in 1 .. Len(t) : safe[i] # t[j]
  <2>1. \A i \in 1 .. Len(safe) : safe[i] \notin Range(q)
    BY <1>1 DEF Range
  <2>2. \A j \in 1 .. Len(t) : t[j] \in Range(t)
    BY <1>3 DEF Range
  <2> QED
    BY <1>3, <2>1, <2>2
<1>5. ASSUME NEW s \in Seq(Users), IsInjective(s), Len(s) = Len(q), Range(s) = Range(q),
             \A i \in 1 .. Len(safe), j \in 1 .. Len(s) : safe[i] # s[j],
             \A u, v : Ahead(s, v, u) => Ahead(q, v, u) \/ Reason(rs, v, u), new = safe \o s
      PROVE  IsOrdered(rs, safe, q, new)
  <2>1. /\ (safe \o s) \in Seq(Users) /\ IsInjective(safe \o s)
        /\ Range(safe \o s) = Range(safe) \cup Range(s)
        /\ Len(safe \o s) = Len(safe) + Len(s)
        /\ \A i \in 1 .. Len(safe) : (safe \o s)[i] = safe[i]
        /\ \A i \in 1 .. (Len(safe) + Len(s)) :
              \/ i \in 1 .. Len(safe) /\ (safe \o s)[i] = safe[i]
              \/ i - Len(safe) \in 1 .. Len(s) /\ (safe \o s)[i] = s[i - Len(safe)]
    BY <1>5, ConcatSound
  <2>2. DOMAIN s = 1 .. Len(q)
    BY <1>5, SeqIsFunction
  <2>3. ASSUME NEW a \in 1 .. Len(new), NEW b \in 1 .. Len(new), Len(safe) < a, a < b
        PROVE  Ahead(s, new[a], new[b])
    <3>1. Len(new) = Len(safe) + Len(q)
      BY <1>5, <2>1
    <3>2. a \in Nat /\ b \in Nat /\ a - Len(safe) \in 1 .. Len(q) /\ b - Len(safe) \in 1 .. Len(q)
          /\ a - Len(safe) < b - Len(safe) /\ ~(a \in 1 .. Len(safe)) /\ ~(b \in 1 .. Len(safe))
      BY <1>1, <2>3, <3>1
    <3>3. new[a] = s[a - Len(safe)] /\ new[b] = s[b - Len(safe)]
      BY <1>5, <2>1, <3>1, <3>2
    <3> QED
      BY <2>2, <3>2, <3>3 DEF Ahead
  <2> QED
    BY <1>5, <2>1, <2>3 DEF IsOrdered
<1>6. CASE Method = "simple"
  <2>1. new = safe \o q
    BY <1>6 DEF MethodReorder
  <2> QED
    BY <1>5, <1>6, <2>1
<1>7. CASE Method = "priority"
  <2>1. new = safe \o t
    BY <1>2, <1>7 DEF MethodReorder
  <2>2. Method # "simple" /\ Method # "gender_prio"
    BY <1>7
  <2>3. \A u, v : Ahead(t, v, u) => Ahead(q, v, u) \/ Reason(rs, v, u)
    BY <1>3, <2>2 DEF Reason
  <2> QED
    BY <1>3, <1>4, <1>5, <2>1, <2>2, <2>3
<1>8. CASE Method = "gender_prio"
  <2>1. new = Alternated(rs, safe, t)
    BY <1>2, <1>8 DEF MethodReorder
  <2>2. Sorted(rs, safe, t)
    BY <1>3, <1>4 DEF Sorted
  <2>3. IsOrdered(rs, safe, t, new) /\ IsAlternating(rs, safe, new)
    BY <1>3, <1>8, <2>1, <2>2, AlternatedSound
  <2>4. \A u, v : Ahead(t, v, u) => Ahead(q, v, u) \/ Reason(rs, v, u)
    BY <1>3, <1>8 DEF Reason
  <2>5. IsOrdered(rs, safe, q, new)
    BY <1>3, <2>3, <2>4 DEF IsOrdered
  <2> QED
    BY <2>3, <2>5
<1> QED
    BY <1>6, <1>7, <1>8, QueueAssumption

\* The safe speakers are some of the first of the incoming order.
LEMMA SafeCountSound ==
    ASSUME NEW rs, NEW inc \in Seq(Users), NEW n, n = SafeCount(rs, inc)
    PROVE  /\ n \in 0 .. Len(inc)
           /\ n <= SafePositions + 1
           /\ n < SafePositions => n = Len(inc)
           /\ n = SafePositions + 1 =>
                \E i \in 1 .. Len(inc) :
                    i <= SafePositions /\ inc[i] \in UsersOf(rs, Current(rs))
           /\ (\E i \in 1 .. Len(inc) :
                    i <= SafePositions /\ inc[i] \in UsersOf(rs, Current(rs)))
              => n = SafePositions + 1 \/ n = Len(inc)
<1> DEFINE speaking == \E i \in DOMAIN inc :
                           i <= SafePositions /\ inc[i] \in UsersOf(rs, Current(rs))
           count == IF speaking THEN SafePositions + 1 ELSE SafePositions
<1>1. Len(inc) \in Nat /\ DOMAIN inc = 1 .. Len(inc)
    BY SeqIsFunction
<1>2. n = IF count < Len(inc) THEN count ELSE Len(inc)
    BY DEF SafeCount
<1>3. speaking <=> \E i \in 1 .. Len(inc) :
                       i <= SafePositions /\ inc[i] \in UsersOf(rs, Current(rs))
    BY <1>1
<1>4. /\ speaking => count = SafePositions + 1
      /\ ~speaking => count = SafePositions
    OBVIOUS
<1> HIDE DEF speaking, count
<1>5. count \in {SafePositions, SafePositions + 1}
    BY <1>4
<1>6. SafePositions \in Nat /\ count \in Int
  <2>1. SafePositions \in Nat
    BY QueueAssumption
  <2> QED
    BY <1>5, <2>1
<1>7. /\ n \in 0 .. Len(inc) /\ n <= SafePositions + 1
      /\ n < SafePositions => n = Len(inc)
      /\ n = SafePositions + 1 => count = SafePositions + 1
      /\ count = SafePositions + 1 => n = SafePositions + 1 \/ n = Len(inc)
  <2>1. CASE count < Len(inc)
    <3>1. n = count
      BY <1>2, <2>1
    <3>2. count = SafePositions \/ count = SafePositions + 1
      BY <1>5
    <3>3. SafePositions <= n /\ n <= SafePositions + 1 /\ n \in Int
      BY <1>6, <3>1, <3>2
    <3>4. n \in 0 .. Len(inc)
      BY <1>1, <1>6, <2>1, <3>1, <3>3
    <3>5. ~(n < SafePositions)
      BY <1>6, <3>3
    <3> QED
      BY <3>1, <3>3, <3>4, <3>5
  <2>2. CASE ~(count < Len(inc))
    BY <1>1, <1>2, <1>5, <1>6, <2>2
  <2> QED
    BY <2>1, <2>2
<1>8. count = SafePositions + 1 => speaking
  <2>1. SafePositions # SafePositions + 1
    BY <1>6
  <2> QED
    BY <1>4, <2>1, Zenon
<1>9. speaking => count = SafePositions + 1
    BY <1>4
<1> QED
    BY <1>3, <1>7, <1>8, <1>9

\* s and r are the first n of q and the others.
Cut(q, n, s, r) == s = SubSeq(q, 1, n) /\ r = SubSeq(q, n + 1, Len(q))

\* An order cut in two.
LEMMA CutSound ==
    ASSUME NEW q \in Seq(Users), IsInjective(q), NEW n \in 0 .. Len(q),
           NEW s, NEW r, Cut(q, n, s, r)
    PROVE  /\ s \in Seq(Users) /\ Len(s) = n /\ IsInjective(s)
           /\ r \in Seq(Users) /\ Len(r) = Len(q) - n /\ IsInjective(r)
           /\ \A i \in 1 .. n : s[i] = q[i]
           /\ \A i \in 1 .. Len(s), j \in 1 .. Len(r) : s[i] # r[j]
           /\ Range(s) \cup Range(r) = Range(q)
           /\ \A u, v : Ahead(r, v, u) => Ahead(q, v, u)
<1>1. Len(q) \in Nat /\ n \in Nat /\ n <= Len(q) /\ DOMAIN q = 1 .. Len(q)
    BY SeqIsFunction
<1>2. /\ s \in Seq(Users) /\ Len(s) = n /\ DOMAIN s = 1 .. n
      /\ \A i \in 1 .. n : s[i] = q[i]
    BY <1>1 DEF Cut
<1>3. /\ r \in Seq(Users) /\ Len(r) = Len(q) - n /\ DOMAIN r = 1 .. (Len(q) - n)
      /\ \A i \in 1 .. (Len(q) - n) : r[i] = q[n + i]
  <2>1. r = [i \in 1 .. (Len(q) - n) |-> q[n + i]]
    <3>1. r = SubSeq(q, n + 1, Len(q))
      BY DEF Cut
    <3>2. n + 1 \in Int /\ Len(q) \in Int
      BY <1>1
    <3>3. \A i \in (n + 1) .. Len(q) : q[i] \in Users
      BY <1>1
    <3>4. /\ r \in Seq(Users)
          /\ Len(r) = IF n + 1 <= Len(q) THEN Len(q) - (n + 1) + 1 ELSE 0
          /\ \A i \in 1 .. (Len(q) - (n + 1) + 1) : r[i] = q[(n + 1) + i - 1]
      BY <3>1, <3>2, <3>3, SubSeqProperties
    <3>5. Len(r) = Len(q) - n
      BY <1>1, <3>4
    <3>6. ASSUME NEW i \in 1 .. (Len(q) - n) PROVE r[i] = q[n + i]
      <4>1. i \in 1 .. (Len(q) - (n + 1) + 1) /\ (n + 1) + i - 1 = n + i
        BY <1>1
      <4>2. r[i] = q[(n + 1) + i - 1]
        BY <3>4, <4>1
      <4> QED
        BY <4>1, <4>2
    <3>7. DOMAIN r = 1 .. (Len(q) - n)
      BY <3>4, <3>5, SeqIsFunction
    <3> QED
      BY <3>4, <3>6, <3>7
  <2>2. Len(q) - n \in Nat /\ \A i \in 1 .. (Len(q) - n) : q[n + i] \in Users
    BY <1>1
  <2>3. r \in [1 .. (Len(q) - n) -> Users] /\ \A i \in 1 .. (Len(q) - n) : r[i] = q[n + i]
    BY <2>1, <2>2
  <2> QED
    BY <2>2, <2>3, FunctionIsSeq
<1>4. \A i \in 1 .. (Len(q) - n) : n + i \in 1 .. Len(q)
    BY <1>1
<1>5. \A i \in 1 .. n : i \in 1 .. Len(q)
    BY <1>1
<1>6. \A i, j \in 1 .. Len(q) : q[i] = q[j] => i = j
    BY <1>1 DEF IsInjective
<1>7. IsInjective(s)
  <2>1. ASSUME NEW i \in 1 .. n, NEW j \in 1 .. n, s[i] = s[j] PROVE i = j
    BY <1>2, <1>5, <1>6, <2>1
  <2> QED
    BY <1>2, <2>1 DEF IsInjective
<1>8. IsInjective(r)
  <2>1. ASSUME NEW i \in 1 .. (Len(q) - n), NEW j \in 1 .. (Len(q) - n), r[i] = r[j] PROVE i = j
    <3>1. n + i = n + j
      BY <1>3, <1>4, <1>6, <2>1
    <3> QED
      BY <1>1, <3>1
  <2> QED
    BY <1>3, <2>1 DEF IsInjective
<1>9. ASSUME NEW i \in 1 .. n, NEW j \in 1 .. (Len(q) - n) PROVE s[i] # r[j]
  <2>1. i # n + j
    BY <1>1
  <2> QED
    BY <1>2, <1>3, <1>4, <1>5, <1>6, <2>1
<1>10. Range(s) \cup Range(r) = Range(q)
  <2>1. ASSUME NEW u \in Range(s) PROVE u \in Range(q)
    BY <1>1, <1>2, <1>5, <2>1 DEF Range
  <2>2. ASSUME NEW u \in Range(r) PROVE u \in Range(q)
    BY <1>1, <1>3, <1>4, <2>2 DEF Range
  <2>3. ASSUME NEW u \in Range(q) PROVE u \in Range(s) \cup Range(r)
    <3>1. PICK i \in 1 .. Len(q) : u = q[i]
      BY <1>1 DEF Range
    <3>2. CASE i <= n
      <4>1. i \in DOMAIN s /\ u = s[i]
        BY <1>1, <1>2, <3>1, <3>2
      <4> QED
        BY <4>1 DEF Range
    <3>3. CASE i > n
      <4>1. i - n \in DOMAIN r /\ n + (i - n) = i
        BY <1>1, <1>3, <3>3
      <4>2. u = r[i - n]
        BY <1>3, <3>1, <4>1
      <4> QED
        BY <4>1, <4>2 DEF Range
    <3> QED
      BY <1>1, <3>2, <3>3
  <2> QED
    BY <2>1, <2>2, <2>3
<1>11. ASSUME NEW u, NEW v, Ahead(r, v, u) PROVE Ahead(q, v, u)
  <2>1. PICK i \in DOMAIN r, j \in DOMAIN r : i < j /\ r[i] = v /\ r[j] = u
    BY <1>11 DEF Ahead
  <2>2. n + i \in DOMAIN q /\ n + j \in DOMAIN q /\ n + i < n + j
    BY <1>1, <1>3, <1>4, <2>1
  <2>3. q[n + i] = v /\ q[n + j] = u
    BY <1>3, <2>1
  <2> QED
    BY <2>2, <2>3 DEF Ahead
<1> QED
    BY <1>2, <1>3, <1>7, <1>8, <1>9, <1>10, <1>11

\* Reordering a list gives the queue of the rows, keeps the safe speakers in
\* their places, and lets somebody pass another for the method's reasons only.
LEMMA ReorderSound ==
    ASSUME NEW rs \in RowSeqs, OneTurnEach(rs), NEW ord \in Seq(Users),
           NEW inc, inc = Incoming(rs, ord), NEW new, new = Reorder(rs, ord),
           NEW n, n = SafeCount(rs, inc)
    PROVE  /\ new \in Seq(Users) /\ InOrder(rs, new) /\ Len(new) = Len(inc)
           /\ \A i \in 1 .. n : new[i] = inc[i]
           /\ \A u, v : Ahead(new, v, u) => Ahead(inc, v, u) \/ Reason(rs, v, u)
           /\ \A i \in 1 .. n : \A v : Ahead(new, v, inc[i]) => Ahead(inc, v, inc[i])
           /\ Method = "gender_prio" =>
                \A a, b \in DOMAIN new :
                    /\ n < a /\ 1 < a /\ a < b
                    /\ new[a - 1] \notin Prioritised /\ new[a] \notin Prioritised
                    /\ SpokenCount(rs, new[b]) = SpokenCount(rs, new[a])
                    => new[b] \notin Prioritised
<1>1. /\ inc \in Seq(Users) /\ IsInjective(inc) /\ Range(inc) = UsersOf(rs, Unfinished(rs))
  <2>1. inc \in Seq(Users) /\ InOrder(rs, inc)
    BY IncomingSound
  <2> QED
    BY <2>1 DEF InOrder
<1>2. n \in 0 .. Len(inc)
    BY <1>1, SafeCountSound
<1>3. PICK s, r : s = SubSeq(inc, 1, n) /\ r = SubSeq(inc, n + 1, Len(inc))
    OBVIOUS
<1>4. /\ s \in Seq(Users) /\ Len(s) = n /\ IsInjective(s)
      /\ r \in Seq(Users) /\ Len(r) = Len(inc) - n /\ IsInjective(r)
      /\ \A i \in 1 .. n : s[i] = inc[i]
      /\ \A i \in 1 .. Len(s), j \in 1 .. Len(r) : s[i] # r[j]
      /\ Range(s) \cup Range(r) = Range(inc)
      /\ \A u, v : Ahead(r, v, u) => Ahead(inc, v, u)
  <2>1. Cut(inc, n, s, r)
    BY <1>3 DEF Cut
  <2> QED
    BY <1>1, <1>2, <2>1, CutSound
<1>5. new = MethodReorder(rs, s, r)
    BY <1>3 DEF Reorder
<1>6. IsOrdered(rs, s, r, new) /\ (Method = "gender_prio" => IsAlternating(rs, s, new))
    BY <1>4, <1>5, MethodReorderSound
<1>7. /\ Len(inc) \in Nat /\ n \in Nat /\ n <= Len(inc) /\ DOMAIN inc = 1 .. Len(inc)
    BY <1>1, <1>2, SeqIsFunction
<1>8. /\ new \in Seq(Users) /\ IsInjective(new) /\ Range(new) = Range(inc)
      /\ Len(new) = Len(inc) /\ DOMAIN new = 1 .. Len(inc)
      /\ \A i \in 1 .. n : new[i] = inc[i]
      /\ \A a, b \in 1 .. Len(new) :
            n < a /\ a < b => Ahead(r, new[a], new[b]) \/ Reason(rs, new[a], new[b])
  <2>1. /\ new \in Seq(Users) /\ IsInjective(new) /\ Range(new) = Range(s) \cup Range(r)
        /\ Len(new) = Len(s) + Len(r)
        /\ \A i \in 1 .. Len(s) : new[i] = s[i]
        /\ \A a, b \in 1 .. Len(new) :
              Len(s) < a /\ a < b => Ahead(r, new[a], new[b]) \/ Reason(rs, new[a], new[b])
    BY <1>6 DEF IsOrdered
  <2>2. Len(new) = Len(inc)
    BY <1>4, <1>7, <2>1
  <2> QED
    BY <1>4, <2>1, <2>2, SeqIsFunction
<1>9. InOrder(rs, new)
    BY <1>1, <1>8 DEF InOrder
<1>10. \A i \in 1 .. n : i \in DOMAIN new /\ i \in DOMAIN inc
    BY <1>7, <1>8
<1>11. ASSUME NEW u, NEW v, Ahead(new, v, u) PROVE Ahead(inc, v, u) \/ Reason(rs, v, u)
  <2>1. PICK a \in 1 .. Len(inc), b \in 1 .. Len(inc) : a < b /\ new[a] = v /\ new[b] = u
    BY <1>8, <1>11 DEF Ahead
  <2>2. a \in Nat /\ b \in Nat
    BY <1>7
  <2>3. CASE n < a
    BY <1>4, <1>8, <2>1, <2>3
  <2>4. CASE a <= n
    <3>1. a \in 1 .. n /\ inc[a] = v
      BY <1>7, <1>8, <2>1, <2>4
    <3>2. PICK c \in 1 .. Len(inc) : inc[c] = u
      <4>1. u \in Range(new)
        BY <1>8, <2>1 DEF Range
      <4> QED
        BY <1>7, <1>8, <4>1 DEF Range
    <3>3. CASE c \in 1 .. n
      <4>1. new[c] = new[b] /\ c \in DOMAIN new /\ b \in DOMAIN new
        BY <1>8, <2>1, <3>2, <3>3
      <4>2. c = b
        BY <1>8, <4>1 DEF IsInjective
      <4> QED
        BY <1>7, <2>1, <3>1, <3>2, <4>2 DEF Ahead
    <3>4. CASE ~(c \in 1 .. n)
      <4>1. a < c
        BY <1>7, <2>2, <2>4, <3>4
      <4> QED
        BY <1>7, <2>1, <3>1, <3>2, <4>1 DEF Ahead
    <3> QED
      BY <3>3, <3>4
  <2> QED
    BY <1>7, <2>2, <2>3, <2>4
<1>12. ASSUME NEW v, NEW i \in 1 .. n, Ahead(new, v, inc[i]) PROVE Ahead(inc, v, inc[i])
  <2>1. PICK a \in 1 .. Len(inc), b \in 1 .. Len(inc) : a < b /\ new[a] = v /\ new[b] = inc[i]
    BY <1>8, <1>12 DEF Ahead
  <2>2. b = i
    BY <1>8, <1>10, <2>1 DEF IsInjective
  <2>3. a \in 1 .. n
    BY <1>7, <2>1, <2>2
  <2> QED
    BY <1>7, <1>8, <1>10, <2>1, <2>2, <2>3 DEF Ahead
<1>13. ASSUME Method = "gender_prio", NEW a \in DOMAIN new, NEW b \in DOMAIN new,
              n < a, 1 < a, a < b,
              new[a - 1] \notin Prioritised, new[a] \notin Prioritised,
              SpokenCount(rs, new[b]) = SpokenCount(rs, new[a])
       PROVE  new[b] \notin Prioritised
  <2>1. a \in 1 .. Len(new) /\ b \in 1 .. Len(new) /\ Len(s) < a
    BY <1>4, <1>8, <1>13
  <2> QED
    BY <1>6, <1>13, <2>1 DEF IsAlternating
<1> QED
    BY <1>8, <1>9, <1>11, <1>12, <1>13

-----------------------------------------------------------------------------
(* The rows                                                                *)

\* The rows after one has got another stage.
SetStage(rs, p, stage) == [rs EXCEPT ![p].stage = stage]

\* That is the only thing that is different.
LEMMA SetStageSound ==
    ASSUME NEW rs \in RowSeqs, NEW p \in DOMAIN rs, NEW stage \in Stages,
           NEW new, new = SetStage(rs, p, stage)
    PROVE  /\ new \in RowSeqs /\ Len(new) = Len(rs) /\ DOMAIN new = DOMAIN rs
           /\ \A q \in DOMAIN rs : new[q].user = rs[q].user
           /\ new[p].stage = stage
           /\ \A q \in DOMAIN rs : q # p => new[q].stage = rs[q].stage
<1>1. Len(rs) \in Nat /\ DOMAIN rs = 1 .. Len(rs)
    BY UnfinishedRows
<1>2. \A q \in DOMAIN rs : rs[q] \in [user : Users, stage : Stages]
    BY <1>1, SeqIsFunction DEF RowSeqs
<1>3. DOMAIN new = DOMAIN rs
    BY DEF SetStage
<1>4. new[p] = [rs[p] EXCEPT !.stage = stage] /\ \A q \in DOMAIN rs : q # p => new[q] = rs[q]
    BY DEF SetStage
<1>5. /\ new[p] \in [user : Users, stage : Stages]
      /\ new[p].user = rs[p].user /\ new[p].stage = stage
    BY <1>2, <1>4
<1>6. new \in [1 .. Len(rs) -> [user : Users, stage : Stages]]
  <2>1. new = [q \in 1 .. Len(rs) |-> new[q]]
    BY <1>1 DEF SetStage
  <2>2. \A q \in 1 .. Len(rs) : new[q] \in [user : Users, stage : Stages]
    BY <1>1, <1>2, <1>4, <1>5
  <2> QED
    BY <2>1, <2>2
<1>7. new \in RowSeqs /\ Len(new) = Len(rs)
    BY <1>1, <1>6, FunctionIsSeq DEF RowSeqs
<1> QED
    BY <1>3, <1>4, <1>5, <1>7

\* Rows of which fewer are unfinished keep the constraints.
LEMMA FewerTurns ==
    ASSUME NEW rs \in RowSeqs, NEW new \in RowSeqs, DOMAIN new = DOMAIN rs,
           \A q \in DOMAIN rs : new[q].user = rs[q].user,
           Unfinished(new) \subseteq Unfinished(rs), OneTurnEach(rs)
    PROVE  /\ OneTurnEach(new)
           /\ UsersOf(new, Unfinished(new)) = UsersOf(rs, Unfinished(new))
<1>1. Unfinished(new) \subseteq DOMAIN rs
    BY DEF Unfinished
<1> QED
    BY <1>1 DEF OneTurnEach, UsersOf

\* No more than before speak.
LEMMA FewerSpeakers ==
    ASSUME NEW rs \in RowSeqs, NEW new \in RowSeqs, OneSpeaker(rs),
           Current(new) \subseteq Current(rs)
    PROVE  OneSpeaker(new)
<1>1. IsFiniteSet(Current(rs))
    BY UnfinishedRows
<1>2. /\ IsFiniteSet(Current(new)) /\ Cardinality(Current(new)) <= Cardinality(Current(rs))
      /\ Cardinality(Current(rs)) \in Nat /\ Cardinality(Current(new)) \in Nat
    BY <1>1, FS_Subset, FS_CardinalityType
<1> QED
    BY <1>2 DEF OneSpeaker

\* Who is left when some turns are over.
LEMMA UsersLeft ==
    ASSUME NEW rs, OneTurnEach(rs), NEW S \in SUBSET Unfinished(rs)
    PROVE  UsersOf(rs, Unfinished(rs) \ S) = UsersOf(rs, Unfinished(rs)) \ UsersOf(rs, S)
BY DEF OneTurnEach, UsersOf

\* Whoever speaks is the only one.
LEMMA TheSpeaker ==
    ASSUME NEW rs \in RowSeqs, OneSpeaker(rs), NEW p \in Current(rs), NEW q \in Current(rs)
    PROVE  p = q
<1>1. IsFiniteSet(Current(rs)) /\ Cardinality(Current(rs)) \in Nat
    BY UnfinishedRows, FS_CardinalityType
<1>2. SUFFICES ASSUME p # q PROVE FALSE
    OBVIOUS
<1>3. IsFiniteSet({p, q}) /\ Cardinality({p, q}) = 2
  <2>1. IsFiniteSet({p}) /\ Cardinality({p}) = 1
    BY FS_Singleton
  <2>2. {p} \cup {q} = {p, q} /\ q \notin {p}
    BY <1>2
  <2>3. IsFiniteSet({p} \cup {q}) /\ Cardinality({p} \cup {q}) = Cardinality({p}) + 1
    BY <2>1, <2>2, FS_AddElement
  <2> QED
    BY <2>1, <2>2, <2>3
<1>4. Cardinality({p, q}) <= Cardinality(Current(rs))
  <2>1. {p, q} \in SUBSET Current(rs)
    OBVIOUS
  <2> QED
    BY <1>1, <2>1, FS_Subset
<1> QED
    BY <1>1, <1>3, <1>4 DEF OneSpeaker

\* After a start the one who was started is the speaker.
LEMMA StartedSound ==
    ASSUME NEW rs \in RowSeqs, NEW p \in DOMAIN rs, NEW new, new = Started(rs, p)
    PROVE  /\ new \in RowSeqs /\ Len(new) = Len(rs) /\ DOMAIN new = DOMAIN rs
           /\ \A q \in DOMAIN rs : new[q].user = rs[q].user
           /\ new[p].stage = "current"
           /\ \A q \in DOMAIN rs \ {p} :
                 new[q].stage = IF rs[q].stage = "current" THEN "spoken" ELSE rs[q].stage
           /\ Current(new) = {p} /\ OneSpeaker(new)
<1>1. Len(rs) \in Nat /\ DOMAIN rs = 1 .. Len(rs)
    BY UnfinishedRows
<1>2. \A q \in DOMAIN rs : rs[q] \in [user : Users, stage : Stages]
    BY <1>1, SeqIsFunction DEF RowSeqs
<1>3. DOMAIN new = DOMAIN rs
    BY DEF Started
<1>4. ASSUME NEW q \in DOMAIN rs
      PROVE  /\ new[q] \in [user : Users, stage : Stages]
             /\ new[q].user = rs[q].user
             /\ q = p => new[q].stage = "current"
             /\ q # p => new[q].stage =
                            IF rs[q].stage = "current" THEN "spoken" ELSE rs[q].stage
  <2>1. new[q] = IF q = p THEN [rs[q] EXCEPT !.stage = "current"]
                 ELSE IF q \in Current(rs) THEN [rs[q] EXCEPT !.stage = "spoken"]
                 ELSE rs[q]
    BY DEF Started
  <2>2. q \in Current(rs) <=> rs[q].stage = "current"
    BY DEF Current
  <2>3. rs[q] \in [user : Users, stage : Stages]
    BY <1>2
  <2> QED
    BY <2>1, <2>2, <2>3 DEF Stages
<1>5. new \in [1 .. Len(rs) -> [user : Users, stage : Stages]]
  <2>1. new = [q \in 1 .. Len(rs) |-> new[q]]
    BY <1>1 DEF Started
  <2>2. \A q \in 1 .. Len(rs) : new[q] \in [user : Users, stage : Stages]
    BY <1>1, <1>4
  <2> QED
    BY <2>1, <2>2
<1>6. new \in RowSeqs /\ Len(new) = Len(rs)
    BY <1>1, <1>5, FunctionIsSeq DEF RowSeqs
<1>7. Current(new) = {p}
    BY <1>3, <1>4 DEF Current
<1>8. OneSpeaker(new)
  <2>1. Cardinality({p}) = 1
    BY FS_Singleton
  <2> QED
    BY <1>7, <2>1 DEF OneSpeaker
<1> QED
    BY <1>3, <1>4, <1>6, <1>7, <1>8

\* One more row, of a user who had no unfinished one.
LEMMA AddedSound ==
    ASSUME NEW rs \in RowSeqs, NEW u \in Users \ UsersOf(rs, Unfinished(rs)),
           OneSpeaker(rs), OneTurnEach(rs)
    PROVE  \E new :
              /\ new = Append(rs, [user |-> u, stage |-> "queued"])
              /\ new \in RowSeqs /\ Len(new) = Len(rs) + 1
              /\ \A q \in DOMAIN rs : new[q] = rs[q]
              /\ DOMAIN rs \subseteq DOMAIN new
              /\ Current(new) = Current(rs) /\ OneSpeaker(new) /\ OneTurnEach(new)
<1>1. Len(rs) \in Nat /\ DOMAIN rs = 1 .. Len(rs)
    BY UnfinishedRows
<1>2. PICK row : row = [user |-> u, stage |-> "queued"]
    OBVIOUS
<1>3. row \in [user : Users, stage : Stages] /\ row.user = u /\ row.stage = "queued"
    BY <1>2 DEF Stages
<1>4. PICK new : new = Append(rs, row)
    OBVIOUS
<1>5. /\ new \in RowSeqs /\ Len(new) = Len(rs) + 1 /\ DOMAIN new = 1 .. (Len(rs) + 1)
      /\ \A q \in 1 .. Len(rs) : new[q] = rs[q]
      /\ new[Len(rs) + 1] = row
    BY <1>1, <1>3, <1>4 DEF RowSeqs
<1>6. DOMAIN rs \subseteq DOMAIN new
      /\ \A q \in DOMAIN new : q \in DOMAIN rs \/ q = Len(rs) + 1
    BY <1>1, <1>5
<1>7. Current(new) = Current(rs)
  <2>1. \A q \in DOMAIN rs : new[q] = rs[q]
    BY <1>1, <1>5
  <2>2. new[Len(rs) + 1].stage # "current"
    BY <1>3, <1>5
  <2> QED
    BY <1>6, <2>1, <2>2 DEF Current
<1>8. ASSUME NEW p \in Unfinished(new), NEW q \in Unfinished(new), new[p].user = new[q].user
      PROVE  p = q
  <2>1. \A x \in Unfinished(new) : x \in DOMAIN rs => x \in Unfinished(rs) /\ new[x] = rs[x]
    BY <1>1, <1>5 DEF Unfinished
  <2>2. \A x \in Unfinished(rs) : rs[x].user # u
    BY DEF UsersOf
  <2>3. \A x \in Unfinished(new) : x \in DOMAIN rs \/ x = Len(rs) + 1
    BY <1>6 DEF Unfinished
  <2>4. CASE p \in DOMAIN rs /\ q \in DOMAIN rs
    BY <1>8, <2>1, <2>4 DEF OneTurnEach
  <2> QED
    BY <1>3, <1>5, <1>8, <2>1, <2>2, <2>3, <2>4
<1>9. OneTurnEach(new) /\ OneSpeaker(new)
    BY <1>7, <1>8 DEF OneTurnEach, OneSpeaker
<1> QED
    BY <1>1, <1>2, <1>4, <1>5, <1>6, <1>7, <1>9

-----------------------------------------------------------------------------
(* The invariant                                                           *)

\* What a worker has read about the row or the list it is to change is true.
Fresh(w) ==
    /\ request[w].op = "start" => rows[request[w].pk].stage = "queued"
    /\ request[w].op \in {"stop", "undo"} => rows[request[w].pk].stage = "current"
    /\ request[w].op = "update" => request[w].order = order

\* The constraints hold, and as long as requests come one by one the order is
\* the queue and what is being served is fresh.
QueueInv ==
    /\ TypeOK
    /\ Constraints(rows)
    /\ request = [w \in Workers |-> request[w]]
    /\ ~overlapped =>
          /\ InOrder(rows, order)
          /\ \A v, w \in InFlight : v = w
          /\ \A w \in Workers : Fresh(w)

\* The parts of the invariant that are about the rows and the order.
LEMMA Facts ==
    ASSUME QueueInv
    PROVE  /\ rows \in RowSeqs /\ Len(rows) <= MaxRows /\ order \in Seq(Users)
           /\ OneSpeaker(rows) /\ OneTurnEach(rows)
           /\ ~overlapped => InOrder(rows, order)
BY DEF QueueInv, TypeOK, Constraints, RowSeqs

\* What a request is about.
LEMMA RequestFacts ==
    ASSUME QueueInv, NEW w \in Workers
    PROVE  /\ request[w].op = "add" => request[w].user \in Users
           /\ request[w].op \in {"start", "stop", "undo", "destroy"} =>
                 request[w].pk \in DOMAIN rows
           /\ request[w].op = "update" => request[w].order \in Seq(Users)
<1>1. PICK r, D : r = request[w] /\ D = DOMAIN rows
    OBVIOUS
<1>2. \/ r \in {Idle, [op |-> "close_item"]}
      \/ r \in [op : {"add"}, user : Users]
      \/ r \in [op : {"start", "stop", "undo", "destroy"}, pk : D]
      \/ r.op = "update" /\ r.order \in Seq(Users)
    BY <1>1 DEF QueueInv, TypeOK
<1>3. /\ r.op = "add" => r.user \in Users
      /\ r.op \in {"start", "stop", "undo", "destroy"} => r.pk \in D
      /\ r.op = "update" => r.order \in Seq(Users)
    BY <1>2 DEF Idle
<1> QED
    BY <1>1, <1>3

\* The order after a step is the one before, perhaps without some users, or
\* that one reordered for the new rows, in which whoever spoke speaks still
\* or is gone.
OrderFollows ==
    \/ order' = order
    \/ \E us : order' = Without(order, us)
    \/ /\ order' = Reorder(rows', order)
       /\ \A p \in Current(rows) :
             \/ p \in Current(rows') /\ rows'[p].user = rows[p].user
             \/ rows[p].user \notin UsersOf(rows', Unfinished(rows'))

\* What holds of rows and order after every step.
RowsKept ==
    /\ rows' \in RowSeqs /\ Len(rows') <= MaxRows /\ order' \in Seq(Users)
    /\ OneSpeaker(rows') /\ OneTurnEach(rows')
    /\ DOMAIN rows \subseteq DOMAIN rows'
    /\ ~overlapped => InOrder(rows', order')
    /\ (\/ Len(rows') > Len(rows)
        \/ \E p \in DOMAIN rows : rows'[p].stage = "gone" /\ rows[p].stage # "gone")
       => InOrder(rows', order')

\* Entering the list.
LEMMA AddKeeps ==
    ASSUME QueueInv, NEW w \in Workers, AddSpeaker(w)
    PROVE  RowsKept /\ OrderFollows
<1>1. PICK u : u = request[w].user
    OBVIOUS
<1>2. /\ request[w].op = "add" /\ Len(rows) < RowBound
      /\ u \notin UsersOf(rows, Unfinished(rows))
      /\ rows' = Append(rows, [user |-> u, stage |-> "queued"])
      /\ order' = Reorder(rows', order)
    BY <1>1 DEF AddSpeaker
<1>3. u \in Users
    BY <1>1, <1>2, RequestFacts
<1>4. PICK new :
         /\ new = Append(rows, [user |-> u, stage |-> "queued"])
         /\ new \in RowSeqs /\ Len(new) = Len(rows) + 1
         /\ \A q \in DOMAIN rows : new[q] = rows[q]
         /\ DOMAIN rows \subseteq DOMAIN new
         /\ Current(new) = Current(rows) /\ OneSpeaker(new) /\ OneTurnEach(new)
    BY <1>2, <1>3, Facts, AddedSound
<1>5. new = rows'
    BY <1>2, <1>4
<1>6. Len(rows') <= MaxRows
  <2>1. RowBound \in Nat /\ RowBound <= MaxRows /\ Len(rows) \in Nat
    <3>1. Len(rows) \in Nat
      BY Facts, UnfinishedRows
    <3>2. MaxSharedRows \in Nat /\ MaxRows \in Nat /\ MaxSharedRows <= MaxRows
      BY QueueAssumption
    <3>3. RowBound = MaxSharedRows \/ RowBound = MaxRows
      BY DEF RowBound
    <3> QED
      BY <3>1, <3>2, <3>3
  <2>2. MaxRows \in Nat /\ Len(rows') = Len(rows) + 1
    BY <1>4, <1>5, QueueAssumption
  <2> QED
    BY <1>2, <2>1, <2>2
<1>7. order' \in Seq(Users) /\ InOrder(rows', order')
    BY <1>2, <1>4, <1>5, Facts, ReorderSound
<1>8. \A p \in Current(rows) : p \in Current(rows') /\ rows'[p].user = rows[p].user
    BY <1>4, <1>5, Facts, UnfinishedRows
<1>9. RowsKept
    BY <1>4, <1>5, <1>6, <1>7 DEF RowsKept
<1>10. OrderFollows
    BY <1>2, <1>8 DEF OrderFollows
<1> QED
    BY <1>9, <1>10

\* Leaving the list, or being taken off it.
LEMMA DropKeeps ==
    ASSUME QueueInv, NEW p \in DOMAIN rows, rows' = SetStage(rows, p, "gone"),
           order' = Reorder(rows', order)
    PROVE  RowsKept /\ OrderFollows
<1>1. /\ rows \in RowSeqs /\ Len(rows) <= MaxRows /\ order \in Seq(Users)
      /\ OneSpeaker(rows) /\ OneTurnEach(rows)
    BY Facts
<1>2. /\ rows' \in RowSeqs /\ Len(rows') = Len(rows) /\ DOMAIN rows' = DOMAIN rows
      /\ \A q \in DOMAIN rows : rows'[q].user = rows[q].user
      /\ rows'[p].stage = "gone"
      /\ \A q \in DOMAIN rows : q # p => rows'[q].stage = rows[q].stage
  <2>1. "gone" \in Stages
    BY DEF Stages
  <2> QED
    BY <1>1, <2>1, SetStageSound
<1>3. /\ Unfinished(rows') = Unfinished(rows) \ {p} /\ Current(rows') = Current(rows) \ {p}
    BY <1>2 DEF Unfinished, Current
<1>4. /\ OneTurnEach(rows')
      /\ UsersOf(rows', Unfinished(rows')) = UsersOf(rows, Unfinished(rows'))
  <2>1. Unfinished(rows') \subseteq Unfinished(rows)
    BY <1>3
  <2> QED
    BY <1>1, <1>2, <2>1, FewerTurns
<1>5. OneSpeaker(rows')
  <2>1. Current(rows') \subseteq Current(rows)
    BY <1>3
  <2> QED
    BY <1>1, <1>2, <2>1, FewerSpeakers
<1>6. order' \in Seq(Users) /\ InOrder(rows', order')
    BY <1>1, <1>2, <1>4, ReorderSound
<1>7. ASSUME NEW q \in Current(rows)
      PROVE  \/ q \in Current(rows') /\ rows'[q].user = rows[q].user
             \/ rows[q].user \notin UsersOf(rows', Unfinished(rows'))
  <2>1. q \in DOMAIN rows /\ q \in Unfinished(rows)
    BY <1>1, UnfinishedRows
  <2>2. CASE q # p
    BY <1>2, <1>3, <2>1, <2>2
  <2>3. CASE q = p
    <3>1. \A x \in Unfinished(rows) \ {p} : rows[x].user # rows[q].user
      BY <1>1, <2>1, <2>3 DEF OneTurnEach
    <3> QED
      BY <1>3, <1>4, <3>1 DEF UsersOf
  <2> QED
    BY <2>2, <2>3
<1>8. RowsKept
    BY <1>1, <1>2, <1>4, <1>5, <1>6 DEF RowsKept
<1>9. OrderFollows
    BY <1>7 DEF OrderFollows
<1> QED
    BY <1>8, <1>9

\* Starting a speaker.
LEMMA StartKeeps ==
    ASSUME QueueInv, NEW w \in Workers, StartSpeaker(w)
    PROVE  RowsKept /\ OrderFollows
<1>1. PICK p : p = request[w].pk
    OBVIOUS
<1>2. /\ request[w].op = "start" /\ rows' = Started(rows, p)
      /\ order' = Without(order, UsersOf(rows, Current(rows)))
      /\ OneSpeaker(rows') /\ OneTurnEach(rows')
    BY <1>1 DEF StartSpeaker, Constraints
<1>3. p \in DOMAIN rows
    BY <1>1, <1>2, RequestFacts
<1>4. /\ rows \in RowSeqs /\ Len(rows) <= MaxRows /\ order \in Seq(Users)
      /\ OneSpeaker(rows) /\ OneTurnEach(rows) /\ (~overlapped => InOrder(rows, order))
    BY Facts
<1>5. /\ rows' \in RowSeqs /\ Len(rows') = Len(rows) /\ DOMAIN rows' = DOMAIN rows
      /\ \A q \in DOMAIN rows : rows'[q].user = rows[q].user
      /\ rows'[p].stage = "current"
      /\ \A q \in DOMAIN rows \ {p} :
            rows'[q].stage = IF rows[q].stage = "current" THEN "spoken" ELSE rows[q].stage
  <2>1. rows \in RowSeqs /\ p \in DOMAIN rows /\ rows' = Started(rows, p)
    BY <1>2, <1>3, <1>4
  <2> QED
    BY ONLY <2>1, StartedSound
<1>6. /\ order' \in Seq(Users)
      /\ Range(order') = Range(order) \ UsersOf(rows, Current(rows))
      /\ IsInjective(order) => IsInjective(order')
    BY <1>2, <1>4, WithoutSound
<1>7. ASSUME ~overlapped PROVE InOrder(rows', order')
  <2>1. rows[p].stage = "queued"
    BY <1>1, <1>2, <1>7 DEF QueueInv, Fresh
  <2>2. \A q \in DOMAIN rows :
           rows'[q].stage \in {"queued", "current"} <=> rows[q].stage = "queued"
    <3>1. ASSUME NEW q \in DOMAIN rows
          PROVE  rows'[q].stage \in {"queued", "current"} <=> rows[q].stage = "queued"
      <4>1. CASE q = p
        BY <1>5, <2>1, <4>1
      <4>2. CASE q # p
        BY <1>5, <4>2
      <4> QED
        BY <4>1, <4>2
    <3> QED
      BY <3>1
  <2>3. Unfinished(rows') = Unfinished(rows) \ Current(rows)
    BY <1>5, <2>2 DEF Unfinished, Current
  <2>4. Unfinished(rows') \subseteq Unfinished(rows) /\ Current(rows) \in SUBSET Unfinished(rows)
    BY <1>4, <2>3, UnfinishedRows
  <2>5. UsersOf(rows', Unfinished(rows')) = UsersOf(rows, Unfinished(rows'))
    BY <1>4, <1>5, <2>4, FewerTurns
  <2>6. UsersOf(rows, Unfinished(rows'))
           = UsersOf(rows, Unfinished(rows)) \ UsersOf(rows, Current(rows))
    BY <1>4, <2>3, <2>4, UsersLeft
  <2> QED
    BY <1>4, <1>6, <1>7, <2>5, <2>6 DEF InOrder
<1>8. \A q \in DOMAIN rows : rows'[q].stage = "gone" => rows[q].stage = "gone"
    BY <1>5
<1>9. RowsKept
  <2>1. ~(Len(rows') > Len(rows)) /\ MaxRows \in Nat
    <3>1. Len(rows) \in Nat
      BY <1>4, UnfinishedRows
    <3> QED
      BY <1>5, <3>1, QueueAssumption
  <2> QED
    BY <1>2, <1>4, <1>5, <1>6, <1>7, <1>8, <2>1 DEF RowsKept
<1>10. OrderFollows
    BY <1>2 DEF OrderFollows
<1> QED
    BY <1>9, <1>10

\* Stopping the speaker.
LEMMA StopKeeps ==
    ASSUME QueueInv, NEW w \in Workers, StopSpeaker(w)
    PROVE  RowsKept /\ OrderFollows
<1>1. PICK p : p = request[w].pk
    OBVIOUS
<1>2. /\ request[w].op = "stop" /\ rows' = SetStage(rows, p, "spoken")
      /\ order' = Without(order, {rows[p].user})
    BY <1>1 DEF StopSpeaker, SetStage
<1>3. p \in DOMAIN rows
    BY <1>1, <1>2, RequestFacts
<1>4. /\ rows \in RowSeqs /\ Len(rows) <= MaxRows /\ order \in Seq(Users)
      /\ OneSpeaker(rows) /\ OneTurnEach(rows) /\ (~overlapped => InOrder(rows, order))
    BY Facts
<1>5. /\ rows' \in RowSeqs /\ Len(rows') = Len(rows) /\ DOMAIN rows' = DOMAIN rows
      /\ \A q \in DOMAIN rows : rows'[q].user = rows[q].user
      /\ rows'[p].stage = "spoken"
      /\ \A q \in DOMAIN rows : q # p => rows'[q].stage = rows[q].stage
  <2>1. "spoken" \in Stages
    BY DEF Stages
  <2> QED
    BY <1>2, <1>3, <1>4, <2>1, SetStageSound
<1>6. /\ order' \in Seq(Users) /\ Range(order') = Range(order) \ {rows[p].user}
      /\ IsInjective(order) => IsInjective(order')
    BY <1>2, <1>4, WithoutSound
<1>7. Unfinished(rows') = Unfinished(rows) \ {p} /\ Current(rows') = Current(rows) \ {p}
    BY <1>5 DEF Unfinished, Current
<1>8. /\ OneTurnEach(rows')
      /\ UsersOf(rows', Unfinished(rows')) = UsersOf(rows, Unfinished(rows'))
  <2>1. Unfinished(rows') \subseteq Unfinished(rows)
    BY <1>7
  <2> QED
    BY <1>4, <1>5, <2>1, FewerTurns
<1>9. OneSpeaker(rows')
  <2>1. Current(rows') \subseteq Current(rows)
    BY <1>7
  <2> QED
    BY <1>4, <1>5, <2>1, FewerSpeakers
<1>10. ASSUME ~overlapped PROVE InOrder(rows', order')
  <2>1. rows[p].stage = "current"
    BY <1>1, <1>2, <1>10 DEF QueueInv, Fresh
  <2>2. {p} \in SUBSET Unfinished(rows)
    BY <1>3, <2>1 DEF Unfinished
  <2>3. UsersOf(rows, Unfinished(rows')) = UsersOf(rows, Unfinished(rows)) \ UsersOf(rows, {p})
    BY <1>4, <1>7, <2>2, UsersLeft
  <2>4. UsersOf(rows, {p}) = {rows[p].user}
    BY DEF UsersOf
  <2> QED
    BY <1>4, <1>6, <1>8, <1>10, <2>3, <2>4 DEF InOrder
<1>11. \A q \in DOMAIN rows : rows'[q].stage = "gone" => rows[q].stage = "gone"
    BY <1>5
<1>12. RowsKept
  <2>1. ~(Len(rows') > Len(rows)) /\ MaxRows \in Nat
    <3>1. Len(rows) \in Nat
      BY <1>4, UnfinishedRows
    <3> QED
      BY <1>5, <3>1, QueueAssumption
  <2> QED
    BY <1>4, <1>5, <1>6, <1>8, <1>9, <1>10, <1>11, <2>1 DEF RowsKept
<1>13. OrderFollows
    BY <1>2 DEF OrderFollows
<1> QED
    BY <1>12, <1>13

\* Putting the speaker back into the queue.
LEMMA UndoKeeps ==
    ASSUME QueueInv, NEW w \in Workers, UndoSpeaker(w)
    PROVE  RowsKept /\ OrderFollows
<1>1. PICK p : p = request[w].pk
    OBVIOUS
<1>2. /\ request[w].op = "undo" /\ rows' = SetStage(rows, p, "queued")
      /\ order' = order /\ OneSpeaker(rows') /\ OneTurnEach(rows')
    BY <1>1 DEF UndoSpeaker, SetStage, Constraints
<1>3. p \in DOMAIN rows
    BY <1>1, <1>2, RequestFacts
<1>4. /\ rows \in RowSeqs /\ Len(rows) <= MaxRows /\ order \in Seq(Users)
      /\ OneSpeaker(rows) /\ OneTurnEach(rows) /\ (~overlapped => InOrder(rows, order))
    BY Facts
<1>5. /\ rows' \in RowSeqs /\ Len(rows') = Len(rows) /\ DOMAIN rows' = DOMAIN rows
      /\ \A q \in DOMAIN rows : rows'[q].user = rows[q].user
      /\ rows'[p].stage = "queued"
      /\ \A q \in DOMAIN rows : q # p => rows'[q].stage = rows[q].stage
  <2>1. "queued" \in Stages
    BY DEF Stages
  <2> QED
    BY <1>2, <1>3, <1>4, <2>1, SetStageSound
<1>6. ASSUME ~overlapped PROVE InOrder(rows', order')
  <2>1. rows[p].stage = "current"
    BY <1>1, <1>2, <1>6 DEF QueueInv, Fresh
  <2>2. Unfinished(rows') = Unfinished(rows)
    BY <1>5, <2>1 DEF Unfinished
  <2>3. UsersOf(rows', Unfinished(rows')) = UsersOf(rows, Unfinished(rows'))
    <3>1. Unfinished(rows') \subseteq Unfinished(rows)
      BY <2>2
    <3> QED
      BY <1>4, <1>5, <3>1, FewerTurns
  <2> QED
    BY <1>2, <1>4, <1>6, <2>2, <2>3 DEF InOrder
<1>7. \A q \in DOMAIN rows : rows'[q].stage = "gone" => rows[q].stage = "gone"
    BY <1>5
<1>8. RowsKept
  <2>1. ~(Len(rows') > Len(rows)) /\ MaxRows \in Nat
    <3>1. Len(rows) \in Nat
      BY <1>4, UnfinishedRows
    <3> QED
      BY <1>5, <3>1, QueueAssumption
  <2> QED
    BY <1>2, <1>4, <1>5, <1>6, <1>7, <2>1 DEF RowsKept
<1>9. OrderFollows
    BY <1>2 DEF OrderFollows
<1> QED
    BY <1>8, <1>9

\* A shuffle.
LEMMA ShuffleKeeps ==
    ASSUME QueueInv, Shuffles
    PROVE  RowsKept
<1>1. PICK f \in Injection(DOMAIN order, DOMAIN order) : Shuffle(f)
    BY DEF Shuffles
<1>2. PICK mixed : mixed = [i \in DOMAIN order |-> order[f[i]]]
    OBVIOUS
<1>3. order' = Reorder(rows, mixed) /\ rows' = rows
    BY <1>1, <1>2 DEF Shuffle
<1>4. /\ rows \in RowSeqs /\ Len(rows) <= MaxRows /\ order \in Seq(Users)
      /\ OneSpeaker(rows) /\ OneTurnEach(rows)
    BY Facts
<1>5. mixed \in Seq(Users)
  <2>1. f \in [DOMAIN order -> DOMAIN order]
    BY <1>1 DEF Injection
  <2>2. /\ Len(order) \in Nat /\ DOMAIN order = 1 .. Len(order)
        /\ \A i \in 1 .. Len(order) : order[i] \in Users
    BY <1>4, SeqIsFunction
  <2>3. mixed \in [1 .. Len(order) -> Users]
    BY <1>2, <2>1, <2>2
  <2> QED
    BY <2>2, <2>3, FunctionIsSeq
<1>6. order' \in Seq(Users) /\ InOrder(rows', order')
    BY <1>3, <1>4, <1>5, ReorderSound
<1> QED
    BY <1>3, <1>4, <1>6 DEF RowsKept

\* Steps that leave rows and order alone.
LEMMA SameKeeps ==
    ASSUME QueueInv, UNCHANGED <<rows, order>>
    PROVE  RowsKept /\ OrderFollows
<1>1. /\ rows \in RowSeqs /\ Len(rows) <= MaxRows /\ order \in Seq(Users)
      /\ OneSpeaker(rows) /\ OneTurnEach(rows) /\ (~overlapped => InOrder(rows, order))
    BY Facts
<1>2. ~(Len(rows) > Len(rows))
  <2>1. Len(rows) \in Nat
    BY <1>1, UnfinishedRows
  <2> QED
    BY <2>1
<1> QED
    BY <1>1, <1>2 DEF RowsKept, OrderFollows

\* Saving a list: the order written back is one that was read.
LEMMA UpdateKeeps ==
    ASSUME QueueInv, NEW w \in Workers, NEW isOpen, UpdateList(w, isOpen)
    PROVE  RowsKept /\ (~overlapped => OrderFollows)
<1>1. request[w].op = "update" /\ order' = request[w].order /\ rows' = rows
    BY DEF UpdateList
<1>2. order' \in Seq(Users)
    BY <1>1, RequestFacts
<1>3. /\ rows \in RowSeqs /\ Len(rows) <= MaxRows
      /\ OneSpeaker(rows) /\ OneTurnEach(rows) /\ (~overlapped => InOrder(rows, order))
    BY Facts
<1>4. ~overlapped => order' = order
    BY <1>1 DEF QueueInv, Fresh
<1>5. ~(Len(rows) > Len(rows))
  <2>1. Len(rows) \in Nat
    BY <1>3, UnfinishedRows
  <2> QED
    BY <2>1
<1> QED
    BY <1>1, <1>2, <1>3, <1>4, <1>5 DEF RowsKept, OrderFollows

\* Every step keeps the rows, and has the order follow them unless requests
\* overlap or the list is shuffled.
LEMMA StepKeeps ==
    ASSUME QueueInv, [Next]_vars
    PROVE  RowsKept /\ (overlapped' \/ Shuffles \/ OrderFollows)
<1>1. CASE UNCHANGED vars
    BY <1>1, SameKeeps DEF vars, tables
<1>2. CASE Next
  <2>1. overlapped => overlapped'
    BY <1>2 DEF Next
  <2>2. ASSUME NEW w \in Workers, NEW u \in Users, ReadEnter(w, u) \/ ReadCreate(w, u)
        PROVE  RowsKept /\ OrderFollows
    BY <2>2, SameKeeps DEF ReadEnter, ReadCreate, Read
  <2>3. ASSUME NEW w \in Workers, NEW p, NEW op, ReadSpeaker(w, op, p)
        PROVE  RowsKept /\ OrderFollows
    BY <2>3, SameKeeps DEF ReadSpeaker, Read
  <2>4. ASSUME NEW w \in Workers, \/ ReadList(w) \/ ReadCloseItem(w)
                                  \/ CloseItem(w) \/ Rollback(w)
        PROVE  RowsKept /\ OrderFollows
    BY <2>4, SameKeeps DEF ReadList, ReadCloseItem, CloseItem, Rollback, Read
  <2>5. ASSUME NEW w \in Workers, DestroySpeaker(w) PROVE RowsKept /\ OrderFollows
    <3>1. PICK p : p = request[w].pk
      OBVIOUS
    <3>2. /\ request[w].op = "destroy" /\ rows' = SetStage(rows, p, "gone")
          /\ order' = Reorder(rows', order)
      BY <2>5, <3>1 DEF DestroySpeaker, SetStage
    <3>3. p \in DOMAIN rows
      BY <3>1, <3>2, RequestFacts
    <3> QED
      BY <3>2, <3>3, DropKeeps
  <2>6. ASSUME NEW p \in DOMAIN rows, Leave(p) PROVE RowsKept /\ OrderFollows
    <3>1. rows' = SetStage(rows, p, "gone") /\ order' = Reorder(rows', order)
      BY <2>6 DEF Leave, SetStage
    <3> QED
      BY <3>1, DropKeeps
  <2>7. ASSUME \/ \E active \in BOOLEAN : SetActiveList(active)
               \/ Activate \/ Inactivate
        PROVE  RowsKept /\ OrderFollows
    BY <2>7, SameKeeps DEF SetActiveList, Activate, Inactivate
  <2>8. ASSUME NEW w \in Workers, NEW isOpen, UpdateList(w, isOpen)
        PROVE  RowsKept /\ (overlapped' \/ OrderFollows)
    BY <2>1, <2>8, UpdateKeeps
  <2>9. Step
    BY <1>2 DEF Next
  <2> QED
    BY <2>2, <2>3, <2>4, <2>5, <2>6, <2>7, <2>8, <2>9, AddKeeps, StartKeeps, StopKeeps,
       UndoKeeps, ShuffleKeeps
    DEF Step
<1> QED
    BY <1>1, <1>2

-----------------------------------------------------------------------------
(* The requests                                                            *)

\* What a request may be, when these are the rows.
Asks(what, pks) ==
    \/ what \in {Idle, [op |-> "close_item"]}
    \/ what \in [op : {"add"}, user : Users]
    \/ what \in [op : {"start", "stop", "undo", "destroy"}, pk : pks]
    \/ what.op = "update" /\ what.order \in Seq(Users)

\* A request that is taken is one a worker may have, and fresh.
LEMMA TakenIsFresh ==
    ASSUME QueueInv, NEW w \in Workers, NEW what,
           request' = [request EXCEPT ![w] = what],
           \/ \E u \in Users : what = [op |-> "add", user |-> u]
           \/ \E p \in DOMAIN rows, op \in {"start", "stop", "undo", "destroy"} :
                 what = [op |-> op, pk |-> p] /\ rows[p].stage \in SpeakerFilter(op)
           \/ what = [op |-> "update", order |-> order]
           \/ what = [op |-> "close_item"],
           UNCHANGED <<rows, order>>
    PROVE  Asks(what, DOMAIN rows) /\ what # Idle /\ Fresh(w)'
<1>1. request'[w] = what
    BY DEF QueueInv
<1>2. CASE \E u \in Users : what = [op |-> "add", user |-> u]
  <2>1. PICK u \in Users : what = [op |-> "add", user |-> u]
    BY <1>2
  <2>2. what \in [op : {"add"}, user : Users] /\ what.op = "add"
    BY <2>1
  <2> QED
    BY <1>1, <2>2 DEF Asks, Fresh, Idle
<1>3. CASE \E p \in DOMAIN rows, op \in {"start", "stop", "undo", "destroy"} :
              what = [op |-> op, pk |-> p] /\ rows[p].stage \in SpeakerFilter(op)
  <2>1. PICK p \in DOMAIN rows, op \in {"start", "stop", "undo", "destroy"} :
           what = [op |-> op, pk |-> p] /\ rows[p].stage \in SpeakerFilter(op)
    BY <1>3
  <2>2. /\ what \in [op : {"start", "stop", "undo", "destroy"}, pk : DOMAIN rows]
        /\ what.op = op /\ what.pk = p /\ op # "update"
    BY <2>1
  <2>3. /\ op = "start" => rows[p].stage = "queued"
        /\ op \in {"stop", "undo"} => rows[p].stage = "current"
    <3>1. CASE op = "start"
      <4>1. SpeakerFilter(op) = {"queued"}
        BY <3>1 DEF SpeakerFilter
      <4> QED
        BY <2>1, <3>1, <4>1
    <3>2. CASE op \in {"stop", "undo"}
      <4>1. SpeakerFilter(op) = {"current"}
        BY <3>2 DEF SpeakerFilter
      <4> QED
        BY <2>1, <3>2, <4>1
    <3> QED
      BY <3>1, <3>2
  <2> QED
    BY <1>1, <2>2, <2>3 DEF Asks, Fresh, Idle
<1>4. CASE what = [op |-> "update", order |-> order]
  <2>1. what.op = "update" /\ what.order = order
    BY <1>4
  <2>2. order \in Seq(Users)
    BY Facts
  <2> QED
    BY <1>1, <2>1, <2>2 DEF Asks, Fresh, Idle
<1>5. CASE what = [op |-> "close_item"]
  <2>1. what.op = "close_item"
    BY <1>5
  <2> QED
    BY <1>1, <1>5, <2>1 DEF Asks, Fresh, Idle
<1> QED
    BY <1>2, <1>3, <1>4, <1>5

\* A step takes a request, is done with one, or serves one without reading
\* first.
LEMMA HowServed ==
    ASSUME QueueInv, Step
    PROVE  \/ UNCHANGED request
           \/ \E w \in Workers :
                 request[w] # Idle /\ request' = [request EXCEPT ![w] = Idle]
           \/ \E w \in Workers : \E what :
                 /\ request' = [request EXCEPT ![w] = what]
                 /\ Asks(what, DOMAIN rows) /\ what # Idle /\ Fresh(w)'
<1> DEFINE Done(w) == request[w] # Idle /\ request' = [request EXCEPT ![w] = Idle]
           Taken(w, what) == /\ request' = [request EXCEPT ![w] = what]
                             /\ Asks(what, DOMAIN rows) /\ what # Idle /\ Fresh(w)'
<1>1. ASSUME NEW w \in Workers, NEW u \in Users, ReadEnter(w, u) \/ ReadCreate(w, u)
      PROVE  \E what : Taken(w, what)
  <2>1. PICK what : what = [op |-> "add", user |-> u]
    OBVIOUS
  <2>2. request' = [request EXCEPT ![w] = what] /\ UNCHANGED <<rows, order>>
    BY <1>1, <2>1 DEF ReadEnter, ReadCreate, Read
  <2> QED
    BY <2>1, <2>2, TakenIsFresh
<1>2. ASSUME NEW w \in Workers, NEW p \in DOMAIN rows,
             NEW op \in {"start", "stop", "undo", "destroy"}, ReadSpeaker(w, op, p)
      PROVE  \E what : Taken(w, what)
  <2>1. PICK what : what = [op |-> op, pk |-> p]
    OBVIOUS
  <2>2. /\ request' = [request EXCEPT ![w] = what] /\ UNCHANGED <<rows, order>>
        /\ rows[p].stage \in SpeakerFilter(op)
    BY <1>2, <2>1 DEF ReadSpeaker, Read
  <2> QED
    BY <2>1, <2>2, TakenIsFresh
<1>3. ASSUME NEW w \in Workers, ReadList(w) PROVE \E what : Taken(w, what)
  <2>1. PICK what : what = [op |-> "update", order |-> order]
    OBVIOUS
  <2>2. request' = [request EXCEPT ![w] = what] /\ UNCHANGED <<rows, order>>
    BY <1>3, <2>1 DEF ReadList, Read
  <2> QED
    BY <2>1, <2>2, TakenIsFresh
<1>4. ASSUME NEW w \in Workers, ReadCloseItem(w) PROVE \E what : Taken(w, what)
  <2>1. PICK what : what = [op |-> "close_item"]
    OBVIOUS
  <2>2. request' = [request EXCEPT ![w] = what] /\ UNCHANGED <<rows, order>>
    BY <1>4, <2>1 DEF ReadCloseItem, Read
  <2> QED
    BY <2>1, <2>2, TakenIsFresh
<1>5. ASSUME NEW w, request[w].op # "idle" PROVE request[w] # Idle
    BY <1>5 DEF Idle
<1>6. ASSUME NEW w \in Workers, \/ AddSpeaker(w) \/ DestroySpeaker(w) \/ StartSpeaker(w)
                                \/ StopSpeaker(w) \/ UndoSpeaker(w) \/ CloseItem(w)
                                \/ \E isOpen \in BOOLEAN : UpdateList(w, isOpen)
      PROVE  Done(w)
  <2>1. /\ request[w].op \in {"add", "destroy", "start", "stop", "undo", "close_item", "update"}
        /\ Finish(w)
    BY <1>6 DEF AddSpeaker, DestroySpeaker, StartSpeaker, StopSpeaker, UndoSpeaker, CloseItem,
                UpdateList
  <2> QED
    BY <1>5, <2>1 DEF Finish
<1>7. ASSUME NEW w \in Workers, Rollback(w) PROVE Done(w)
    BY <1>7 DEF Rollback, Finish
<1>8. ASSUME \/ \E p \in DOMAIN rows : Leave(p)
             \/ Shuffles
             \/ \E active \in BOOLEAN : SetActiveList(active)
             \/ Activate \/ Inactivate
      PROVE  UNCHANGED request
    BY <1>8 DEF Leave, Shuffles, Shuffle, SetActiveList, Activate, Inactivate
<1> HIDE DEF Done, Taken
<1>9. \/ UNCHANGED request
      \/ \E w \in Workers : Done(w)
      \/ \E w \in Workers : \E what : Taken(w, what)
    BY <1>1, <1>2, <1>3, <1>4, <1>6, <1>7, <1>8 DEF Step
<1> QED
    BY <1>9 DEF Done, Taken

\* Requests stay what workers may have, and fresh as long as they come one by
\* one.
LEMMA RequestsKept ==
    ASSUME QueueInv, [Next]_vars
    PROVE  /\ request' = [w \in Workers |-> request'[w]]
           /\ \A w \in Workers : Asks(request'[w], DOMAIN rows')
           /\ ~overlapped' => /\ \A v, w \in InFlight' : v = w
                              /\ \A w \in Workers : Fresh(w)'
<1>1. /\ \A w \in Workers : Asks(request[w], DOMAIN rows)
      /\ request = [w \in Workers |-> request[w]]
      /\ ~overlapped => /\ \A v, w \in InFlight : v = w
                        /\ \A w \in Workers : Fresh(w)
    BY DEF QueueInv, TypeOK, Asks
<1>2. DOMAIN rows \subseteq DOMAIN rows'
    BY StepKeeps DEF RowsKept
<1>3. \A what : Asks(what, DOMAIN rows) => Asks(what, DOMAIN rows')
    BY <1>2 DEF Asks
<1>4. ASSUME NEW w, request'[w] = Idle PROVE Fresh(w)'
  <2>1. Idle.op = "idle"
    BY DEF Idle
  <2> QED
    BY <1>4, <2>1 DEF Fresh
<1>5. CASE UNCHANGED vars
    BY <1>1, <1>5 DEF vars, tables, InFlight, Fresh
<1>6. CASE Next
  <2>1. Step /\ (~overlapped' => ~overlapped /\ ~Overlap)
    BY <1>6 DEF Next
  <2>2. ASSUME ~overlapped' PROVE \A v, w \in InFlight' : v = w
    BY <2>1, <2>2 DEF Overlap
  <2>3. ASSUME NEW w \in Workers, request[w] # Idle, request' = [request EXCEPT ![w] = Idle]
        PROVE  /\ request' = [x \in Workers |-> request'[x]]
               /\ \A x \in Workers : Asks(request'[x], DOMAIN rows')
               /\ ~overlapped' => \A x \in Workers : Fresh(x)'
    <3>1. /\ request' = [x \in Workers |-> request'[x]]
          /\ request'[w] = Idle /\ \A x \in Workers : x # w => request'[x] = request[x]
      BY <1>1, <2>3
    <3>2. \A x \in Workers : Asks(request'[x], DOMAIN rows')
      <4>1. Asks(Idle, DOMAIN rows')
        BY DEF Asks
      <4> QED
        BY <1>1, <1>3, <3>1, <4>1
    <3>3. ASSUME ~overlapped', NEW x \in Workers PROVE Fresh(x)'
      <4>1. x # w => request[x] = Idle
        BY <1>1, <2>1, <2>3, <3>3 DEF InFlight
      <4> QED
        BY <1>4, <3>1, <4>1
    <3> QED
      BY <3>1, <3>2, <3>3
  <2>4. ASSUME NEW w \in Workers, NEW what, request' = [request EXCEPT ![w] = what],
               Asks(what, DOMAIN rows), what # Idle, Fresh(w)'
        PROVE  /\ request' = [x \in Workers |-> request'[x]]
               /\ \A x \in Workers : Asks(request'[x], DOMAIN rows')
               /\ ~overlapped' => \A x \in Workers : Fresh(x)'
    <3>1. /\ request' = [x \in Workers |-> request'[x]]
          /\ request'[w] = what /\ \A x \in Workers : x # w => request'[x] = request[x]
      BY <1>1, <2>4
    <3>2. \A x \in Workers : Asks(request'[x], DOMAIN rows')
      BY <1>1, <1>3, <2>4, <3>1
    <3>3. ASSUME ~overlapped', NEW x \in Workers PROVE Fresh(x)'
      <4>1. CASE x = w
        BY <2>4, <4>1
      <4>2. CASE x # w /\ request'[x] = Idle
        BY <1>4, <4>2
      <4>3. CASE x # w /\ request'[x] # Idle
        BY <2>2, <2>4, <3>1, <3>3, <4>3 DEF InFlight
      <4> QED
        BY <4>1, <4>2, <4>3
    <3> QED
      BY <3>1, <3>2, <3>3
  <2>5. /\ request' = [w \in Workers |-> request'[w]]
        /\ \A w \in Workers : Asks(request'[w], DOMAIN rows')
        /\ ~overlapped' => \A w \in Workers : Fresh(w)'
    <3>1. CASE UNCHANGED request
      <4>1. ASSUME ~overlapped' PROVE \A w \in Workers : Fresh(w)'
        <5>1. InFlight = {}
          BY <2>1, <3>1, <4>1 DEF Overlap
        <5>2. \A w \in Workers : request'[w] = Idle
          BY <3>1, <5>1 DEF InFlight
        <5> QED
          BY <1>4, <5>2
      <4> QED
        BY <1>1, <1>3, <3>1, <4>1
    <3> QED
      BY <2>1, <2>3, <2>4, <3>1, HowServed
  <2> QED
    BY <2>2, <2>5
<1> QED
    BY <1>5, <1>6

\* The list and its system keep their types.
LEMMA PlainTypes ==
    ASSUME QueueInv, [Next]_vars
    PROVE  /\ open' \in BOOLEAN /\ overlapped' \in BOOLEAN
           /\ system' \in [state : {"active", "inactive"}, active_list : BOOLEAN]
<1>1. /\ open \in BOOLEAN /\ overlapped \in BOOLEAN
      /\ system \in [state : {"active", "inactive"}, active_list : BOOLEAN]
    BY DEF QueueInv, TypeOK
<1>2. CASE UNCHANGED vars
    BY <1>1, <1>2 DEF vars, tables
<1>3. CASE Next
  <2>1. overlapped' \in BOOLEAN
    BY <1>3 DEF Next
  <2>2. open' = open \/ \E isOpen \in BOOLEAN : open' = isOpen
    BY <1>3 DEF Next, Step, ReadEnter, ReadCreate, ReadSpeaker, ReadList, ReadCloseItem, Read,
                AddSpeaker, DestroySpeaker, StartSpeaker, StopSpeaker, UndoSpeaker, UpdateList,
                CloseItem, Rollback, Leave, Shuffles, Shuffle, SetActiveList, Activate, Inactivate
  <2>3. \/ system' = system
        \/ \E active \in BOOLEAN : system' = [system EXCEPT !.active_list = active]
        \/ system' = [system EXCEPT !.state = "active"]
        \/ system' = [state |-> "inactive", active_list |-> FALSE]
    BY <1>3 DEF Next, Step, ReadEnter, ReadCreate, ReadSpeaker, ReadList, ReadCloseItem, Read,
                AddSpeaker, DestroySpeaker, StartSpeaker, StopSpeaker, UndoSpeaker, UpdateList,
                CloseItem, Rollback, Leave, Shuffles, Shuffle, SetActiveList, Activate, Inactivate
  <2>4. system' \in [state : {"active", "inactive"}, active_list : BOOLEAN]
    <3>1. PICK T : T = [state : {"active", "inactive"}, active_list : BOOLEAN]
      OBVIOUS
    <3>2. \A s \in T, active \in BOOLEAN : [s EXCEPT !.active_list = active] \in T
      BY <3>1
    <3>3. \A s \in T : [s EXCEPT !.state = "active"] \in T
      BY <3>1
    <3>4. [state |-> "inactive", active_list |-> FALSE] \in T
      BY <3>1
    <3>5. system \in T
      BY <1>1, <3>1
    <3>6. CASE \E active \in BOOLEAN : system' = [system EXCEPT !.active_list = active]
      <4>1. PICK active \in BOOLEAN : system' = [system EXCEPT !.active_list = active]
        BY <3>6
      <4> QED
        BY <3>1, <3>2, <3>5, <4>1, Zenon
    <3>7. CASE system' = [system EXCEPT !.state = "active"]
      BY <3>1, <3>3, <3>5, <3>7, Zenon
    <3> QED
      BY <2>3, <3>1, <3>4, <3>5, <3>6, <3>7, Zenon
  <2> QED
    BY <1>1, <2>1, <2>2, <2>4
<1> QED
    BY <1>2, <1>3

\* At first nobody is in the list and nothing is being served.
LEMMA QueueInit ==
    ASSUME Init
    PROVE  QueueInv
<1>1. /\ rows = <<>> /\ order = <<>> /\ overlapped = FALSE
      /\ request = [w \in Workers |-> Idle] /\ open = TRUE
      /\ system = [state |-> "active", active_list |-> FALSE]
    BY DEF Init
<1>2. /\ rows \in RowSeqs /\ Len(rows) = 0 /\ DOMAIN rows = {} /\ order \in Seq(Users)
      /\ DOMAIN order = {}
    BY <1>1 DEF RowSeqs
<1>3. /\ request = [w \in Workers |-> request[w]]
      /\ \A w \in Workers : request[w] = Idle
    BY <1>1
<1>4. TypeOK
  <2>1. Len(rows) <= MaxRows
    BY <1>2, QueueAssumption
  <2>2. /\ open \in BOOLEAN /\ overlapped \in BOOLEAN
        /\ system \in [state : {"active", "inactive"}, active_list : BOOLEAN]
    BY <1>1
  <2> QED
    BY <1>2, <1>3, <2>1, <2>2 DEF TypeOK, RowSeqs
<1>5. Unfinished(rows) = {} /\ Current(rows) = {}
    BY <1>2 DEF Unfinished, Current
<1>6. Constraints(rows)
  <2>1. Cardinality({}) = 0
    BY FS_EmptySet
  <2> QED
    BY <1>5, <2>1 DEF Constraints, OneSpeaker, OneTurnEach
<1>7. InOrder(rows, order)
    BY <1>2, <1>5 DEF InOrder, IsInjective, Range, UsersOf
<1>8. InFlight = {}
    BY <1>3 DEF InFlight
<1>9. \A w \in Workers : Fresh(w)
    BY <1>3 DEF Fresh, Idle
<1> QED
    BY <1>3, <1>4, <1>6, <1>7, <1>8, <1>9 DEF QueueInv

\* Every step keeps the invariant.
LEMMA QueueNext ==
    ASSUME QueueInv, [Next]_vars
    PROVE  QueueInv'
<1>1. RowsKept
    BY StepKeeps
<1>2. /\ rows' \in RowSeqs /\ Len(rows') <= MaxRows /\ order' \in Seq(Users)
      /\ OneSpeaker(rows') /\ OneTurnEach(rows')
      /\ ~overlapped => InOrder(rows', order')
    BY <1>1 DEF RowsKept
<1>3. overlapped => overlapped'
  <2>1. CASE Next
    BY <2>1 DEF Next
  <2>2. CASE UNCHANGED vars
    BY <2>2 DEF vars
  <2> QED
    BY <2>1, <2>2
<1>4. /\ request' = [w \in Workers |-> request'[w]]
      /\ \A w \in Workers : Asks(request'[w], DOMAIN rows')
      /\ ~overlapped' => /\ \A v, w \in InFlight' : v = w
                         /\ \A w \in Workers : Fresh(w)'
    BY RequestsKept
<1>5. TypeOK'
  <2>1. /\ open' \in BOOLEAN /\ overlapped' \in BOOLEAN
        /\ system' \in [state : {"active", "inactive"}, active_list : BOOLEAN]
    BY PlainTypes
  <2>2. \A w \in Workers :
          \/ request'[w] \in {Idle, [op |-> "close_item"]}
          \/ request'[w] \in [op : {"add"}, user : Users]
          \/ request'[w] \in [op : {"start", "stop", "undo", "destroy"}, pk : DOMAIN rows']
          \/ request'[w].op = "update" /\ request'[w].order \in Seq(Users)
    BY <1>4 DEF Asks
  <2> QED
    BY <1>2, <2>1, <2>2 DEF TypeOK, RowSeqs
<1>6. Constraints(rows)'
    BY <1>2 DEF Constraints
<1> QED
    BY <1>2, <1>3, <1>4, <1>5, <1>6 DEF QueueInv

-----------------------------------------------------------------------------
(* The theorems                                                            *)

\* Whatever requests overlap, the rows satisfy the constraints of the table;
\* while they come one by one, the order is the queue and every request holds
\* what the tables say.
THEOREM QueueInvariant == Spec => []QueueInv
<1>1. Init => QueueInv
    BY QueueInit
<1>2. QueueInv /\ [Next]_vars => QueueInv'
    BY QueueNext
<1> QED
    BY <1>1, <1>2, PTL DEF Spec

\* The order clients are sent is the queue as long as no requests overlap, and
\* a start is never refused because somebody speaks.
THEOREM SoundQueue == Spec => []QueueIsSound
<1>1. ASSUME QueueInv PROVE QueueIsSound
  <2>1. TypeOK /\ QueueIsInOrder
    BY <1>1 DEF QueueInv, QueueIsInOrder
  <2>2. ASSUME NEW w \in Workers, request[w].op = "start"
        PROVE  OneSpeaker(Started(rows, request[w].pk))
    <3>1. request[w].pk \in DOMAIN rows /\ rows \in RowSeqs
      BY <1>1, <2>2, RequestFacts, Facts
    <3>2. PICK p, new : p = request[w].pk /\ new = Started(rows, p)
      OBVIOUS
    <3>3. OneSpeaker(new)
      BY <3>1, <3>2, StartedSound
    <3> QED
      BY <3>2, <3>3
  <2> QED
    BY <2>1, <2>2 DEF QueueIsSound, StartReplacesSpeaker
<1> QED
    BY <1>1, QueueInvariant, PTL

\* Reordering a list alternates: after two in a row who are not prioritised,
\* nobody prioritised who has spoken as often as the second waits.
THEOREM EverySecond == Spec => []EverySecondIsPrioritised
<1>1. ASSUME QueueInv PROVE EverySecondIsPrioritised
  <2>1. SUFFICES ASSUME Method = "gender_prio", ~overlapped,
                        NEW new, new = Reorder(rows, order),
                        NEW inc, inc = Incoming(rows, order),
                        NEW safe, safe = SafeCount(rows, inc),
                        NEW i \in DOMAIN new, NEW j \in DOMAIN new,
                        i >= safe, i + 1 < j,
                        {new[i], new[i + 1]} \cap Prioritised = {},
                        SpokenCount(rows, new[j]) = SpokenCount(rows, new[i + 1])
                 PROVE  new[j] \notin Prioritised
    BY Zenon DEF EverySecondIsPrioritised
  <2>2. rows \in RowSeqs /\ OneTurnEach(rows) /\ order \in Seq(Users)
    BY <1>1, Facts
  <2>3. /\ new \in Seq(Users)
        /\ \A a, b \in DOMAIN new :
              /\ safe < a /\ 1 < a /\ a < b
              /\ new[a - 1] \notin Prioritised /\ new[a] \notin Prioritised
              /\ SpokenCount(rows, new[b]) = SpokenCount(rows, new[a])
              => new[b] \notin Prioritised
    BY <2>1, <2>2, ReorderSound
  <2>4. safe \in Nat
    <3>1. inc \in Seq(Users)
      BY <2>1, <2>2, IncomingSound
    <3>2. safe \in 0 .. Len(inc)
      BY <2>1, <3>1, SafeCountSound
    <3> QED
      BY <3>1, <3>2
  <2>5. DOMAIN new = 1 .. Len(new) /\ Len(new) \in Nat
    BY <2>3, SeqIsFunction
  <2>6. PICK a : a = i + 1
    OBVIOUS
  <2>7. a \in DOMAIN new /\ safe < a /\ 1 < a /\ a < j /\ a - 1 = i
    BY <2>1, <2>4, <2>5, <2>6
  <2>8. new[a - 1] \notin Prioritised /\ new[a] \notin Prioritised
    BY <2>1, <2>6, <2>7
  <2> QED
    BY <2>1, <2>3, <2>6, <2>7, <2>8
<1> QED
    BY <1>1, QueueInvariant, PTL

\* However stale overlapping requests have left the order, it is the queue
\* again once somebody enters or leaves the list.
THEOREM Repairs == Spec => ReorderRepairs
<1>1. ASSUME QueueInv, [Next]_vars
      PROVE  (\/ Len(rows') > Len(rows)
              \/ \E p \in DOMAIN rows : rows'[p].stage = "gone" /\ rows[p].stage # "gone")
             => InOrder(rows', order')
    BY <1>1, StepKeeps DEF RowsKept
<1> QED
    BY <1>1, QueueInvariant, PTL DEF Spec, ReorderRepairs

\* Unless the list is shuffled, nobody is overtaken but for a reason that the
\* method gives.
THEOREM Overtaking == Spec => OvertakingHasAReason
<1>1. ASSUME QueueInv, [Next]_vars, ~Shuffles, ~overlapped',
             NEW u \in Users, NEW v \in Users,
             u \in Range(order), Ahead(order', v, u), ~Ahead(order, v, u)
      PROVE  Reason(rows', v, u)
  <2>1. RowsKept /\ OrderFollows
    BY <1>1, StepKeeps
  <2>2. order' # order
    BY <1>1
  <2>3. ASSUME NEW us, order' = Without(order, us) PROVE FALSE
    BY <1>1, <2>3, Facts, WithoutSound
  <2>4. order' = Reorder(rows', order)
    BY <2>1, <2>2, <2>3 DEF OrderFollows
  <2>5. PICK inc, n : inc = Incoming(rows', order) /\ n = SafeCount(rows', inc)
    OBVIOUS
  <2>6. order \in Seq(Users) /\ rows' \in RowSeqs /\ OneTurnEach(rows')
    BY <1>1, <2>1, Facts DEF RowsKept
  <2>7. Ahead(inc, v, u) \/ Reason(rows', v, u)
    BY <1>1, <2>4, <2>5, <2>6, ReorderSound
  <2>8. ~Ahead(inc, v, u)
    BY <1>1, <2>5, <2>6, IncomingSound
  <2> QED
    BY <2>7, <2>8
<1>2. ASSUME QueueInv, [Next]_vars
      PROVE  \/ Shuffles \/ overlapped'
             \/ \A u, v \in Users :
                   u \in Range(order) /\ Ahead(order', v, u) /\ ~Ahead(order, v, u) =>
                      \/ /\ Method # "simple"
                         /\ SpokenCount(rows', v) < SpokenCount(rows', u)
                      \/ /\ Method = "gender_prio"
                         /\ SpokenCount(rows', v) = SpokenCount(rows', u)
                         /\ v \in Prioritised /\ u \notin Prioritised
    BY <1>1, <1>2 DEF Reason
<1> QED
    BY <1>2, QueueInvariant, PTL DEF Spec, OvertakingHasAReason

\* Somebody whom nobody has passed on the way from one order into another
\* stands no later in it, and earlier when one who was ahead is not in it.
LEMMA NoLater ==
    ASSUME NEW ord \in Seq(Users), IsInjective(ord), NEW inc \in Seq(Users), IsInjective(inc),
           NEW i \in DOMAIN ord, NEW c \in DOMAIN inc, inc[c] = ord[i],
           \A v : Ahead(inc, v, ord[i]) => Ahead(ord, v, ord[i])
    PROVE  /\ c <= i
           /\ \A j \in DOMAIN ord : j < i /\ ord[j] \notin Range(inc) => c < i
<1> DEFINE S == 1 .. (c - 1)
           T == 1 .. (i - 1)
           at == [k \in S |-> CHOOSE l \in T : ord[l] = inc[k]]
<1>1. /\ DOMAIN ord = 1 .. Len(ord) /\ DOMAIN inc = 1 .. Len(inc)
      /\ Len(ord) \in Nat /\ Len(inc) \in Nat /\ i \in Nat /\ c \in Nat /\ 1 <= i /\ 1 <= c
    BY SeqIsFunction
<1>2. \A k \in S : k \in DOMAIN inc /\ k < c
    BY <1>1
<1>3. \A l \in T : l \in DOMAIN ord /\ l < i
    BY <1>1
<1>4. ASSUME NEW k \in S PROVE \E l \in T : ord[l] = inc[k]
  <2>1. Ahead(inc, inc[k], ord[i])
    BY <1>2 DEF Ahead
  <2>2. PICK a \in DOMAIN ord, b \in DOMAIN ord : a < b /\ ord[a] = inc[k] /\ ord[b] = ord[i]
    BY <2>1 DEF Ahead
  <2>3. b = i
    BY <2>2 DEF IsInjective
  <2>4. a \in T
    BY <1>1, <2>2, <2>3
  <2> QED
    BY <2>2, <2>4
<1>5. \A k \in S : at[k] \in T /\ ord[at[k]] = inc[k]
    BY <1>4
<1>6. at \in [S -> T]
    BY <1>5
<1>7. /\ IsFiniteSet(S) /\ Cardinality(S) = c - 1
      /\ IsFiniteSet(T) /\ Cardinality(T) = i - 1
  <2>1. ASSUME NEW n \in Nat, n >= 1
        PROVE  IsFiniteSet(1 .. (n - 1)) /\ Cardinality(1 .. (n - 1)) = n - 1
    <3>1. 1 \in Int /\ n - 1 \in Int
      OBVIOUS
    <3>2. /\ IsFiniteSet(1 .. (n - 1))
          /\ Cardinality(1 .. (n - 1)) = IF 1 > n - 1 THEN 0 ELSE (n - 1) - 1 + 1
      BY <3>1, FS_Interval
    <3>3. (IF 1 > n - 1 THEN 0 ELSE (n - 1) - 1 + 1) = n - 1
      BY <2>1
    <3> QED
      BY <3>2, <3>3
  <2> QED
    BY <1>1, <2>1
<1> HIDE DEF S, T, at
<1>8. \A k, l \in S : at[k] = at[l] => k = l
  <2>1. SUFFICES ASSUME NEW k \in S, NEW l \in S, at[k] = at[l] PROVE k = l
    OBVIOUS
  <2>2. inc[k] = inc[l]
    BY <1>5, <2>1
  <2> QED
    BY <1>2, <2>2 DEF IsInjective
<1>9. c <= i
  <2>1. SUFFICES ASSUME ~(c <= i) PROVE FALSE
    OBVIOUS
  <2>2. Cardinality(T) < Cardinality(S)
    BY <1>1, <1>7, <2>1
  <2>3. \E k, l \in S : k # l /\ at[k] = at[l]
    BY <1>6, <1>7, <2>2, FS_PigeonHole
  <2> QED
    BY <1>8, <2>3
<1>10. ASSUME NEW j \in DOMAIN ord, j < i, ord[j] \notin Range(inc) PROVE c < i
  <2>1. SUFFICES ASSUME ~(c < i) PROVE FALSE
    OBVIOUS
  <2>2. j \in T
    BY <1>1, <1>10 DEF T
  <2>3. IsFiniteSet(T \ {j}) /\ Cardinality(T \ {j}) = i - 2
    <3>1. IsFiniteSet(T \ {j}) /\ Cardinality(T \ {j}) = Cardinality(T) - 1
      BY <1>7, <2>2, FS_RemoveElement
    <3> QED
      BY <1>1, <1>7, <3>1
  <2>4. at \in [S -> T \ {j}]
    <3>1. ASSUME NEW k \in S PROVE at[k] # j
      <4>1. inc[k] \in Range(inc)
        BY <1>2 DEF Range
      <4> QED
        BY <1>5, <1>10, <4>1
    <3> QED
      BY <1>6, <3>1
  <2>5. Cardinality(T \ {j}) < Cardinality(S)
    BY <1>1, <1>7, <2>1, <2>3
  <2>6. \E k, l \in S : k # l /\ at[k] = at[l]
    <3>1. PICK U : U = T \ {j}
      OBVIOUS
    <3>2. IsFiniteSet(U) /\ Cardinality(U) < Cardinality(S) /\ at \in [S -> U]
      BY <2>3, <2>4, <2>5, <3>1
    <3> QED
      BY <1>7, <3>2, FS_PigeonHole
  <2> QED
    BY <1>8, <2>6
<1> QED
    BY <1>9, <1>10

\* Reordering for the new rows lets nobody pass one in a safe position.
LEMMA ReorderIsSafe ==
    ASSUME QueueInv, ~overlapped, RowsKept, order' = Reorder(rows', order),
           \A p \in Current(rows) :
               \/ p \in Current(rows') /\ rows'[p].user = rows[p].user
               \/ rows[p].user \notin UsersOf(rows', Unfinished(rows')),
           NEW i \in DOMAIN order, NEW v, InSafePosition(i), Ahead(order', v, order[i])
    PROVE  Ahead(order, v, order[i])
<1>1. PICK inc, n : inc = Incoming(rows', order) /\ n = SafeCount(rows', inc)
    OBVIOUS
<1>2. /\ order \in Seq(Users) /\ rows' \in RowSeqs /\ OneTurnEach(rows')
      /\ IsInjective(order) /\ InOrder(rows', order')
    BY Facts DEF RowsKept, InOrder
<1>3. /\ inc \in Seq(Users) /\ InOrder(rows', inc)
      /\ \A u \in Range(order) : \A x : Ahead(inc, x, u) => Ahead(order, x, u)
    BY <1>1, <1>2, IncomingSound
<1>4. \A k \in 1 .. n : \A x : Ahead(order', x, inc[k]) => Ahead(inc, x, inc[k])
    BY <1>1, <1>2, ReorderSound
<1>5. IsInjective(inc) /\ Range(inc) = Range(order') /\ order[i] \in Range(order)
    BY <1>2, <1>3 DEF InOrder, Range
<1>6. PICK c \in DOMAIN inc : inc[c] = order[i]
  <2>1. order[i] \in Range(order')
    BY DEF Ahead, Range
  <2> QED
    BY <1>5, <2>1 DEF Range
<1>7. /\ c <= i
      /\ \A j \in DOMAIN order : j < i /\ order[j] \notin Range(inc) => c < i
    BY <1>2, <1>3, <1>5, <1>6, NoLater
<1>8. /\ DOMAIN inc = 1 .. Len(inc) /\ Len(inc) \in Nat /\ c \in Nat /\ 1 <= c /\ c <= Len(inc)
      /\ DOMAIN order = 1 .. Len(order) /\ Len(order) \in Nat /\ i \in Nat
    BY <1>2, <1>3, SeqIsFunction
<1>9. /\ n \in 0 .. Len(inc)
      /\ n < SafePositions => n = Len(inc)
      /\ (\E k \in 1 .. Len(inc) :
               k <= SafePositions /\ inc[k] \in UsersOf(rows', Current(rows')))
         => n = SafePositions + 1 \/ n = Len(inc)
    BY <1>1, <1>3, SafeCountSound
<1>10. SafePositions \in Nat /\ n \in Nat /\ n <= Len(inc)
  <2>1. n \in 0 .. Len(inc)
    BY <1>9
  <2> QED
    BY <1>8, <2>1, QueueAssumption
<1>11. c <= n
  <2>1. CASE c <= SafePositions
    <3>1. n < SafePositions => n = Len(inc)
      BY <1>9
    <3>2. PICK m \in Nat : m = Len(inc)
      BY <1>8
    <3>3. c <= m /\ c \in Nat /\ (n < SafePositions => n = m)
      BY <1>8, <3>1, <3>2
    <3> QED
      BY <1>10, <2>1, <3>3
  <2>2. CASE ~(c <= SafePositions)
    <3>1. i = SafePositions + 1 /\ c = i
      BY <1>7, <1>8, <1>10, <2>2 DEF InSafePosition
    <3>2. PICK j \in 1 .. SafePositions : order[j] \in UsersOf(rows, Current(rows))
      BY <1>8, <1>10, <3>1 DEF InSafePosition
    <3>3. j \in DOMAIN order /\ j < i /\ j \in Nat /\ j <= SafePositions
      BY <1>8, <1>10, <3>1
    <3>4. order[j] \in Range(inc)
      BY <1>7, <1>8, <3>1, <3>3
    <3>5. PICK p \in Current(rows) : order[j] = rows[p].user
      BY <3>2 DEF UsersOf
    <3>6. order[j] \in UsersOf(rows', Unfinished(rows'))
      BY <1>3, <3>4 DEF InOrder
    <3>7. p \in Current(rows') /\ rows'[p].user = order[j]
      BY <3>5, <3>6
    <3>8. PICK k \in DOMAIN inc : inc[k] = order[j]
      BY <3>4 DEF Range
    <3>9. \A x : Ahead(inc, x, order[j]) => Ahead(order, x, order[j])
      <4>1. order[j] \in Range(order)
        BY <3>3 DEF Range
      <4> QED
        BY <1>3, <4>1
    <3>10. k <= j
      BY <1>2, <1>3, <1>5, <3>3, <3>8, <3>9, NoLater
    <3>11. k \in 1 .. Len(inc) /\ k <= SafePositions
      BY <1>8, <1>10, <3>3, <3>10
    <3>12. inc[k] \in UsersOf(rows', Current(rows'))
      BY <3>7, <3>8 DEF UsersOf
    <3>13. n = SafePositions + 1 \/ n = Len(inc)
      BY <1>9, <3>11, <3>12
    <3>14. PICK m \in Nat : m = Len(inc)
      BY <1>8
    <3>15. c <= m /\ c \in Nat /\ (n = SafePositions + 1 \/ n = m)
      BY <1>8, <3>13, <3>14
    <3> QED
      BY <1>10, <3>1, <3>15
  <2> QED
    BY <2>1, <2>2
<1>12. c \in 1 .. n
  <2>1. c \in Nat /\ 1 <= c /\ n \in Nat
    BY <1>8, <1>10
  <2> QED
    BY <1>11, <2>1
<1>13. Ahead(inc, v, order[i])
  <2>1. Ahead(order', v, inc[c])
    BY <1>6
  <2>2. Ahead(inc, v, inc[c])
    BY <1>4, <1>12, <2>1
  <2> QED
    BY <1>6, <2>2
<1> QED
    BY <1>3, <1>5, <1>13

\* Only a shuffle puts somebody ahead of one in a safe position.
THEOREM SafeSpeakers == Spec => SafeSpeakersNotOvertaken
<1>1. ASSUME QueueInv, [Next]_vars, ~Shuffles, ~overlapped',
             NEW i \in DOMAIN order, NEW v \in Users,
             InSafePosition(i), Ahead(order', v, order[i])
      PROVE  Ahead(order, v, order[i])
  <2>1. RowsKept /\ OrderFollows
    BY <1>1, StepKeeps
  <2>2. ~overlapped
    <3>1. CASE Next
      BY <1>1, <3>1 DEF Next
    <3>2. CASE UNCHANGED vars
      BY <1>1, <3>2 DEF vars
    <3> QED
      BY <1>1, <3>1, <3>2
  <2>3. CASE order' = order
    BY <1>1, <2>3
  <2>4. CASE \E us : order' = Without(order, us)
    <3>1. PICK us : order' = Without(order, us)
      BY <2>4
    <3> QED
      BY <1>1, <3>1, Facts, WithoutSound
  <2>5. CASE /\ order' = Reorder(rows', order)
             /\ \A p \in Current(rows) :
                   \/ p \in Current(rows') /\ rows'[p].user = rows[p].user
                   \/ rows[p].user \notin UsersOf(rows', Unfinished(rows'))
    BY <1>1, <2>1, <2>2, <2>5, ReorderIsSafe
  <2> QED
    BY <2>1, <2>3, <2>4, <2>5 DEF OrderFollows
<1>2. ASSUME QueueInv, [Next]_vars
      PROVE  \/ Shuffles \/ overlapped'
             \/ \A i \in DOMAIN order, v \in Users :
                   InSafePosition(i) /\ Ahead(order', v, order[i])
                      => Ahead(order, v, order[i])
    BY <1>1, <1>2
<1> QED
    BY <1>2, QueueInvariant, PTL DEF Spec, SafeSpeakersNotOvertaken

=============================================================================
