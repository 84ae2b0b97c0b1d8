------------------------ MODULE FungibleForge_proofs ------------------------
(***************************************************************************)
(* Theorems about FungibleForge for every value of its constants.          *)
(***************************************************************************)
EXTENDS FungibleForge, FiniteSetTheorems, SequenceTheorems, WellFoundedInduction, TLAPS

-----------------------------------------------------------------------------
(* Facts about RemoveAt, with which the model settles a pending write.     *)
(* What remains when the i-th element is removed.                          *)
LEMMA RemoveAtFacts ==
    ASSUME NEW S, NEW q \in Seq(S), NEW i \in 1..Len(q)
    PROVE  /\ RemoveAt(q, i) \in Seq(S)
           /\ Len(RemoveAt(q, i)) = Len(q) - 1
           /\ \A j \in 1..(Len(q) - 1) :
                 RemoveAt(q, i)[j] = IF j < i THEN q[j] ELSE q[j + 1]
<1> DEFINE a == SubSeq(q, 1, i - 1)
           b == SubSeq(q, i + 1, Len(q))
<1>1. /\ a \in Seq(S) /\ Len(a) = i - 1
      /\ \A j \in 1..(i - 1) : a[j] = q[j]
  BY SubSeqProperties, ElementOfSeq, LenProperties
<1>2. /\ b \in Seq(S) /\ Len(b) = Len(q) - i
      /\ \A j \in 1..(Len(q) - i) : b[j] = q[i + j]
  BY SubSeqProperties, ElementOfSeq, LenProperties
<1>3. /\ a \o b \in Seq(S)
      /\ Len(a \o b) = Len(a) + Len(b)
      /\ \A j \in 1..(Len(a) + Len(b)) :
            (a \o b)[j] = IF j <= Len(a) THEN a[j] ELSE b[j - Len(a)]
  BY <1>1, <1>2, ConcatProperties
<1>4. RemoveAt(q, i) = a \o b
  BY DEF RemoveAt
<1>5. Len(q) \in Nat
  BY LenProperties
<1> HIDE DEF a, b
<1>6. Len(a \o b) = Len(q) - 1
  BY <1>1, <1>2, <1>3, <1>5
<1>7. ASSUME NEW j \in 1..(Len(q) - 1)
      PROVE  (a \o b)[j] = IF j < i THEN q[j] ELSE q[j + 1]
  <2>1. CASE j < i
    BY <2>1, <1>1, <1>2, <1>3, <1>5
  <2>2. CASE ~(j < i)
    <3>1. (a \o b)[j] = b[j - (i - 1)]
      BY <2>2, <1>1, <1>2, <1>3, <1>5
    <3>2. j - (i - 1) \in 1..(Len(q) - i) /\ i + (j - (i - 1)) = j + 1
      BY <2>2, <1>5
    <3> QED BY <3>1, <3>2, <2>2, <1>2
  <2> QED BY <2>1, <2>2
<1> QED BY <1>3, <1>4, <1>6, <1>7

(* Removing the first element shifts the others.                           *)
LEMMA RemoveOldest ==
    ASSUME NEW S, NEW q \in Seq(S), Len(q) > 0
    PROVE  /\ RemoveAt(q, 1) \in Seq(S)
           /\ Len(RemoveAt(q, 1)) = Len(q) - 1
           /\ \A j \in 1..(Len(q) - 1) : RemoveAt(q, 1)[j] = q[j + 1]
<1>1. Len(q) \in Nat /\ 1 \in 1..Len(q)
  BY LenProperties
<1>2. /\ RemoveAt(q, 1) \in Seq(S)
      /\ Len(RemoveAt(q, 1)) = Len(q) - 1
      /\ \A j \in 1..(Len(q) - 1) : RemoveAt(q, 1)[j] = IF j < 1 THEN q[j] ELSE q[j + 1]
  BY <1>1, RemoveAtFacts
<1> QED BY <1>1, <1>2
-----------------------------------------------------------------------------
(* Sequences.                                                              *)

LEMMA SeqUpToType ==
    ASSUME NEW S, NEW n \in Nat, NEW x \in SeqUpTo(S, n)
    PROVE  x \in Seq(S) /\ Len(x) \in 0..n
  BY DEF SeqUpTo

LEMMA AbandonFacts ==
    ASSUME NEW q \in Seq(Write), NEW s
    PROVE  /\ Abandon(q, s) \in Seq(Write)
           /\ Len(Abandon(q, s)) = Len(q)
           /\ \A j \in 1..Len(q) :
                 /\ Abandon(q, s)[j].snap = q[j].snap
                 /\ Abandon(q, s)[j].by = IF q[j].by = s THEN "orphan" ELSE q[j].by
<1> DEFINE f == Abandon(q, s)
<1>1. /\ DOMAIN q = 1..Len(q) /\ Len(q) \in Nat
      /\ \A j \in 1..Len(q) : q[j] \in Write
  BY LenProperties, ElementOfSeq
<1>2. f = [j \in 1..Len(q) |-> IF q[j].by = s THEN [q[j] EXCEPT !.by = "orphan"] ELSE q[j]]
  BY <1>1 DEF Abandon
<1>3. \A j \in 1..Len(q) :
        /\ f[j] \in Write
        /\ f[j].snap = q[j].snap
        /\ f[j].by = IF q[j].by = s THEN "orphan" ELSE q[j].by
  BY <1>1, <1>2 DEF Write
<1>4. f \in [1..Len(q) -> Write]
  BY <1>2, <1>3
<1>5. f \in Seq(Write) /\ Len(f) = Len(q)
  BY <1>1, <1>4, SeqDef, LenProperties
<1> QED BY <1>3, <1>5

-----------------------------------------------------------------------------
(* Sums.  A sum over a set is the value that a function, which takes the   *)
(* elements one by one, has for the set; it exists, and the order in which *)
(* elements are taken does not matter.  Both are shown for the smallest    *)
(* number of elements for which they would fail.                           *)
LEMMA LeastOf ==
    ASSUME NEW B \in SUBSET Nat, B # {}
    PROVE  \E n \in B : \A k \in 0..(n - 1) : k \notin B
<1> DEFINE Less == OpToRel(<, Nat)
<1>1. IsWellFoundedOn(Less, Nat)
  BY NatLessThanWellFounded
<1>2. \A n, m \in Nat : n < m => <<n, m>> \in Less
  BY DEF OpToRel
<1> HIDE DEF Less
<1>3. PICK n \in B : \A m \in B : ~(<<m, n>> \in Less)
  BY <1>1, WFMin
<1>4. \A k \in 0..(n - 1) : k \in Nat /\ k < n
  OBVIOUS
<1> QED
  BY <1>2, <1>3, <1>4

(* The sets of which the elements are counted have one fewer after a pick. *)
LEMMA OnePicked ==
    ASSUME NEW S, IsFiniteSet(S), NEW x \in S
    PROVE  /\ IsFiniteSet(S \ {x}) /\ Cardinality(S \ {x}) = Cardinality(S) - 1
           /\ Cardinality(S) \in Nat \ {0}
<1>1. IsFiniteSet(S \ {x}) /\ Cardinality(S \ {x}) = Cardinality(S) - 1
  BY FS_RemoveElement
<1>2. Cardinality(S) \in Nat /\ Cardinality(S \ {x}) \in Nat
  BY <1>1, FS_CardinalityType
<1> QED
  BY <1>1, <1>2

(* What a sum over the subsets of S does, whichever element it takes.      *)
Summing(f, w, pick, D) ==
    f = [s \in D |-> IF s = {} THEN 0 ELSE w[pick[s]] + f[s \ {pick[s]}]]

LEMMA SummingExists ==
    ASSUME NEW S, IsFiniteSet(S), NEW w, NEW pick,
           \A s \in SUBSET S : s # {} => pick[s] \in s
    PROVE  \E f : Summing(f, w, pick, SUBSET S)
<1> DEFINE Upto(n) == {s \in SUBSET S : Cardinality(s) <= n}
           Bad == {n \in Nat : ~\E f : Summing(f, w, pick, Upto(n))}
<1>1. \A s \in SUBSET S :
         IsFiniteSet(s) /\ Cardinality(s) \in Nat /\ Cardinality(s) <= Cardinality(S)
  BY FS_Subset, FS_CardinalityType
<1>2. ASSUME Bad # {}
      PROVE  FALSE
  <2>1. PICK n \in Bad : \A k \in 0..(n - 1) : k \notin Bad
    BY <1>2, LeastOf
  <2>2. n \in Nat /\ ~\E f : Summing(f, w, pick, Upto(n))
    OBVIOUS
  <2>3. CASE n = 0
    <3> DEFINE f == [s \in Upto(n) |-> 0]
    <3>1. \A s \in Upto(n) : s = {}
      BY <1>1, <2>3, FS_EmptySet
    <3>2. f = [s \in Upto(n) |-> IF s = {} THEN 0 ELSE w[pick[s]] + f[s \ {pick[s]}]]
      BY <3>1
    <3> QED
      BY <2>2, <3>2 DEF Summing
  <2>4. CASE n # 0
    <3>1. n - 1 \in Nat /\ n - 1 \in 0..(n - 1)
      BY <2>2, <2>4
    <3>2. PICK f : Summing(f, w, pick, Upto(n - 1))
      BY <2>1, <3>1
    <3> DEFINE g == [s \in Upto(n) |-> IF s = {} THEN 0 ELSE w[pick[s]] + f[s \ {pick[s]}]]
    <3>3. ASSUME NEW s \in Upto(n), s # {}
          PROVE  s \ {pick[s]} \in Upto(n) /\ g[s \ {pick[s]}] = f[s \ {pick[s]}]
      <4> DEFINE r == s \ {pick[s]}
      <4>1. pick[s] \in s /\ IsFiniteSet(s) /\ Cardinality(s) <= n
        BY <1>1, <3>3
      <4>2. Cardinality(r) = Cardinality(s) - 1 /\ Cardinality(s) \in Nat
        BY <4>1, OnePicked
      <4>3. r \in Upto(n) /\ r \in Upto(n - 1)
        BY <2>2, <4>1, <4>2
      <4> HIDE DEF r
      <4>4. g[r] = IF r = {} THEN 0 ELSE w[pick[r]] + f[r \ {pick[r]}]
        BY <4>3
      <4>5. f[r] = IF r = {} THEN 0 ELSE w[pick[r]] + f[r \ {pick[r]}]
        BY <3>2, <4>3 DEF Summing
      <4> QED
        BY <4>3, <4>4, <4>5 DEF r
    <3>4. g = [s \in Upto(n) |-> IF s = {} THEN 0 ELSE w[pick[s]] + g[s \ {pick[s]}]]
      BY <3>3
    <3> QED
      BY <2>2, <3>4 DEF Summing
  <2> QED
    BY <2>3, <2>4
<1>3. Cardinality(S) \notin Bad /\ Cardinality(S) \in Nat
  BY <1>2, FS_CardinalityType
<1>4. Upto(Cardinality(S)) = SUBSET S
  BY <1>1
<1>5. \E f : Summing(f, w, pick, Upto(Cardinality(S)))
  BY <1>3
<1> HIDE DEF Upto
<1> QED
  BY <1>4, <1>5

(* f gives every subset of S the sum of its weights.                       *)
IsSum(f, w, S) ==
    /\ f \in [SUBSET S -> Int] /\ f[{}] = 0
    /\ \A s \in SUBSET S : \A x \in s : f[s] = w[x] + f[s \ {x}]

(* A property of all subsets holds if it passes from each subset without   *)
(* one of its elements to the subset itself.                               *)
LEMMA EachSubset ==
    ASSUME NEW S, IsFiniteSet(S), NEW H,
           \A s \in SUBSET S : (\A x \in s : s \ {x} \in H) => s \in H
    PROVE  SUBSET S \subseteq H
<1> DEFINE Bad == {n \in Nat : \E s \in SUBSET S : s \notin H /\ Cardinality(s) = n}
<1>1. \A s \in SUBSET S : IsFiniteSet(s) /\ Cardinality(s) \in Nat
  BY FS_Subset, FS_CardinalityType
<1>2. ASSUME Bad # {}
      PROVE  FALSE
  <2>1. PICK n \in Bad : \A k \in 0..(n - 1) : k \notin Bad
    BY <1>2, LeastOf
  <2>2. PICK s \in SUBSET S : s \notin H /\ Cardinality(s) = n
    OBVIOUS
  <2>3. PICK x \in s : s \ {x} \notin H
    BY <2>2
  <2>4. Cardinality(s \ {x}) = n - 1 /\ n \in Nat \ {0} /\ s \ {x} \in SUBSET S
    BY <1>1, <2>2, OnePicked
  <2>5. n - 1 \in 0..(n - 1) /\ n - 1 \in Bad
    BY <2>3, <2>4
  <2> QED
    BY <2>1, <2>5
<1> QED
  BY <1>1, <1>2

LEMMA AnyOrder ==
    ASSUME NEW S, IsFiniteSet(S), NEW w, NEW pick, NEW f,
           \A s \in SUBSET S : s # {} => pick[s] \in s, \A x \in S : w[x] \in Int,
           Summing(f, w, pick, SUBSET S)
    PROVE  IsSum(f, w, S)
<1>1. /\ DOMAIN f = SUBSET S /\ f = [s \in SUBSET S |-> f[s]]
      /\ \A s \in SUBSET S : f[s] = IF s = {} THEN 0 ELSE w[pick[s]] + f[s \ {pick[s]}]
  BY DEF Summing
<1> DEFINE H == {s \in SUBSET S : f[s] \in Int}
           G == {s \in SUBSET S : \A x \in s : f[s] = w[x] + f[s \ {x}]}
<1>2. SUBSET S \subseteq H
  <2>1. ASSUME NEW s \in SUBSET S, \A x \in s : s \ {x} \in H
        PROVE  s \in H
    <3>1. CASE s = {}
      <4>1. f[s] = 0
        BY <1>1, <3>1
      <4> QED
        BY <4>1
    <3>2. CASE s # {}
      <4>1. pick[s] \in s /\ f[s] = w[pick[s]] + f[s \ {pick[s]}]
        BY <1>1, <3>2
      <4>2. w[pick[s]] \in Int /\ f[s \ {pick[s]}] \in Int
        BY <2>1, <4>1
      <4> QED
        BY <4>1, <4>2
    <3> QED
      BY <3>1, <3>2
  <2> HIDE DEF H
  <2> QED
    BY <2>1, EachSubset
<1>3. \A s \in SUBSET S : f[s] \in Int
  BY <1>2
<1>4. SUBSET S \subseteq G
  <2>1. ASSUME NEW s \in SUBSET S, \A x \in s : s \ {x} \in G
        PROVE  s \in G
    <3> SUFFICES ASSUME NEW x \in s
                 PROVE  f[s] = w[x] + f[s \ {x}]
      OBVIOUS
    <3>1. PICK c \in s : f[s] = w[c] + f[s \ {c}]
      BY <1>1
    <3>2. CASE c = x
      BY <3>1, <3>2
    <3>3. CASE c # x
      <4>1. f[s \ {c}] = w[x] + f[(s \ {c}) \ {x}]
        BY <2>1, <3>1, <3>3
      <4>2. f[s \ {x}] = w[c] + f[(s \ {x}) \ {c}]
        BY <2>1, <3>1, <3>3
      <4>3. (s \ {c}) \ {x} = (s \ {x}) \ {c}
        OBVIOUS
      <4>4. /\ w[x] \in Int /\ w[c] \in Int
            /\ f[s] \in Int /\ f[s \ {c}] \in Int /\ f[s \ {x}] \in Int
            /\ f[(s \ {x}) \ {c}] \in Int
        BY <1>3, <3>1
      <4>5. f[s \ {c}] = w[x] + f[(s \ {x}) \ {c}]
        BY <4>1, <4>3
      <4> QED
        BY <3>1, <4>2, <4>4, <4>5
    <3> QED
      BY <3>2, <3>3
  <2> HIDE DEF G
  <2> QED
    BY <2>1, EachSubset
<1>5. \A s \in SUBSET S : \A x \in s : f[s] = w[x] + f[s \ {x}]
  BY <1>4
<1>6. f[{}] = 0
  BY <1>1
<1>7. f \in [SUBSET S -> Int]
  BY <1>1, <1>3
<1> QED
  BY <1>5, <1>6, <1>7 DEF IsSum

LEMMA SumOfAll ==
    ASSUME NEW S, NEW f, NEW w, IsSum(f, w, S), NEW x \in S
    PROVE  f[S] = w[x] + f[S \ {x}] /\ f[S] \in Int /\ f[S \ {x}] \in Int
<1>1. S \in SUBSET S /\ S \ {x} \in SUBSET S
  OBVIOUS
<1> QED
  BY <1>1 DEF IsSum

(* Sums of equal weights are equal, whatever the elements are.             *)
ImageOf(h, S) == {h[x] : x \in S}
Matches(S, v, T, w, h) ==
    /\ h \in [S -> T] /\ \A x, y \in S : h[x] = h[y] => x = y
    /\ \A x \in S : v[x] = w[h[x]]

LEMMA SumsMatch ==
    ASSUME NEW S, IsFiniteSet(S), NEW T, NEW f, NEW g, NEW v, NEW w, NEW h,
           IsSum(f, v, S), IsSum(g, w, T), Matches(S, v, T, w, h)
    PROVE  f[S] = g[ImageOf(h, S)]
<1> USE DEF Matches
<1> DEFINE H == {s \in SUBSET S : f[s] = g[{h[x] : x \in s}]}
<1>1. ASSUME NEW s \in SUBSET S, \A x \in s : s \ {x} \in H
      PROVE  s \in H
  <2>1. CASE s = {}
    <3>1. {h[x] : x \in s} = {}
      BY <2>1
    <3>2. f[s] = 0 /\ g[{}] = 0
      BY <2>1 DEF IsSum
    <3> QED
      BY <3>1, <3>2
  <2>2. CASE s # {}
    <3>1. PICK x \in s : TRUE
      BY <2>2
    <3> DEFINE I == {h[y] : y \in s}
    <3>2. h[x] \in I /\ I \in SUBSET T
      BY <3>1
    <3>3. I \ {h[x]} = {h[y] : y \in s \ {x}}
      BY <3>1
    <3>4. f[s \ {x}] = g[I \ {h[x]}]
      BY <1>1, <3>1, <3>3
    <3> HIDE DEF I
    <3>5. f[s] = v[x] + f[s \ {x}] /\ g[I] = w[h[x]] + g[I \ {h[x]}] /\ v[x] = w[h[x]]
      BY <3>1, <3>2 DEF IsSum
    <3> QED
      BY <3>4, <3>5 DEF I
  <2> QED
    BY <2>1, <2>2
<1> HIDE DEF H
<1>2. S \in H
  BY <1>1, EachSubset
<1> QED
  BY <1>2 DEF H, ImageOf

(* A sum is the sum of a part and of the rest.                             *)
LEMMA SumSplits ==
    ASSUME NEW S, IsFiniteSet(S), NEW f, NEW w, IsSum(f, w, S), \A x \in S : w[x] \in Int,
           NEW T \in SUBSET S
    PROVE  f[S] = f[T] + f[S \ T]
<1> DEFINE H == {s \in SUBSET S : f[S] = f[S \ s] + f[s]}
<1>1. f[{}] = 0 /\ S \ {} = S /\ \A s \in SUBSET S : f[s] \in Int
  BY DEF IsSum
<1>2. ASSUME NEW s \in SUBSET S, \A x \in s : s \ {x} \in H
      PROVE  s \in H
  <2>1. CASE s = {}
    BY <1>1, <2>1
  <2>2. CASE s # {}
    <3>1. PICK x \in s : TRUE
      BY <2>2
    <3>2. S \ (s \ {x}) \in SUBSET S /\ x \in S \ (s \ {x}) /\ (S \ (s \ {x})) \ {x} = S \ s
      BY <3>1
    <3>3. f[S \ (s \ {x})] = w[x] + f[S \ s]
      BY <3>2 DEF IsSum
    <3>4. f[s] = w[x] + f[s \ {x}]
      BY <3>1 DEF IsSum
    <3>5. f[S] = f[S \ (s \ {x})] + f[s \ {x}]
      BY <1>2, <3>1
    <3>6. /\ w[x] \in Int /\ f[S \ s] \in Int /\ f[s \ {x}] \in Int /\ f[s] \in Int
          /\ f[S] \in Int /\ f[S \ (s \ {x})] \in Int
      BY <1>1, <3>1
    <3> QED
      BY <3>3, <3>4, <3>5, <3>6
  <2> QED
    BY <2>1, <2>2
<1> HIDE DEF H
<1>3. T \in H
  BY <1>2, EachSubset
<1> QED
  BY <1>1, <1>3 DEF H

(* A sum of natural numbers is one.                                        *)
LEMMA SumNatural ==
    ASSUME NEW S, IsFiniteSet(S), NEW f, NEW w, IsSum(f, w, S), \A x \in S : w[x] \in Nat
    PROVE  f[S] \in Nat
<1> DEFINE H == {s \in SUBSET S : f[s] \in Nat}
<1>1. ASSUME NEW s \in SUBSET S, \A x \in s : s \ {x} \in H
      PROVE  s \in H
  <2>1. CASE s = {}
    BY <2>1 DEF IsSum
  <2>2. CASE s # {}
    <3>1. PICK x \in s : TRUE
      BY <2>2
    <3>2. f[s] = w[x] + f[s \ {x}] /\ w[x] \in Nat /\ f[s \ {x}] \in Nat
      BY <1>1, <3>1 DEF IsSum
    <3> QED
      BY <3>2
  <2> QED
    BY <2>1, <2>2
<1> HIDE DEF H
<1>2. S \in H
  BY <1>1, EachSubset
<1> QED
  BY <1>2 DEF H

(* There is a sum of any weights, and one weight less or more changes it   *)
(* by as much.                                                             *)
LEMMA SumExists ==
    ASSUME NEW S, IsFiniteSet(S), NEW w, \A x \in S : w[x] \in Int
    PROVE  \E f : IsSum(f, w, S)
<1> DEFINE pick == [s \in SUBSET S |-> CHOOSE x \in s : TRUE]
<1>1. \A s \in SUBSET S : s # {} => pick[s] \in s
  OBVIOUS
<1> HIDE DEF pick
<1>2. PICK f : Summing(f, w, pick, SUBSET S)
  BY <1>1, SummingExists
<1>3. IsSum(f, w, S)
  BY <1>1, <1>2, AnyOrder
<1> QED
  BY <1>3

LEMMA SumChanged ==
    ASSUME NEW S, IsFiniteSet(S), NEW f, NEW w, IsSum(f, w, S), NEW g, NEW v, IsSum(g, v, S),
           NEW s \in S, w[s] \in Int, v[s] \in Int, \A x \in S \ {s} : v[x] = w[x]
    PROVE  g[S] = (f[S] - w[s]) + v[s]
<1> DEFINE H == {t \in SUBSET S : s \notin t => f[t] = g[t]}
<1>1. ASSUME NEW t \in SUBSET S, \A x \in t : t \ {x} \in H
      PROVE  t \in H
  <2>1. CASE t = {}
    BY <2>1 DEF IsSum
  <2>2. CASE t # {} /\ s \notin t
    <3>1. PICK x \in t : x # s
      BY <2>2
    <3>2. f[t] = w[x] + f[t \ {x}] /\ g[t] = v[x] + g[t \ {x}]
      BY <3>1 DEF IsSum
    <3>3. f[t \ {x}] = g[t \ {x}] /\ v[x] = w[x]
      BY <1>1, <2>2, <3>1
    <3> QED
      BY <3>2, <3>3
  <2>3. CASE s \in t
    BY <2>3
  <2> QED
    BY <2>1, <2>2, <2>3
<1> HIDE DEF H
<1>2. S \ {s} \in H
  <2>1. SUBSET S \subseteq H
    BY <1>1, EachSubset
  <2> QED
    BY <2>1
<1>3. f[S \ {s}] = g[S \ {s}]
  BY <1>2 DEF H
<1>4. f[S] = w[s] + f[S \ {s}]
  BY SumOfAll
<1>i. f[S \ {s}] \in Int
  BY DEF IsSum
<1>5. g[S] = v[s] + g[S \ {s}]
  BY SumOfAll
<1> QED
  BY <1>3, <1>4, <1>5, <1>i

(* Value is such a sum, the one that the module Folds takes.               *)
Amount(S) == [x \in S |-> x.amount]
ValueStep(f, S) ==
    [s \in SUBSET S |-> IF s = {} THEN 0
                        ELSE (CHOOSE x \in s : TRUE).amount + f[s \ {CHOOSE x \in s : TRUE}]]

LEMMA ValueChosen ==
    ASSUME NEW S
    PROVE  Value(S) = (CHOOSE f : f = ValueStep(f, S))[S]
BY DEF Value, MapThenSumSet, MapThenFoldSet, ValueStep

LEMMA ValueSum ==
    ASSUME NEW S, IsFiniteSet(S), \A x \in S : x.amount \in Int
    PROVE  \E f : IsSum(f, Amount(S), S) /\ f[S] = Value(S)
<1> DEFINE pick == [s \in SUBSET S |-> CHOOSE x \in s : TRUE]
           w == Amount(S)
<1>1. \A s \in SUBSET S : s # {} => pick[s] \in s
  OBVIOUS
<1>2. \A s \in SUBSET S : s # {} =>
         /\ pick[s] = (CHOOSE x \in s : TRUE) /\ w[pick[s]] = (CHOOSE x \in s : TRUE).amount
  BY <1>1 DEF Amount
<1>3. \A x \in S : w[x] \in Int
  BY DEF Amount
<1>4. ASSUME NEW f
      PROVE  Summing(f, w, pick, SUBSET S) <=> f = ValueStep(f, S)
  <2>1. [s \in SUBSET S |-> IF s = {} THEN 0 ELSE w[pick[s]] + f[s \ {pick[s]}]] = ValueStep(f, S)
    <3> HIDE DEF pick, w
    <3> QED
      BY <1>2 DEF ValueStep
  <2> QED
    BY <2>1 DEF Summing
<1> HIDE DEF pick
<1>5. PICK g : g = ValueStep(g, S)
  BY <1>1, <1>4, SummingExists
<1>6. PICK f : f = (CHOOSE h : h = ValueStep(h, S))
  OBVIOUS
<1>7. f = ValueStep(f, S)
  BY <1>5, <1>6
<1>8. Summing(f, w, pick, SUBSET S)
  BY <1>4, <1>7
<1> HIDE DEF w
<1>9. IsSum(f, w, S)
  BY <1>1, <1>3, <1>8, AnyOrder
<1>10. f[S] = Value(S)
  BY <1>6, ValueChosen
<1> QED
  BY <1>9, <1>10 DEF w

(* AmountSum is one too, over the indices of its argument, the last first. *)
SeqAmount(q) == [i \in DOMAIN q |-> q[i].amount]
SeqStep(f, q) ==
    [s \in SUBSET DOMAIN q |-> IF s = {} THEN 0
                               ELSE f[s \ {Max(s)}] + q[Max(s)].amount]

LEMMA AmountSumChosen ==
    ASSUME NEW q
    PROVE  AmountSum(q) = (CHOOSE f : f = SeqStep(f, q))[DOMAIN q]
BY DEF AmountSum, FoldLeft, MapThenFoldSet, SeqStep

LEMMA MaxIsIn ==
    ASSUME NEW s, IsFiniteSet(s), s \subseteq Nat, s # {}
    PROVE  Max(s) \in s
<1> DEFINE Holds == {r \in SUBSET s : r # {} => \E x \in r : \A y \in r : x >= y}
<1>1. ASSUME NEW r \in SUBSET s, \A x \in r : r \ {x} \in Holds
      PROVE  r \in Holds
  <2>1. CASE r = {}
    BY <2>1
  <2>2. CASE r # {}
    <3>1. PICK x \in r : TRUE
      BY <2>2
    <3>2. CASE r \ {x} = {}
      <4>1. \A y \in r : y = x
        BY <3>2
      <4> QED
        BY <3>1, <4>1
    <3>3. CASE r \ {x} # {}
      <4>1. PICK z \in r \ {x} : \A y \in r \ {x} : z >= y
        BY <1>1, <3>1, <3>3
      <4>2. CASE z >= x
        <5>1. \A y \in r : z >= y
          BY <4>1, <4>2
        <5> QED
          BY <4>1, <5>1
      <4>3. CASE x > z
        <5>1. \A y \in r : x >= y
          BY <4>1, <4>3
        <5> QED
          BY <3>1, <5>1
      <4> QED
        BY <4>2, <4>3
    <3> QED
      BY <3>2, <3>3
  <2> QED
    BY <2>1, <2>2
<1> HIDE DEF Holds
<1>2. s \in Holds
  BY <1>1, EachSubset
<1> QED
  BY <1>2 DEF Max, Holds

LEMMA SeqSum ==
    ASSUME NEW q, NEW n \in Nat, DOMAIN q = 1..n, \A i \in 1..n : q[i].amount \in Int
    PROVE  \E f : IsSum(f, SeqAmount(q), 1..n) /\ f[1..n] = AmountSum(q)
<1> DEFINE S == 1..n
           pick == [s \in SUBSET S |-> Max(s)]
           w == SeqAmount(q)
<1>1. IsFiniteSet(S)
  BY FS_Interval
<1>2. ASSUME NEW s \in SUBSET S, s # {}
      PROVE  pick[s] \in s /\ pick[s] = Max(s)
  <2>1. IsFiniteSet(s)
    BY <1>1, FS_Subset
  <2>2. s \subseteq Nat
    OBVIOUS
  <2> QED
    BY <1>2, <2>1, <2>2, MaxIsIn
<1>3. \A x \in S : w[x] \in Int /\ w[x] = q[x].amount
  BY DEF SeqAmount
<1>4. SUBSET DOMAIN q = SUBSET S
  OBVIOUS
<1> HIDE DEF S, pick, w
<1>5. ASSUME NEW f, \A s \in SUBSET S : f[s] \in Int
      PROVE  Summing(f, w, pick, SUBSET S) <=> f = SeqStep(f, q)
  <2>1. ASSUME NEW s \in SUBSET S, s # {}
        PROVE  w[pick[s]] + f[s \ {pick[s]}] = f[s \ {Max(s)}] + q[Max(s)].amount
    <3>1. pick[s] \in s /\ pick[s] = Max(s)
      BY <1>2, <2>1
    <3>2. w[pick[s]] = q[Max(s)].amount /\ w[pick[s]] \in Int /\ f[s \ {pick[s]}] \in Int
      BY <1>3, <1>5, <3>1
    <3> QED
      BY <3>1, <3>2
  <2>2. [s \in SUBSET S |-> IF s = {} THEN 0 ELSE w[pick[s]] + f[s \ {pick[s]}]] = SeqStep(f, q)
    BY <1>4, <2>1 DEF SeqStep
  <2> QED
    BY <2>2 DEF Summing
<1>6. \E g : g = SeqStep(g, q)
  <2>1. PICK g : Summing(g, w, pick, SUBSET S)
    BY <1>1, <1>2, SummingExists
  <2>2. IsSum(g, w, S)
    BY <1>1, <1>2, <1>3, <2>1, AnyOrder
  <2>3. \A s \in SUBSET S : g[s] \in Int
    BY <2>2 DEF IsSum
  <2> QED
    BY <1>5, <2>1, <2>3
<1>7. PICK f : f = (CHOOSE h : h = SeqStep(h, q))
  OBVIOUS
<1>8. f = SeqStep(f, q)
  BY <1>6, <1>7
<1>9. \A s \in SUBSET S : f[s] = IF s = {} THEN 0 ELSE f[s \ {Max(s)}] + q[Max(s)].amount
  BY <1>4, <1>8 DEF SeqStep
<1> DEFINE H == {s \in SUBSET S : f[s] \in Int}
<1>10. ASSUME NEW s \in SUBSET S, \A x \in s : s \ {x} \in H
       PROVE  s \in H
  <2>1. CASE s = {}
    <3>1. f[s] = 0
      BY <1>9, <2>1
    <3> QED
      BY <3>1
  <2>2. CASE s # {}
    <3>1. Max(s) \in s
      BY <1>2, <2>2
    <3>2. f[s] = f[s \ {Max(s)}] + q[Max(s)].amount
      BY <1>9, <2>2
    <3>3. f[s \ {Max(s)}] \in Int /\ q[Max(s)].amount \in Int
      BY <1>3, <1>10, <3>1
    <3> QED
      BY <3>2, <3>3
  <2> QED
    BY <2>1, <2>2
<1> HIDE DEF H
<1>11. SUBSET S \subseteq H
  BY <1>1, <1>10, EachSubset
<1>12. \A s \in SUBSET S : f[s] \in Int
  BY <1>11 DEF H
<1>13. Summing(f, w, pick, SUBSET S)
  BY <1>5, <1>8, <1>12
<1>14. IsSum(f, w, S)
  BY <1>1, <1>2, <1>3, <1>13, AnyOrder
<1>15. AmountSum(q) = f[DOMAIN q]
  BY <1>7, AmountSumChosen
<1>16. f[S] = AmountSum(q)
  BY <1>15 DEF S
<1> QED
  BY <1>14, <1>16 DEF S, w

(* What the value of a set of tokens is.                                   *)
Finite(S) == IsFiniteSet(S) /\ \A x \in S : x.amount \in Nat

LEMMA ValueIsNatural ==
    ASSUME NEW S, Finite(S)
    PROVE  Value(S) \in Nat
<1>1. PICK f : IsSum(f, Amount(S), S) /\ f[S] = Value(S)
  BY ValueSum DEF Finite
<1>2. \A x \in S : Amount(S)[x] \in Nat
  BY DEF Finite, Amount
<1> QED
  BY <1>1, <1>2, SumNatural DEF Finite

LEMMA ValueOfNone == Value({}) = 0
<1>1. IsFiniteSet({})
  BY FS_EmptySet
<1>2. PICK f : IsSum(f, Amount({}), {}) /\ f[{}] = Value({})
  BY <1>1, ValueSum
<1> QED
  BY <1>2 DEF IsSum

LEMMA ValueOfPart ==
    ASSUME NEW S, Finite(S), NEW T \in SUBSET S
    PROVE  /\ Value(S) = Value(T) + Value(S \ T)
           /\ Value(T) \in Nat /\ Value(S \ T) \in Nat
           /\ Value(T) <= Value(S)
<1>1. PICK f : IsSum(f, Amount(S), S) /\ f[S] = Value(S)
  BY ValueSum DEF Finite
<1>2. ASSUME NEW U \in SUBSET S
      PROVE  Value(U) = f[U] /\ Value(U) \in Nat
  <2>1. Finite(U)
    BY FS_Subset DEF Finite
  <2>2. PICK g : IsSum(g, Amount(U), U) /\ g[U] = Value(U)
    BY <2>1, ValueSum DEF Finite
  <2> DEFINE h == [x \in U |-> x]
  <2>3. h \in [U -> S] /\ \A x, y \in U : h[x] = h[y] => x = y
    OBVIOUS
  <2>4. \A x \in U : Amount(U)[x] = Amount(S)[h[x]]
    BY DEF Amount
  <2>5. ImageOf(h, U) = U
    BY DEF ImageOf
  <2> HIDE DEF h
  <2>6. Matches(U, Amount(U), S, Amount(S), h)
    BY <2>3, <2>4 DEF Matches
  <2>7. g[U] = f[ImageOf(h, U)]
    BY <1>1, <2>1, <2>2, <2>6, SumsMatch DEF Finite
  <2> QED
    BY <2>1, <2>2, <2>5, <2>7, ValueIsNatural
<1>3. \A x \in S : Amount(S)[x] \in Int
  BY DEF Finite, Amount
<1>4. f[S] = f[T] + f[S \ T]
  BY <1>1, <1>3, SumSplits DEF Finite
<1>5. Value(T) = f[T] /\ Value(T) \in Nat /\ Value(S \ T) = f[S \ T] /\ Value(S \ T) \in Nat
  BY <1>2
<1> QED
  BY <1>1, <1>4, <1>5

LEMMA ValueOfOne ==
    ASSUME NEW x, x.amount \in Nat
    PROVE  Value({x}) = x.amount
<1>1. IsFiniteSet({x})
  BY FS_Singleton
<1>2. PICK f : IsSum(f, Amount({x}), {x}) /\ f[{x}] = Value({x})
  BY <1>1, ValueSum
<1>3. f[{x}] = Amount({x})[x] + f[{x} \ {x}] /\ {x} \ {x} = {} /\ f[{}] = 0
  BY <1>2 DEF IsSum
<1>4. Amount({x})[x] = x.amount
  BY DEF Amount
<1> QED
  BY <1>2, <1>3, <1>4

(* A token adds at most its amount to the value of a set.                  *)
LEMMA ValueWithOne ==
    ASSUME NEW S, Finite(S), NEW x, x.amount \in Nat
    PROVE  /\ Finite(S \cup {x}) /\ Value(S \cup {x}) \in Nat /\ Value(S) \in Nat
           /\ Value(S \cup {x}) <= Value(S) + x.amount
           /\ x \notin S => Value(S \cup {x}) = Value(S) + x.amount
<1>1. Finite(S \cup {x})
  BY FS_AddElement DEF Finite
<1>2. Value(S) \in Nat /\ Value(S \cup {x}) \in Nat
  BY <1>1, ValueIsNatural
<1>3. CASE x \in S
  <2>1. Value(S \cup {x}) = Value(S)
    <3>1. S \cup {x} = S
      BY <1>3
    <3> QED
      BY <3>1
  <2>2. Value(S) <= Value(S) + x.amount
    BY <1>2
  <2> QED
    BY <1>1, <1>2, <1>3, <2>1, <2>2
<1>4. CASE x \notin S
  <2>1. S \in SUBSET (S \cup {x}) /\ (S \cup {x}) \ S = {x}
    BY <1>4
  <2>2. Value(S \cup {x}) = Value(S) + Value({x})
    BY <1>1, <2>1, ValueOfPart
  <2>3. Value({x}) = x.amount
    BY ValueOfOne
  <2> QED
    BY <1>1, <1>2, <2>2, <2>3
<1> QED
  BY <1>3, <1>4

(* The same for sequences.  Weighed(q, n) says that q has n elements with  *)
(* integer amounts.                                                        *)
Weighed(q, n) == n \in Nat /\ DOMAIN q = 1..n /\ \A i \in 1..n : q[i].amount \in Int

LEMMA SumOfPart ==
    ASSUME NEW q, NEW n, Weighed(q, n), NEW p, NEW m, Weighed(p, m),
           NEW h, Matches(1..m, SeqAmount(p), 1..n, SeqAmount(q), h),
           NEW f, IsSum(f, SeqAmount(q), 1..n)
    PROVE  AmountSum(p) = f[ImageOf(h, 1..m)]
<1>1. PICK g : IsSum(g, SeqAmount(p), 1..m) /\ g[1..m] = AmountSum(p)
  BY SeqSum DEF Weighed
<1>2. IsFiniteSet(1..m)
  BY FS_Interval DEF Weighed
<1>3. g[1..m] = f[ImageOf(h, 1..m)]
  BY <1>1, <1>2, SumsMatch
<1> QED
  BY <1>1, <1>3

LEMMA SumIsInteger ==
    ASSUME NEW q, NEW n, Weighed(q, n)
    PROVE  /\ AmountSum(q) \in Int
           /\ (\A i \in 1..n : q[i].amount \in Nat) => AmountSum(q) \in Nat
<1>1. PICK f : IsSum(f, SeqAmount(q), 1..n) /\ f[1..n] = AmountSum(q)
  BY SeqSum DEF Weighed
<1>2. AmountSum(q) \in Int
  BY <1>1 DEF IsSum
<1>3. ASSUME \A i \in 1..n : q[i].amount \in Nat
      PROVE  AmountSum(q) \in Nat
  <2>1. \A i \in 1..n : SeqAmount(q)[i] \in Nat
    BY <1>3 DEF SeqAmount, Weighed
  <2>2. IsFiniteSet(1..n)
    BY FS_Interval DEF Weighed
  <2> QED
    BY <1>1, <2>1, <2>2, SumNatural
<1> QED
  BY <1>2, <1>3

LEMMA SumOfEqual ==
    ASSUME NEW q, NEW p, NEW n, Weighed(q, n), Weighed(p, n),
           \A i \in 1..n : p[i].amount = q[i].amount
    PROVE  AmountSum(p) = AmountSum(q)
<1>1. PICK f : IsSum(f, SeqAmount(q), 1..n) /\ f[1..n] = AmountSum(q)
  BY SeqSum DEF Weighed
<1> DEFINE h == [i \in 1..n |-> i]
<1>2. /\ h \in [1..n -> 1..n] /\ \A i, j \in 1..n : h[i] = h[j] => i = j
      /\ \A i \in 1..n : SeqAmount(p)[i] = SeqAmount(q)[h[i]]
      /\ ImageOf(h, 1..n) = 1..n
  BY DEF ImageOf, SeqAmount, Weighed
<1> HIDE DEF h
<1>3. Matches(1..n, SeqAmount(p), 1..n, SeqAmount(q), h)
  BY <1>2 DEF Matches
<1>4. AmountSum(p) = f[ImageOf(h, 1..n)]
  BY <1>1, <1>3, SumOfPart
<1> QED
  BY <1>1, <1>2, <1>4

LEMMA SumOfNone == AmountSum(<<>>) = 0
<1>1. DOMAIN <<>> = 1..0 /\ 1..0 = {}
  OBVIOUS
<1>2. PICK f : IsSum(f, SeqAmount(<<>>), 1..0) /\ f[1..0] = AmountSum(<<>>)
  BY <1>1, SeqSum
<1> QED
  BY <1>1, <1>2 DEF IsSum

LEMMA SumOfTail ==
    ASSUME NEW q, NEW n, Weighed(q, n + 1), n \in Nat, NEW p, Weighed(p, n),
           \A i \in 1..n : p[i].amount = q[i + 1].amount
    PROVE  AmountSum(q) = q[1].amount + AmountSum(p)
<1>1. PICK f : IsSum(f, SeqAmount(q), 1..(n + 1)) /\ f[1..(n + 1)] = AmountSum(q)
  BY SeqSum DEF Weighed
<1> DEFINE h == [i \in 1..n |-> i + 1]
<1>2. /\ h \in [1..n -> 1..(n + 1)] /\ \A i, j \in 1..n : h[i] = h[j] => i = j
      /\ \A i \in 1..n : SeqAmount(p)[i] = SeqAmount(q)[h[i]]
  BY DEF SeqAmount, Weighed
<1>3. ImageOf(h, 1..n) = (1..(n + 1)) \ {1}
  <2>1. ASSUME NEW k \in (1..(n + 1)) \ {1}
        PROVE  \E i \in 1..n : k = h[i]
    <3>1. PICK i \in 1..n : k = i + 1
      OBVIOUS
    <3> QED
      BY <3>1
  <2>2. ASSUME NEW i \in 1..n
        PROVE  h[i] \in (1..(n + 1)) \ {1}
    OBVIOUS
  <2> HIDE DEF h
  <2> QED
    BY <2>1, <2>2 DEF ImageOf
<1> HIDE DEF h
<1>4. Matches(1..n, SeqAmount(p), 1..(n + 1), SeqAmount(q), h)
  BY <1>2 DEF Matches
<1>5. AmountSum(p) = f[ImageOf(h, 1..n)]
  BY <1>1, <1>4, SumOfPart
<1>6. 1 \in 1..(n + 1) /\ SeqAmount(q)[1] = q[1].amount
  BY DEF SeqAmount, Weighed
<1> DEFINE I == 1..(n + 1)
<1>7. IsSum(f, SeqAmount(q), I)
  BY <1>1
<1>8. n + 1 \in I /\ 1 \in I
  OBVIOUS
<1> HIDE DEF I
<1>9. f[I] = SeqAmount(q)[1] + f[I \ {1}]
  BY <1>7, <1>8, SumOfAll
<1> QED
  BY <1>1, <1>3, <1>5, <1>6, <1>9 DEF I

LEMMA SumOfAppended ==
    ASSUME NEW n \in Nat, NEW m, m = n + 1, NEW q, Weighed(q, m), NEW p, Weighed(p, n),
           \A i \in 1..n : p[i].amount = q[i].amount
    PROVE  AmountSum(q) = q[m].amount + AmountSum(p)
<1>1. PICK f : IsSum(f, SeqAmount(q), 1..m) /\ f[1..m] = AmountSum(q)
  BY SeqSum DEF Weighed
<1> DEFINE h == [i \in 1..n |-> i]
<1>2. /\ h \in [1..n -> 1..m] /\ \A i, j \in 1..n : h[i] = h[j] => i = j
      /\ \A i \in 1..n : SeqAmount(p)[i] = SeqAmount(q)[h[i]]
  BY DEF SeqAmount, Weighed
<1>3. ImageOf(h, 1..n) = (1..m) \ {m}
  BY DEF ImageOf
<1> HIDE DEF h
<1>4. Matches(1..n, SeqAmount(p), 1..m, SeqAmount(q), h)
  BY <1>2 DEF Matches
<1>5. AmountSum(p) = f[ImageOf(h, 1..n)]
  BY <1>1, <1>4, SumOfPart
<1>6. m \in 1..m /\ SeqAmount(q)[m] = q[m].amount
  BY DEF SeqAmount, Weighed
<1> DEFINE I == 1..m
<1>7. IsSum(f, SeqAmount(q), I) /\ m \in I
  BY <1>1, <1>6
<1> HIDE DEF I
<1>8. f[I] = SeqAmount(q)[m] + f[I \ {m}]
  BY <1>7, SumOfAll
<1> QED
  BY <1>1, <1>3, <1>5, <1>6, <1>8 DEF I

(* Distinct tokens are worth, as a set, the sum of their amounts.          *)
LEMMA SumOfDistinct ==
    ASSUME NEW q, NEW n, Weighed(q, n), \A i, j \in 1..n : q[i] = q[j] => i = j
    PROVE  AmountSum(q) = Value({q[i] : i \in 1..n})
<1> DEFINE S == {q[i] : i \in 1..n}
<1>1. PICK f : IsSum(f, SeqAmount(q), 1..n) /\ f[1..n] = AmountSum(q)
  BY SeqSum DEF Weighed
<1>2. IsFiniteSet(1..n)
  BY FS_Interval DEF Weighed
<1>3. IsFiniteSet(S)
  <2> DEFINE h == [i \in 1..n |-> q[i]]
  <2>1. S = {h[i] : i \in 1..n}
    OBVIOUS
  <2>2. h \in [1..n -> S] /\ \A y \in S : \E i \in 1..n : h[i] = y
    OBVIOUS
  <2> HIDE DEF h, S
  <2>3. h \in Surjection(1..n, S)
    BY <2>2 DEF Surjection
  <2> QED
    BY <1>2, <2>3, FS_Surjection
<1>4. \A x \in S : x.amount \in Int
  BY DEF Weighed
<1>5. PICK g : IsSum(g, Amount(S), S) /\ g[S] = Value(S)
  BY <1>3, <1>4, ValueSum
<1> DEFINE h == [i \in 1..n |-> q[i]]
<1>6. /\ h \in [1..n -> S] /\ \A i, j \in 1..n : h[i] = h[j] => i = j
      /\ ImageOf(h, 1..n) = S
  BY DEF ImageOf
<1>7. \A i \in 1..n : SeqAmount(q)[i] = Amount(S)[h[i]]
  BY DEF SeqAmount, Amount, Weighed
<1> HIDE DEF h, S
<1>8. Matches(1..n, SeqAmount(q), S, Amount(S), h)
  BY <1>6, <1>7 DEF Matches
<1>9. f[1..n] = g[ImageOf(h, 1..n)]
  BY <1>1, <1>2, <1>5, <1>8, SumsMatch
<1> QED
  BY <1>1, <1>5, <1>6, <1>9 DEF S
-----------------------------------------------------------------------------
(* The helpers of the module.                                              *)

LEMMA ClientRequestType ==
    ASSUME released \subseteq Token, NEW r \in ClientRequest(released)
    PROVE  /\ r \in Request(Token)
           /\ r.op = "mint" => Len(r.outs) = 1
           /\ r.op = "burn" => Len(r.ins) = 1
<1>1. /\ r.op \in Ops /\ r.from \in Senders /\ r.wit \in Witnesses
      /\ r.ins \in SeqUpTo(released, MaxIns)
      /\ r.outs \in SeqUpTo(Recipient, MaxOuts)
      /\ r = [op |-> r.op, from |-> r.from, ins |-> r.ins, outs |-> r.outs, wit |-> r.wit]
  BY DEF ClientRequest
<1>2. r.ins \in Seq(released) /\ r.outs \in Seq(Recipient)
  BY <1>1, SeqUpToType, BoundsAssumption
<1>3. r.ins \in Seq(Token)
  BY <1>2, SeqMonotonic
<1>4. r \in Request(Token)
  BY <1>1, <1>2, <1>3, RequestAssumption, KeysAssumption, BoundsAssumption DEF Request
<1>5. /\ r.op = "mint" => Len(r.outs) = 1
      /\ r.op = "burn" => Len(r.ins) = 1
  BY DEF ClientRequest
<1> QED BY <1>4, <1>5

LEMMA OutputsType ==
    ASSUME NEW r \in Request(Token), Payable(r), now \in Nat
    PROVE  Outputs(r) \in Seq(Token)
<1>1. r.outs \in Seq(Recipient) /\ r.ins \in Seq(Token) /\ r.from \in Users
  BY DEF Request
<1>2. \A i \in 1..Len(r.outs) : r.outs[i] \in Recipient /\ r.outs[i].amount \in Nat
  <2>1. \A i \in 1..Len(r.outs) : r.outs[i] \in Recipient
    BY <1>1, ElementOfSeq
  <2>2. \A i \in 1..Len(r.outs) : r.outs[i].amount > 0
    BY <1>1, LenProperties DEF Payable, ToSet
  <2>3. \A i \in 1..Len(r.outs) : r.outs[i].amount \in Int
    BY <2>1, BoundsAssumption DEF Recipient
  <2> QED BY <2>1, <2>2, <2>3
<1>3. [i \in DOMAIN r.outs |-> NewToken(r.outs[i])] \in Seq(Token)
  <2>1. \A i \in 1..Len(r.outs) : NewToken(r.outs[i]) \in Token
    BY <1>2, BoundsAssumption DEF NewToken, Recipient, Token
  <2>2. DOMAIN r.outs = 1..Len(r.outs) /\ Len(r.outs) \in Nat
    BY <1>1, LenProperties
  <2>3. [i \in DOMAIN r.outs |-> NewToken(r.outs[i])] \in [1..Len(r.outs) -> Token]
    BY <2>1, <2>2
  <2> QED BY <2>2, <2>3, SeqDef
<1>4. r.ins[1] \in Token
  BY <1>1, EmptySeq, ElementOfSeq DEF Payable
<1>5. Change(r) \in Seq(Token)
  <2> DEFINE rest == AmountSum(r.ins) - AmountSum(r.outs)
             c == NewToken([to |-> r.from, amount |-> rest, timeLock |-> r.ins[1].timeLock])
  <2>1. Change(r) = IF rest \in Nat \ {0} THEN <<c>> ELSE <<>>
    BY DEF Change
  <2>2. ASSUME rest \in Nat PROVE c \in Token
    BY <2>2, <1>1, <1>4 DEF NewToken, Token
  <2>3. ASSUME rest \in Nat PROVE <<c>> \in Seq(Token)
    <3> HIDE DEF c
    <3> QED BY <2>2, <2>3
  <2> HIDE DEF rest, c
  <2> QED BY <2>1, <2>3, EmptySeq
<1> QED BY <1>3, <1>5, ConcatProperties DEF Outputs

LEMMA SpendFacts ==
    ASSUME mem \in ForgeState, NEW ins \in Seq(Token), NEW i \in 0..Len(ins)
    PROVE  /\ Spend(ins, i) \in ForgeState
           /\ Spend(ins, i).spent = mem.spent \cup {ins[k] : k \in 1..i}
           /\ Spend(ins, i).forgers = mem.forgers
           /\ Spend(ins, i).circulating = mem.circulating
<1>1. ToSet(SubSeq(ins, 1, i)) = {ins[k] : k \in 1..i}
  <2>1. /\ SubSeq(ins, 1, i) \in Seq(Token)
        /\ Len(SubSeq(ins, 1, i)) = i
        /\ \A k \in 1..i : SubSeq(ins, 1, i)[k] = ins[k]
    BY SubSeqProperties, ElementOfSeq, LenProperties
  <2>2. DOMAIN SubSeq(ins, 1, i) = 1..i
    BY <2>1, LenProperties
  <2> QED BY <2>1, <2>2 DEF ToSet
<1>2. \A k \in 1..i : ins[k] \in Token
  BY ElementOfSeq, LenProperties
<1> QED BY <1>1, <1>2 DEF Spend, ForgeState

LEMMA PublishSpentFacts ==
    ASSUME mem \in ForgeState, writes \in Seq(Write), NEW s \in Slots,
           NEW ins \in Seq(Token), PublishSpent(s, ins)
    PROVE  /\ mem' \in ForgeState
           /\ mem'.spent = mem.spent \cup ToSet(ins)
           /\ mem'.forgers = mem.forgers
           /\ writes' \in Seq(Write)
           /\ Len(writes') = Len(writes) + Len(ins)
           /\ \A i \in 1..Len(writes) : writes'[i] = writes[i]
           /\ \A i \in (Len(writes) + 1)..(Len(writes) + Len(ins)) :
                 /\ writes'[i].by = s
                 /\ writes'[i].snap.spent = mem.spent \cup {ins[k] : k \in 1..(i - Len(writes))}
                 /\ writes'[i].snap.forgers = mem.forgers
                 /\ writes'[i].snap.circulating = mem.circulating
<1> DEFINE w == [i \in 1..Len(ins) |-> [by |-> s, snap |-> Spend(ins, i)]]
<1>1. Len(ins) \in Nat /\ DOMAIN ins = 1..Len(ins) /\ Len(writes) \in Nat
  BY LenProperties
<1>2. \A i \in 1..Len(ins) : Spend(ins, i) \in ForgeState
  BY <1>1, SpendFacts
<1>3. \A i \in 1..Len(ins) : w[i] \in Write
  BY <1>2 DEF Write
<1>4. w \in [1..Len(ins) -> Write]
  BY <1>3
<1>5. w \in Seq(Write) /\ Len(w) = Len(ins)
  BY <1>1, <1>4, SeqDef, LenProperties
<1>6. writes' = writes \o w /\ mem' = Spend(ins, Len(ins))
  BY DEF PublishSpent
<1>w. \A i \in 1..Len(ins) : w[i].by = s /\ w[i].snap = Spend(ins, i)
  OBVIOUS
<1> HIDE DEF w
<1>7. ASSUME NEW i \in 1..Len(ins)
      PROVE  /\ w[i].by = s
             /\ w[i].snap.spent = mem.spent \cup {ins[k] : k \in 1..i}
             /\ w[i].snap.forgers = mem.forgers
             /\ w[i].snap.circulating = mem.circulating
  <2>1. /\ Spend(ins, i).spent = mem.spent \cup {ins[k] : k \in 1..i}
        /\ Spend(ins, i).forgers = mem.forgers
        /\ Spend(ins, i).circulating = mem.circulating
    BY SpendFacts
  <2> QED BY <1>w, <2>1
<1>c. /\ writes \o w \in Seq(Write)
       /\ Len(writes \o w) = Len(writes) + Len(w)
       /\ \A i \in 1..(Len(writes) + Len(w)) :
             (writes \o w)[i] = IF i <= Len(writes) THEN writes[i] ELSE w[i - Len(writes)]
  BY <1>5, ConcatProperties
<1>8. /\ writes' \in Seq(Write)
      /\ Len(writes') = Len(writes) + Len(ins)
      /\ \A i \in 1..(Len(writes) + Len(ins)) :
            writes'[i] = IF i <= Len(writes) THEN writes[i] ELSE w[i - Len(writes)]
  BY <1>5, <1>6, <1>c
<1>9. ASSUME NEW i \in (Len(writes) + 1)..(Len(writes) + Len(ins))
      PROVE  /\ writes'[i].by = s
             /\ writes'[i].snap.spent = mem.spent \cup {ins[k] : k \in 1..(i - Len(writes))}
             /\ writes'[i].snap.forgers = mem.forgers
             /\ writes'[i].snap.circulating = mem.circulating
  <2>1. i - Len(writes) \in 1..Len(ins) /\ writes'[i] = w[i - Len(writes)]
    BY <1>1, <1>8
  <2> QED BY <2>1, <1>7
<1>10. mem' \in ForgeState /\ mem'.spent = mem.spent \cup ToSet(ins) /\ mem'.forgers = mem.forgers
  <2>1. Len(ins) \in 0..Len(ins)
    BY <1>1
  <2>2. ToSet(ins) = {ins[k] : k \in 1..Len(ins)}
    BY <1>1 DEF ToSet
  <2> QED BY <2>1, <2>2, <1>6, SpendFacts
<1>11. \A i \in 1..Len(writes) : writes'[i] = writes[i]
  BY <1>1, <1>8
<1> QED BY <1>8, <1>9, <1>10, <1>11

-----------------------------------------------------------------------------
(* Control: types, what each run has established, the lock, the writers.   *)

LEMMA ControlInit == Init => ControlInv
<1> SUFFICES ASSUME Init PROVE ControlInv
  OBVIOUS
<1>1. EmptyState \in ForgeState
  BY KeysAssumption DEF EmptyState, ForgeState
<1>0. Value(InitialTokens) \in Int
  BY InitialTokensAssumption, ValueIsNatural DEF Finite, Token
<1>2. mem \in ForgeState /\ disk \in ForgeState
  BY <1>0, <1>1 DEF Init, ForgeState, EmptyState
<1>3. TypeOK
  BY <1>0, <1>2, InitialTokensAssumption, EmptySeq DEF Init, TypeOK, Run, IdleRun, PCs
<1>4. RequestsOK /\ RunsOK /\ LockOK /\ WritersOK
  BY DEF Init, RequestsOK, RunsOK, LockOK, WritersOK, IdleRun, CriticalPCs, WaitPCs
<1> QED BY <1>3, <1>4 DEF ControlInv

(* Goto and GotoWith as updates of the whole record of the run.            *)
LEMMA GotoWithFacts ==
    ASSUME run \in [Slots -> Run], NEW s \in Slots, NEW pc \in PCs,
           NEW todo \in Seq(Token), GotoWith(s, pc, todo)
    PROVE  /\ [pc |-> pc, ev |-> run[s].ev, todo |-> todo] \in Run
           /\ run' = [run EXCEPT ![s] = [pc |-> pc, ev |-> run[s].ev, todo |-> todo]]
           /\ run' \in [Slots -> Run]
<1>1. run[s] \in Run
  OBVIOUS
<1>2. [pc |-> pc, ev |-> run[s].ev, todo |-> todo] \in Run
  BY <1>1 DEF Run
<1> QED BY <1>2 DEF GotoWith

(* A step of one run that neither takes nor leaves the lock.               *)
LEMMA PrivateStep ==
    ASSUME ControlInv, NEW s \in Slots, NEW r \in Run,
           run' = [run EXCEPT ![s] = r],
           UNCHANGED <<queue, req, phase, writes>>,
           run[s].pc \notin WaitPCs \cup CriticalPCs,
           r.pc \notin WaitPCs \cup CriticalPCs,
           r.pc # "idle" => r.ev \in Events /\ req[r.ev] # NoReq,
           r.pc \in {"building", "minting"} => r.todo # <<>>
    PROVE  RequestsOK' /\ RunsOK' /\ LockOK' /\ WritersOK'
<1>1. run \in [Slots -> Run] /\ run'[s] = r /\ \A x \in Slots \ {s} : run'[x] = run[x]
  BY DEF ControlInv, TypeOK
<1>2. RequestsOK'
  BY DEF ControlInv, RequestsOK
<1>3. RunsOK'
  BY <1>1 DEF ControlInv, RunsOK, ReqOf, CriticalPCs, WaitPCs
<1>4. LockOK'
  <2>1. \A i \in DOMAIN queue : queue[i] \in Slots
    BY LenProperties, ElementOfSeq DEF ControlInv, TypeOK
  <2>2. \A i \in DOMAIN queue : queue[i] # s
    BY DEF ControlInv, LockOK
  <2>3. \A x \in Slots : run'[x].pc \in WaitPCs => x \in ToSet(queue')
    BY <1>1 DEF ControlInv, LockOK
  <2> QED BY <1>1, <2>1, <2>2, <2>3 DEF ControlInv, LockOK, HasLock
<1>5. WritersOK'
  BY <1>1 DEF ControlInv, WritersOK, CriticalPCs
<1> QED BY <1>2, <1>3, <1>4, <1>5

(* A step of the run that holds the lock and keeps it.                     *)
LEMMA LockedStep ==
    ASSUME ControlInv, NEW s \in Slots, NEW r \in Run,
           run' = [run EXCEPT ![s] = r],
           UNCHANGED <<queue, req, phase>>,
           HasLock(s),
           run[s].pc \in WaitPCs \cup CriticalPCs, r.pc \in CriticalPCs,
           r.ev = run[s].ev,
           r.pc \in {"validated", "signed", "releasing"} => ReqOf(s).op = "transfer",
           r.pc = "saving" => ReqOf(s).op \in {"transfer", "burn"},
           r.pc = "validated" => Payable(ReqOf(s))
    PROVE  RequestsOK' /\ RunsOK' /\ LockOK'
<1>1. run \in [Slots -> Run] /\ run'[s] = r /\ \A x \in Slots \ {s} : run'[x] = run[x]
  BY DEF ControlInv, TypeOK
<1>2. RequestsOK'
  BY DEF ControlInv, RequestsOK
<1>3. RunsOK'
  BY <1>1 DEF ControlInv, RunsOK, ReqOf, CriticalPCs, WaitPCs
<1>4. LockOK'
  <2>1. \A i \in DOMAIN queue : queue[i] \in Slots
    BY LenProperties, ElementOfSeq DEF ControlInv, TypeOK
  <2>2. \A x \in Slots : run'[x].pc \in WaitPCs => x \in ToSet(queue')
    BY <1>1 DEF ControlInv, LockOK, CriticalPCs, WaitPCs
  <2> QED BY <1>1, <2>1, <2>2 DEF ControlInv, LockOK, HasLock
<1> QED BY <1>2, <1>3, <1>4

(* The run at the head of the queue answers and leaves the lock.           *)
LEMMA UnlockStep ==
    ASSUME ControlInv, NEW s \in Slots, NEW todo \in Seq(Token),
           GotoWith(s, "replied", todo),
           queue' = Tail(queue),
           UNCHANGED <<req, phase>>,
           HasLock(s), run[s].pc \in WaitPCs \cup CriticalPCs
    PROVE  /\ run' \in [Slots -> Run] /\ queue' \in Seq(Slots)
           /\ RequestsOK' /\ RunsOK' /\ LockOK'
<1>1. run \in [Slots -> Run] /\ "replied" \in PCs
  BY DEF ControlInv, TypeOK, PCs
<1>2. /\ run' = [run EXCEPT ![s] = [pc |-> "replied", ev |-> run[s].ev, todo |-> todo]]
      /\ run' \in [Slots -> Run]
  BY <1>1, GotoWithFacts
<1>3. /\ run'[s].pc = "replied" /\ run'[s].ev = run[s].ev
      /\ \A x \in Slots \ {s} : run'[x] = run[x]
  BY <1>1, <1>2
<1>4. RequestsOK'
  BY DEF ControlInv, RequestsOK
<1>5. RunsOK'
  BY <1>3 DEF ControlInv, RunsOK, ReqOf, CriticalPCs, WaitPCs
<1>6. /\ queue \in Seq(Slots) /\ queue # <<>> /\ queue[1] = s
      /\ Tail(queue) \in Seq(Slots) /\ Len(Tail(queue)) = Len(queue) - 1
      /\ \A i \in 1..Len(Tail(queue)) : Tail(queue)[i] = queue[i + 1]
      /\ DOMAIN queue = 1..Len(queue) /\ DOMAIN Tail(queue) = 1..Len(Tail(queue))
      /\ Len(queue) \in Nat \ {0}
  BY HeadTailProperties, EmptySeq, LenProperties DEF ControlInv, TypeOK, HasLock
<1>7. \A i \in 2..Len(queue) : queue[i] # s
  BY <1>6 DEF ControlInv, LockOK
<1>8. \A x \in Slots \ {s} : run[x].pc \notin CriticalPCs
  BY <1>6 DEF ControlInv, LockOK, HasLock
<1>9. \A i \in 1..Len(Tail(queue)) :
         /\ i + 1 \in 2..Len(queue)
         /\ Tail(queue)[i] \in Slots \ {s}
         /\ run[Tail(queue)[i]].pc \in WaitPCs \cup CriticalPCs
  <2> SUFFICES ASSUME NEW i \in 1..Len(Tail(queue))
               PROVE  /\ i + 1 \in 2..Len(queue)
                      /\ Tail(queue)[i] \in Slots \ {s}
                      /\ run[Tail(queue)[i]].pc \in WaitPCs \cup CriticalPCs
    OBVIOUS
  <2>1. i + 1 \in 2..Len(queue) /\ Tail(queue)[i] = queue[i + 1]
    BY <1>6
  <2>2. queue[i + 1] \in Slots
    BY <1>6, <2>1, ElementOfSeq
  <2> QED BY <1>6, <1>7, <2>1, <2>2 DEF ControlInv, LockOK
<1>10. \A x \in Slots : run'[x].pc \notin CriticalPCs
  BY <1>3, <1>8 DEF CriticalPCs
<1>11. \A i, j \in 1..Len(Tail(queue)) : Tail(queue)[i] = Tail(queue)[j] => i = j
  <2> SUFFICES ASSUME NEW i \in 1..Len(Tail(queue)), NEW j \in 1..Len(Tail(queue)),
                      Tail(queue)[i] = Tail(queue)[j]
               PROVE  i = j
    OBVIOUS
  <2>1. queue[i + 1] = queue[j + 1] /\ i + 1 \in DOMAIN queue /\ j + 1 \in DOMAIN queue
    BY <1>6
  <2>2. i + 1 = j + 1
    BY <2>1 DEF ControlInv, LockOK
  <2> QED BY <2>2
<1>12. LockOK'
  <2>1. \A i \in DOMAIN queue' : run'[queue'[i]].pc \in WaitPCs \cup CriticalPCs
    BY <1>3, <1>6, <1>9
  <2>2. \A x \in Slots : run'[x].pc \in WaitPCs => x \in ToSet(queue')
    <3> SUFFICES ASSUME NEW x \in Slots, run'[x].pc \in WaitPCs PROVE x \in ToSet(queue')
      OBVIOUS
    <3>1. x # s /\ run[x].pc \in WaitPCs
      BY <1>3 DEF WaitPCs
    <3>2. PICK i \in DOMAIN queue : queue[i] = x
      BY <3>1 DEF ControlInv, LockOK, ToSet
    <3>3. i \in 1..Len(queue) /\ i # 1
      BY <1>6, <3>1, <3>2
    <3>4. i - 1 \in 1..Len(Tail(queue)) /\ (i - 1) + 1 = i
      BY <1>6, <3>3
    <3>5. Tail(queue)[i - 1] = x
      BY <1>6, <3>2, <3>4
    <3> QED BY <1>6, <3>4, <3>5 DEF ToSet
  <2> QED BY <1>6, <1>10, <1>11, <2>1, <2>2 DEF LockOK
<1> QED BY <1>2, <1>4, <1>5, <1>6, <1>12

LEMMA ControlStep ==
    ASSUME ControlInv, [Next]_vars
    PROVE  ControlInv'
<1> USE DEF ControlInv
<1>types. /\ TypeOK /\ run \in [Slots -> Run]
          /\ \A s \in Slots : run[s] \in Run /\ run[s].todo \in Seq(Token)
  BY DEF TypeOK, Run
<1>1. ASSUME NEW e \in Events, ClientSend(e) PROVE ControlInv'
  <2>1. PICK r \in ClientRequest(released) : req' = [req EXCEPT ![e] = r]
    BY <1>1 DEF ClientSend
  <2>2. /\ r \in Request(Token) /\ r # NoReq
        /\ r.op = "mint" => Len(r.outs) = 1
        /\ r.op = "burn" => Len(r.ins) = 1
    BY ClientRequestType, RequestAssumption DEF TypeOK
  <2>3. req[e] = NoReq /\ UNCHANGED <<mem, disk, writes, savesQueued, phase, queue, run, now, faults, history>>
    BY <1>1 DEF ClientSend
  <2>4. TypeOK'
    BY <2>1, <2>2, <2>3 DEF TypeOK, history
  <2>5. RequestsOK'
    BY <2>1, <2>2, <2>3 DEF RequestsOK, TypeOK
  <2>6. \A s \in Slots : run[s].pc # "idle" => ReqOf(s)' = ReqOf(s)
    BY <2>1, <2>3 DEF RunsOK, ReqOf, TypeOK
  <2>7. RunsOK'
    BY <2>3, <2>6 DEF RunsOK
  <2>8. LockOK' /\ WritersOK'
    BY <2>3 DEF LockOK, WritersOK, HasLock
  <2> QED BY <2>4, <2>5, <2>7, <2>8
<1>2. ASSUME NEW s \in Slots, NEW e \in Events, Deliver(s, e) PROVE ControlInv'
  <2> DEFINE r == [pc |-> "received", ev |-> e, todo |-> <<>>]
  <2>1. r \in Run
    BY EmptySeq DEF Run, PCs
  <2>2. /\ run' = [run EXCEPT ![s] = r] /\ run[s].pc = "idle" /\ req[e] # NoReq
        /\ UNCHANGED <<mem, disk, writes, savesQueued, phase, queue, req, now, faults, history>>
    BY <1>2 DEF Deliver, At
  <2>3. RequestsOK' /\ RunsOK' /\ LockOK' /\ WritersOK'
    BY <2>1, <2>2, PrivateStep DEF WaitPCs, CriticalPCs
  <2>4. TypeOK'
    BY <2>1, <2>2, <1>types DEF TypeOK, history
  <2> QED BY <2>3, <2>4
<1>3. ASSUME NEW s \in Slots, FinishEvent(s) PROVE ControlInv'
  <2>1. IdleRun \in Run
    BY EmptySeq DEF IdleRun, Run, PCs
  <2>2. /\ run' = [run EXCEPT ![s] = IdleRun] /\ run[s].pc = "replied"
        /\ UNCHANGED <<disk, writes, phase, queue, req, now, faults, history>>
    BY <1>3 DEF FinishEvent, At
  <2>3. RequestsOK' /\ RunsOK' /\ LockOK' /\ WritersOK'
    BY <2>1, <2>2, PrivateStep DEF WaitPCs, CriticalPCs, IdleRun
  <2>4. run[s].ev \in Events
    BY <2>2 DEF RunsOK
  <2>5. mem' \in ForgeState
    <3>1. mem.processed \cup {run[s].ev} \in SUBSET Events
      BY <2>4 DEF TypeOK, ForgeState
    <3>2. mem' = [mem EXCEPT !.processed = mem.processed \cup {run[s].ev}]
      BY <1>3 DEF FinishEvent
    <3> QED BY <3>1, <3>2 DEF TypeOK, ForgeState
  <2>s. savesQueued' \in Nat
    BY <1>3 DEF FinishEvent, TypeOK
  <2>6. TypeOK'
    BY <2>1, <2>2, <2>5, <2>s, <1>types DEF TypeOK, history
  <2> QED BY <2>3, <2>6
<1>4. ASSUME NEW s \in Slots, MintCheck(s) PROVE ControlInv'
  <2>1. /\ run[s].pc = "received" /\ ReqOf(s).op = "mint"
        /\ UNCHANGED <<mem, disk, writes, savesQueued, phase, queue, req, now, faults, history>>
    BY <1>4 DEF MintCheck, At
  <2>2. run[s].ev \in Events /\ req[run[s].ev] # NoReq /\ ReqOf(s) \in Request(Token) /\ Len(ReqOf(s).outs) = 1
    BY <2>1 DEF RunsOK, RequestsOK, TypeOK, ReqOf
  <2>3. PICK pc \in {"building", "replied"}, todo \in Seq(Token) :
            GotoWith(s, pc, todo) /\ (pc = "building" => todo # <<>>)
    <3>1. CASE MintAccepted(ReqOf(s))
      <4>1. ReqOf(s).outs[1] \in Recipient /\ ReqOf(s).outs[1].amount > 0
        BY <2>2, <3>1, ElementOfSeq DEF Request, MintAccepted
      <4>o. /\ ReqOf(s).outs[1].amount \in Nat /\ ReqOf(s).outs[1].to \in Users
            /\ ReqOf(s).outs[1].timeLock \in Nat
        <5>1. /\ ReqOf(s).outs[1].amount \in Amounts /\ ReqOf(s).outs[1].to \in Users
              /\ ReqOf(s).outs[1].timeLock \in TimeLocks
          BY <4>1 DEF Recipient
        <5>2. ReqOf(s).outs[1].amount \in Int /\ ReqOf(s).outs[1].timeLock \in Nat
          BY <5>1, BoundsAssumption
        <5>3. ReqOf(s).outs[1].amount \in Nat
          BY <4>1, <5>2
        <5> QED BY <5>1, <5>2, <5>3
      <4>2. NewToken(ReqOf(s).outs[1]) \in Token
        BY <4>o DEF NewToken, Token, TypeOK
      <4>3. /\ <<NewToken(ReqOf(s).outs[1])>> \in Seq(Token)
            /\ <<NewToken(ReqOf(s).outs[1])>> # <<>>
        BY <4>2
      <4> QED BY <1>4, <3>1, <4>3 DEF MintCheck
    <3>2. CASE ~MintAccepted(ReqOf(s))
      BY <1>4, <3>2, <1>types DEF MintCheck, Goto
    <3> QED BY <3>1, <3>2
  <2> DEFINE r == [pc |-> pc, ev |-> run[s].ev, todo |-> todo]
  <2>4. r \in Run /\ run' = [run EXCEPT ![s] = r] /\ run' \in [Slots -> Run]
    BY <2>3, <1>types, GotoWithFacts DEF PCs
  <2>5. RequestsOK' /\ RunsOK' /\ LockOK' /\ WritersOK'
    BY <2>1, <2>2, <2>3, <2>4, PrivateStep DEF WaitPCs, CriticalPCs
  <2>6. TypeOK'
    BY <2>1, <2>4 DEF TypeOK, history
  <2> QED BY <2>5, <2>6
<1>5. ASSUME NEW s \in Slots, MintBuilt(s) PROVE ControlInv'
  <2>1. /\ run[s].pc = "building" /\ GotoWith(s, "minting", run[s].todo)
        /\ UNCHANGED <<disk, writes, savesQueued, phase, queue, req, now, faults, history>>
    BY <1>5 DEF MintBuilt, At, Goto
  <2>2. /\ run[s].ev \in Events /\ req[run[s].ev] # NoReq /\ run[s].todo # <<>>
    BY <2>1 DEF RunsOK, ReqOf
  <2> DEFINE r == [pc |-> "minting", ev |-> run[s].ev, todo |-> run[s].todo]
  <2>3. r \in Run /\ run' = [run EXCEPT ![s] = r] /\ run' \in [Slots -> Run]
    BY <2>1, <1>types, GotoWithFacts DEF PCs
  <2>4. RequestsOK' /\ RunsOK' /\ LockOK' /\ WritersOK'
    BY <2>1, <2>2, <2>3, PrivateStep DEF WaitPCs, CriticalPCs
  <2>5. run[s].todo[1] \in Token
    BY <2>2, <1>types, EmptySeq, ElementOfSeq
  <2>6. mem' \in ForgeState
    <3>1. mem.circulating + run[s].todo[1].amount \in Int
      BY <2>5 DEF TypeOK, ForgeState, Token
    <3>2. mem' = [mem EXCEPT !.circulating = mem.circulating + run[s].todo[1].amount]
      BY <1>5 DEF MintBuilt
    <3> QED BY <3>1, <3>2 DEF TypeOK, ForgeState
  <2>7. TypeOK'
    BY <2>1, <2>3, <2>6 DEF TypeOK, history
  <2> QED BY <2>4, <2>7
<1>6. ASSUME NEW s \in Slots, MintSend(s) PROVE ControlInv'
  <2>1. /\ run[s].pc = "minting" /\ GotoWith(s, "replied", <<>>)
        /\ UNCHANGED <<mem, disk, writes, savesQueued, phase, queue, req, now, faults,
                       settled, burnt, revoked>>
    BY <1>6 DEF MintSend, At
  <2>2. /\ run[s].ev \in Events /\ req[run[s].ev] # NoReq /\ run[s].todo # <<>>
    BY <2>1 DEF RunsOK, ReqOf
  <2> DEFINE r == [pc |-> "replied", ev |-> run[s].ev, todo |-> <<>>]
  <2>3. r \in Run /\ run' = [run EXCEPT ![s] = r] /\ run' \in [Slots -> Run]
    BY <2>1, <1>types, GotoWithFacts, EmptySeq DEF PCs
  <2>4. RequestsOK' /\ RunsOK' /\ LockOK' /\ WritersOK'
    BY <2>1, <2>2, <2>3, PrivateStep DEF WaitPCs, CriticalPCs
  <2>5. Head(run[s].todo) \in Token
    BY <2>2, <1>types, HeadTailProperties
  <2>6. released' \subseteq Token /\ minted' \in Int
    <3>1. CASE Head(run[s].todo).lock \in Malformed
      BY <1>6, <3>1 DEF MintSend, TypeOK
    <3>2. CASE Head(run[s].todo).lock \notin Malformed
      <4>1. /\ released' = released \cup {Head(run[s].todo)}
            /\ minted' = minted + Head(run[s].todo).amount
        BY <1>6, <3>2 DEF MintSend
      <4>2. Head(run[s].todo).amount \in Int
        BY <2>5 DEF Token
      <4>3. minted' \in Int
        BY <4>1, <4>2 DEF TypeOK
      <4> QED BY <2>5, <4>1, <4>3 DEF TypeOK
    <3> QED BY <3>1, <3>2
  <2>7. TypeOK'
    BY <2>1, <2>3, <2>6 DEF TypeOK
  <2> QED BY <2>4, <2>7
<1>7. ASSUME NEW s \in Slots, Verify(s) PROVE ControlInv'
  <2>1. /\ run[s].pc = "received" /\ GotoWith(s, "replied", run[s].todo)
        /\ UNCHANGED <<mem, disk, writes, savesQueued, phase, queue, req, now, faults, history>>
    BY <1>7 DEF Verify, At, Goto
  <2>2. run[s].ev \in Events /\ req[run[s].ev] # NoReq
    BY <2>1 DEF RunsOK, ReqOf
  <2> DEFINE r == [pc |-> "replied", ev |-> run[s].ev, todo |-> run[s].todo]
  <2>3. r \in Run /\ run' = [run EXCEPT ![s] = r] /\ run' \in [Slots -> Run]
    BY <2>1, <1>types, GotoWithFacts DEF PCs
  <2>4. RequestsOK' /\ RunsOK' /\ LockOK' /\ WritersOK'
    BY <2>1, <2>2, <2>3, PrivateStep DEF WaitPCs, CriticalPCs
  <2>5. TypeOK'
    BY <2>1, <2>3 DEF TypeOK, history
  <2> QED BY <2>4, <2>5
<1>8. ASSUME NEW s \in Slots, Enqueue(s) PROVE ControlInv'
  <2>1. /\ run[s].pc = "received" /\ phase = "up" /\ ReqOf(s).op \in {"transfer", "burn"}
        /\ GotoWith(s, "queued", run[s].todo) /\ queue' = Append(queue, s)
        /\ UNCHANGED <<mem, disk, writes, savesQueued, phase, req, now, faults, history>>
    BY <1>8 DEF Enqueue, At, Goto
  <2> DEFINE r == [pc |-> "queued", ev |-> run[s].ev, todo |-> run[s].todo]
  <2>2. r \in Run /\ run' = [run EXCEPT ![s] = r] /\ run' \in [Slots -> Run]
    BY <2>1, <1>types, GotoWithFacts DEF PCs, WaitPCs
  <2>3. run'[s] = r /\ \A x \in Slots \ {s} : run'[x] = run[x]
    BY <2>2, <1>types
  <2>4. TypeOK'
    BY <2>1, <2>2 DEF TypeOK, history
  <2>5. RequestsOK' /\ RunsOK'
    BY <2>1, <2>3 DEF RequestsOK, RunsOK, ReqOf
  <2>6. /\ queue \in Seq(Slots) /\ Len(queue) \in Nat /\ DOMAIN queue = 1..Len(queue)
        /\ \A i \in 1..Len(queue) : queue[i] \in Slots
    BY LenProperties, ElementOfSeq DEF TypeOK
  <2>7. \A i \in 1..Len(queue) : queue[i] # s
    BY <2>1, <2>6 DEF LockOK, WaitPCs, CriticalPCs
  <2>8. /\ DOMAIN queue' = 1..(Len(queue) + 1) /\ queue'[Len(queue) + 1] = s
        /\ \A i \in 1..Len(queue) : queue'[i] = queue[i]
    BY <2>1, <2>6
  <2>9. \A x \in Slots : run'[x].pc \in CriticalPCs => HasLock(x)'
    <3> SUFFICES ASSUME NEW x \in Slots, run'[x].pc \in CriticalPCs PROVE HasLock(x)'
      OBVIOUS
    <3>1. HasLock(x)
      BY <2>3 DEF LockOK, CriticalPCs
    <3>2. queue # <<>> /\ Len(queue) > 0 /\ queue[1] = x
      BY <3>1, <2>6, EmptySeq DEF HasLock
    <3> QED BY <3>2, <2>1, <2>6 DEF HasLock
  <2>10. \A i \in DOMAIN queue' : run'[queue'[i]].pc \in WaitPCs \cup CriticalPCs
    BY <2>3, <2>6, <2>7, <2>8 DEF LockOK, WaitPCs
  <2>11. \A i, j \in DOMAIN queue' : queue'[i] = queue'[j] => i = j
    BY <2>6, <2>7, <2>8 DEF LockOK
  <2>w. \A x \in Slots : run'[x].pc \in WaitPCs => x \in ToSet(queue')
    <3> SUFFICES ASSUME NEW x \in Slots, run'[x].pc \in WaitPCs PROVE x \in ToSet(queue')
      OBVIOUS
    <3>1. CASE x = s
      BY <2>6, <2>8, <3>1 DEF ToSet
    <3>2. CASE x # s
      <4>1. PICK i \in DOMAIN queue : queue[i] = x
        BY <2>3, <3>2 DEF LockOK, ToSet
      <4>2. i \in DOMAIN queue' /\ queue'[i] = x
        BY <2>6, <2>8, <4>1
      <4> QED BY <4>2 DEF ToSet
    <3> QED BY <3>1, <3>2
  <2>12. LockOK'
    BY <2>9, <2>10, <2>11, <2>w DEF LockOK
  <2>13. WritersOK'
    BY <2>1, <2>3 DEF WritersOK
  <2> QED BY <2>4, <2>5, <2>12, <2>13
<1>9. ASSUME NEW s \in Slots, TransferValidate(s) PROVE ControlInv'
  <2>1. /\ run[s].pc = "queued" /\ phase = "up" /\ ReqOf(s).op = "transfer" /\ HasLock(s)
        /\ UNCHANGED <<mem, disk, writes, savesQueued, phase, req, now, faults, history>>
    BY <1>9 DEF TransferValidate, At
  <2>2. CASE TransferAccepted(ReqOf(s))
    <3>1. GotoWith(s, "validated", run[s].todo) /\ UNCHANGED queue
      BY <1>9, <2>2 DEF TransferValidate, Goto
    <3> DEFINE r == [pc |-> "validated", ev |-> run[s].ev, todo |-> run[s].todo]
    <3>2. r \in Run /\ run' = [run EXCEPT ![s] = r] /\ run' \in [Slots -> Run]
      BY <3>1, <1>types, GotoWithFacts DEF PCs, CriticalPCs
    <3>3. Payable(ReqOf(s))
      BY <2>2 DEF TransferAccepted, Payable
    <3>4. RequestsOK' /\ RunsOK' /\ LockOK'
      BY <2>1, <3>1, <3>2, <3>3, LockedStep DEF WaitPCs, CriticalPCs
    <3>5. TypeOK' /\ WritersOK'
      BY <2>1, <3>1, <3>2, <1>types DEF TypeOK, history, WritersOK
    <3> QED BY <3>4, <3>5
  <2>3. CASE ~TransferAccepted(ReqOf(s))
    <3>1. GotoWith(s, "replied", run[s].todo) /\ queue' = Tail(queue)
      BY <1>9, <2>3 DEF TransferValidate, Goto, Release
    <3>2. /\ run' \in [Slots -> Run] /\ queue' \in Seq(Slots)
          /\ RequestsOK' /\ RunsOK' /\ LockOK'
      BY <2>1, <3>1, <1>types, UnlockStep DEF WaitPCs
    <3>3. \A x \in Slots \ {s} : run'[x] = run[x]
      BY <3>1, <1>types DEF GotoWith
    <3>4. TypeOK' /\ WritersOK'
      BY <2>1, <3>2, <3>3 DEF TypeOK, history, WritersOK
    <3> QED BY <3>2, <3>4
  <2> QED BY <2>2, <2>3
<1>10. ASSUME NEW s \in Slots, TransferSign(s) PROVE ControlInv'
  <2>1. /\ run[s].pc = "validated" /\ GotoWith(s, "signed", Outputs(ReqOf(s)))
        /\ UNCHANGED <<mem, disk, writes, savesQueued, phase, queue, req, now, faults, history>>
    BY <1>10 DEF TransferSign, At
  <2>2. /\ ReqOf(s) \in Request(Token) /\ ReqOf(s).op = "transfer" /\ Payable(ReqOf(s))
        /\ HasLock(s)
    BY <2>1 DEF RunsOK, TypeOK, ReqOf, LockOK, CriticalPCs
  <2>3. Outputs(ReqOf(s)) \in Seq(Token)
    BY <2>2, OutputsType DEF TypeOK
  <2> DEFINE r == [pc |-> "signed", ev |-> run[s].ev, todo |-> Outputs(ReqOf(s))]
  <2>4. r \in Run /\ run' = [run EXCEPT ![s] = r] /\ run' \in [Slots -> Run]
    BY <2>1, <2>3, <1>types, GotoWithFacts DEF PCs, CriticalPCs
  <2>5. RequestsOK' /\ RunsOK' /\ LockOK'
    BY <2>1, <2>2, <2>4, LockedStep DEF WaitPCs, CriticalPCs
  <2>6. TypeOK' /\ WritersOK'
    BY <2>1, <2>4, <1>types DEF TypeOK, history, WritersOK
  <2> QED BY <2>5, <2>6
<1>11. ASSUME NEW s \in Slots, PublishSpent(s, ReqOf(s).ins), GotoWith(s, "saving", run[s].todo),
              HasLock(s), run[s].pc \in {"queued", "signed"},
              ReqOf(s).op \in {"transfer", "burn"}, phase = "up",
              UNCHANGED <<disk, savesQueued, phase, queue, req, now, faults, history>>
       PROVE  ControlInv'
  <2>1. ReqOf(s) \in Request(Token) /\ ReqOf(s).ins \in Seq(Token)
    BY <1>11 DEF RunsOK, TypeOK, ReqOf, Request
  <2> DEFINE r == [pc |-> "saving", ev |-> run[s].ev, todo |-> run[s].todo]
  <2>2. r \in Run /\ run' = [run EXCEPT ![s] = r] /\ run' \in [Slots -> Run]
    BY <1>11, <1>types, GotoWithFacts DEF PCs, CriticalPCs
  <2>3. RequestsOK' /\ RunsOK' /\ LockOK'
    BY <1>11, <2>2, LockedStep DEF WaitPCs, CriticalPCs
  <2>4. /\ mem' \in ForgeState /\ writes' \in Seq(Write)
        /\ Len(writes') = Len(writes) + Len(ReqOf(s).ins)
        /\ \A i \in 1..Len(writes) : writes'[i] = writes[i]
        /\ \A i \in (Len(writes) + 1)..(Len(writes) + Len(ReqOf(s).ins)) : writes'[i].by = s
    <3>1. mem \in ForgeState /\ writes \in Seq(Write)
      BY DEF TypeOK
    <3> HIDE DEF ControlInv
    <3> QED BY <1>11, <2>1, <3>1, PublishSpentFacts
  <2>5. TypeOK'
    BY <1>11, <2>2, <2>4 DEF TypeOK, history
  <2>6. /\ DOMAIN writes' = 1..(Len(writes) + Len(ReqOf(s).ins)) /\ DOMAIN writes = 1..Len(writes)
        /\ Len(writes) \in Nat /\ Len(ReqOf(s).ins) \in Nat
    BY <2>1, <2>4, LenProperties DEF TypeOK
  <2>7. \A i \in DOMAIN writes' : writes'[i].by \in Slots => run'[writes'[i].by].pc = "saving"
    <3> SUFFICES ASSUME NEW i \in DOMAIN writes', writes'[i].by \in Slots
                 PROVE  run'[writes'[i].by].pc = "saving"
      OBVIOUS
    <3>1. CASE i <= Len(writes)
      BY <3>1, <2>2, <2>4, <2>6, <1>types DEF WritersOK
    <3>2. CASE ~(i <= Len(writes))
      BY <3>2, <2>2, <2>4, <2>6, <1>types
    <3> QED BY <3>1, <3>2
  <2>8. WritersOK'
    BY <1>11, <2>7 DEF WritersOK
  <2> QED BY <2>3, <2>5, <2>8
<1>12. ASSUME NEW s \in Slots, TransferMark(s) PROVE ControlInv'
  <2>1. /\ PublishSpent(s, ReqOf(s).ins) /\ GotoWith(s, "saving", run[s].todo)
        /\ run[s].pc = "signed" /\ phase = "up"
        /\ UNCHANGED <<disk, savesQueued, phase, queue, req, now, faults, history>>
    BY <1>12 DEF TransferMark, At, Goto
  <2>2. HasLock(s) /\ ReqOf(s).op = "transfer"
    BY <2>1 DEF LockOK, RunsOK, CriticalPCs
  <2> QED BY <1>11, <2>1, <2>2
<1>13. ASSUME NEW s \in Slots, BurnMark(s) PROVE ControlInv'
  <2>1. /\ run[s].pc = "queued" /\ phase = "up" /\ ReqOf(s).op = "burn" /\ HasLock(s)
        /\ UNCHANGED <<disk, savesQueued, phase, req, now, faults, history>>
    BY <1>13 DEF BurnMark, At
  <2>2. CASE ReqOf(s).ins[1] \in mem.spent
    <3>1. GotoWith(s, "replied", run[s].todo) /\ queue' = Tail(queue) /\ UNCHANGED <<mem, writes>>
      BY <1>13, <2>2 DEF BurnMark, Goto, Release
    <3>2. /\ run' \in [Slots -> Run] /\ queue' \in Seq(Slots)
          /\ RequestsOK' /\ RunsOK' /\ LockOK'
      BY <2>1, <3>1, <1>types, UnlockStep DEF WaitPCs
    <3>3. \A x \in Slots \ {s} : run'[x] = run[x]
      BY <3>1, <1>types DEF GotoWith
    <3>4. TypeOK' /\ WritersOK'
      BY <2>1, <3>1, <3>2, <3>3 DEF TypeOK, history, WritersOK
    <3> QED BY <3>2, <3>4
  <2>3. CASE ReqOf(s).ins[1] \notin mem.spent
    <3>1. PublishSpent(s, ReqOf(s).ins) /\ GotoWith(s, "saving", run[s].todo) /\ UNCHANGED queue
      BY <1>13, <2>3 DEF BurnMark, Goto
    <3> QED BY <1>11, <2>1, <3>1
  <2> QED BY <2>2, <2>3
<1>14. ASSUME NEW s \in Slots, TransferSettle(s) PROVE ControlInv'
  <2>1. /\ run[s].pc = "saving" /\ phase = "up" /\ ReqOf(s).op = "transfer" /\ Saved(s)
        /\ settled' = settled \cup ToSet(ReqOf(s).ins)
        /\ GotoWith(s, "releasing", run[s].todo)
        /\ UNCHANGED <<mem, disk, writes, savesQueued, phase, queue, req, now, faults,
                       released, minted, burnt, revoked>>
    BY <1>14 DEF TransferSettle, At, Goto
  <2>2. /\ ReqOf(s) \in Request(Token) /\ HasLock(s)
    BY <2>1 DEF RunsOK, TypeOK, ReqOf, LockOK, CriticalPCs
  <2> DEFINE r == [pc |-> "releasing", ev |-> run[s].ev, todo |-> run[s].todo]
  <2>3. r \in Run /\ run' = [run EXCEPT ![s] = r] /\ run' \in [Slots -> Run]
    BY <2>1, <1>types, GotoWithFacts DEF PCs, CriticalPCs
  <2>4. RequestsOK' /\ RunsOK' /\ LockOK'
    BY <2>1, <2>2, <2>3, LockedStep DEF WaitPCs, CriticalPCs
  <2>5. settled' \subseteq Token
    BY <2>1, <2>2, LenProperties, ElementOfSeq DEF TypeOK, ToSet, Request
  <2>6. TypeOK'
    BY <2>1, <2>3, <2>5 DEF TypeOK
  <2>7. WritersOK'
    BY <2>1, <2>3, <1>types DEF WritersOK, Saved
  <2> QED BY <2>4, <2>6, <2>7
<1>15. ASSUME NEW s \in Slots, BurnSettle(s) PROVE ControlInv'
  <2>1. /\ run[s].pc = "saving" /\ phase = "up" /\ ReqOf(s).op = "burn" /\ Saved(s)
        /\ settled' = settled \cup ToSet(ReqOf(s).ins)
        /\ burnt' = burnt + ReqOf(s).ins[1].amount
        /\ GotoWith(s, "replied", run[s].todo) /\ queue' = Tail(queue)
        /\ UNCHANGED <<mem, disk, writes, savesQueued, phase, req, now, faults,
                       released, minted, revoked>>
    BY <1>15 DEF BurnSettle, At, Goto, Release
  <2>2. /\ ReqOf(s) \in Request(Token) /\ HasLock(s) /\ Len(ReqOf(s).ins) = 1
    BY <2>1 DEF RunsOK, TypeOK, ReqOf, LockOK, CriticalPCs, RequestsOK
  <2>3. /\ run' \in [Slots -> Run] /\ queue' \in Seq(Slots)
        /\ RequestsOK' /\ RunsOK' /\ LockOK'
    BY <2>1, <2>2, <1>types, UnlockStep DEF CriticalPCs
  <2>4. settled' \subseteq Token
    BY <2>1, <2>2, LenProperties, ElementOfSeq DEF TypeOK, ToSet, Request
  <2>5. burnt' \in Int
    BY <2>1, <2>2, ElementOfSeq DEF TypeOK, Request, Token
  <2>6. TypeOK'
    BY <2>1, <2>3, <2>4, <2>5 DEF TypeOK
  <2>7. \A x \in Slots \ {s} : run'[x] = run[x]
    BY <2>1, <1>types DEF GotoWith
  <2>8. WritersOK'
    BY <2>1, <2>7 DEF WritersOK, Saved
  <2> QED BY <2>3, <2>6, <2>8
<1>16. ASSUME NEW s \in Slots, TransferSend(s) PROVE ControlInv'
  <2>1. /\ run[s].pc = "releasing" /\ phase = "up" /\ run[s].todo # <<>>
        /\ UNCHANGED <<mem, disk, writes, savesQueued, phase, req, now, faults,
                       settled, minted, burnt, revoked>>
    BY <1>16 DEF TransferSend, At
  <2>2. HasLock(s) /\ ReqOf(s).op = "transfer"
    BY <2>1 DEF RunsOK, LockOK, CriticalPCs
  <2>3. Head(run[s].todo) \in Token /\ Tail(run[s].todo) \in Seq(Token)
    BY <2>1, <1>types, HeadTailProperties
  <2>4. CASE Head(run[s].todo).lock \in Malformed
    <3>1. GotoWith(s, "replied", <<>>) /\ queue' = Tail(queue) /\ UNCHANGED released
      BY <1>16, <2>4 DEF TransferSend, Release
    <3>2. /\ run' \in [Slots -> Run] /\ queue' \in Seq(Slots)
          /\ RequestsOK' /\ RunsOK' /\ LockOK'
      BY <2>1, <2>2, <3>1, EmptySeq, UnlockStep DEF CriticalPCs
    <3>3. \A x \in Slots \ {s} : run'[x] = run[x]
      BY <3>1, <1>types DEF GotoWith
    <3>4. TypeOK' /\ WritersOK'
      BY <2>1, <3>1, <3>2, <3>3 DEF TypeOK, WritersOK
    <3> QED BY <3>2, <3>4
  <2>5. CASE Head(run[s].todo).lock \notin Malformed
    <3>1. /\ GotoWith(s, "releasing", Tail(run[s].todo)) /\ UNCHANGED queue
          /\ released' = released \cup {Head(run[s].todo)}
      BY <1>16, <2>5 DEF TransferSend
    <3> DEFINE r == [pc |-> "releasing", ev |-> run[s].ev, todo |-> Tail(run[s].todo)]
    <3>2. r \in Run /\ run' = [run EXCEPT ![s] = r] /\ run' \in [Slots -> Run]
      BY <3>1, <2>3, <1>types, GotoWithFacts DEF PCs, CriticalPCs
    <3>3. RequestsOK' /\ RunsOK' /\ LockOK'
      BY <2>1, <2>2, <3>1, <3>2, LockedStep DEF CriticalPCs
    <3>4. TypeOK' /\ WritersOK'
      BY <2>1, <2>3, <3>1, <3>2, <1>types DEF TypeOK, WritersOK
    <3> QED BY <3>3, <3>4
  <2> QED BY <2>4, <2>5
<1>17. ASSUME NEW s \in Slots, TransferReturn(s) PROVE ControlInv'
  <2>1. /\ run[s].pc = "releasing" /\ phase = "up" /\ GotoWith(s, "replied", run[s].todo) /\ queue' = Tail(queue)
        /\ UNCHANGED <<mem, disk, writes, savesQueued, phase, req, now, faults, history>>
    BY <1>17 DEF TransferReturn, At, Goto, Release
  <2>2. HasLock(s)
    BY <2>1 DEF LockOK, CriticalPCs
  <2>3. /\ run' \in [Slots -> Run] /\ queue' \in Seq(Slots)
        /\ RequestsOK' /\ RunsOK' /\ LockOK'
    BY <2>1, <2>2, <1>types, UnlockStep DEF CriticalPCs
  <2>4. \A x \in Slots \ {s} : run'[x] = run[x]
    BY <2>1, <1>types DEF GotoWith
  <2>5. TypeOK' /\ WritersOK'
    BY <2>1, <2>3, <2>4 DEF TypeOK, history, WritersOK
  <2> QED BY <2>3, <2>5
<1>18. ASSUME NEW by \in Users \cup {"queue"}, NEW state \in ForgeState, Save(by, state),
              phase = "up", mem' \in ForgeState, savesQueued' \in Nat, revoked' \subseteq Users,
              UNCHANGED <<disk, phase, queue, run, req, now, faults,
                          released, settled, minted, burnt>>
       PROVE  ControlInv'
  <2>1. /\ writes' = Append(writes, [by |-> by, snap |-> state])
        /\ [by |-> by, snap |-> state] \in Write /\ by \notin Slots
    BY <1>18, SentinelAssumption DEF Save, Write
  <2>2. /\ writes' \in Seq(Write) /\ DOMAIN writes' = 1..(Len(writes) + 1)
        /\ DOMAIN writes = 1..Len(writes) /\ Len(writes) \in Nat
        /\ writes'[Len(writes) + 1] = [by |-> by, snap |-> state]
        /\ \A i \in 1..Len(writes) : writes'[i] = writes[i]
    BY <2>1, LenProperties DEF TypeOK
  <2>3. TypeOK'
    BY <1>18, <2>2 DEF TypeOK
  <2>4. RequestsOK' /\ RunsOK' /\ LockOK'
    BY <1>18 DEF RequestsOK, RunsOK, LockOK, ReqOf, HasLock
  <2>5. \A i \in DOMAIN writes' : writes'[i].by \in Slots => run'[writes'[i].by].pc = "saving"
    <3> SUFFICES ASSUME NEW i \in DOMAIN writes', writes'[i].by \in Slots
                 PROVE  run'[writes'[i].by].pc = "saving"
      OBVIOUS
    <3>1. i \in 1..Len(writes)
      BY <2>1, <2>2
    <3> QED BY <1>18, <2>2, <3>1 DEF WritersOK
  <2>6. WritersOK'
    BY <1>18, <2>5 DEF WritersOK
  <2> QED BY <2>3, <2>4, <2>6
<1>19. ASSUME NEW p \in AdminKeys, AddForger(p) \/ RemoveForger(p) PROVE ControlInv'
  <2>1. p \in Users
    BY KeysAssumption
  <2>2. CASE AddForger(p)
    <3> DEFINE state == [mem EXCEPT !.forgers = mem.forgers \cup {p}]
    <3>1. state \in ForgeState
      BY <2>1 DEF TypeOK, ForgeState
    <3>2. /\ phase = "up" /\ mem' = state /\ Save(p, state) /\ revoked' = revoked \ {p}
          /\ UNCHANGED <<disk, savesQueued, phase, queue, run, req, now, faults,
                         released, settled, minted, burnt>>
      BY <2>2 DEF AddForger, AdminIdle
    <3>3. savesQueued' \in Nat /\ revoked' \subseteq Users
      BY <3>2 DEF TypeOK
    <3> HIDE DEF state, ControlInv
    <3> QED BY <1>18, <2>1, <3>1, <3>2, <3>3
  <2>3. CASE RemoveForger(p)
    <3> DEFINE state == [mem EXCEPT !.forgers = mem.forgers \ {p}]
    <3>1. state \in ForgeState
      BY DEF TypeOK, ForgeState
    <3>2. /\ phase = "up" /\ mem' = state /\ Save(p, state)
          /\ UNCHANGED <<disk, savesQueued, phase, queue, run, req, now, faults,
                         released, settled, minted, burnt, revoked>>
      BY <2>3 DEF RemoveForger, AdminIdle, history
    <3>3. savesQueued' \in Nat /\ revoked' \subseteq Users
      BY <3>2 DEF TypeOK
    <3> HIDE DEF state, ControlInv
    <3> QED BY <1>18, <2>1, <3>1, <3>2, <3>3
  <2> QED BY <1>19, <2>2, <2>3
<1>20. CASE StartQueuedSave
  <2>1. /\ phase = "up" /\ savesQueued > 0 /\ Save("queue", mem)
        /\ savesQueued' = savesQueued - 1
        /\ UNCHANGED <<mem, disk, phase, queue, run, req, now, faults,
                       released, settled, minted, burnt, revoked>>
    BY <1>20 DEF StartQueuedSave, history
  <2>2. mem \in ForgeState /\ mem' \in ForgeState /\ revoked' \subseteq Users
    BY <2>1 DEF TypeOK
  <2>3. savesQueued' \in Nat
    BY <2>1 DEF TypeOK
  <2> HIDE DEF ControlInv
  <2> QED BY <1>18, <2>1, <2>2, <2>3
<1>21. CASE EndOfStoredEvents \/ Tick \/ LoadState \/ Subscribe
  <2>1. TypeOK'
    BY <1>21 DEF EndOfStoredEvents, Tick, LoadState, Subscribe, TypeOK, history
  <2>2. RequestsOK' /\ RunsOK' /\ LockOK' /\ WritersOK'
    BY <1>21 DEF EndOfStoredEvents, Tick, LoadState, Subscribe, RequestsOK, RunsOK, LockOK,
                 WritersOK, ReqOf, HasLock
  <2> QED BY <2>1, <2>2
<1>22. CASE Crash
  <2>1. /\ phase' = "down" /\ mem' = EmptyState /\ writes' = <<>> /\ savesQueued' = 0
        /\ queue' = <<>> /\ run' = [s \in Slots |-> IdleRun] /\ faults' = faults + 1
        /\ UNCHANGED <<disk, req, now, history>>
    BY <1>22 DEF Crash
  <2>2. EmptyState \in ForgeState /\ IdleRun \in Run /\ IdleRun.pc = "idle"
    BY KeysAssumption, EmptySeq DEF EmptyState, ForgeState, IdleRun, Run, PCs
  <2>3. TypeOK'
    BY <2>1, <2>2, EmptySeq DEF TypeOK, history
  <2>4. RequestsOK' /\ RunsOK' /\ LockOK' /\ WritersOK'
    BY <2>1, <2>2 DEF RequestsOK, RunsOK, LockOK, WritersOK, CriticalPCs, WaitPCs
  <2> QED BY <2>3, <2>4
<1>23. ASSUME NEW i \in DOMAIN writes, WriteLands(i) PROVE ControlInv'
  <2>1. /\ i \in 1..Len(writes) /\ writes \in Seq(Write) /\ writes[i] \in Write
        /\ DOMAIN writes = 1..Len(writes) /\ Len(writes) \in Nat
    BY LenProperties, ElementOfSeq DEF TypeOK
  <2>2. /\ disk' = writes[i].snap /\ writes' = RemoveAt(writes, i)
        /\ UNCHANGED <<mem, savesQueued, phase, queue, run, req, now, faults,
                       released, settled, minted, burnt>>
    BY <1>23 DEF WriteLands
  <2>3. /\ writes' \in Seq(Write) /\ Len(writes') = Len(writes) - 1
        /\ \A j \in 1..(Len(writes) - 1) :
              writes'[j] = IF j < i THEN writes[j] ELSE writes[j + 1]
    BY <2>1, <2>2, RemoveAtFacts
  <2>4. revoked' \subseteq Users /\ disk' \in ForgeState
    BY <1>23, <2>1 DEF WriteLands, TypeOK, Write
  <2>5. TypeOK'
    BY <2>2, <2>3, <2>4 DEF TypeOK
  <2>6. RequestsOK' /\ RunsOK' /\ LockOK'
    BY <2>2 DEF RequestsOK, RunsOK, LockOK, ReqOf, HasLock
  <2>7. DOMAIN writes' = 1..(Len(writes) - 1)
    BY <2>3, LenProperties
  <2>8. phase = "up"
    BY <2>1, EmptySeq DEF WritersOK
  <2>9. WritersOK'
    <3> SUFFICES ASSUME NEW j \in DOMAIN writes', writes'[j].by \in Slots
                 PROVE  run'[writes'[j].by].pc = "saving"
      BY <2>2, <2>8 DEF WritersOK
    <3>1. j \in 1..(Len(writes) - 1)
      BY <2>7
    <3>2. CASE j < i
      BY <2>1, <2>2, <2>3, <3>1, <3>2 DEF WritersOK
    <3>3. CASE ~(j < i)
      <4>1. writes'[j] = writes[j + 1] /\ j + 1 \in DOMAIN writes
        BY <2>1, <2>3, <3>1, <3>3
      <4> QED BY <2>2, <4>1 DEF WritersOK
    <3> QED BY <3>2, <3>3
  <2> QED BY <2>5, <2>6, <2>9
<1>24. ASSUME NEW i \in DOMAIN writes, WriteFails(i) PROVE ControlInv'
  <2>1. /\ i \in 1..Len(writes) /\ writes \in Seq(Write) /\ writes[i] \in Write
        /\ DOMAIN writes = 1..Len(writes) /\ Len(writes) \in Nat
    BY LenProperties, ElementOfSeq DEF TypeOK
  <2> DEFINE rest == RemoveAt(writes, i)
  <2>2. /\ rest \in Seq(Write) /\ Len(rest) = Len(writes) - 1
        /\ \A j \in 1..(Len(writes) - 1) :
              rest[j] = IF j < i THEN writes[j] ELSE writes[j + 1]
    BY <2>1, RemoveAtFacts
  <2>3. \A j \in 1..Len(rest) : rest[j].by \in Slots => run[rest[j].by].pc = "saving"
    BY <2>1, <2>2 DEF WritersOK
  <2>4. phase = "up"
    BY <2>1, EmptySeq DEF WritersOK
  <2>5. faults' \in Nat /\ UNCHANGED <<mem, disk, savesQueued, phase, req, now, history>>
    BY <1>24 DEF WriteFails, TypeOK
  <2> HIDE DEF rest
  <2>6. CASE writes[i].by \in Slots
    <3> DEFINE s == writes[i].by
    <3>1. writes' = Abandon(rest, s) /\ GotoWith(s, "replied", <<>>) /\ queue' = Tail(queue)
      BY <1>24, <2>6 DEF WriteFails, Release, rest
    <3>2. run[s].pc = "saving" /\ HasLock(s)
      BY <2>1, <2>6 DEF WritersOK, LockOK, CriticalPCs
    <3>3. /\ run' \in [Slots -> Run] /\ queue' \in Seq(Slots)
          /\ RequestsOK' /\ RunsOK' /\ LockOK'
      BY <2>5, <2>6, <3>1, <3>2, EmptySeq, UnlockStep DEF CriticalPCs
    <3>4. /\ writes' \in Seq(Write) /\ Len(writes') = Len(rest)
          /\ \A j \in 1..Len(rest) : writes'[j].by = IF rest[j].by = s THEN "orphan" ELSE rest[j].by
      BY <2>2, <3>1, AbandonFacts
    <3>5. TypeOK'
      BY <2>5, <3>3, <3>4 DEF TypeOK, history
    <3>6. DOMAIN writes' = 1..Len(rest)
      BY <3>4, LenProperties
    <3>7. \A x \in Slots \ {s} : run'[x] = run[x]
      BY <3>1, <1>types DEF GotoWith
    <3>8. "orphan" \notin Slots
      BY SentinelAssumption
    <3> HIDE DEF s
    <3>9. WritersOK'
      BY <2>3, <2>4, <2>5, <3>4, <3>6, <3>7, <3>8 DEF WritersOK
    <3> QED BY <3>3, <3>5, <3>9
  <2>7. CASE writes[i].by \notin Slots
    <3>1. writes' = rest /\ UNCHANGED <<run, queue>>
      BY <1>24, <2>7 DEF WriteFails, rest
    <3>2. TypeOK'
      BY <2>2, <2>5, <3>1 DEF TypeOK, history
    <3>3. RequestsOK' /\ RunsOK' /\ LockOK'
      BY <2>5, <3>1 DEF RequestsOK, RunsOK, LockOK, ReqOf, HasLock
    <3>4. WritersOK'
      BY <2>2, <2>3, <2>4, <2>5, <3>1, LenProperties DEF WritersOK
    <3> QED BY <3>2, <3>3, <3>4
  <2> QED BY <2>6, <2>7
<1>25. CASE UNCHANGED vars
  <2>1. TypeOK'
    BY <1>25 DEF vars, TypeOK
  <2>2. RequestsOK' /\ RunsOK' /\ LockOK' /\ WritersOK'
    BY <1>25 DEF vars, RequestsOK, RunsOK, LockOK, WritersOK, ReqOf, HasLock
  <2> QED BY <2>1, <2>2
<1> HIDE DEF ControlInv
<1> QED
  BY <1>1, <1>2, <1>3, <1>4, <1>5, <1>6, <1>7, <1>8, <1>9, <1>10, <1>12, <1>13, <1>14, <1>15,
     <1>16, <1>17, <1>19, <1>20, <1>21, <1>22, <1>23, <1>24, <1>25 DEF Next, HandlerStep

(* Every state of the forge has its variables in their types, whatever     *)
(* order storage keeps: and at every moment at most one run is between the *)
(* check of its inputs and the end of its answer.                          *)
THEOREM ControlCorrect == Spec => []ControlInv
<1>1. Init => ControlInv
  BY ControlInit
<1>2. ControlInv /\ [Next]_vars => ControlInv'
  BY ControlStep
<1> QED BY <1>1, <1>2, PTL DEF Spec

THEOREM TypeCorrect == Spec => []TypeOK
<1>1. ControlInv => TypeOK
  BY DEF ControlInv
<1> QED BY <1>1, ControlCorrect, PTL

(* Nobody waits for a run that cannot go on: the head of the queue can     *)
(* take its next step, or awaits a save of its own that storage has not    *)
(* settled.  The lock waits for nothing else (_withSpendLock).             *)
THEOREM NobodyStuckTheorem == Spec => []NobodyStuck
<1>1. ASSUME ControlInv PROVE NobodyStuck
  <2> USE <1>1 DEF ControlInv
  <2> SUFFICES ASSUME NEW s \in Slots, run[s].pc = "queued"
               PROVE  \E h \in Slots : HasLock(h) /\ (CanGoOn(h) \/ AwaitsSave(h))
    BY DEF NobodyStuck
  <2>1. queue \in Seq(Slots) /\ DOMAIN queue = 1..Len(queue) /\ Len(queue) \in Nat
    BY LenProperties DEF TypeOK
  <2>2. PICK i \in DOMAIN queue : queue[i] = s
    BY DEF LockOK, WaitPCs, ToSet
  <2>3. queue # <<>> /\ 1 \in DOMAIN queue
    BY <2>1, <2>2, EmptySeq
  <2> DEFINE h == queue[1]
  <2>4. h \in Slots /\ HasLock(h)
    BY <2>1, <2>3, ElementOfSeq, HeadTailProperties DEF HasLock
  <2>5. phase = "up"
    BY <2>3 DEF WritersOK
  <2>6. run[h].pc \in WaitPCs \cup CriticalPCs
    BY <2>3 DEF LockOK
  <2>7. CanGoOn(h) \/ AwaitsSave(h)
    BY <2>4, <2>5, <2>6 DEF CanGoOn, AwaitsSave, At, WaitPCs, CriticalPCs, RunsOK
  <2> QED BY <2>4, <2>7
<1> QED BY <1>1, ControlCorrect, PTL

(* One step of the queue and of the run at its head.                       *)
QueueMoves ==
    \/ queue' = queue
    \/ queue # <<>> /\ queue' = Tail(queue)
    \/ \E a \in Slots : run[a].pc = "received" /\ queue' = Append(queue, a)
    \/ queue' = <<>>
HeadMoves == \A h \in Slots : HasLock(h) /\ run'[h] # run[h] => Nearer(run'[h], run[h])

LEMMA RemainingFacts ==
    /\ Remaining["queued"] = 5 /\ Remaining["validated"] = 4 /\ Remaining["signed"] = 3
    /\ Remaining["saving"] = 2 /\ Remaining["releasing"] = 1
    /\ Remaining["replied"] = 0 /\ Remaining["idle"] = 0
  BY DEF Remaining, PCs, WaitPCs, CriticalPCs

(* Only the head of the queue is at its critical points, and it is a run   *)
(* that waits or is there.                                                 *)
LEMMA HeadFacts ==
    ASSUME ControlInv, NEW h \in Slots, HasLock(h)
    PROVE  /\ run[h].pc \in WaitPCs \cup CriticalPCs
           /\ \A s \in Slots : run[s].pc \in CriticalPCs \/ HasLock(s) => s = h
           /\ queue # <<>>
<1>1. 1 \in DOMAIN queue /\ queue[1] = h /\ queue # <<>>
  BY LenProperties, EmptySeq, HeadTailProperties DEF ControlInv, TypeOK, HasLock
<1> QED BY <1>1 DEF ControlInv, LockOK, HasLock

(* A step of a run that is not in the queue leaves the head alone.         *)
LEMMA OutsiderStep ==
    ASSUME ControlInv, NEW s \in Slots, run[s].pc \notin WaitPCs \cup CriticalPCs,
           NEW r, run' = [run EXCEPT ![s] = r]
    PROVE  HeadMoves
  BY HeadFacts DEF HeadMoves, ControlInv, TypeOK

(* A step of the run with the lock that lowers what remains to be done.    *)
LEMMA HeadStep ==
    ASSUME ControlInv, NEW s \in Slots, HasLock(s),
           NEW r, run' = [run EXCEPT ![s] = r], Nearer(r, run[s])
    PROVE  HeadMoves
  BY HeadFacts DEF HeadMoves, ControlInv, TypeOK

LEMMA TurnStep ==
    ASSUME ControlInv, [Next]_vars
    PROVE  QueueMoves /\ HeadMoves
<1> USE DEF ControlInv
<1>types. /\ run \in [Slots -> Run] /\ \A s \in Slots : run[s] \in Run
          /\ \A s \in Slots : run[s].pc \in PCs
  BY DEF TypeOK, Run
<1>in. \A s \in Slots : run[s].pc \in CriticalPCs => HasLock(s) /\ queue # <<>>
  BY DEF LockOK, HasLock
<1>go. ASSUME NEW s \in Slots, NEW pc, NEW todo, GotoWith(s, pc, todo),
              HasLock(s), Remaining[pc] < Remaining[run[s].pc]
       PROVE  HeadMoves
  <2> DEFINE r == [pc |-> pc, ev |-> run[s].ev, todo |-> todo]
  <2>1. Nearer(r, run[s]) /\ run' = [run EXCEPT ![s] = r]
    BY <1>go DEF Nearer, GotoWith
  <2> HIDE DEF r
  <2> QED BY <1>go, <2>1, HeadStep
<1>out. ASSUME NEW s \in Slots, NEW pc, NEW todo, GotoWith(s, pc, todo),
               run[s].pc \notin WaitPCs \cup CriticalPCs
        PROVE  HeadMoves
  BY <1>out, OutsiderStep DEF GotoWith
<1>1. ASSUME NEW s \in Slots, NEW e \in Events, Deliver(s, e) PROVE QueueMoves /\ HeadMoves
  <2>1. HeadMoves
    BY <1>1, OutsiderStep DEF Deliver, At, WaitPCs, CriticalPCs
  <2> QED BY <1>1, <2>1 DEF Deliver, QueueMoves
<1>2. ASSUME NEW s \in Slots, FinishEvent(s) PROVE QueueMoves /\ HeadMoves
  <2>1. HeadMoves
    BY <1>2, OutsiderStep DEF FinishEvent, At, WaitPCs, CriticalPCs
  <2> QED BY <1>2, <2>1 DEF FinishEvent, QueueMoves
<1>3. ASSUME NEW s \in Slots, MintCheck(s) PROVE QueueMoves /\ HeadMoves
  <2>1. PICK pc, todo : GotoWith(s, pc, todo)
    BY <1>3 DEF MintCheck, Goto
  <2>2. run[s].pc \notin WaitPCs \cup CriticalPCs /\ UNCHANGED queue
    BY <1>3 DEF MintCheck, At, WaitPCs, CriticalPCs
  <2> QED BY <1>out, <2>1, <2>2 DEF QueueMoves
<1>4. ASSUME NEW s \in Slots, MintBuilt(s) \/ Verify(s) PROVE QueueMoves /\ HeadMoves
  <2>1. PICK pc, todo : GotoWith(s, pc, todo)
    BY <1>4 DEF MintBuilt, Verify, Goto
  <2>2. run[s].pc \notin WaitPCs \cup CriticalPCs /\ UNCHANGED queue
    BY <1>4 DEF MintBuilt, Verify, At, WaitPCs, CriticalPCs
  <2> QED BY <1>out, <2>1, <2>2 DEF QueueMoves
<1>5. ASSUME NEW s \in Slots, MintSend(s) PROVE QueueMoves /\ HeadMoves
  <2>1. GotoWith(s, "replied", <<>>) /\ UNCHANGED queue
    BY <1>5 DEF MintSend
  <2>2. run[s].pc \notin WaitPCs \cup CriticalPCs
    BY <1>5 DEF MintSend, At, WaitPCs, CriticalPCs
  <2> QED BY <1>out, <2>1, <2>2 DEF QueueMoves
<1>6. ASSUME NEW s \in Slots, Enqueue(s) PROVE QueueMoves /\ HeadMoves
  <2>1. /\ run[s].pc = "received" /\ queue' = Append(queue, s)
        /\ GotoWith(s, "queued", run[s].todo)
    BY <1>6 DEF Enqueue, At, Goto
  <2> QED BY <1>out, <2>1 DEF QueueMoves, WaitPCs, CriticalPCs
<1>7. ASSUME NEW s \in Slots, TransferValidate(s) PROVE QueueMoves /\ HeadMoves
  <2>1. /\ run[s].pc = "queued" /\ HasLock(s) /\ queue # <<>>
        /\ \/ GotoWith(s, "validated", run[s].todo) /\ UNCHANGED queue
           \/ GotoWith(s, "replied", run[s].todo) /\ queue' = Tail(queue)
    BY <1>7 DEF TransferValidate, At, Goto, Release, HasLock
  <2> QED BY <1>go, <2>1, RemainingFacts DEF QueueMoves
<1>8. ASSUME NEW s \in Slots, TransferSign(s) PROVE QueueMoves /\ HeadMoves
  <2>1. /\ run[s].pc = "validated" /\ HasLock(s) /\ UNCHANGED queue
        /\ GotoWith(s, "signed", Outputs(ReqOf(s)))
    BY <1>8, <1>in DEF TransferSign, At, CriticalPCs
  <2> QED BY <1>go, <2>1, RemainingFacts DEF QueueMoves
<1>9. ASSUME NEW s \in Slots, TransferMark(s) PROVE QueueMoves /\ HeadMoves
  <2>1. /\ run[s].pc = "signed" /\ HasLock(s) /\ UNCHANGED queue
        /\ GotoWith(s, "saving", run[s].todo)
    BY <1>9, <1>in DEF TransferMark, At, Goto, CriticalPCs
  <2> QED BY <1>go, <2>1, RemainingFacts DEF QueueMoves
<1>10. ASSUME NEW s \in Slots, BurnMark(s) PROVE QueueMoves /\ HeadMoves
  <2>1. /\ run[s].pc = "queued" /\ HasLock(s) /\ queue # <<>>
        /\ \/ GotoWith(s, "saving", run[s].todo) /\ UNCHANGED queue
           \/ GotoWith(s, "replied", run[s].todo) /\ queue' = Tail(queue)
    BY <1>10 DEF BurnMark, At, Goto, Release, HasLock
  <2> QED BY <1>go, <2>1, RemainingFacts DEF QueueMoves
<1>11. ASSUME NEW s \in Slots, TransferSettle(s) \/ BurnSettle(s) PROVE QueueMoves /\ HeadMoves
  <2>1. /\ run[s].pc = "saving" /\ HasLock(s) /\ queue # <<>>
        /\ \/ GotoWith(s, "releasing", run[s].todo) /\ UNCHANGED queue
           \/ GotoWith(s, "replied", run[s].todo) /\ queue' = Tail(queue)
    BY <1>11, <1>in DEF TransferSettle, BurnSettle, At, Goto, Release, CriticalPCs
  <2> QED BY <1>go, <2>1, RemainingFacts DEF QueueMoves
<1>12. ASSUME NEW s \in Slots, TransferSend(s) PROVE QueueMoves /\ HeadMoves
  <2>1. /\ run[s].pc = "releasing" /\ run[s].todo # <<>> /\ HasLock(s) /\ queue # <<>>
    BY <1>12, <1>in DEF TransferSend, At, CriticalPCs
  <2>2. CASE GotoWith(s, "replied", <<>>) /\ queue' = Tail(queue)
    BY <1>go, <2>1, <2>2, RemainingFacts DEF QueueMoves
  <2>3. CASE GotoWith(s, "releasing", Tail(run[s].todo)) /\ UNCHANGED queue
    <3> DEFINE r == [pc |-> "releasing", ev |-> run[s].ev, todo |-> Tail(run[s].todo)]
    <3>1. Len(Tail(run[s].todo)) < Len(run[s].todo)
      BY <2>1, <1>types, HeadTailProperties, LenProperties DEF Run
    <3>2. Nearer(r, run[s]) /\ run' = [run EXCEPT ![s] = r]
      BY <2>1, <2>3, <3>1 DEF Nearer, GotoWith
    <3>3. HeadMoves
      BY <2>1, <3>2, HeadStep
    <3> QED BY <2>3, <3>3 DEF QueueMoves
  <2> QED BY <1>12, <2>2, <2>3 DEF TransferSend, Release
<1>13. ASSUME NEW s \in Slots, TransferReturn(s) PROVE QueueMoves /\ HeadMoves
  <2>1. /\ run[s].pc = "releasing" /\ HasLock(s) /\ queue # <<>>
        /\ GotoWith(s, "replied", run[s].todo) /\ queue' = Tail(queue)
    BY <1>13, <1>in DEF TransferReturn, At, Goto, Release, CriticalPCs
  <2> QED BY <1>go, <2>1, RemainingFacts DEF QueueMoves
<1>14. CASE Crash
  <2>1. queue' = <<>> /\ run' = [s \in Slots |-> IdleRun]
    BY <1>14 DEF Crash
  <2>2. ASSUME NEW h \in Slots, HasLock(h) PROVE Nearer(run'[h], run[h])
    <3>1. run[h].pc \in WaitPCs \cup CriticalPCs /\ run'[h].pc = "idle"
      BY <2>1, <2>2, HeadFacts DEF IdleRun
    <3> QED BY <3>1, RemainingFacts DEF Nearer, WaitPCs, CriticalPCs
  <2> QED BY <2>1, <2>2 DEF QueueMoves, HeadMoves
<1>15. ASSUME NEW i \in DOMAIN writes, WriteFails(i) PROVE QueueMoves /\ HeadMoves
  <2>1. CASE writes[i].by \in Slots
    <3>1. run[writes[i].by].pc = "saving"
      BY <2>1 DEF WritersOK
    <3>2. HasLock(writes[i].by) /\ queue # <<>>
      BY <1>in, <2>1, <3>1 DEF CriticalPCs
    <3>3. GotoWith(writes[i].by, "replied", <<>>) /\ queue' = Tail(queue)
      BY <1>15, <2>1 DEF WriteFails, Release
    <3>4. HeadMoves
      BY <1>go, <2>1, <3>1, <3>2, <3>3, RemainingFacts
    <3> QED BY <3>2, <3>3, <3>4 DEF QueueMoves
  <2>2. CASE writes[i].by \notin Slots
    BY <1>15, <2>2 DEF WriteFails, QueueMoves, HeadMoves
  <2> QED BY <2>1, <2>2
<1>16. CASE UNCHANGED <<queue, run>>
  BY <1>16 DEF QueueMoves, HeadMoves
<1>17. ASSUME \/ \E e \in Events : ClientSend(e)
              \/ \E p \in AdminKeys : AddForger(p) \/ RemoveForger(p)
              \/ \E i \in DOMAIN writes : WriteLands(i)
              \/ StartQueuedSave \/ LoadState \/ Subscribe \/ EndOfStoredEvents \/ Tick
              \/ UNCHANGED vars
       PROVE  UNCHANGED <<queue, run>>
  BY <1>17 DEF ClientSend, AddForger, RemoveForger, WriteLands, StartQueuedSave, LoadState,
               Subscribe, EndOfStoredEvents, Tick, vars
<1> HIDE DEF ControlInv
<1> QED
  BY <1>1, <1>2, <1>3, <1>4, <1>5, <1>6, <1>7, <1>8, <1>9, <1>10, <1>11, <1>12, <1>13, <1>14,
     <1>15, <1>16, <1>17 DEF Next, HandlerStep

(* The lock is first come, first served: nobody enters ahead of a run that *)
(* waits, and every step of the run with the lock, a failed save and a     *)
(* crash included, brings it nearer to leaving (_withSpendLock).           *)
THEOREM InTurnTheorem == Spec => InTurn
<1>1. ASSUME ControlInv, [Next]_vars, NEW s \in Slots,
             run[s].pc = "queued", run'[s].pc = "queued"
      PROVE  Ahead(s)' \subseteq Ahead(s)
  <2>1. QueueMoves
    BY <1>1, TurnStep
  <2>2. /\ queue \in Seq(Slots) /\ DOMAIN queue = 1..Len(queue) /\ Len(queue) \in Nat
    BY <1>1, LenProperties DEF ControlInv, TypeOK
  <2> SUFFICES ASSUME NEW i \in DOMAIN queue', NEW j \in DOMAIN queue', i < j, queue'[j] = s
               PROVE  queue'[i] \in Ahead(s)
    BY DEF Ahead
  <2> SUFFICES \E k, l \in DOMAIN queue : k < l /\ queue[k] = queue'[i] /\ queue[l] = s
    BY DEF Ahead
  <2>3. CASE queue' = queue
    BY <2>3
  <2>4. CASE queue # <<>> /\ queue' = Tail(queue)
    <3>1. /\ Len(queue) \in Nat \ {0} /\ DOMAIN queue' = 1..(Len(queue) - 1)
          /\ \A k \in 1..(Len(queue) - 1) : queue'[k] = queue[k + 1]
      BY <2>2, <2>4, HeadTailProperties, EmptySeq, LenProperties
    <3>2. i + 1 \in DOMAIN queue /\ j + 1 \in DOMAIN queue /\ i + 1 < j + 1
      BY <2>2, <3>1
    <3> QED BY <3>1, <3>2
  <2>5. ASSUME NEW a \in Slots, run[a].pc = "received", queue' = Append(queue, a)
        PROVE  \E k, l \in DOMAIN queue : k < l /\ queue[k] = queue'[i] /\ queue[l] = s
    <3>1. /\ DOMAIN queue' = 1..(Len(queue) + 1) /\ queue'[Len(queue) + 1] = a
          /\ \A k \in 1..Len(queue) : queue'[k] = queue[k]
      BY <2>2, <2>5
    <3>2. a # s
      BY <1>1, <2>5
    <3>3. i \in DOMAIN queue /\ j \in DOMAIN queue
      BY <2>2, <3>1, <3>2
    <3> QED BY <2>2, <3>1, <3>3
  <2>6. CASE queue' = <<>>
    BY <2>6
  <2> QED BY <2>1, <2>3, <2>4, <2>5, <2>6 DEF QueueMoves
<1>2. ControlInv /\ [Next]_vars =>
        [\A s \in Slots :
            /\ run[s].pc = "queued" /\ run'[s].pc = "queued" => Ahead(s)' \subseteq Ahead(s)
            /\ HasLock(s) /\ run'[s] # run[s] => Nearer(run'[s], run[s])]_vars
  BY <1>1, TurnStep DEF HeadMoves
<1> QED BY <1>2, ControlCorrect, PTL DEF Spec, InTurn
-----------------------------------------------------------------------------
(***************************************************************************)
(* What the forge keeps when storage applies writes in the order of the    *)
(* calls: no input is replayed, spent once, and a revocation lasts.        *)
(*                                                                         *)
(* StateInv is inductive.  Control (above) says that one run at a time is  *)
(* between its check and its answer; StoreOK that spent sets grow from     *)
(* storage through the pending snapshots to memory; SpendOK what the run   *)
(* with the lock has established; RevokeOK the same for forgers.           *)
(***************************************************************************)

(* The positions of the pending writes, for proofs by index.               *)
LEMMA WritesFacts ==
    ASSUME TypeOK
    PROVE  /\ writes \in Seq(Write) /\ Len(writes) \in Nat
           /\ DOMAIN writes = 1..Len(writes)
           /\ \A i \in 1..Len(writes) : writes[i] \in Write
  BY LenProperties, ElementOfSeq DEF TypeOK

(* While one run has the lock, no other is past its check.                 *)
LEMMA OneCritical ==
    ASSUME ControlInv, NEW s \in Slots, HasLock(s),
           NEW x \in Slots, run[x].pc \in CriticalPCs
    PROVE  x = s
  BY DEF ControlInv, LockOK, HasLock

(* A step that leaves storage, spent sets and forgers as they are.         *)
LEMMA QuietStep ==
    ASSUME StateInv,
           UNCHANGED <<disk, writes, settled, revoked>>,
           mem'.spent = mem.spent, mem'.forgers = mem.forgers,
           phase' # "down" => phase # "down",
           \A x \in Slots :
              /\ run'[x].pc \in {"validated", "signed"} =>
                    ToSet(ReqOf(x)'.ins) \cap mem.spent = {}
              /\ run'[x].pc = "saving" => run[x].pc = "saving" /\ ReqOf(x)' = ReqOf(x)
    PROVE  StoreOK' /\ SpendOK' /\ RevokeOK'
<1>1. StoreOK'
  BY DEF StateInv, StoreOK
<1>2. SpendOK'
  BY DEF StateInv, SpendOK
<1>3. RevokeOK'
  BY DEF StateInv, RevokeOK
<1> QED BY <1>1, <1>2, <1>3

(* A step of one run that touches neither storage, spent sets nor forgers. *)
LEMMA QuietRunStep ==
    ASSUME StateInv, NEW s \in Slots, NEW r,
           run' = [run EXCEPT ![s] = r],
           UNCHANGED <<req, phase, disk, writes, settled, revoked>>,
           mem'.spent = mem.spent, mem'.forgers = mem.forgers,
           r.pc # "saving",
           r.pc \in {"validated", "signed"} =>
              r.ev = run[s].ev /\ ToSet(ReqOf(s).ins) \cap mem.spent = {}
    PROVE  StoreOK' /\ SpendOK' /\ RevokeOK'
<1>1. run'[s] = r /\ \A x \in Slots \ {s} : run'[x] = run[x] /\ ReqOf(x)' = ReqOf(x)
  BY DEF StateInv, ControlInv, TypeOK, ReqOf
<1>2. r.ev = run[s].ev => ReqOf(s)' = ReqOf(s)
  BY <1>1 DEF ReqOf
<1>3. ASSUME NEW x \in Slots
      PROVE  /\ run'[x].pc \in {"validated", "signed"} => ToSet(ReqOf(x)'.ins) \cap mem.spent = {}
             /\ run'[x].pc = "saving" => run[x].pc = "saving" /\ ReqOf(x)' = ReqOf(x)
  <2>1. CASE x = s
    BY <1>1, <1>2, <2>1
  <2>2. CASE x # s
    BY <1>1, <2>2 DEF StateInv, SpendOK
  <2> QED BY <2>1, <2>2
<1> QED BY <1>3, QuietStep

(* New writes behind the pending ones: spent sets.                         *)
LEMMA StoreGrows ==
    ASSUME StateInv, NEW m \in Nat, Len(writes) <= m, DOMAIN writes' = 1..m,
           phase = "up", UNCHANGED disk,
           mem.spent \subseteq mem'.spent,
           \A i \in 1..Len(writes) : writes'[i] = writes[i],
           \A i \in (Len(writes) + 1)..m :
              /\ mem.spent \subseteq writes'[i].snap.spent
              /\ writes'[i].snap.spent \subseteq mem'.spent,
           \A i, j \in (Len(writes) + 1)..m :
              i <= j => writes'[i].snap.spent \subseteq writes'[j].snap.spent
    PROVE  StoreOK'
<1>1. Len(writes) \in Nat /\ DOMAIN writes = 1..Len(writes)
  BY WritesFacts DEF StateInv, ControlInv
<1>2. disk.spent \subseteq mem.spent
  BY DEF StateInv, StoreOK
<1>3. ASSUME NEW i \in 1..m
      PROVE  i \in 1..Len(writes) \/ i \in (Len(writes) + 1)..m
  BY <1>1
<1>4. ASSUME NEW i \in 1..m
      PROVE  disk.spent \subseteq writes'[i].snap.spent /\ writes'[i].snap.spent \subseteq mem'.spent
  BY <1>1, <1>2, <1>3 DEF StateInv, StoreOK
<1>5. ASSUME NEW i \in 1..m, NEW j \in 1..m, i <= j
      PROVE  writes'[i].snap.spent \subseteq writes'[j].snap.spent
  <2>1. CASE j \in 1..Len(writes)
    <3>1. i \in 1..Len(writes)
      BY <1>1, <1>5, <2>1
    <3> QED BY <1>1, <1>5, <2>1, <3>1 DEF StateInv, StoreOK
  <2>2. CASE j \in (Len(writes) + 1)..m /\ i \in 1..Len(writes)
    <3>1. writes'[i].snap.spent \subseteq mem.spent
      BY <1>1, <2>2 DEF StateInv, StoreOK
    <3> QED BY <2>2, <3>1
  <2>3. CASE j \in (Len(writes) + 1)..m /\ i \in (Len(writes) + 1)..m
    BY <1>5, <2>3
  <2> QED BY <1>3, <2>1, <2>2, <2>3
<1> QED BY <1>2, <1>4, <1>5 DEF StoreOK

(* New writes behind the pending ones: forgers.                            *)
LEMMA RevokeGrows ==
    ASSUME StateInv, NEW m \in Nat, Len(writes) <= m, DOMAIN writes' = 1..m,
           phase = "up", UNCHANGED disk,
           \A i \in 1..Len(writes) : writes'[i] = writes[i],
           \A i \in (Len(writes) + 1)..m : writes'[i].snap.forgers = mem'.forgers,
           revoked' \subseteq revoked,
           \A p \in revoked' : p \notin mem'.forgers,
           \A i \in 1..Len(writes) :
              writes[i].by \in Users /\ writes[i].by \notin mem.forgers =>
                 writes[i].by \notin mem'.forgers
    PROVE  RevokeOK'
<1>1. Len(writes) \in Nat /\ DOMAIN writes = 1..Len(writes)
  BY WritesFacts DEF StateInv, ControlInv
<1>2. ASSUME NEW i \in 1..m
      PROVE  i \in 1..Len(writes) \/ i \in (Len(writes) + 1)..m
  BY <1>1
<1>3. ASSUME NEW p \in revoked', NEW i \in 1..m
      PROVE  p \notin writes'[i].snap.forgers
  BY <1>1, <1>2, <1>3 DEF StateInv, RevokeOK
<1>4. ASSUME NEW p \in revoked'
      PROVE  p \notin disk'.forgers /\ p \notin mem'.forgers
  BY <1>4 DEF StateInv, RevokeOK
<1>5. ASSUME NEW i \in 1..m, writes'[i].by \in Users,
             writes'[i].by \notin writes'[i].snap.forgers
      PROVE  writes'[i].by \notin mem'.forgers
  <2>1. CASE i \in 1..Len(writes)
    BY <1>1, <1>5, <2>1 DEF StateInv, RevokeOK
  <2>2. CASE i \in (Len(writes) + 1)..m
    BY <1>5, <2>2
  <2> QED BY <1>2, <2>1, <2>2
<1>6. ASSUME NEW i \in 1..m, writes'[i].by \in Users,
             writes'[i].by \notin writes'[i].snap.forgers, NEW j \in 1..m, i <= j
      PROVE  writes'[i].by \notin writes'[j].snap.forgers
  <2>1. CASE j \in 1..Len(writes)
    <3>1. i \in 1..Len(writes)
      BY <1>1, <1>6, <2>1
    <3> QED BY <1>1, <1>6, <2>1, <3>1 DEF StateInv, RevokeOK
  <2>2. CASE j \in (Len(writes) + 1)..m
    BY <1>5, <1>6, <2>2
  <2> QED BY <1>2, <2>1, <2>2
<1> QED BY <1>3, <1>4, <1>5, <1>6 DEF RevokeOK


(* A save of the whole state by anyone but a handler run.                  *)
LEMMA SaveStep ==
    ASSUME StateInv, NEW by \in Users \cup {"queue"}, NEW state \in ForgeState, Save(by, state),
           phase = "up", UNCHANGED <<disk, settled, phase, run, req>>,
           mem' = state, state.spent = mem.spent,
           revoked' \subseteq revoked,
           \A p \in revoked' : p \notin state.forgers,
           \A i \in 1..Len(writes) :
              writes[i].by \in Users /\ writes[i].by \notin mem.forgers =>
                 writes[i].by \notin state.forgers
    PROVE  StoreOK' /\ SpendOK' /\ RevokeOK'
<1> DEFINE n == Len(writes)
           w == [by |-> by, snap |-> state]
<1>1. writes \in Seq(Write) /\ n \in Nat /\ DOMAIN writes = 1..n
  BY WritesFacts DEF StateInv, ControlInv
<1>2. writes' = Append(writes, w) /\ w \in Write /\ w.snap = state
  BY DEF Save, Write
<1>3. /\ DOMAIN writes' = 1..(n + 1) /\ writes'[n + 1] = w
      /\ \A i \in 1..n : writes'[i] = writes[i]
  BY <1>1, <1>2, LenProperties
<1> HIDE DEF n, w
<1>4. n + 1 \in Nat /\ n <= n + 1 /\ \A i \in (n + 1)..(n + 1) : i = n + 1
  BY <1>1
<1>5. StoreOK'
  BY <1>1, <1>2, <1>3, <1>4, StoreGrows DEF n
<1>6. RevokeOK'
  BY <1>1, <1>2, <1>3, <1>4, RevokeGrows DEF n
<1>7. SpendOK'
  <2>1. settled' \subseteq disk'.spent
    BY DEF StateInv, SpendOK
  <2>2. ASSUME NEW x \in Slots, run'[x].pc \in {"validated", "signed"}
        PROVE  ToSet(ReqOf(x)'.ins) \cap mem'.spent = {}
    BY <2>2 DEF StateInv, SpendOK, ReqOf
  <2>3. ASSUME NEW x \in Slots, run'[x].pc = "saving", NEW t \in ToSet(ReqOf(x)'.ins)
        PROVE  /\ t \notin settled'
               /\ t \in disk'.spent \/ \E i \in DOMAIN writes' :
                                          writes'[i].by = x /\ t \in writes'[i].snap.spent
    <3>1. /\ t \notin settled
          /\ t \in disk.spent \/ \E i \in 1..n : writes[i].by = x /\ t \in writes[i].snap.spent
      BY <1>1, <2>3 DEF StateInv, SpendOK, ReqOf
    <3>2. \A i \in 1..n : i \in 1..(n + 1)
      BY <1>1
    <3> QED BY <1>3, <3>1, <3>2
  <2> QED BY <2>1, <2>2, <2>3 DEF SpendOK
<1> QED BY <1>5, <1>6, <1>7

(* The run with the lock marks unspent inputs and starts their saves.      *)
LEMMA PublishStep ==
    ASSUME StateInv, ControlInv', NEW s \in Slots, PublishSpent(s, ReqOf(s).ins),
           GotoWith(s, "saving", run[s].todo), HasLock(s),
           run[s].ev \in Events, ReqOf(s) # NoReq,
           ToSet(ReqOf(s).ins) \cap mem.spent = {},
           phase = "up", UNCHANGED <<disk, settled, revoked, phase, req>>
    PROVE  StoreOK' /\ SpendOK' /\ RevokeOK'
<1> DEFINE n == Len(writes)
           ins == ReqOf(s).ins
           k == Len(ins)
<1>1. /\ mem \in ForgeState /\ writes \in Seq(Write) /\ n \in Nat /\ DOMAIN writes = 1..n
      /\ run \in [Slots -> Run]
  BY WritesFacts DEF StateInv, ControlInv, TypeOK
<1>2. ins \in Seq(Token)
  BY DEF StateInv, ControlInv, TypeOK, ReqOf, Request
<1>3. k \in Nat /\ DOMAIN ins = 1..k /\ \A i \in 1..k : ins[i] \in ToSet(ins)
  BY <1>2, LenProperties DEF ToSet
<1>4. /\ mem'.spent = mem.spent \cup ToSet(ins) /\ mem'.forgers = mem.forgers
      /\ writes' \in Seq(Write) /\ Len(writes') = n + k
      /\ \A i \in 1..n : writes'[i] = writes[i]
      /\ \A i \in (n + 1)..(n + k) :
            /\ writes'[i].by = s
            /\ writes'[i].snap.spent = mem.spent \cup {ins[j] : j \in 1..(i - n)}
            /\ writes'[i].snap.forgers = mem.forgers
  <2>1. PublishSpent(s, ins)
    OBVIOUS
  <2> HIDE DEF ins
  <2> QED BY <1>1, <1>2, <2>1, PublishSpentFacts
<1>5. DOMAIN writes' = 1..(n + k)
  BY <1>4, LenProperties
<1>6. s \notin Users
  BY SentinelAssumption
<1>7. run'[s].pc = "saving" /\ \A x \in Slots \ {s} : run'[x] = run[x]
  BY <1>1 DEF GotoWith
<1>8. ReqOf(s)' = ReqOf(s)
  BY <1>1 DEF GotoWith, ReqOf
<1> HIDE DEF n, ins, k
<1>9. n + k \in Nat /\ n <= n + k
  BY <1>1, <1>3
<1>10. ASSUME NEW i \in (n + 1)..(n + k)
       PROVE  i - n \in 1..k
  BY <1>1, <1>3
<1>11. StoreOK'
  <2>1. ASSUME NEW i \in (n + 1)..(n + k)
        PROVE  mem.spent \subseteq writes'[i].snap.spent /\ writes'[i].snap.spent \subseteq mem'.spent
    <3>1. \A j \in 1..(i - n) : j \in 1..k
      BY <1>1, <1>3, <1>10
    <3> QED BY <1>3, <1>4, <3>1
  <2>2. ASSUME NEW i \in (n + 1)..(n + k), NEW j \in (n + 1)..(n + k), i <= j
        PROVE  writes'[i].snap.spent \subseteq writes'[j].snap.spent
    <3>1. \A x \in 1..(i - n) : x \in 1..(j - n)
      BY <1>1, <1>10, <2>2
    <3> QED BY <1>4, <3>1
  <2>3. mem.spent \subseteq mem'.spent
    BY <1>4
  <2> QED BY <1>4, <1>5, <1>9, <2>1, <2>2, <2>3, StoreGrows DEF n
<1>12. RevokeOK'
  <2>1. \A p \in revoked' : p \notin mem'.forgers
    BY <1>4 DEF StateInv, RevokeOK
  <2> QED BY <1>4, <1>5, <1>9, <2>1, RevokeGrows DEF n
<1>13. SpendOK'
  <2>1. settled' \subseteq disk'.spent
    BY DEF StateInv, SpendOK
  <2>2. ASSUME NEW x \in Slots, run'[x].pc \in CriticalPCs
        PROVE  x = s
    <3>1. run[x].pc \in CriticalPCs \/ x = s
      BY <1>7, <2>2
    <3> QED BY <3>1, OneCritical DEF StateInv
  <2>3. ASSUME NEW t \in ToSet(ins)
        PROVE  /\ t \notin settled'
               /\ \E i \in DOMAIN writes' : writes'[i].by = s /\ t \in writes'[i].snap.spent
    <3>1. t \notin settled
      BY <2>3 DEF StateInv, SpendOK, StoreOK, ins
    <3>2. PICK j \in 1..k : t = ins[j]
      BY <1>3, <2>3 DEF ToSet
    <3>3. n + k \in (n + 1)..(n + k) /\ n + k \in 1..(n + k) /\ (n + k) - n = k
      BY <1>1, <1>3, <3>2
    <3>4. writes'[n + k].by = s /\ t \in writes'[n + k].snap.spent
      BY <1>4, <3>2, <3>3
    <3> QED BY <1>5, <3>1, <3>3, <3>4
  <2>4. ASSUME NEW x \in Slots
        PROVE  /\ run'[x].pc \notin {"validated", "signed"}
               /\ run'[x].pc = "saving" => ToSet(ReqOf(x)'.ins) = ToSet(ins)
    BY <1>7, <1>8, <2>2 DEF CriticalPCs, ins
  <2>5. \A x \in Slots : run'[x].pc = "saving" => x = s
    BY <2>2 DEF CriticalPCs
  <2> QED BY <2>1, <2>3, <2>4, <2>5 DEF SpendOK
<1> QED BY <1>11, <1>12, <1>13

(* The saves of a run have landed: its inputs are spent in storage.        *)
LEMMA SettleStep ==
    ASSUME StateInv, NEW s \in Slots, run[s].pc = "saving", Saved(s),
           NEW pc \in {"releasing", "replied"}, GotoWith(s, pc, run[s].todo),
           settled' = settled \cup ToSet(ReqOf(s).ins),
           UNCHANGED <<mem, disk, writes, phase, req, revoked>>
    PROVE  StoreOK' /\ SpendOK' /\ RevokeOK'
<1>1. \A t \in ToSet(ReqOf(s).ins) : t \in disk.spent
  BY DEF StateInv, SpendOK, Saved
<1>2. run \in [Slots -> Run] /\ HasLock(s)
  BY DEF StateInv, ControlInv, TypeOK, LockOK, CriticalPCs
<1>3. run'[s].pc = pc /\ \A x \in Slots \ {s} : run'[x] = run[x]
  BY <1>2 DEF GotoWith
<1>4. ASSUME NEW x \in Slots
      PROVE  run'[x].pc \notin {"validated", "signed", "saving"}
  <2>1. run[x].pc \in CriticalPCs => x = s
    BY <1>2, OneCritical DEF StateInv
  <2> QED BY <1>3, <2>1 DEF CriticalPCs
<1>5. SpendOK'
  BY <1>1, <1>4 DEF StateInv, SpendOK
<1>6. StoreOK' /\ RevokeOK'
  BY DEF StateInv, StoreOK, RevokeOK
<1> QED BY <1>5, <1>6

(* The oldest write reaches storage.                                       *)
LEMMA LandStep ==
    ASSUME StateInv, OrderedWrites, NEW i \in DOMAIN writes, WriteLands(i)
    PROVE  StoreOK' /\ SpendOK' /\ RevokeOK'
<1> DEFINE n == Len(writes)
<1>1. /\ writes \in Seq(Write) /\ n \in Nat /\ DOMAIN writes = 1..n /\ TypeOK
      /\ \A j \in 1..n : writes[j] \in Write
  BY WritesFacts DEF StateInv, ControlInv
<1>2. i = 1 /\ 1 \in 1..n
  BY <1>1 DEF WriteLands, MaySettle
<1>3. /\ disk' = writes[1].snap /\ writes' = RemoveAt(writes, 1)
      /\ revoked' = IF writes[1].by \in Users /\ writes[1].by \notin writes[1].snap.forgers
                    THEN revoked \cup {writes[1].by} ELSE revoked
      /\ UNCHANGED <<mem, phase, run, req, settled>>
  BY <1>2 DEF WriteLands
<1>4. phase = "up"
  BY <1>2, EmptySeq DEF StateInv, ControlInv, WritersOK
<1>5. /\ writes' \in Seq(Write) /\ Len(writes') = n - 1
      /\ \A j \in 1..(n - 1) : writes'[j] = writes[j + 1]
  <2>1. Len(writes) > 0
    BY <1>1, <1>2
  <2> QED BY <1>1, <1>3, <2>1, RemoveOldest
<1>6. DOMAIN writes' = 1..(n - 1)
  BY <1>5, LenProperties
<1> HIDE DEF n
<1>7. \A j \in 1..(n - 1) : j + 1 \in 1..n /\ 1 <= j + 1
  BY <1>1
<1>8. \A j \in 2..n : j - 1 \in 1..(n - 1) /\ (j - 1) + 1 = j
  BY <1>1
<1>9. StoreOK'
  <2>1. disk'.spent \subseteq mem'.spent
    BY <1>1, <1>2, <1>3 DEF StateInv, StoreOK
  <2>2. ASSUME NEW j \in 1..(n - 1)
        PROVE  disk'.spent \subseteq writes'[j].snap.spent /\ writes'[j].snap.spent \subseteq mem'.spent
    BY <1>1, <1>2, <1>3, <1>5, <1>7 DEF StateInv, StoreOK
  <2>3. ASSUME NEW j \in 1..(n - 1), NEW l \in 1..(n - 1), j <= l
        PROVE  writes'[j].snap.spent \subseteq writes'[l].snap.spent
    <3>1. j + 1 <= l + 1
      BY <1>1, <2>3
    <3> QED BY <1>1, <1>5, <1>7, <3>1 DEF StateInv, StoreOK
  <2> QED BY <1>6, <2>1, <2>2, <2>3 DEF StoreOK
<1>10. SpendOK'
  <2>1. disk.spent \subseteq disk'.spent
    BY <1>1, <1>2, <1>3 DEF StateInv, StoreOK
  <2>2. settled' \subseteq disk'.spent
    BY <1>3, <2>1 DEF StateInv, SpendOK
  <2>3. ASSUME NEW x \in Slots, run'[x].pc \in {"validated", "signed"}
        PROVE  ToSet(ReqOf(x)'.ins) \cap mem'.spent = {}
    BY <1>3, <2>3 DEF StateInv, SpendOK, ReqOf
  <2>4. ASSUME NEW x \in Slots, run'[x].pc = "saving", NEW t \in ToSet(ReqOf(x)'.ins)
        PROVE  /\ t \notin settled'
               /\ t \in disk'.spent \/ \E j \in DOMAIN writes' :
                                          writes'[j].by = x /\ t \in writes'[j].snap.spent
    <3>1. /\ t \notin settled
          /\ t \in disk.spent \/ \E j \in 1..n : writes[j].by = x /\ t \in writes[j].snap.spent
      BY <1>1, <1>3, <2>4 DEF StateInv, SpendOK, ReqOf
    <3>2. CASE t \in disk.spent
      BY <1>3, <2>1, <3>1, <3>2
    <3>3. ASSUME NEW j \in 1..n, writes[j].by = x, t \in writes[j].snap.spent
          PROVE  t \in disk'.spent \/ \E l \in DOMAIN writes' :
                                          writes'[l].by = x /\ t \in writes'[l].snap.spent
      <4>1. CASE j = 1
        BY <1>3, <3>3, <4>1
      <4>2. CASE j # 1
        <5>1. j - 1 \in 1..(n - 1) /\ writes'[j - 1] = writes[j]
          BY <1>1, <1>5, <1>8, <4>2
        <5> QED BY <1>6, <3>3, <5>1
      <4> QED BY <4>1, <4>2
    <3> QED BY <1>3, <3>1, <3>2, <3>3
  <2> QED BY <2>2, <2>3, <2>4 DEF SpendOK
<1>11. RevokeOK'
  <2>1. ASSUME NEW p \in revoked'
        PROVE  /\ p \notin disk'.forgers /\ p \notin mem'.forgers
               /\ \A j \in 1..(n - 1) : p \notin writes'[j].snap.forgers
    <3>1. CASE p \in revoked
      BY <1>1, <1>2, <1>3, <1>4, <1>5, <1>7, <3>1 DEF StateInv, RevokeOK
    <3>2. CASE p \notin revoked
      <4>1. p = writes[1].by /\ p \in Users /\ p \notin writes[1].snap.forgers
        BY <1>3, <2>1, <3>2
      <4>2. p \notin mem.forgers /\ \A l \in 1..n : 1 <= l => p \notin writes[l].snap.forgers
        BY <1>1, <1>2, <4>1 DEF StateInv, RevokeOK
      <4> QED BY <1>3, <1>5, <1>7, <4>1, <4>2
    <3> QED BY <3>1, <3>2
  <2>2. ASSUME NEW j \in 1..(n - 1), writes'[j].by \in Users,
               writes'[j].by \notin writes'[j].snap.forgers
        PROVE  /\ writes'[j].by \notin mem'.forgers
               /\ \A l \in 1..(n - 1) : j <= l => writes'[j].by \notin writes'[l].snap.forgers
    <3>1. writes'[j] = writes[j + 1] /\ j + 1 \in 1..n
      BY <1>5, <1>7
    <3>2. /\ writes[j + 1].by \notin mem.forgers
          /\ \A l \in 1..n : j + 1 <= l => writes[j + 1].by \notin writes[l].snap.forgers
      BY <1>1, <2>2, <3>1 DEF StateInv, RevokeOK
    <3>3. \A l \in 1..(n - 1) : j <= l => j + 1 <= l + 1
      BY <1>1
    <3> QED BY <1>3, <1>5, <1>7, <3>1, <3>2, <3>3
  <2> QED BY <1>6, <2>1, <2>2 DEF RevokeOK
<1> QED BY <1>9, <1>10, <1>11

(* The oldest write fails: its run gives up and leaves no inputs behind    *)
(* that it still relies on.                                                *)
LEMMA FailStep ==
    ASSUME StateInv, OrderedWrites, NEW i \in DOMAIN writes, WriteFails(i)
    PROVE  StoreOK' /\ SpendOK' /\ RevokeOK'
<1> DEFINE n == Len(writes)
           s == writes[1].by
           rest == RemoveAt(writes, 1)
<1>1. /\ writes \in Seq(Write) /\ n \in Nat /\ DOMAIN writes = 1..n
      /\ run \in [Slots -> Run]
  BY WritesFacts DEF StateInv, ControlInv, TypeOK
<1>2. i = 1 /\ 1 \in 1..n
  BY <1>1 DEF WriteFails, MaySettle
<1>3. /\ rest \in Seq(Write) /\ Len(rest) = n - 1
      /\ \A j \in 1..(n - 1) : rest[j] = writes[j + 1]
  <2>1. Len(writes) > 0
    BY <1>1, <1>2
  <2> QED BY <1>1, <2>1, RemoveOldest
<1>4. UNCHANGED <<mem, disk, phase, req, settled, revoked>>
  BY DEF WriteFails, history
<1>5. phase = "up"
  BY <1>2, EmptySeq DEF StateInv, ControlInv, WritersOK
<1>6. IF s \in Slots
      THEN writes' = Abandon(rest, s) /\ GotoWith(s, "replied", <<>>)
      ELSE writes' = rest /\ UNCHANGED run
  BY <1>2 DEF WriteFails
<1>7. s \in Slots => run[s].pc = "saving" /\ HasLock(s)
  BY <1>1, <1>2 DEF StateInv, ControlInv, WritersOK, LockOK, CriticalPCs
<1> HIDE DEF rest
<1>8. /\ DOMAIN writes' = 1..(n - 1)
      /\ \A j \in 1..(n - 1) :
            /\ writes'[j].snap = writes[j + 1].snap
            /\ writes'[j].by = IF s \in Slots /\ writes[j + 1].by = s
                               THEN "orphan" ELSE writes[j + 1].by
  <2>1. CASE s \in Slots
    <3>1. /\ Abandon(rest, s) \in Seq(Write) /\ Len(Abandon(rest, s)) = n - 1
          /\ \A j \in 1..(n - 1) :
                /\ Abandon(rest, s)[j].snap = rest[j].snap
                /\ Abandon(rest, s)[j].by = IF rest[j].by = s THEN "orphan" ELSE rest[j].by
      BY <1>3, AbandonFacts
    <3>2. DOMAIN Abandon(rest, s) = 1..(n - 1)
      BY <3>1, LenProperties
    <3> HIDE DEF s, n
    <3> QED BY <1>3, <1>6, <2>1, <3>1, <3>2
  <2>2. CASE s \notin Slots
    BY <1>3, <1>6, <2>2, LenProperties
  <2> QED BY <2>1, <2>2
<1>9. \A x \in Slots : run'[x].pc \in CriticalPCs => run'[x] = run[x] /\ x # s
  <2>1. CASE s \in Slots
    BY <1>1, <1>6, <2>1 DEF GotoWith, CriticalPCs
  <2>2. CASE s \notin Slots
    BY <1>6, <2>2
  <2> QED BY <2>1, <2>2
<1>10. "orphan" \notin Users
  BY SentinelAssumption
<1> HIDE DEF n, s
<1>11. \A j \in 1..(n - 1) : j + 1 \in 1..n
  BY <1>1
<1>12. \A j \in 2..n : j - 1 \in 1..(n - 1) /\ (j - 1) + 1 = j
  BY <1>1
<1>13. StoreOK'
  <2>1. disk'.spent \subseteq mem'.spent
    BY <1>4, <1>5 DEF StateInv, StoreOK
  <2>2. ASSUME NEW j \in 1..(n - 1)
        PROVE  disk'.spent \subseteq writes'[j].snap.spent /\ writes'[j].snap.spent \subseteq mem'.spent
    BY <1>1, <1>4, <1>8, <1>11 DEF StateInv, StoreOK
  <2>3. ASSUME NEW j \in 1..(n - 1), NEW l \in 1..(n - 1), j <= l
        PROVE  writes'[j].snap.spent \subseteq writes'[l].snap.spent
    <3>1. j + 1 <= l + 1
      BY <1>1, <2>3
    <3> QED BY <1>1, <1>8, <1>11, <3>1 DEF StateInv, StoreOK
  <2> QED BY <1>8, <2>1, <2>2, <2>3 DEF StoreOK
<1>14. SpendOK'
  <2>1. settled' \subseteq disk'.spent
    BY <1>4 DEF StateInv, SpendOK
  <2>2. ASSUME NEW x \in Slots, run'[x].pc \in {"validated", "signed"}
        PROVE  ToSet(ReqOf(x)'.ins) \cap mem'.spent = {}
    BY <1>4, <1>9, <2>2 DEF StateInv, SpendOK, ReqOf, CriticalPCs
  <2>3. ASSUME NEW x \in Slots, run'[x].pc = "saving", NEW t \in ToSet(ReqOf(x)'.ins)
        PROVE  /\ t \notin settled'
               /\ t \in disk'.spent \/ \E j \in DOMAIN writes' :
                                          writes'[j].by = x /\ t \in writes'[j].snap.spent
    <3>1. run'[x] = run[x] /\ x # s /\ ReqOf(x)' = ReqOf(x)
      BY <1>4, <1>9, <2>3 DEF ReqOf, CriticalPCs
    <3>2. /\ t \notin settled
          /\ t \in disk.spent \/ \E j \in 1..n : writes[j].by = x /\ t \in writes[j].snap.spent
      BY <1>1, <2>3, <3>1 DEF StateInv, SpendOK
    <3>3. ASSUME NEW j \in 1..n, writes[j].by = x, t \in writes[j].snap.spent
          PROVE  \E l \in DOMAIN writes' : writes'[l].by = x /\ t \in writes'[l].snap.spent
      <4>1. j # 1
        BY <3>1, <3>3 DEF s
      <4>2. j - 1 \in 1..(n - 1) /\ (j - 1) + 1 = j
        BY <1>1, <1>12, <4>1
      <4> QED BY <1>8, <3>1, <3>3, <4>2
    <3> QED BY <1>4, <3>2, <3>3
  <2> QED BY <2>1, <2>2, <2>3 DEF SpendOK
<1>15. RevokeOK'
  <2>1. ASSUME NEW p \in revoked'
        PROVE  /\ p \notin disk'.forgers /\ p \notin mem'.forgers
               /\ \A j \in 1..(n - 1) : p \notin writes'[j].snap.forgers
    BY <1>1, <1>4, <1>5, <1>8, <1>11, <2>1 DEF StateInv, RevokeOK
  <2>2. ASSUME NEW j \in 1..(n - 1), writes'[j].by \in Users,
               writes'[j].by \notin writes'[j].snap.forgers
        PROVE  /\ writes'[j].by \notin mem'.forgers
               /\ \A l \in 1..(n - 1) : j <= l => writes'[j].by \notin writes'[l].snap.forgers
    <3>1. writes'[j].by = writes[j + 1].by /\ writes'[j].snap = writes[j + 1].snap /\ j + 1 \in 1..n
      BY <1>8, <1>10, <1>11, <2>2
    <3>2. /\ writes[j + 1].by \notin mem.forgers
          /\ \A l \in 1..n : j + 1 <= l => writes[j + 1].by \notin writes[l].snap.forgers
      BY <1>1, <2>2, <3>1 DEF StateInv, RevokeOK
    <3>3. \A l \in 1..(n - 1) : j <= l => j + 1 <= l + 1
      BY <1>1
    <3> QED BY <1>4, <1>8, <1>11, <3>1, <3>2, <3>3
  <2> QED BY <1>8, <2>1, <2>2 DEF RevokeOK
<1> QED BY <1>13, <1>14, <1>15

(* Every step of the forge, one case per action.                           *)
LEMMA StoreStep ==
    ASSUME StateInv, OrderedWrites, [Next]_vars
    PROVE  StateInv'
<1>c. ControlInv'
  BY ControlStep DEF StateInv
<1>t. /\ run \in [Slots -> Run] /\ mem \in ForgeState
      /\ \A s \in Slots : run[s] = [pc |-> run[s].pc, ev |-> run[s].ev, todo |-> run[s].todo]
  BY DEF StateInv, ControlInv, TypeOK, Run
<1> DEFINE Good == StoreOK' /\ SpendOK' /\ RevokeOK'
<1>1. ASSUME NEW e \in Events, ClientSend(e) PROVE Good
  <2>1. req[e] = NoReq /\ UNCHANGED <<mem, disk, writes, phase, run, settled, revoked>>
    BY <1>1 DEF ClientSend, history
  <2>2. \A x \in Events \ {e} : req'[x] = req[x]
    BY <1>1 DEF ClientSend, StateInv, ControlInv, TypeOK
  <2>3. ASSUME NEW x \in Slots, run[x].pc # "idle"
        PROVE  ReqOf(x)' = ReqOf(x)
    BY <2>1, <2>2, <2>3 DEF StateInv, ControlInv, RunsOK, ReqOf
  <2>4. ASSUME NEW x \in Slots
        PROVE  /\ run'[x].pc \in {"validated", "signed"} => ToSet(ReqOf(x)'.ins) \cap mem.spent = {}
               /\ run'[x].pc = "saving" => run[x].pc = "saving" /\ ReqOf(x)' = ReqOf(x)
    BY <2>1, <2>3 DEF StateInv, SpendOK
  <2> QED BY <2>1, <2>4, QuietStep
<1>2. ASSUME NEW s \in Slots, NEW e \in Events, Deliver(s, e) PROVE Good
  <2> DEFINE r == [pc |-> "received", ev |-> e, todo |-> <<>>]
  <2>1. /\ run' = [run EXCEPT ![s] = r]
        /\ UNCHANGED <<mem, disk, writes, phase, req, settled, revoked>>
    BY <1>2 DEF Deliver, history
  <2>2. r.pc \notin {"validated", "signed", "saving"}
    OBVIOUS
  <2> HIDE DEF r
  <2> QED BY <2>1, <2>2, QuietRunStep
<1>3. ASSUME NEW s \in Slots, FinishEvent(s) PROVE Good
  <2>1. mem'.spent = mem.spent /\ mem'.forgers = mem.forgers
    BY <1>3, <1>t DEF FinishEvent, ForgeState
  <2>2. /\ run' = [run EXCEPT ![s] = IdleRun]
        /\ UNCHANGED <<disk, writes, phase, req, settled, revoked>>
    BY <1>3 DEF FinishEvent, history
  <2>3. IdleRun.pc \notin {"validated", "signed", "saving"}
    BY DEF IdleRun
  <2> QED BY <2>1, <2>2, <2>3, QuietRunStep
<1>4. ASSUME NEW s \in Slots, NEW pc, NEW todo, GotoWith(s, pc, todo),
             pc \notin {"validated", "signed", "saving"},
             UNCHANGED <<req, phase, disk, writes, settled, revoked>>,
             mem'.spent = mem.spent, mem'.forgers = mem.forgers
      PROVE  Good
  <2> DEFINE r == [pc |-> pc, ev |-> run[s].ev, todo |-> todo]
  <2>1. run' = [run EXCEPT ![s] = r] /\ r.pc = pc
    BY <1>4 DEF GotoWith
  <2> HIDE DEF r
  <2> QED BY <1>4, <2>1, QuietRunStep
<1>5. ASSUME NEW s \in Slots, MintCheck(s) \/ Verify(s) \/ Enqueue(s) \/ TransferReturn(s) PROVE Good
  BY <1>4, <1>5 DEF MintCheck, Verify, Enqueue, TransferReturn, Goto, history
<1>6. ASSUME NEW s \in Slots, MintBuilt(s) PROVE Good
  <2>1. mem'.spent = mem.spent /\ mem'.forgers = mem.forgers
    BY <1>6, <1>t DEF MintBuilt, ForgeState
  <2> QED BY <1>4, <1>6, <2>1 DEF MintBuilt, Goto, history
<1>7. ASSUME NEW s \in Slots, MintSend(s) \/ TransferSend(s) PROVE Good
  BY <1>4, <1>7 DEF MintSend, TransferSend
<1>8. ASSUME NEW s \in Slots, TransferValidate(s) PROVE Good
  <2>1. UNCHANGED <<mem, disk, writes, phase, req, settled, revoked>>
    BY <1>8 DEF TransferValidate, history
  <2>2. CASE TransferAccepted(ReqOf(s))
    <3>1. ToSet(ReqOf(s).ins) \cap mem.spent = {}
      BY <2>2 DEF TransferAccepted, InputsAccepted
    <3> DEFINE r == [pc |-> "validated", ev |-> run[s].ev, todo |-> run[s].todo]
    <3>2. run' = [run EXCEPT ![s] = r] /\ r.pc = "validated" /\ r.ev = run[s].ev
      BY <1>8, <2>2 DEF TransferValidate, Goto, GotoWith
    <3> HIDE DEF r
    <3> QED BY <2>1, <3>1, <3>2, QuietRunStep
  <2>3. CASE ~TransferAccepted(ReqOf(s))
    BY <1>4, <1>8, <2>1, <2>3 DEF TransferValidate, Goto
  <2> QED BY <2>2, <2>3
<1>9. ASSUME NEW s \in Slots, TransferSign(s) PROVE Good
  <2>1. ToSet(ReqOf(s).ins) \cap mem.spent = {}
    BY <1>9 DEF TransferSign, At, StateInv, SpendOK
  <2> DEFINE r == [pc |-> "signed", ev |-> run[s].ev, todo |-> Outputs(ReqOf(s))]
  <2>2. /\ run' = [run EXCEPT ![s] = r] /\ r.pc = "signed" /\ r.ev = run[s].ev
        /\ UNCHANGED <<mem, disk, writes, phase, req, settled, revoked>>
    BY <1>9 DEF TransferSign, GotoWith, history
  <2> HIDE DEF r
  <2> QED BY <2>1, <2>2, QuietRunStep
<1>10. ASSUME NEW s \in Slots, TransferMark(s) PROVE Good
  <2>1. /\ PublishSpent(s, ReqOf(s).ins) /\ GotoWith(s, "saving", run[s].todo)
        /\ run[s].pc = "signed" /\ phase = "up"
        /\ UNCHANGED <<disk, settled, revoked, phase, req>>
    BY <1>10 DEF TransferMark, At, Goto, history
  <2>2. ToSet(ReqOf(s).ins) \cap mem.spent = {} /\ HasLock(s)
    BY <2>1 DEF StateInv, SpendOK, ControlInv, LockOK, CriticalPCs
  <2>3. run[s].ev \in Events /\ ReqOf(s) # NoReq
    BY <2>1 DEF StateInv, ControlInv, RunsOK
  <2> QED BY <1>c, <2>1, <2>2, <2>3, PublishStep
<1>11. ASSUME NEW s \in Slots, BurnMark(s) PROVE Good
  <2>1. /\ run[s].pc = "queued" /\ phase = "up" /\ HasLock(s) /\ ReqOf(s).op = "burn"
        /\ UNCHANGED <<disk, settled, revoked, phase, req>>
    BY <1>11 DEF BurnMark, At, history
  <2>2. CASE ReqOf(s).ins[1] \in mem.spent
    BY <1>4, <1>11, <2>1, <2>2 DEF BurnMark, Goto
  <2>3. CASE ReqOf(s).ins[1] \notin mem.spent
    <3>1. PublishSpent(s, ReqOf(s).ins) /\ GotoWith(s, "saving", run[s].todo)
      BY <1>11, <2>3 DEF BurnMark, Goto
    <3>2. run[s].ev \in Events /\ ReqOf(s) # NoReq /\ Len(ReqOf(s).ins) = 1 /\ ReqOf(s).ins \in Seq(Token)
      BY <2>1 DEF StateInv, ControlInv, RunsOK, RequestsOK, ReqOf, TypeOK, Request
    <3>3. ToSet(ReqOf(s).ins) \cap mem.spent = {}
      BY <2>3, <3>2, LenProperties DEF ToSet
    <3> QED BY <1>c, <2>1, <3>1, <3>2, <3>3, PublishStep
  <2> QED BY <2>2, <2>3
<1>12. ASSUME NEW s \in Slots, TransferSettle(s) \/ BurnSettle(s) PROVE Good
  BY <1>12, SettleStep DEF TransferSettle, BurnSettle, At, Goto
<1>13. ASSUME NEW p \in AdminKeys, AddForger(p) PROVE Good
  <2> DEFINE state == [mem EXCEPT !.forgers = mem.forgers \cup {p}]
  <2>1. p \in Users
    BY KeysAssumption
  <2>2. state \in ForgeState /\ state.spent = mem.spent /\ state.forgers = mem.forgers \cup {p}
    BY <1>t, <2>1 DEF ForgeState
  <2>3. /\ Save(p, state) /\ mem' = state /\ revoked' = revoked \ {p} /\ phase = "up"
        /\ UNCHANGED <<disk, settled, phase, run, req>>
        /\ \A i \in DOMAIN writes : writes[i].by # p
    BY <1>13 DEF AddForger, AdminIdle
  <2> HIDE DEF state
  <2>4. \A q \in revoked' : q \notin state.forgers
    BY <2>2, <2>3 DEF StateInv, RevokeOK
  <2>5. DOMAIN writes = 1..Len(writes)
    BY WritesFacts DEF StateInv, ControlInv
  <2> QED BY <2>1, <2>2, <2>3, <2>4, <2>5, SaveStep
<1>14. ASSUME NEW p \in AdminKeys, RemoveForger(p) PROVE Good
  <2> DEFINE state == [mem EXCEPT !.forgers = mem.forgers \ {p}]
  <2>1. p \in Users
    BY KeysAssumption
  <2>2. state \in ForgeState /\ state.spent = mem.spent /\ state.forgers = mem.forgers \ {p}
    BY <1>t DEF ForgeState
  <2>3. /\ Save(p, state) /\ mem' = state /\ revoked' = revoked /\ phase = "up"
        /\ UNCHANGED <<disk, settled, phase, run, req>>
    BY <1>14 DEF RemoveForger, AdminIdle, history
  <2> HIDE DEF state
  <2>4. \A q \in revoked' : q \notin state.forgers
    BY <2>2, <2>3 DEF StateInv, RevokeOK
  <2> QED BY <2>1, <2>2, <2>3, <2>4, SaveStep
<1>15. ASSUME StartQueuedSave PROVE Good
  <2>1. /\ phase = "up" /\ Save("queue", mem) /\ mem' = mem /\ revoked' = revoked
        /\ UNCHANGED <<disk, settled, phase, run, req>>
    BY <1>15 DEF StartQueuedSave, history
  <2>2. \A p \in revoked' : p \notin mem.forgers
    BY <2>1 DEF StateInv, RevokeOK
  <2> QED BY <1>t, <2>1, <2>2, SaveStep
<1>16. ASSUME NEW i \in DOMAIN writes, WriteLands(i) PROVE Good
  BY <1>16, LandStep
<1>17. ASSUME NEW i \in DOMAIN writes, WriteFails(i) PROVE Good
  BY <1>17, FailStep
<1>18. ASSUME Crash PROVE Good
  <2>1. /\ phase' = "down" /\ mem' = EmptyState /\ writes' = <<>>
        /\ run' = [s \in Slots |-> IdleRun] /\ UNCHANGED <<disk, req, settled, revoked>>
    BY <1>18 DEF Crash, history
  <2> QED BY <2>1 DEF StateInv, StoreOK, SpendOK, RevokeOK, IdleRun
<1>19. ASSUME LoadState PROVE Good
  <2>1. /\ phase = "down" /\ phase' = "loaded" /\ mem' = disk
        /\ UNCHANGED <<disk, writes, run, req, settled, revoked>>
    BY <1>19 DEF LoadState, history
  <2>2. writes = <<>> /\ \A s \in Slots : run[s].pc \notin CriticalPCs
    BY <2>1 DEF StateInv, ControlInv, WritersOK, LockOK, HasLock
  <2>3. ASSUME NEW x \in Slots
        PROVE  run'[x].pc \notin {"validated", "signed", "saving"}
    BY <2>1, <2>2 DEF CriticalPCs
  <2>4. StoreOK' /\ RevokeOK'
    BY <2>1, <2>2 DEF StateInv, StoreOK, RevokeOK
  <2>5. SpendOK'
    BY <2>1, <2>3 DEF StateInv, SpendOK
  <2> QED BY <2>4, <2>5
<1>20. ASSUME Subscribe \/ EndOfStoredEvents \/ Tick \/ UNCHANGED vars PROVE Good
  <2>1. /\ UNCHANGED <<mem, disk, writes, run, req, settled, revoked>>
        /\ phase' # "down" => phase # "down"
    BY <1>20 DEF Subscribe, EndOfStoredEvents, Tick, vars, history
  <2>2. ASSUME NEW x \in Slots
        PROVE  /\ run'[x].pc \in {"validated", "signed"} => ToSet(ReqOf(x)'.ins) \cap mem.spent = {}
               /\ run'[x].pc = "saving" => run[x].pc = "saving" /\ ReqOf(x)' = ReqOf(x)
    BY <2>1 DEF StateInv, SpendOK, ReqOf
  <2> QED BY <2>1, <2>2, QuietStep
<1> HIDE DEF Good
<1>21. Good
  BY <1>1, <1>2, <1>3, <1>5, <1>6, <1>7, <1>8, <1>9, <1>10, <1>11, <1>12, <1>13, <1>14, <1>15,
     <1>16, <1>17, <1>18, <1>19, <1>20 DEF Next, HandlerStep
<1> QED BY <1>c, <1>21 DEF Good, StateInv

-----------------------------------------------------------------------------
(* The invariant that relates memory, pending writes and storage holds in  *)
(* every state when storage keeps the order of writes.                     *)
THEOREM StoreCorrect ==
    ASSUME OrderedWrites
    PROVE  Spec => []StateInv
<1>1. Init => StateInv
  <2> SUFFICES ASSUME Init PROVE StateInv
    OBVIOUS
  <2>1. ControlInv
    BY ControlInit
  <2>2. StoreOK /\ SpendOK /\ RevokeOK
    BY DEF Init, StoreOK, SpendOK, RevokeOK, IdleRun
  <2> QED BY <2>1, <2>2 DEF StateInv
<1>2. StateInv /\ [Next]_vars => StateInv'
  BY StoreStep
<1> QED BY <1>1, <1>2, PTL DEF Spec

(* An input that has funded released outputs, and a burned token, is spent *)
(* in storage at all times, and in memory once a restarted forge has       *)
(* loaded: whatever crashed or failed, it is not accepted again.           *)
THEOREM NoReplayTheorem ==
    ASSUME OrderedWrites
    PROVE  Spec => []NoReplay
<1>1. StateInv => NoReplay
  BY DEF StateInv, StoreOK, SpendOK, NoReplay
<1> QED BY <1>1, StoreCorrect, PTL

(* No step in which a transfer or a burn commits consumes a token that an  *)
(* earlier one consumed.                                                   *)
THEOREM SpendOnceTheorem ==
    ASSUME OrderedWrites
    PROVE  Spec => SpendOnce
<1>1. ASSUME StateInv, [Next]_vars
      PROVE  [\A s \in Slots : TransferSettle(s) \/ BurnSettle(s)
                 => ToSet(ReqOf(s).ins) \cap settled = {}]_vars
  BY <1>1 DEF StateInv, SpendOK, TransferSettle, BurnSettle, At
<1> QED BY <1>1, StoreCorrect, PTL DEF Spec, SpendOnce

(* A key whose revocation has completed authorises no mint again, in no    *)
(* later state of the forge or of a forge restarted from its storage.      *)
THEOREM RevocationTheorem ==
    ASSUME OrderedWrites
    PROVE  Spec => []RevocationSticks
<1>1. StateInv => RevocationSticks
  BY DEF StateInv, RevokeOK, RevocationSticks
<1> QED BY <1>1, StoreCorrect, PTL
-----------------------------------------------------------------------------
(***************************************************************************)
(* Transfers, failed saves, crashes and restarts create no value.  What    *)
(* holders can still spend and what the run that holds the lock has still  *)
(* to hand out (Credit) is never worth more than what was minted and not   *)
(* burned: FundsOK, on top of StateInv, is inductive.                      *)
(***************************************************************************)

(* The amounts of a sequence of tokens.                                    *)
LEMMA TokensWeighed ==
    ASSUME NEW q \in Seq(Token)
    PROVE  /\ Len(q) \in Nat /\ DOMAIN q = 1..Len(q) /\ \A i \in 1..Len(q) : q[i] \in Token
           /\ Weighed(q, Len(q)) /\ AmountSum(q) \in Nat
<1>1. /\ Len(q) \in Nat /\ DOMAIN q = 1..Len(q) /\ \A i \in 1..Len(q) : q[i] \in Token
  BY LenProperties, ElementOfSeq
<1>2. \A i \in 1..Len(q) : q[i].amount \in Nat
  BY <1>1 DEF Token
<1>3. Weighed(q, Len(q))
  BY <1>1, <1>2 DEF Weighed
<1>4. AmountSum(q) \in Nat
  BY <1>2, <1>3, SumIsInteger
<1> QED
  BY <1>1, <1>3, <1>4

LEMMA TokensFinite ==
    ASSUME NEW S, IsFiniteSet(S), S \subseteq Token
    PROVE  Finite(S) /\ Value(S) \in Nat
<1>1. \A x \in S : x.amount \in Nat
  BY DEF Token
<1>2. Finite(S)
  BY <1>1 DEF Finite
<1> QED
  BY <1>2, ValueIsNatural

LEMMA FirstPaid ==
    ASSUME NEW q \in Seq(Token), q # <<>>
    PROVE  AmountSum(q) = Head(q).amount + AmountSum(Tail(q)) /\ AmountSum(Tail(q)) \in Nat
<1>1. /\ Tail(q) \in Seq(Token) /\ Len(Tail(q)) = Len(q) - 1 /\ Head(q) = q[1]
      /\ \A i \in 1..(Len(q) - 1) : Tail(q)[i] = q[i + 1]
  BY HeadTailProperties, EmptySeq, LenProperties
<1>2. Len(q) \in Nat /\ Len(q) # 0
  BY EmptySeq, LenProperties
<1>3. PICK n \in Nat : Len(q) = n + 1
  <2>1. Len(q) - 1 \in Nat /\ Len(q) = (Len(q) - 1) + 1
    BY <1>2
  <2> QED
    BY <2>1
<1>4. Weighed(q, n + 1)
  BY <1>3, TokensWeighed
<1>5. Len(Tail(q)) = n /\ \A i \in 1..n : Tail(q)[i].amount = q[i + 1].amount
  BY <1>1, <1>3
<1>6. Weighed(Tail(q), n) /\ AmountSum(Tail(q)) \in Nat
  BY <1>1, <1>5, TokensWeighed
<1>7. AmountSum(q) = q[1].amount + AmountSum(Tail(q))
  BY <1>4, <1>5, <1>6, SumOfTail
<1> QED
  BY <1>1, <1>6, <1>7

(* The run that holds the lock is the only one that hands out value.       *)
CreditOf(q, r) ==
    IF q # <<>> /\ r[Head(q)].pc = "releasing" THEN AmountSum(r[Head(q)].todo) ELSE 0

LEMMA CreditFacts ==
    ASSUME NEW q \in Seq(Slots), NEW r \in [Slots -> Run],
           \A s \in Slots : r[s].pc = "releasing" => q # <<>> /\ Head(q) = s
    PROVE  /\ CreditOf(q, r) \in Nat
           /\ \A s \in Slots : r[s].pc = "releasing" => CreditOf(q, r) = AmountSum(r[s].todo)
           /\ (\A s \in Slots : r[s].pc # "releasing") => CreditOf(q, r) = 0
<1>1. q # <<>> => Head(q) \in Slots
  BY HeadTailProperties
<1>2. \A s \in Slots : r[s].todo \in Seq(Token)
  BY DEF Run
<1>3. \A s \in Slots : AmountSum(r[s].todo) \in Nat
  BY <1>2, TokensWeighed
<1>4. CreditOf(q, r) \in Nat
  BY <1>1, <1>3 DEF CreditOf
<1>5. \A s \in Slots : r[s].pc = "releasing" => CreditOf(q, r) = AmountSum(r[s].todo)
  BY DEF CreditOf
<1>6. (\A s \in Slots : r[s].pc # "releasing") => CreditOf(q, r) = 0
  BY <1>1 DEF CreditOf
<1> QED
  BY <1>4, <1>5, <1>6

LEMMA CreditStep ==
    ASSUME ControlInv, ControlInv'
    PROVE  /\ Credit \in Nat /\ Credit' \in Nat
           /\ \A s \in Slots : run[s].pc = "releasing" => Credit = AmountSum(run[s].todo)
           /\ \A s \in Slots : run'[s].pc = "releasing" => Credit' = AmountSum(run'[s].todo)
           /\ (\A s \in Slots : run[s].pc # "releasing") => Credit = 0
           /\ (\A s \in Slots : run'[s].pc # "releasing") => Credit' = 0
<1>1. Credit = CreditOf(queue, run) /\ Credit' = CreditOf(queue', run')
  BY DEF Credit, CreditOf
<1>2. /\ queue \in Seq(Slots) /\ run \in [Slots -> Run]
      /\ \A s \in Slots : run[s].pc = "releasing" => queue # <<>> /\ Head(queue) = s
  BY DEF ControlInv, TypeOK, LockOK, HasLock, CriticalPCs
<1>3. /\ queue' \in Seq(Slots) /\ run' \in [Slots -> Run]
      /\ \A s \in Slots : run'[s].pc = "releasing" => queue' # <<>> /\ Head(queue') = s
  BY DEF ControlInv, TypeOK, LockOK, HasLock, CriticalPCs
<1>4. /\ CreditOf(queue, run) \in Nat
      /\ \A s \in Slots : run[s].pc = "releasing" => CreditOf(queue, run) = AmountSum(run[s].todo)
      /\ (\A s \in Slots : run[s].pc # "releasing") => CreditOf(queue, run) = 0
  BY <1>2, CreditFacts
<1>5. /\ CreditOf(queue', run') \in Nat
      /\ \A s \in Slots :
            run'[s].pc = "releasing" => CreditOf(queue', run') = AmountSum(run'[s].todo)
      /\ (\A s \in Slots : run'[s].pc # "releasing") => CreditOf(queue', run') = 0
  BY <1>3, CreditFacts
<1> QED
  BY <1>1, <1>4, <1>5

(* A step that changes no run that hands out value leaves Credit as it is. *)
LEMMA CreditKept ==
    ASSUME ControlInv, ControlInv',
           \A s \in Slots : run'[s].pc = "releasing" <=> run[s].pc = "releasing",
           \A s \in Slots : run[s].pc = "releasing" => run'[s].todo = run[s].todo
    PROVE  Credit' = Credit /\ Credit \in Nat
<1>1. CASE \E s \in Slots : run[s].pc = "releasing"
  BY <1>1, CreditStep
<1>2. CASE ~\E s \in Slots : run[s].pc = "releasing"
  BY <1>2, CreditStep
<1> QED
  BY <1>1, <1>2

(* The step of one run that does not begin to hand out value.              *)
LEMMA CreditLess ==
    ASSUME ControlInv, ControlInv', NEW s \in Slots, NEW r, r.pc # "releasing",
           run' = [run EXCEPT ![s] = r]
    PROVE  Credit' <= Credit /\ (run[s].pc # "releasing" => Credit' = Credit)
<1>1. run'[s] = r /\ \A x \in Slots \ {s} : run'[x] = run[x]
  BY DEF ControlInv, TypeOK
<1>2. CASE \E x \in Slots \ {s} : run[x].pc = "releasing"
  <2>1. PICK x \in Slots \ {s} : run[x].pc = "releasing"
    BY <1>2
  <2>2. Credit' = Credit
    BY <1>1, <2>1, CreditStep
  <2>3. Credit \in Nat
    BY CreditStep
  <2> QED
    BY <2>2, <2>3
<1>3. CASE ~\E x \in Slots \ {s} : run[x].pc = "releasing"
  <2>1. Credit' = 0 /\ Credit \in Nat
    BY <1>1, <1>3, CreditStep
  <2>2. run[s].pc # "releasing" => Credit = 0
    BY <1>3, CreditStep
  <2> QED
    BY <2>1, <2>2
<1> QED
  BY <1>2, <1>3

(* One more token adds its amount.                                         *)
LEMMA SumWithOne ==
    ASSUME NEW T, NEW n \in Nat, NEW p \in Seq(T), Len(p) = n, NEW c \in T,
           c.amount \in Int, Weighed(p, n)
    PROVE  /\ DOMAIN (p \o <<c>>) = 1..(n + 1)
           /\ (p \o <<c>>)[n + 1] = c
           /\ \A i \in 1..n : (p \o <<c>>)[i] = p[i]
           /\ AmountSum(p \o <<c>>) = c.amount + AmountSum(p)
<1>1. <<c>> \in Seq(T) /\ Len(<<c>>) = 1 /\ <<c>>[1] = c
  OBVIOUS
<1>2. PICK o : o = p \o <<c>>
  OBVIOUS
<1>3. PICK m \in Nat : m = n + 1
  OBVIOUS
<1>4. /\ Len(o) = m /\ o \in Seq(T)
      /\ \A i \in 1..m : o[i] = IF i <= n THEN p[i] ELSE <<c>>[i - n]
  BY <1>1, <1>2, <1>3, ConcatProperties
<1>5. DOMAIN o = 1..m
  BY <1>4, LenProperties
<1>6. o[m] = c /\ \A i \in 1..n : o[i] = p[i]
  BY <1>1, <1>4, <1>3
<1>7. Weighed(o, m)
  BY <1>3, <1>5, <1>6 DEF Weighed
<1>8. \A i \in 1..n : p[i].amount = o[i].amount
  BY <1>6
<1>9. Weighed(p, n)
  OBVIOUS
<1>10. AmountSum(o) = o[m].amount + AmountSum(p)
  BY ONLY <1>3, <1>7, <1>8, <1>9, SumOfAppended
<1> QED
  BY <1>2, <1>3, <1>5, <1>6, <1>10

(* The outputs of an accepted transfer are worth its inputs.               *)
LEMMA OutputsFunded ==
    ASSUME NEW q \in Request(Token), Payable(q), IsInjective(q.ins),
           AmountSum(q.outs) <= AmountSum(q.ins), now \in Nat
    PROVE  /\ AmountSum(Outputs(q)) = Value(ToSet(q.ins))
           /\ \A t \in ToSet(Outputs(q)) : t.amount > 0
<1>1. q.outs \in Seq(Recipient) /\ q.ins \in Seq(Token)
  BY DEF Request
<1>2. PICK n \in Nat : n = Len(q.outs)
  BY <1>1, LenProperties
<1>3. DOMAIN q.outs = 1..n /\ \A i \in 1..n : q.outs[i] \in Recipient
  BY <1>1, <1>2, LenProperties, ElementOfSeq
<1>4. \A i \in 1..n : q.outs[i].amount \in Int /\ q.outs[i].amount > 0
  <2>1. \A i \in 1..n : q.outs[i].amount \in Int
    BY <1>3, BoundsAssumption DEF Recipient
  <2>2. \A i \in 1..n : q.outs[i].amount > 0
    BY <1>3 DEF Payable, ToSet
  <2> QED
    BY <2>1, <2>2
<1>5. Weighed(q.outs, n)
  BY <1>3, <1>4 DEF Weighed
<1>6. AmountSum(q.outs) \in Int /\ AmountSum(q.ins) \in Nat
  BY <1>1, <1>5, SumIsInteger, TokensWeighed
<1>7. PICK p : p = [i \in 1..n |-> NewToken(q.outs[i])]
  OBVIOUS
<1>8. PICK rest \in Nat : rest = AmountSum(q.ins) - AmountSum(q.outs)
  BY <1>6
<1>9. PICK c : c = NewToken([to |-> q.from, amount |-> rest, timeLock |-> q.ins[1].timeLock])
  OBVIOUS
<1>10. DOMAIN p = 1..n /\ \A i \in 1..n : p[i].amount = q.outs[i].amount
  BY <1>7 DEF NewToken
<1>11. Weighed(p, n)
  BY <1>4, <1>10 DEF Weighed
<1>12. AmountSum(p) = AmountSum(q.outs)
  BY <1>5, <1>10, <1>11, SumOfEqual
<1>13. c.amount = rest
  BY <1>9 DEF NewToken
<1>14. Outputs(q) = IF rest = 0 THEN p \o <<>> ELSE p \o <<c>>
  <2>1. Change(q) = IF rest = 0 THEN <<>> ELSE <<c>>
    BY <1>8, <1>9 DEF Change
  <2>2. Outputs(q) = p \o Change(q)
    BY <1>3, <1>7 DEF Outputs
  <2> QED
    BY <2>1, <2>2
<1>15. PICK T : T = {p[i] : i \in 1..n} \cup {c}
  OBVIOUS
<1>16. p \in Seq(T) /\ Len(p) = n /\ c \in T
  <2>1. p \in [1..n -> T]
    BY <1>7, <1>10, <1>15
  <2>2. p \in Seq(T)
    BY <2>1, SeqDef
  <2> QED
    BY <1>10, <1>15, <2>2, LenProperties
<1>17. AmountSum(Outputs(q)) = AmountSum(q.ins) /\ \A t \in ToSet(Outputs(q)) : t.amount > 0
  <2>1. CASE rest = 0
    <3>1. Outputs(q) = p
      BY <1>14, <1>16, <2>1, ConcatEmptySeq
    <3>2. AmountSum(q.outs) = AmountSum(q.ins)
      BY <1>6, <1>8, <2>1
    <3>3. \A t \in ToSet(p) : t.amount > 0
      BY <1>4, <1>10 DEF ToSet
    <3> QED
      BY <1>12, <3>1, <3>2, <3>3
  <2>2. CASE rest # 0
    <3>1. PICK o : o = p \o <<c>>
      OBVIOUS
    <3>2. c.amount \in Int /\ c.amount > 0 /\ Weighed(p, n)
      BY <1>8, <1>11, <1>13, <1>16, <2>2
    <3>3. /\ DOMAIN o = 1..(n + 1) /\ o[n + 1] = c /\ \A i \in 1..n : o[i] = p[i]
          /\ AmountSum(o) = c.amount + AmountSum(p)
      BY <1>16, <3>1, <3>2, SumWithOne
    <3>4. AmountSum(o) = AmountSum(q.ins)
      BY <1>6, <1>8, <1>12, <1>13, <3>3
    <3>5. \A i \in 1..(n + 1) : i \in 1..n \/ i = n + 1
      OBVIOUS
    <3>6. \A i \in 1..(n + 1) : o[i].amount > 0
      BY <1>4, <1>10, <3>2, <3>3, <3>5
    <3>7. \A t \in ToSet(o) : t.amount > 0
      BY <3>3, <3>6 DEF ToSet
    <3> QED
      BY <1>14, <2>2, <3>1, <3>4, <3>7
  <2> QED
    BY <2>1, <2>2
<1>18. AmountSum(q.ins) = Value(ToSet(q.ins))
  <2>1. Weighed(q.ins, Len(q.ins)) /\ DOMAIN q.ins = 1..Len(q.ins)
    BY <1>1, TokensWeighed
  <2>2. \A i, j \in 1..Len(q.ins) : q.ins[i] = q.ins[j] => i = j
    BY <2>1 DEF IsInjective
  <2>3. AmountSum(q.ins) = Value({q.ins[i] : i \in 1..Len(q.ins)})
    BY <2>1, <2>2, SumOfDistinct
  <2> QED
    BY <2>1, <2>3 DEF ToSet
<1> QED
  BY <1>17, <1>18

(* The values that Balanced compares.                                      *)
LEMMA FundsFacts ==
    ASSUME ControlInv, CoinsOK
    PROVE  /\ released \subseteq Token /\ IsFiniteSet(released)
           /\ Finite(released \ settled) /\ Value(released \ settled) \in Nat
           /\ minted \in Int /\ burnt \in Int
           /\ \A s \in Slots : run[s].pc # "idle" =>
                 /\ ReqOf(s) \in Request(Token) /\ ReqOf(s).ins \in Seq(Token)
                 /\ ToSet(ReqOf(s).ins) \subseteq released
<1>1. released \subseteq Token /\ IsFiniteSet(released) /\ minted \in Int /\ burnt \in Int
  BY DEF ControlInv, TypeOK, CoinsOK
<1>2. Finite(released \ settled) /\ Value(released \ settled) \in Nat
  <2>1. IsFiniteSet(released \ settled) /\ released \ settled \subseteq Token
    BY <1>1, FS_Subset
  <2> QED
    BY <2>1, TokensFinite
<1>3. ASSUME NEW s \in Slots, run[s].pc # "idle"
      PROVE  /\ ReqOf(s) \in Request(Token) /\ ReqOf(s).ins \in Seq(Token)
             /\ ToSet(ReqOf(s).ins) \subseteq released
  <2>1. run[s].ev \in Events /\ ReqOf(s) # NoReq
    BY <1>3 DEF ControlInv, RunsOK
  <2>2. ReqOf(s) \in Request(Token) /\ ToSet(ReqOf(s).ins) \subseteq released
    BY <2>1 DEF ControlInv, TypeOK, CoinsOK, ReqOf
  <2> QED
    BY <2>2 DEF Request
<1> QED
  BY <1>1, <1>2, <1>3

(* A step that keeps requests and funds and hands nothing new out.         *)
LEMMA FundsKept ==
    ASSUME ControlInv, FundsOK,
           UNCHANGED <<req, released, settled, minted, burnt>>,
           Credit \in Nat, Credit' \in Nat, Credit' <= Credit,
           \A s \in Slots : Funded(run'[s], req[run'[s].ev])
    PROVE  FundsOK'
<1>1. CoinsOK'
  BY DEF FundsOK, CoinsOK
<1>2. RunsFunded'
  BY DEF RunsFunded, ReqOf
<1>3. Balanced'
  <2>1. Value(released \ settled) \in Nat /\ minted \in Int /\ burnt \in Int
    BY FundsFacts DEF FundsOK
  <2>2. Value(released \ settled)' = Value(released \ settled)
    OBVIOUS
  <2>3. Value(released \ settled) + Credit <= minted - burnt
    BY DEF FundsOK, Balanced
  <2> QED
    BY <2>1, <2>2, <2>3 DEF Balanced
<1> QED
  BY <1>1, <1>2, <1>3 DEF FundsOK

(* The step of one run that does not begin to hand out value.              *)
LEMMA FundsRun ==
    ASSUME ControlInv, ControlInv', FundsOK, NEW s \in Slots, NEW r, r.pc # "releasing",
           run' = [run EXCEPT ![s] = r], Funded(r, req[r.ev]),
           UNCHANGED <<req, released, settled, minted, burnt>>
    PROVE  FundsOK'
<1>1. run'[s] = r /\ \A x \in Slots \ {s} : run'[x] = run[x]
  BY DEF ControlInv, TypeOK
<1>2. \A x \in Slots : Funded(run'[x], req[run'[x].ev])
  BY <1>1 DEF FundsOK, RunsFunded, ReqOf
<1>3. Credit \in Nat /\ Credit' \in Nat /\ Credit' <= Credit
  BY CreditStep, CreditLess
<1> QED
  BY <1>2, <1>3, FundsKept

(* The same for a run that is not about to pay.                            *)
LEMMA FundsGoto ==
    ASSUME ControlInv, ControlInv', FundsOK, NEW s \in Slots, NEW pc, NEW todo,
           pc \notin {"validated", "signed", "saving", "releasing"}, GotoWith(s, pc, todo),
           UNCHANGED <<req, released, settled, minted, burnt>>
    PROVE  FundsOK'
<1>1. PICK r : r = [pc |-> pc, ev |-> run[s].ev, todo |-> todo]
  OBVIOUS
<1>2. run' = [run EXCEPT ![s] = r] /\ r.pc = pc
  BY <1>1 DEF GotoWith
<1>3. Funded(r, req[r.ev])
  BY <1>2 DEF Funded, Paying
<1> QED
  BY <1>2, <1>3, FundsRun

(* A step of storage, of the operator or of the clock.                     *)
LEMMA FundsIdle ==
    ASSUME ControlInv, ControlInv', FundsOK,
           UNCHANGED <<run, req, released, settled, minted, burnt>>
    PROVE  FundsOK'
<1>1. Credit' = Credit /\ Credit \in Nat
  BY CreditKept
<1>2. \A x \in Slots : Funded(run'[x], req[run'[x].ev])
  BY DEF FundsOK, RunsFunded, ReqOf
<1> QED
  BY <1>1, <1>2, FundsKept

LEMMA FundsSend ==
    ASSUME ControlInv, ControlInv', FundsOK, NEW e \in Events, ClientSend(e)
    PROVE  FundsOK'
<1>1. PICK q \in ClientRequest(released) : req' = [req EXCEPT ![e] = q]
  BY DEF ClientSend
<1>2. req[e] = NoReq /\ UNCHANGED <<run, queue, released, settled, minted, burnt>>
  BY DEF ClientSend, history
<1>3. req'[e] = q /\ \A x \in Events \ {e} : req'[x] = req[x]
  BY <1>1 DEF ControlInv, TypeOK
<1>4. ToSet(q.ins) \subseteq released
  <2>1. q.ins \in SeqUpTo(released, MaxIns)
    BY DEF ClientRequest
  <2>2. q.ins \in Seq(released)
    BY <2>1, SeqUpToType, BoundsAssumption
  <2> QED
    BY <2>2, LenProperties, ElementOfSeq DEF ToSet
<1>5. CoinsOK'
  BY <1>2, <1>3, <1>4 DEF FundsOK, CoinsOK
<1>6. ASSUME NEW x \in Slots
      PROVE  Funded(run'[x], req'[run'[x].ev])
  <2>1. CASE run[x].pc = "idle"
    BY <1>2, <2>1 DEF Funded, Paying
  <2>2. CASE run[x].pc # "idle"
    <3>1. run[x].ev \in Events /\ ReqOf(x) # NoReq
      BY <2>2 DEF ControlInv, RunsOK
    <3>2. req'[run'[x].ev] = ReqOf(x)
      BY <1>2, <1>3, <3>1 DEF ReqOf
    <3> QED
      BY <1>2, <3>2 DEF FundsOK, RunsFunded
  <2> QED
    BY <2>1, <2>2
<1>7. RunsFunded'
  BY <1>6 DEF RunsFunded, ReqOf
<1>8. Credit' = Credit
  BY <1>2, CreditKept
<1>9. Balanced'
  BY <1>2, <1>8 DEF FundsOK, Balanced
<1> QED
  BY <1>5, <1>7, <1>9 DEF FundsOK

LEMMA FundsMint ==
    ASSUME ControlInv, ControlInv', FundsOK, NEW s \in Slots, MintSend(s)
    PROVE  FundsOK'
<1>1. /\ run[s].pc = "minting" /\ GotoWith(s, "replied", <<>>)
      /\ UNCHANGED <<req, settled, burnt>>
  BY DEF MintSend, At
<1>2. PICK t : t = Head(run[s].todo)
  OBVIOUS
<1>3. t \in Token
  <2>1. run[s].todo \in Seq(Token) /\ run[s].todo # <<>>
    BY <1>1 DEF ControlInv, TypeOK, RunsOK, Run
  <2> QED
    BY <1>2, <2>1, HeadTailProperties
<1>4. CASE t.lock \in Malformed
  <2>1. UNCHANGED <<released, minted>>
    BY <1>2, <1>4 DEF MintSend
  <2> QED
    BY <1>1, <2>1, FundsGoto
<1>5. CASE t.lock \notin Malformed
  <2>1. released' = released \cup {t} /\ minted' = minted + t.amount
    BY <1>2, <1>5 DEF MintSend
  <2>2. PICK r : r = [pc |-> "replied", ev |-> run[s].ev, todo |-> <<>>]
    OBVIOUS
  <2>3. run' = [run EXCEPT ![s] = r] /\ r.pc = "replied"
    BY <1>1, <2>2 DEF GotoWith
  <2>4. run'[s] = r /\ \A x \in Slots \ {s} : run'[x] = run[x]
    BY <2>3 DEF ControlInv, TypeOK
  <2>5. CoinsOK'
    <3>1. IsFiniteSet(released')
      BY <2>1, FS_AddElement DEF FundsOK, CoinsOK
    <3> QED
      BY <1>1, <2>1, <3>1 DEF FundsOK, CoinsOK
  <2>6. RunsFunded'
    <3>1. Funded(r, req[r.ev])
      BY <2>3 DEF Funded, Paying
    <3> QED
      BY <1>1, <2>4, <3>1 DEF FundsOK, RunsFunded, ReqOf
  <2>7. Credit' = Credit /\ Credit \in Nat
    BY <1>1, <2>3, CreditLess, CreditStep
  <2>8. Balanced'
    <3>1. /\ Finite(released \ settled) /\ Value(released \ settled) \in Nat
          /\ minted \in Int /\ burnt \in Int
      BY FundsFacts DEF FundsOK
    <3>2. t.amount \in Nat
      BY <1>3 DEF Token
    <3>3. PICK S : S = released \ settled
      OBVIOUS
    <3>4. /\ Finite(S \cup {t}) /\ Value(S \cup {t}) \in Nat
          /\ Value(S \cup {t}) <= Value(S) + t.amount
      BY <3>1, <3>2, <3>3, ValueWithOne
    <3>5. PICK U : U = released' \ settled'
      OBVIOUS
    <3>6. U \in SUBSET (S \cup {t})
      BY <1>1, <2>1, <3>3, <3>5
    <3>7. Value(U) \in Nat /\ Value(U) <= Value(S \cup {t})
      BY <3>4, <3>6, ValueOfPart
    <3>8. Value(S) + Credit <= minted - burnt
      BY <3>3 DEF FundsOK, Balanced
    <3>9. Value(S) \in Nat
      BY <3>1, <3>3
    <3>10. Value(U) + Credit <= (minted + t.amount) - burnt
      BY <2>7, <3>1, <3>2, <3>4, <3>7, <3>8, <3>9
    <3>11. Value(U) + Credit' <= minted' - burnt'
      BY <1>1, <2>1, <2>7, <3>10
    <3> QED
      BY <3>5, <3>11 DEF Balanced
  <2> QED
    BY <2>5, <2>6, <2>8 DEF FundsOK
<1> QED
  BY <1>4, <1>5

(* What taking in the inputs of a run rests on: none was consumed before.  *)
Unsettled ==
    \A s \in Slots : run[s].pc = "saving" => \A t \in ToSet(ReqOf(s).ins) : t \notin settled

LEMMA StateUnsettled == StateInv => ControlInv /\ Unsettled
  BY DEF StateInv, SpendOK, Unsettled

(* The inputs of a run that commits leave the spendable tokens.            *)
LEMMA FundsSettled ==
    ASSUME ControlInv, Unsettled, CoinsOK, NEW s \in Slots, run[s].pc = "saving",
           settled' = settled \cup ToSet(ReqOf(s).ins), UNCHANGED <<released, req>>
    PROVE  /\ ToSet(ReqOf(s).ins) \subseteq released \ settled
           /\ CoinsOK'
           /\ Value(ToSet(ReqOf(s).ins)) \in Nat /\ Value(released' \ settled') \in Nat
           /\ Value(released \ settled) = Value(released' \ settled') + Value(ToSet(ReqOf(s).ins))
<1>1. PICK I : I = ToSet(ReqOf(s).ins)
  OBVIOUS
<1>2. I \subseteq released
  BY <1>1, FundsFacts
<1>3. \A t \in I : t \notin settled
  BY <1>1 DEF Unsettled
<1>4. I \in SUBSET (released \ settled)
  BY <1>2, <1>3
<1>5. Finite(released \ settled)
  BY FundsFacts
<1>6. released' \ settled' = (released \ settled) \ I
  BY <1>1
<1>7. /\ Value(released \ settled) = Value(I) + Value((released \ settled) \ I)
      /\ Value(I) \in Nat /\ Value((released \ settled) \ I) \in Nat
  BY <1>4, <1>5, ValueOfPart
<1>8. /\ Value(released \ settled) = Value((released \ settled) \ I) + Value(I)
  BY <1>7
<1>9. CoinsOK'
  BY <1>1, <1>2 DEF CoinsOK
<1> QED
  BY <1>1, <1>4, <1>6, <1>7, <1>8, <1>9

LEMMA FundsTransferSettle ==
    ASSUME ControlInv, ControlInv', Unsettled, FundsOK, NEW s \in Slots, TransferSettle(s)
    PROVE  FundsOK' /\ Credit = 0 /\ Credit' = Value(ToSet(ReqOf(s).ins))
<1>1. /\ run[s].pc = "saving" /\ ReqOf(s).op = "transfer" /\ GotoWith(s, "releasing", run[s].todo)
      /\ settled' = settled \cup ToSet(ReqOf(s).ins)
      /\ UNCHANGED <<req, released, minted, burnt>>
  BY DEF TransferSettle, At, Goto
<1>2. PICK r : r = [pc |-> "releasing", ev |-> run[s].ev, todo |-> run[s].todo]
  OBVIOUS
<1>3. /\ run' = [run EXCEPT ![s] = r] /\ r.pc = "releasing" /\ r.todo = run[s].todo
      /\ r.ev = run[s].ev
  BY <1>1, <1>2 DEF GotoWith
<1>4. run'[s] = r /\ \A x \in Slots \ {s} : run'[x] = run[x]
  BY <1>3 DEF ControlInv, TypeOK
<1>5. PICK I : I = ToSet(ReqOf(s).ins)
  OBVIOUS
<1>6. Funded(run[s], ReqOf(s))
  BY DEF FundsOK, RunsFunded
<1>7. AmountSum(run[s].todo) = Value(I) /\ \A t \in ToSet(run[s].todo) : t.amount > 0
  BY <1>1, <1>5, <1>6 DEF Funded, Paying
<1>8. CoinsOK'
  BY <1>1, FundsSettled DEF FundsOK
<1>9. RunsFunded'
  <2>1. Funded(r, req[r.ev])
    BY <1>3, <1>7 DEF Funded, Paying
  <2> QED
    BY <1>1, <1>4, <2>1 DEF FundsOK, RunsFunded, ReqOf
<1>10. Credit = 0 /\ Credit' = Value(I)
  <2>1. \A x \in Slots : run[x].pc # "releasing"
    <3>1. HasLock(s) /\ ControlInv
      BY <1>1 DEF ControlInv, LockOK, CriticalPCs
    <3>2. \A x \in Slots : run[x].pc = "releasing" => x = s
      BY <3>1, OneCritical DEF CriticalPCs
    <3> QED
      BY <1>1, <3>2
  <2>2. run'[s].pc = "releasing" /\ run'[s].todo = run[s].todo
    BY <1>3, <1>4
  <2> QED
    BY <1>7, <2>1, <2>2, CreditStep
<1>11. Balanced'
  <2>1. PICK v \in Nat, u \in Nat, w \in Nat :
            v = Value(released \ settled) /\ u = Value(released' \ settled') /\ w = Value(I)
    BY <1>1, <1>5, FundsSettled, FundsFacts DEF FundsOK
  <2>2. v = u + w
    BY <1>1, <1>5, <2>1, FundsSettled DEF FundsOK
  <2>3. minted \in Int /\ burnt \in Int
    BY FundsFacts DEF FundsOK
  <2>4. v + 0 <= minted - burnt
    BY <1>10, <2>1 DEF FundsOK, Balanced
  <2>5. u + w <= minted - burnt
    BY <2>2, <2>3, <2>4
  <2> QED
    BY <1>1, <1>10, <2>1, <2>5 DEF Balanced
<1> QED
  BY <1>5, <1>8, <1>9, <1>10, <1>11 DEF FundsOK

LEMMA FundsBurnSettle ==
    ASSUME ControlInv, ControlInv', Unsettled, FundsOK, NEW s \in Slots, BurnSettle(s)
    PROVE  /\ FundsOK' /\ Credit' = Credit
           /\ ReqOf(s).ins[1] \in released \ settled
           /\ settled' = settled \cup {ReqOf(s).ins[1]}
<1>1. /\ run[s].pc = "saving" /\ ReqOf(s).op = "burn" /\ GotoWith(s, "replied", run[s].todo)
      /\ settled' = settled \cup ToSet(ReqOf(s).ins)
      /\ burnt' = burnt + ReqOf(s).ins[1].amount
      /\ UNCHANGED <<req, released, minted>>
  BY DEF BurnSettle, At, Goto
<1>2. PICK r : r = [pc |-> "replied", ev |-> run[s].ev, todo |-> run[s].todo]
  OBVIOUS
<1>3. run' = [run EXCEPT ![s] = r] /\ r.pc = "replied"
  BY <1>1, <1>2 DEF GotoWith
<1>4. run'[s] = r /\ \A x \in Slots \ {s} : run'[x] = run[x]
  BY <1>3 DEF ControlInv, TypeOK
<1>5. PICK t : t = ReqOf(s).ins[1]
  OBVIOUS
<1>6. ToSet(ReqOf(s).ins) = {t} /\ t \in Token
  <2>1. ReqOf(s).ins \in Seq(Token)
    BY <1>1, FundsFacts DEF FundsOK
  <2>2. run[s].ev \in Events /\ ReqOf(s) # NoReq
    BY <1>1 DEF ControlInv, RunsOK
  <2>3. Len(ReqOf(s).ins) = 1
    BY <1>1, <2>2 DEF ControlInv, RequestsOK, ReqOf
  <2>4. DOMAIN ReqOf(s).ins = 1..1
    BY <2>1, <2>3, LenProperties
  <2>5. \A i \in 1..1 : i = 1
    OBVIOUS
  <2> QED
    BY <1>5, <2>1, <2>3, <2>4, <2>5, ElementOfSeq DEF ToSet
<1>7. CoinsOK'
  BY <1>1, FundsSettled DEF FundsOK
<1>8. RunsFunded'
  <2>1. Funded(r, req[r.ev])
    BY <1>3 DEF Funded, Paying
  <2> QED
    BY <1>1, <1>4, <2>1 DEF FundsOK, RunsFunded, ReqOf
<1>9. Credit' = Credit /\ Credit \in Nat
  BY <1>1, <1>3, CreditLess, CreditStep
<1>10. Balanced'
  <2>1. PICK v \in Nat, u \in Nat, w \in Nat :
            v = Value(released \ settled) /\ u = Value(released' \ settled') /\ w = Value({t})
    BY <1>1, <1>6, FundsSettled, FundsFacts DEF FundsOK
  <2>2. v = u + w
    BY <1>1, <1>6, <2>1, FundsSettled DEF FundsOK
  <2>3. w = t.amount
    BY <1>6, <2>1, ValueOfOne DEF Token
  <2>4. minted \in Int /\ burnt \in Int
    BY FundsFacts DEF FundsOK
  <2>5. v + Credit <= minted - burnt
    BY <2>1 DEF FundsOK, Balanced
  <2>6. u + Credit <= minted - (burnt + w)
    BY <1>9, <2>2, <2>4, <2>5
  <2>7. minted' = minted /\ burnt' = burnt + w
    BY <1>1, <1>5, <2>3
  <2> QED
    BY <1>9, <2>1, <2>6, <2>7 DEF Balanced
<1>11. t \in released \ settled
  BY <1>1, <1>6, FundsSettled DEF FundsOK
<1> QED
  BY <1>1, <1>5, <1>6, <1>7, <1>8, <1>9, <1>10, <1>11 DEF FundsOK

(* A transfer hands out its next output, or gives up on the rest.          *)
LEMMA FundsTransferSend ==
    ASSUME ControlInv, ControlInv', FundsOK, NEW s \in Slots, TransferSend(s)
    PROVE  /\ FundsOK'
           /\ \/ released' = released /\ Credit' = 0 /\ Credit \in Nat /\ Credit > 0
              \/ \E t \in Token : /\ released' = released \cup {t}
                                  /\ t.amount <= Credit /\ Credit' = Credit - t.amount
<1>1. /\ run[s].pc = "releasing" /\ run[s].todo # <<>> /\ run[s].todo \in Seq(Token)
      /\ UNCHANGED <<req, settled, minted, burnt>>
  BY DEF TransferSend, At, ControlInv, TypeOK, Run
<1>2. PICK t \in Token : t = Head(run[s].todo)
  BY <1>1, HeadTailProperties
<1>3. /\ Credit = t.amount + AmountSum(Tail(run[s].todo))
      /\ AmountSum(Tail(run[s].todo)) \in Nat
  BY <1>1, <1>2, FirstPaid, CreditStep
<1>4. \A x \in ToSet(run[s].todo) : x.amount > 0
  BY <1>1 DEF FundsOK, RunsFunded, Funded
<1>5. t.amount \in Nat /\ t.amount > 0
  <2>1. t \in ToSet(run[s].todo)
    BY <1>1, <1>2, HeadTailProperties, EmptySeq, LenProperties DEF ToSet
  <2> QED
    BY <1>4, <2>1 DEF Token
<1>6. CASE t.lock \in Malformed
  <2>1. GotoWith(s, "replied", <<>>) /\ UNCHANGED released
    BY <1>2, <1>6 DEF TransferSend
  <2>2. FundsOK'
    BY <1>1, <2>1, FundsGoto
  <2>3. Credit \in Nat /\ Credit > 0
    BY <1>3, <1>5
  <2>4. Credit' = 0
    <3>1. HasLock(s)
      BY <1>1 DEF ControlInv, LockOK, CriticalPCs
    <3>2. \A x \in Slots : run[x].pc = "releasing" => x = s
      BY <3>1, OneCritical DEF CriticalPCs
    <3>3. run'[s].pc = "replied" /\ \A x \in Slots \ {s} : run'[x] = run[x]
      BY <2>1 DEF GotoWith, ControlInv, TypeOK
    <3>4. \A x \in Slots : run'[x].pc # "releasing"
      BY <3>2, <3>3
    <3> QED
      BY <3>4, CreditStep
  <2> QED
    BY <2>1, <2>2, <2>3, <2>4
<1>7. CASE t.lock \notin Malformed
  <2>1. released' = released \cup {t} /\ GotoWith(s, "releasing", Tail(run[s].todo))
    BY <1>2, <1>7 DEF TransferSend
  <2>2. PICK r : r = [pc |-> "releasing", ev |-> run[s].ev, todo |-> Tail(run[s].todo)]
    OBVIOUS
  <2>3. /\ run' = [run EXCEPT ![s] = r] /\ r.pc = "releasing"
        /\ r.todo = Tail(run[s].todo)
    BY <2>1, <2>2 DEF GotoWith
  <2>4. run'[s] = r /\ \A x \in Slots \ {s} : run'[x] = run[x]
    BY <2>3 DEF ControlInv, TypeOK
  <2>5. Credit' = AmountSum(Tail(run[s].todo))
    BY <2>3, <2>4, CreditStep
  <2>6. Credit' = Credit - t.amount /\ t.amount <= Credit
    BY <1>3, <1>5, <2>5
  <2>7. CoinsOK'
    <3>1. IsFiniteSet(released')
      BY <2>1, FS_AddElement DEF FundsOK, CoinsOK
    <3> QED
      BY <1>1, <2>1, <3>1 DEF FundsOK, CoinsOK
  <2>8. RunsFunded'
    <3>1. \A x \in ToSet(r.todo) : x \in ToSet(run[s].todo)
      <4>1. /\ Tail(run[s].todo) \in Seq(Token)
            /\ Len(Tail(run[s].todo)) = Len(run[s].todo) - 1
            /\ \A i \in 1..(Len(run[s].todo) - 1) : Tail(run[s].todo)[i] = run[s].todo[i + 1]
        BY <1>1, HeadTailProperties, EmptySeq, LenProperties
      <4>2. /\ DOMAIN Tail(run[s].todo) = 1..(Len(run[s].todo) - 1)
            /\ DOMAIN run[s].todo = 1..Len(run[s].todo) /\ Len(run[s].todo) \in Nat
        BY <1>1, <4>1, LenProperties
      <4>3. ASSUME NEW i \in DOMAIN Tail(run[s].todo)
            PROVE  Tail(run[s].todo)[i] \in ToSet(run[s].todo)
        <5>1. i + 1 \in 1..Len(run[s].todo) /\ Tail(run[s].todo)[i] = run[s].todo[i + 1]
          BY <4>1, <4>2, <4>3
        <5> QED
          BY <4>2, <5>1 DEF ToSet
      <4> QED
        BY <2>3, <4>3 DEF ToSet
    <3>2. Funded(r, req[r.ev])
      BY <1>4, <2>3, <3>1 DEF Funded, Paying
    <3> QED
      BY <1>1, <2>4, <3>2 DEF FundsOK, RunsFunded, ReqOf
  <2>9. Balanced'
    <3>1. /\ Finite(released \ settled) /\ Value(released \ settled) \in Nat
          /\ minted \in Int /\ burnt \in Int
      BY FundsFacts DEF FundsOK
    <3>2. PICK S : S = released \ settled
      OBVIOUS
    <3>3. /\ Finite(S \cup {t}) /\ Value(S \cup {t}) \in Nat /\ Value(S) \in Nat
          /\ Value(S \cup {t}) <= Value(S) + t.amount
      BY <1>5, <3>1, <3>2, ValueWithOne
    <3>4. PICK U : U = released' \ settled'
      OBVIOUS
    <3>5. U \in SUBSET (S \cup {t})
      BY <1>1, <2>1, <3>2, <3>4
    <3>6. Value(U) \in Nat /\ Value(U) <= Value(S \cup {t})
      BY <3>3, <3>5, ValueOfPart
    <3>7. Value(S) + Credit <= minted - burnt /\ Credit \in Nat
      BY <1>3, <1>5, <3>2 DEF FundsOK, Balanced
    <3>8. Value(U) + (Credit - t.amount) <= minted - burnt
      BY <1>5, <3>1, <3>3, <3>6, <3>7
    <3>9. Value(U) + Credit' <= minted' - burnt'
      BY <1>1, <2>6, <3>8
    <3> QED
      BY <3>4, <3>9 DEF Balanced
  <2> QED
    BY <2>1, <2>6, <2>7, <2>8, <2>9 DEF FundsOK
<1> QED
  BY <1>6, <1>7

(* Every step of the forge, one case per action.                           *)
LEMMA FundsStep ==
    ASSUME ControlInv, ControlInv', Unsettled, FundsOK, [Next]_vars
    PROVE  FundsOK'
<1>0. ControlInv /\ ControlInv'
  OBVIOUS
<1>1. ASSUME NEW e \in Events, ClientSend(e) PROVE FundsOK'
  BY <1>0, <1>1, FundsSend
<1>2. ASSUME NEW s \in Slots, NEW e \in Events, Deliver(s, e) PROVE FundsOK'
  <2>1. PICK r : r = [pc |-> "received", ev |-> e, todo |-> <<>>]
    OBVIOUS
  <2>2. /\ run' = [run EXCEPT ![s] = r] /\ r.pc = "received"
        /\ UNCHANGED <<req, released, settled, minted, burnt>>
    BY <1>2, <2>1 DEF Deliver, history
  <2>3. Funded(r, req[r.ev])
    BY <2>2 DEF Funded, Paying
  <2> QED
    BY <1>0, <2>2, <2>3, FundsRun
<1>3. ASSUME NEW s \in Slots, FinishEvent(s) PROVE FundsOK'
  <2>1. /\ run' = [run EXCEPT ![s] = IdleRun] /\ IdleRun.pc = "idle"
        /\ UNCHANGED <<req, released, settled, minted, burnt>>
    BY <1>3 DEF FinishEvent, history, IdleRun
  <2>2. Funded(IdleRun, req[IdleRun.ev])
    BY <2>1 DEF Funded, Paying
  <2> QED
    BY <1>0, <2>1, <2>2, FundsRun
<1>4. ASSUME NEW s \in Slots,
             \/ MintCheck(s) \/ MintBuilt(s) \/ Verify(s) \/ Enqueue(s) \/ TransferReturn(s)
      PROVE  FundsOK'
  <2>1. UNCHANGED <<req, released, settled, minted, burnt>>
    BY <1>4 DEF MintCheck, MintBuilt, Verify, Enqueue, TransferReturn, history
  <2>2. \E pc \in {"building", "minting", "queued", "replied"} : \E todo : GotoWith(s, pc, todo)
    BY <1>4 DEF MintCheck, MintBuilt, Verify, Enqueue, TransferReturn, Goto
  <2> QED
    BY <1>0, <2>1, <2>2, FundsGoto
<1>5. ASSUME NEW s \in Slots, MintSend(s) PROVE FundsOK'
  BY <1>0, <1>5, FundsMint
<1>6. ASSUME NEW s \in Slots, TransferValidate(s) PROVE FundsOK'
  <2>1. UNCHANGED <<req, released, settled, minted, burnt>>
    BY <1>6 DEF TransferValidate, history
  <2>2. CASE TransferAccepted(ReqOf(s))
    <3>1. PICK r : r = [pc |-> "validated", ev |-> run[s].ev, todo |-> run[s].todo]
      OBVIOUS
    <3>2. run' = [run EXCEPT ![s] = r] /\ r.pc = "validated" /\ req[r.ev] = ReqOf(s)
      BY <1>6, <2>2, <3>1 DEF TransferValidate, Goto, GotoWith, ReqOf
    <3>3. IsInjective(ReqOf(s).ins) /\ AmountSum(ReqOf(s).outs) <= AmountSum(ReqOf(s).ins)
      BY <2>2 DEF TransferAccepted, InputsAccepted
    <3>4. Funded(r, req[r.ev])
      BY <3>2, <3>3 DEF Funded, Paying
    <3> QED
      BY <1>0, <2>1, <3>2, <3>4, FundsRun
  <2>3. CASE ~TransferAccepted(ReqOf(s))
    <3>1. GotoWith(s, "replied", run[s].todo)
      BY <1>6, <2>3 DEF TransferValidate, Goto
    <3> QED
      BY <1>0, <2>1, <3>1, FundsGoto
  <2> QED
    BY <2>2, <2>3
<1>7. ASSUME NEW s \in Slots, TransferSign(s) PROVE FundsOK'
  <2>1. /\ run[s].pc = "validated" /\ GotoWith(s, "signed", Outputs(ReqOf(s)))
        /\ UNCHANGED <<req, released, settled, minted, burnt>>
    BY <1>7 DEF TransferSign, At, history
  <2>2. PICK r : r = [pc |-> "signed", ev |-> run[s].ev, todo |-> Outputs(ReqOf(s))]
    OBVIOUS
  <2>3. /\ run' = [run EXCEPT ![s] = r] /\ r.pc = "signed" /\ req[r.ev] = ReqOf(s)
        /\ r.todo = Outputs(ReqOf(s))
    BY <2>1, <2>2 DEF GotoWith, ReqOf
  <2>4. ReqOf(s) \in Request(Token) /\ Payable(ReqOf(s)) /\ now \in Nat
    <3>1. ReqOf(s) \in Request(Token)
      BY <1>0, <2>1, FundsFacts DEF FundsOK
    <3> QED
      BY <1>0, <2>1, <3>1 DEF ControlInv, TypeOK, RunsOK
  <2>5. IsInjective(ReqOf(s).ins) /\ AmountSum(ReqOf(s).outs) <= AmountSum(ReqOf(s).ins)
    BY <2>1 DEF FundsOK, RunsFunded, Funded
  <2>6. /\ AmountSum(Outputs(ReqOf(s))) = Value(ToSet(ReqOf(s).ins))
        /\ \A t \in ToSet(Outputs(ReqOf(s))) : t.amount > 0
    BY <2>4, <2>5, OutputsFunded
  <2>7. Funded(r, req[r.ev])
    BY <2>3, <2>6 DEF Funded, Paying
  <2> QED
    BY <1>0, <2>1, <2>3, <2>7, FundsRun
<1>8. ASSUME NEW s \in Slots, TransferMark(s) \/ (BurnMark(s) /\ run'[s].pc = "saving")
      PROVE  FundsOK'
  <2>1. /\ GotoWith(s, "saving", run[s].todo)
        /\ run[s].pc = "signed" \/ ReqOf(s).op = "burn"
        /\ UNCHANGED <<req, released, settled, minted, burnt>>
    <3>1. CASE TransferMark(s)
      BY <3>1 DEF TransferMark, At, Goto, history
    <3>2. CASE BurnMark(s) /\ run'[s].pc = "saving"
      <4>1. run \in [Slots -> Run]
        BY <1>0 DEF ControlInv, TypeOK
      <4> QED
        BY <3>2, <4>1 DEF BurnMark, Goto, GotoWith, history
    <3> QED
      BY <1>8, <3>1, <3>2
  <2>2. PICK r : r = [pc |-> "saving", ev |-> run[s].ev, todo |-> run[s].todo]
    OBVIOUS
  <2>3. /\ run' = [run EXCEPT ![s] = r] /\ r.pc = "saving" /\ req[r.ev] = ReqOf(s)
        /\ r.todo = run[s].todo
    BY <2>1, <2>2 DEF GotoWith, ReqOf
  <2>4. Funded(run[s], ReqOf(s))
    BY DEF FundsOK, RunsFunded
  <2>5. Funded(r, req[r.ev])
    BY <2>1, <2>3, <2>4 DEF Funded, Paying
  <2> QED
    BY <1>0, <2>1, <2>3, <2>5, FundsRun
<1>9. ASSUME NEW s \in Slots, BurnMark(s) PROVE FundsOK'
  <2>1. CASE ReqOf(s).ins[1] \in mem.spent
    <3>1. GotoWith(s, "replied", run[s].todo) /\ UNCHANGED <<req, released, settled, minted, burnt>>
      BY <1>9, <2>1 DEF BurnMark, Goto, history
    <3> QED
      BY <1>0, <3>1, FundsGoto
  <2>2. CASE ReqOf(s).ins[1] \notin mem.spent
    <3>1. run'[s].pc = "saving"
      BY <1>0, <1>9, <2>2 DEF BurnMark, Goto, GotoWith, ControlInv, TypeOK
    <3> QED
      BY <1>8, <1>9, <3>1
  <2> QED
    BY <2>1, <2>2
<1>10. ASSUME NEW s \in Slots, TransferSettle(s) PROVE FundsOK'
  BY <1>0, <1>10, FundsTransferSettle
<1>11. ASSUME NEW s \in Slots, BurnSettle(s) PROVE FundsOK'
  BY <1>0, <1>11, FundsBurnSettle
<1>12. ASSUME NEW s \in Slots, TransferSend(s) PROVE FundsOK'
  BY <1>0, <1>12, FundsTransferSend
<1>13. ASSUME UNCHANGED <<run, req, released, settled, minted, burnt>> PROVE FundsOK'
  BY <1>0, <1>13, FundsIdle
<1>14. ASSUME NEW p \in AdminKeys, AddForger(p) \/ RemoveForger(p) PROVE FundsOK'
  BY <1>13, <1>14 DEF AddForger, RemoveForger, history
<1>15. ASSUME NEW i \in DOMAIN writes, WriteLands(i) PROVE FundsOK'
  BY <1>13, <1>15 DEF WriteLands
<1>16. ASSUME NEW i \in DOMAIN writes, WriteFails(i) PROVE FundsOK'
  <2>1. UNCHANGED <<req, released, settled, minted, burnt>>
    BY <1>16 DEF WriteFails, history
  <2>2. CASE writes[i].by \in Slots
    <3>1. GotoWith(writes[i].by, "replied", <<>>)
      BY <1>16, <2>2 DEF WriteFails
    <3> QED
      BY <1>0, <2>1, <2>2, <3>1, FundsGoto
  <2>3. CASE writes[i].by \notin Slots
    BY <1>13, <1>16, <2>1, <2>3 DEF WriteFails
  <2> QED
    BY <2>2, <2>3
<1>17. ASSUME Crash PROVE FundsOK'
  <2>1. /\ run' = [s \in Slots |-> IdleRun]
        /\ UNCHANGED <<req, released, settled, minted, burnt>>
    BY <1>17 DEF Crash, history
  <2>2. \A x \in Slots : run'[x].pc = "idle"
    BY <2>1 DEF IdleRun
  <2>3. \A x \in Slots : Funded(run'[x], req[run'[x].ev])
    BY <2>2 DEF Funded, Paying
  <2>4. Credit \in Nat /\ Credit' = 0
    BY <1>0, <2>2, CreditStep
  <2>5. Credit' \in Nat /\ Credit' <= Credit
    BY <2>4
  <2> QED
    BY <1>0, <2>1, <2>3, <2>4, <2>5, FundsKept
<1>18. ASSUME \/ LoadState \/ Subscribe \/ EndOfStoredEvents \/ StartQueuedSave \/ Tick
              \/ UNCHANGED vars
       PROVE  FundsOK'
  BY <1>13, <1>18 DEF LoadState, Subscribe, EndOfStoredEvents, StartQueuedSave, Tick, vars, history
<1> QED
  BY <1>1, <1>2, <1>3, <1>4, <1>5, <1>6, <1>7, <1>8, <1>9, <1>10, <1>11, <1>12, <1>14, <1>15,
     <1>16, <1>17, <1>18 DEF Next, HandlerStep

LEMMA FundsInit == Init => FundsOK
<1> SUFFICES ASSUME Init PROVE FundsOK
  OBVIOUS
<1>1. CoinsOK
  BY InitialTokensAssumption DEF Init, CoinsOK
<1>2. RunsFunded
  BY DEF Init, RunsFunded, Funded, Paying, IdleRun
<1>3. Balanced
  <2>1. released \ settled = InitialTokens /\ minted = Value(InitialTokens) /\ burnt = 0
    BY DEF Init
  <2>2. Value(InitialTokens) \in Nat
    BY InitialTokensAssumption, TokensFinite
  <2>3. Credit = 0
    BY DEF Init, Credit
  <2> QED
    BY <2>1, <2>2, <2>3 DEF Balanced
<1> QED
  BY <1>1, <1>2, <1>3 DEF FundsOK

(* The whole inductive invariant of the forge: StateInv, and the balance   *)
(* of what was minted, what is spendable and what a transfer still owes.   *)
THEOREM ForgeInvariant ==
    ASSUME OrderedWrites
    PROVE  Spec => []IInv
<1>1. Init => FundsOK
  BY FundsInit
<1>2. StateInv /\ StateInv' /\ FundsOK /\ [Next]_vars => FundsOK'
  BY StateUnsettled, FundsStep DEF StateInv
<1>3. Spec => []FundsOK
  BY <1>1, <1>2, StoreCorrect, PTL DEF Spec
<1>4. StateInv /\ FundsOK => IInv
  BY DEF IInv
<1> QED
  BY <1>3, <1>4, StoreCorrect, PTL

(* Where all consumed inputs are marked in memory, what holders can spend  *)
(* is at most what they hold of what was minted and not burned.            *)
LEMMA SpendableCovered ==
    ASSUME ControlInv, FundsOK, settled \subseteq mem.spent
    PROVE  Value(released \ mem.spent) <= minted - burnt
<1>1. /\ Finite(released \ settled) /\ Value(released \ settled) \in Nat
      /\ minted \in Int /\ burnt \in Int
  BY FundsFacts DEF FundsOK
<1>2. PICK S, T : S = released \ settled /\ T = released \ mem.spent
  OBVIOUS
<1>3. T \in SUBSET S
  BY <1>2
<1>4. Value(T) \in Nat /\ Value(T) <= Value(S)
  BY <1>1, <1>2, <1>3, ValueOfPart
<1>5. Credit \in Nat
  <2>1. /\ queue \in Seq(Slots) /\ run \in [Slots -> Run]
        /\ \A s \in Slots : run[s].pc = "releasing" => queue # <<>> /\ Head(queue) = s
    BY DEF ControlInv, TypeOK, LockOK, HasLock, CriticalPCs
  <2>2. CreditOf(queue, run) \in Nat
    BY <2>1, CreditFacts
  <2> QED
    BY <2>2 DEF Credit, CreditOf
<1>6. Value(S) + Credit <= minted - burnt
  BY <1>2 DEF FundsOK, Balanced
<1>7. Value(T) <= minted - burnt
  BY <1>1, <1>2, <1>4, <1>5, <1>6
<1> QED
  BY <1>2, <1>7

(* The tokens that holders can still spend are never worth more than what  *)
(* was minted and not burned, for any number of tokens, amounts, runs,     *)
(* crashes and failed writes (validateFungibleTransfer, spent set).        *)
THEOREM NoInflationTheorem ==
    ASSUME OrderedWrites
    PROVE  Spec => []NoInflation
<1>1. ASSUME IInv, phase = "up"
      PROVE  settled \subseteq mem.spent
  BY <1>1 DEF IInv, StateInv, StoreOK, SpendOK
<1>2. IInv => NoInflation
  BY <1>1, SpendableCovered DEF NoInflation, IInv, StateInv
<1> QED
  BY <1>2, ForgeInvariant, PTL
-----------------------------------------------------------------------------
(***************************************************************************)
(* The forge implements the ledger of TokenLedger: each of its steps is a  *)
(* step of the ledger, or changes nothing that the ledger shows.           *)
(***************************************************************************)

LEMMA WorthIsValue ==
    ASSUME NEW S
    PROVE  Ledger!Worth(S) = Value(S)
BY DEF Ledger!Worth, Value, MapThenSumSet, MapThenFoldSet,
       Ledger!MapThenSumSet, Ledger!MapThenFoldSet

LEMMA LedgerStep ==
    ASSUME ControlInv, ControlInv', Unsettled, FundsOK, [Next]_vars
    PROVE  [Ledger!Next]_(Ledger!ledgerVars)
<1>0. ControlInv /\ ControlInv' /\ Unsettled /\ FundsOK
  OBVIOUS
<1>1. Credit \in Nat /\ Credit' \in Nat /\ run \in [Slots -> Run]
  BY <1>0, CreditStep DEF ControlInv, TypeOK
<1> DEFINE Good == Ledger!Next \/ UNCHANGED Ledger!ledgerVars
<1>2. ASSUME UNCHANGED <<released, settled, minted, burnt>>, Credit' <= Credit
      PROVE  Good
  <2>1. CASE Credit' = Credit
    BY <1>2, <2>1 DEF Ledger!ledgerVars
  <2>2. CASE Credit' # Credit
    <3>1. Credit' \in 0..(Credit - 1)
      BY <1>1, <1>2, <2>2
    <3>2. Ledger!Forfeit
      BY <1>2, <3>1 DEF Ledger!Forfeit
    <3> QED
      BY <3>2 DEF Ledger!Next
  <2> QED
    BY <2>1, <2>2
<1>3. ASSUME NEW s \in Slots, NEW r, r.pc # "releasing", run' = [run EXCEPT ![s] = r],
             UNCHANGED <<released, settled, minted, burnt>>
      PROVE  Good
  BY <1>0, <1>2, <1>3, CreditLess
<1>4. ASSUME NEW s \in Slots, NEW pc, NEW todo, pc # "releasing", GotoWith(s, pc, todo),
             UNCHANGED <<released, settled, minted, burnt>>
      PROVE  Good
  <2>1. PICK r : r = [pc |-> pc, ev |-> run[s].ev, todo |-> todo]
    OBVIOUS
  <2>2. run' = [run EXCEPT ![s] = r] /\ r.pc # "releasing"
    BY <1>4, <2>1 DEF GotoWith
  <2> QED
    BY <1>3, <1>4, <2>2
<1>5. ASSUME UNCHANGED <<run, released, settled, minted, burnt>>
      PROVE  Good
  <2>1. Credit' = Credit
    BY <1>0, <1>5, CreditKept
  <2> QED
    BY <1>5, <2>1 DEF Ledger!ledgerVars
<1>6. ASSUME NEW e \in Events, ClientSend(e) PROVE Good
  BY <1>5, <1>6 DEF ClientSend, history
<1>7. ASSUME NEW s \in Slots, NEW e \in Events, Deliver(s, e) PROVE Good
  <2>1. PICK r : r = [pc |-> "received", ev |-> e, todo |-> <<>>]
    OBVIOUS
  <2>2. /\ run' = [run EXCEPT ![s] = r] /\ r.pc # "releasing"
        /\ UNCHANGED <<released, settled, minted, burnt>>
    BY <1>7, <2>1 DEF Deliver, history
  <2> QED
    BY <1>3, <2>2
<1>8. ASSUME NEW s \in Slots, FinishEvent(s) PROVE Good
  <2>1. /\ run' = [run EXCEPT ![s] = IdleRun] /\ IdleRun.pc # "releasing"
        /\ UNCHANGED <<released, settled, minted, burnt>>
    BY <1>8 DEF FinishEvent, history, IdleRun
  <2> QED
    BY <1>3, <2>1
<1>9. ASSUME NEW s \in Slots,
             \/ MintCheck(s) \/ MintBuilt(s) \/ Verify(s) \/ Enqueue(s)
             \/ TransferValidate(s) \/ TransferSign(s) \/ TransferMark(s) \/ TransferReturn(s)
             \/ BurnMark(s)
      PROVE  Good
  <2>1. UNCHANGED <<released, settled, minted, burnt>>
    BY <1>9 DEF MintCheck, MintBuilt, Verify, Enqueue, TransferValidate, TransferSign,
                TransferMark, TransferReturn, BurnMark, history
  <2>2. \E pc \in {"building", "minting", "queued", "validated", "signed", "saving", "replied"} :
            \E todo : GotoWith(s, pc, todo)
    <3>1. CASE MintCheck(s) \/ MintBuilt(s) \/ Verify(s) \/ Enqueue(s)
      BY <3>1 DEF MintCheck, MintBuilt, Verify, Enqueue, Goto
    <3>2. CASE TransferValidate(s) \/ TransferSign(s) \/ TransferMark(s)
      BY <3>2 DEF TransferValidate, TransferSign, TransferMark, Goto
    <3>3. CASE TransferReturn(s) \/ BurnMark(s)
      BY <3>3 DEF TransferReturn, BurnMark, Goto
    <3> QED
      BY <1>9, <3>1, <3>2, <3>3
  <2> QED
    BY <1>4, <2>1, <2>2
<1>10. ASSUME NEW s \in Slots, MintSend(s) PROVE Good
  <2>1. GotoWith(s, "replied", <<>>) /\ run[s].pc = "minting" /\ UNCHANGED <<settled, burnt>>
    BY <1>10 DEF MintSend, At
  <2>2. PICK t : t = Head(run[s].todo)
    OBVIOUS
  <2>3. CASE t.lock \in Malformed
    BY <1>4, <1>10, <2>1, <2>2, <2>3 DEF MintSend
  <2>4. CASE t.lock \notin Malformed
    <3>1. released' = released \cup {t} /\ minted' = minted + t.amount
      BY <1>10, <2>2, <2>4 DEF MintSend
    <3>2. PICK r : r = [pc |-> "replied", ev |-> run[s].ev, todo |-> <<>>]
      OBVIOUS
    <3>3. run' = [run EXCEPT ![s] = r] /\ r.pc = "replied"
      BY <2>1, <3>2 DEF GotoWith
    <3>4. Credit' = Credit
      BY <1>0, <2>1, <3>3, CreditLess
    <3>5. t \in Token
      <4>1. run[s].todo \in Seq(Token) /\ run[s].todo # <<>>
        BY <1>0, <2>1 DEF ControlInv, TypeOK, RunsOK, Run
      <4> QED
        BY <2>2, <4>1, HeadTailProperties
    <3>6. (minted - burnt)' = (minted - burnt) + t.amount
      <4>1. minted \in Int /\ burnt \in Int /\ t.amount \in Nat
        BY <1>0, <3>5 DEF ControlInv, TypeOK, Token
      <4> QED
        BY <2>1, <3>1, <4>1
    <3>7. Ledger!Mint(t) /\ t \in released'
      BY <2>1, <3>1, <3>4, <3>6 DEF Ledger!Mint
    <3> QED
      BY <3>7 DEF Ledger!Next
  <2> QED
    BY <2>3, <2>4
<1>11. ASSUME NEW s \in Slots, TransferSettle(s) PROVE Good
  <2>1. /\ run[s].pc = "saving" /\ settled' = settled \cup ToSet(ReqOf(s).ins)
        /\ UNCHANGED <<req, released, minted, burnt>>
    BY <1>11 DEF TransferSettle, At
  <2>2. PICK I : I = ToSet(ReqOf(s).ins)
    OBVIOUS
  <2>3. I \subseteq released \ settled /\ Value(I) \in Nat
    BY <1>0, <2>1, <2>2, FundsSettled DEF FundsOK
  <2>4. Credit = 0 /\ Credit' = Value(I)
    BY <1>0, <1>11, <2>2, FundsTransferSettle
  <2>5. Credit' = Credit + Ledger!Worth(I)
    BY <2>3, <2>4, WorthIsValue
  <2>6. Ledger!TakeIn(I) /\ I \in SUBSET released
    BY <2>1, <2>2, <2>3, <2>5 DEF Ledger!TakeIn
  <2> QED
    BY <2>6 DEF Ledger!Next
<1>12. ASSUME NEW s \in Slots, BurnSettle(s) PROVE Good
  <2>1. PICK t : t = ReqOf(s).ins[1]
    OBVIOUS
  <2>2. burnt' = burnt + t.amount /\ UNCHANGED <<released, minted>>
    BY <1>12, <2>1 DEF BurnSettle
  <2>3. Credit' = Credit /\ t \in released \ settled /\ settled' = settled \cup {t}
    BY <1>0, <1>12, <2>1, FundsBurnSettle
  <2>4. (minted - burnt)' = (minted - burnt) - t.amount
    <3>1. minted \in Int /\ burnt \in Int /\ t.amount \in Nat
      BY <1>0, <2>3 DEF ControlInv, TypeOK, Token
    <3> QED
      BY <2>2, <3>1
  <2>5. Ledger!Burn(t) /\ t \in released
    BY <2>2, <2>3, <2>4 DEF Ledger!Burn
  <2> QED
    BY <2>5 DEF Ledger!Next
<1>13. ASSUME NEW s \in Slots, TransferSend(s) PROVE Good
  <2>1. UNCHANGED <<settled, minted, burnt>>
    BY <1>13 DEF TransferSend
  <2>2. \/ released' = released /\ Credit' = 0 /\ Credit \in Nat /\ Credit > 0
        \/ \E t \in Token : /\ released' = released \cup {t}
                            /\ t.amount <= Credit /\ Credit' = Credit - t.amount
    BY <1>0, <1>13, FundsTransferSend
  <2>3. CASE released' = released /\ Credit' = 0 /\ Credit \in Nat /\ Credit > 0
    <3>1. Credit' <= Credit
      BY <2>3
    <3> QED
      BY <1>2, <2>1, <2>3, <3>1
  <2>4. CASE \E t \in Token : /\ released' = released \cup {t}
                              /\ t.amount <= Credit /\ Credit' = Credit - t.amount
    <3>1. PICK t \in Token : /\ released' = released \cup {t}
                             /\ t.amount <= Credit /\ Credit' = Credit - t.amount
      BY <2>4
    <3>2. Ledger!PayOut(t) /\ t \in released'
      BY <2>1, <3>1 DEF Ledger!PayOut
    <3> QED
      BY <3>2 DEF Ledger!Next
  <2> QED
    BY <2>2, <2>3, <2>4
<1>14. ASSUME NEW p \in AdminKeys, AddForger(p) \/ RemoveForger(p) PROVE Good
  BY <1>5, <1>14 DEF AddForger, RemoveForger, history
<1>15. ASSUME NEW i \in DOMAIN writes, WriteLands(i) \/ WriteFails(i) PROVE Good
  <2>1. UNCHANGED <<released, settled, minted, burnt>>
    BY <1>15 DEF WriteLands, WriteFails, history
  <2>2. CASE run' = run
    BY <1>5, <2>1, <2>2
  <2>3. CASE run' # run
    <3>1. writes[i].by \in Slots /\ GotoWith(writes[i].by, "replied", <<>>)
      BY <1>15, <2>3 DEF WriteLands, WriteFails
    <3> QED
      BY <1>4, <2>1, <3>1
  <2> QED
    BY <2>2, <2>3
<1>16. ASSUME Crash PROVE Good
  <2>1. UNCHANGED <<released, settled, minted, burnt>> /\ \A x \in Slots : run'[x].pc = "idle"
    BY <1>16 DEF Crash, history, IdleRun
  <2>2. Credit' = 0
    BY <1>0, <2>1, CreditStep
  <2>3. Credit' <= Credit
    BY <1>1, <2>2
  <2> QED
    BY <1>2, <2>1, <2>3
<1>17. ASSUME \/ LoadState \/ Subscribe \/ EndOfStoredEvents \/ StartQueuedSave \/ Tick
              \/ UNCHANGED vars
       PROVE  Good
  BY <1>5, <1>17 DEF LoadState, Subscribe, EndOfStoredEvents, StartQueuedSave, Tick, vars, history
<1> HIDE DEF Good
<1>18. Good
  BY <1>6, <1>7, <1>8, <1>9, <1>10, <1>11, <1>12, <1>13, <1>14, <1>15, <1>16, <1>17
     DEF Next, HandlerStep
<1> QED
  BY <1>18 DEF Good

LEMMA LedgerInit == Init => Ledger!Init
<1> SUFFICES ASSUME Init PROVE Ledger!Init
  OBVIOUS
<1>1. /\ released = InitialTokens /\ settled = {} /\ queue = <<>>
      /\ minted = Value(InitialTokens) /\ burnt = 0
  BY DEF Init
<1>2. minted - burnt = Ledger!Worth(InitialTokens)
  <2>1. Value(InitialTokens) \in Nat
    BY InitialTokensAssumption, TokensFinite
  <2> QED
    BY <1>1, <2>1, WorthIsValue
<1>3. Credit = 0
  BY <1>1 DEF Credit
<1> QED
  BY <1>1, <1>2, <1>3 DEF Ledger!Init

(* The forge keeps the promise of TokenLedger: coins are minted, exchanged *)
(* for coins of at most their value, or burned, and each coin is taken in  *)
(* once, whatever runs overlapped and whatever a crash or a failed write   *)
(* lost (runExclusive, validateFungibleTransfer, publishSpentToken).       *)
THEOREM LedgerTheorem ==
    ASSUME OrderedWrites
    PROVE  Spec => LedgerSpec
<1>1. Init => Ledger!Init
  BY LedgerInit
<1>2. IInv /\ IInv' /\ [Next]_vars => [Ledger!Next]_(Ledger!ledgerVars)
  BY StateUnsettled, LedgerStep DEF IInv, StateInv
<1> QED
  BY <1>1, <1>2, ForgeInvariant, PTL DEF Spec, LedgerSpec, Ledger!Spec
-----------------------------------------------------------------------------
(***************************************************************************)
(* What the forge keeps whatever storage does with its writes, for as long *)
(* as the process lives: MemoryOK is inductive without any assumption on   *)
(* their order, so a storage without order does harm only at a restart.    *)
(***************************************************************************)

(* A step that neither marks, consumes nor authorises.                     *)
LEMMA MemoryQuiet ==
    ASSUME MemoryOK, phase' = "up",
           UNCHANGED <<writes, settled, revoked>>,
           mem'.spent = mem.spent, mem'.forgers = mem.forgers,
           \A x \in Slots :
              /\ run'[x].pc \in {"validated", "signed"} =>
                    ToSet(ReqOf(x)'.ins) \cap mem.spent = {}
              /\ run'[x].pc = "saving" => run[x].pc = "saving" /\ ReqOf(x)' = ReqOf(x)
    PROVE  MemoryOK'
  BY DEF MemoryOK

(* Such a step of one run.                                                 *)
LEMMA MemoryRun ==
    ASSUME MemoryOK, ControlInv, NEW s \in Slots, NEW r,
           run' = [run EXCEPT ![s] = r],
           UNCHANGED <<req, phase, writes, settled, revoked>>,
           mem'.spent = mem.spent, mem'.forgers = mem.forgers,
           r.pc # "saving",
           r.pc \in {"validated", "signed"} =>
              r.ev = run[s].ev /\ ToSet(ReqOf(s).ins) \cap mem.spent = {}
    PROVE  MemoryOK'
<1>1. run'[s] = r /\ \A x \in Slots \ {s} : run'[x] = run[x] /\ ReqOf(x)' = ReqOf(x)
  BY DEF ControlInv, TypeOK, ReqOf
<1>2. r.ev = run[s].ev => ReqOf(s)' = ReqOf(s)
  BY <1>1 DEF ReqOf
<1>3. ASSUME NEW x \in Slots
      PROVE  /\ run'[x].pc \in {"validated", "signed"} => ToSet(ReqOf(x)'.ins) \cap mem.spent = {}
             /\ run'[x].pc = "saving" => run[x].pc = "saving" /\ ReqOf(x)' = ReqOf(x)
  <2>1. CASE x = s
    BY <1>1, <1>2, <2>1
  <2>2. CASE x # s
    BY <1>1, <2>2 DEF MemoryOK
  <2> QED
    BY <2>1, <2>2
<1>4. phase' = "up"
  BY DEF MemoryOK
<1> QED
  BY <1>3, <1>4, MemoryQuiet

(* A run past its check marks its inputs, with one save for each.          *)
LEMMA MemoryPublish ==
    ASSUME MemoryOK, ControlInv, NEW s \in Slots, PublishSpent(s, ReqOf(s).ins),
           GotoWith(s, "saving", run[s].todo), HasLock(s),
           run[s].ev \in Events, ReqOf(s) # NoReq,
           ToSet(ReqOf(s).ins) \cap mem.spent = {},
           UNCHANGED <<settled, revoked, phase, req>>
    PROVE  MemoryOK'
<1>1. /\ mem \in ForgeState /\ writes \in Seq(Write) /\ run \in [Slots -> Run]
      /\ Len(writes) \in Nat /\ DOMAIN writes = 1..Len(writes)
  BY WritesFacts DEF ControlInv, TypeOK
<1>2. ReqOf(s).ins \in Seq(Token)
  BY DEF ControlInv, TypeOK, ReqOf, Request
<1>3. /\ mem'.spent = mem.spent \cup ToSet(ReqOf(s).ins) /\ mem'.forgers = mem.forgers
      /\ writes' \in Seq(Write) /\ Len(writes') = Len(writes) + Len(ReqOf(s).ins)
      /\ \A i \in 1..Len(writes) : writes'[i] = writes[i]
      /\ \A i \in (Len(writes) + 1)..(Len(writes) + Len(ReqOf(s).ins)) : writes'[i].by = s
  BY <1>1, <1>2, PublishSpentFacts
<1>4. run'[s].pc = "saving" /\ ReqOf(s)' = ReqOf(s)
  BY <1>1 DEF GotoWith, ReqOf
<1>5. \A x \in Slots \ {s} : run'[x] = run[x]
  BY <1>1 DEF GotoWith
<1>6. ASSUME NEW x \in Slots, run'[x].pc \in {"validated", "signed", "saving"}
      PROVE  x = s
  <2>1. run[x].pc \in CriticalPCs \/ x = s
    BY <1>5, <1>6 DEF CriticalPCs
  <2> QED
    BY <2>1, OneCritical
<1>7. \A t \in ToSet(ReqOf(s).ins) : t \in mem'.spent /\ t \notin settled'
  BY <1>3 DEF MemoryOK
<1>8. ASSUME NEW x \in Slots
      PROVE  /\ run'[x].pc \notin {"validated", "signed"}
             /\ run'[x].pc = "saving" =>
                  \A t \in ToSet(ReqOf(x)'.ins) : t \in mem'.spent /\ t \notin settled'
  BY <1>4, <1>6, <1>7
<1>9. ASSUME NEW i \in DOMAIN writes',
             writes'[i].by \in Users, writes'[i].by \notin writes'[i].snap.forgers
      PROVE  writes'[i].by \notin mem'.forgers
  <2>1. i \in 1..(Len(writes) + Len(ReqOf(s).ins))
    BY <1>3, LenProperties
  <2>2. Len(ReqOf(s).ins) \in Nat
    BY <1>2, LenProperties
  <2>3. i \in 1..Len(writes) \/ i \in (Len(writes) + 1)..(Len(writes) + Len(ReqOf(s).ins))
    BY <1>1, <2>1, <2>2
  <2>4. i \in 1..Len(writes)
    BY <1>3, <1>9, <2>3, SentinelAssumption
  <2> QED
    BY <1>1, <1>3, <1>9, <2>4 DEF MemoryOK
<1>10. settled' \subseteq mem'.spent /\ revoked' \cap mem'.forgers = {} /\ phase' = "up"
  BY <1>3 DEF MemoryOK
<1> QED
  BY <1>8, <1>9, <1>10 DEF MemoryOK

(* The run with the lock consumes its inputs and answers.                  *)
LEMMA MemorySettle ==
    ASSUME MemoryOK, ControlInv, NEW s \in Slots, run[s].pc = "saving",
           NEW pc \in {"releasing", "replied"}, GotoWith(s, pc, run[s].todo),
           settled' = settled \cup ToSet(ReqOf(s).ins),
           UNCHANGED <<mem, writes, phase, req, revoked>>
    PROVE  MemoryOK'
<1>1. run \in [Slots -> Run] /\ HasLock(s)
  BY DEF ControlInv, TypeOK, LockOK, CriticalPCs
<1>2. run'[s].pc = pc /\ \A x \in Slots \ {s} : run'[x] = run[x]
  BY <1>1 DEF GotoWith
<1>3. ASSUME NEW x \in Slots
      PROVE  run'[x].pc \notin {"validated", "signed", "saving"}
  <2>1. run[x].pc \in CriticalPCs => x = s
    BY <1>1, OneCritical
  <2> QED
    BY <1>2, <2>1 DEF CriticalPCs
<1>4. \A t \in ToSet(ReqOf(s).ins) : t \in mem.spent
  BY DEF MemoryOK
<1> QED
  BY <1>3, <1>4 DEF MemoryOK

(* A snapshot joins the pending writes; its caller is the operator only    *)
(* when it shows what became of the key that the call names.               *)
LEMMA MemorySave ==
    ASSUME MemoryOK, ControlInv, NEW by, NEW state, Save(by, state),
           UNCHANGED <<phase, run, req, settled>>,
           mem'.spent = mem.spent, revoked' \cap mem'.forgers = {},
           by \in Users /\ by \notin state.forgers => by \notin mem'.forgers,
           \A i \in DOMAIN writes : writes[i].by \in mem'.forgers =>
              writes[i].by \in mem.forgers \/ writes[i].by \notin Users
    PROVE  MemoryOK'
<1>1. writes \in Seq(Write) /\ Len(writes) \in Nat /\ DOMAIN writes = 1..Len(writes)
  BY WritesFacts DEF ControlInv
<1>2. /\ DOMAIN writes' = 1..(Len(writes) + 1)
      /\ writes'[Len(writes) + 1] = [by |-> by, snap |-> state]
      /\ \A i \in 1..Len(writes) : writes'[i] = writes[i]
  BY <1>1 DEF Save
<1>3. ASSUME NEW i \in DOMAIN writes',
             writes'[i].by \in Users, writes'[i].by \notin writes'[i].snap.forgers
      PROVE  writes'[i].by \notin mem'.forgers
  <2>1. CASE i = Len(writes) + 1
    BY <1>2, <1>3, <2>1
  <2>2. CASE i # Len(writes) + 1
    <3>1. i \in DOMAIN writes /\ writes'[i] = writes[i]
      BY <1>1, <1>2, <2>2
    <3> QED
      BY <1>3, <3>1 DEF MemoryOK
  <2> QED
    BY <2>1, <2>2
<1>4. \A x \in Slots : ReqOf(x)' = ReqOf(x)
  BY DEF ReqOf
<1> QED
  BY <1>3, <1>4 DEF MemoryOK

(* A write settles, well or badly, whichever it is.                        *)
LEMMA MemoryWrite ==
    ASSUME MemoryOK, ControlInv, NEW i \in DOMAIN writes, WriteLands(i) \/ WriteFails(i)
    PROVE  MemoryOK'
<1>1. /\ writes \in Seq(Write) /\ Len(writes) \in Nat /\ DOMAIN writes = 1..Len(writes)
      /\ run \in [Slots -> Run]
  BY WritesFacts DEF ControlInv, TypeOK
<1>2. i \in 1..Len(writes)
  BY <1>1
<1>3. PICK q : q = RemoveAt(writes, i)
  OBVIOUS
<1>4. /\ q \in Seq(Write)
      /\ Len(q) = Len(writes) - 1
      /\ \A j \in 1..(Len(writes) - 1) : q[j] = IF j < i THEN writes[j] ELSE writes[j + 1]
  BY <1>1, <1>2, <1>3, RemoveAtFacts
<1>5. ASSUME NEW j \in 1..Len(q)
      PROVE  \E k \in DOMAIN writes : q[j] = writes[k]
  <2>1. j \in 1..(Len(writes) - 1)
    BY <1>4
  <2>2. CASE j < i
    BY <1>1, <1>4, <2>1, <2>2
  <2>3. CASE ~(j < i)
    <3>1. j + 1 \in DOMAIN writes /\ q[j] = writes[j + 1]
      BY <1>1, <1>4, <2>1, <2>3
    <3> QED
      BY <3>1
  <2> QED
    BY <2>2, <2>3
<1>6. /\ writes' = q \/ \E s \in Slots : writes' = Abandon(q, s)
      /\ UNCHANGED <<mem, req, phase, settled>>
  <2>1. CASE WriteLands(i)
    BY <1>3, <2>1 DEF WriteLands
  <2>2. CASE WriteFails(i)
    BY <1>3, <2>2 DEF WriteFails, history
  <2> QED
    BY <2>1, <2>2
<1>7. ASSUME NEW j \in DOMAIN writes'
      PROVE  \E k \in DOMAIN writes :
                writes'[j].snap = writes[k].snap /\ writes'[j].by \in {writes[k].by, "orphan"}
  <2>1. CASE writes' = q
    <3>1. j \in 1..Len(q)
      BY <1>4, <1>7, <2>1, LenProperties
    <3> QED
      BY <1>5, <2>1, <3>1
  <2>2. CASE \E s \in Slots : writes' = Abandon(q, s)
    <3>1. PICK s \in Slots : writes' = Abandon(q, s)
      BY <2>2
    <3>2. PICK f : f = Abandon(q, s)
      OBVIOUS
    <3>3. /\ f \in Seq(Write) /\ Len(f) = Len(q)
          /\ \A x \in 1..Len(q) :
                f[x].snap = q[x].snap /\ f[x].by \in {q[x].by, "orphan"}
      <4>1. /\ Abandon(q, s) \in Seq(Write) /\ Len(Abandon(q, s)) = Len(q)
            /\ \A x \in 1..Len(q) :
                  /\ Abandon(q, s)[x].snap = q[x].snap
                  /\ Abandon(q, s)[x].by = IF q[x].by = s THEN "orphan" ELSE q[x].by
        BY <1>4, AbandonFacts
      <4> QED
        BY <3>2, <4>1
    <3>4. j \in 1..Len(q)
      BY <1>7, <3>1, <3>2, <3>3, LenProperties
    <3>5. PICK k \in DOMAIN writes : q[j] = writes[k]
      BY <1>5, <3>4
    <3> QED
      BY <3>1, <3>2, <3>3, <3>4, <3>5
  <2> QED
    BY <1>6, <2>1, <2>2
<1>8. ASSUME NEW j \in DOMAIN writes',
             writes'[j].by \in Users, writes'[j].by \notin writes'[j].snap.forgers
      PROVE  writes'[j].by \notin mem'.forgers
  <2>1. PICK k \in DOMAIN writes :
            writes'[j].snap = writes[k].snap /\ writes'[j].by \in {writes[k].by, "orphan"}
    BY <1>7
  <2>2. writes'[j].by = writes[k].by
    BY <1>8, <2>1, SentinelAssumption
  <2> QED
    BY <1>6, <1>8, <2>1, <2>2 DEF MemoryOK
<1>9. revoked' \cap mem'.forgers = {}
  <2>1. CASE WriteLands(i)
    BY <1>6, <2>1 DEF WriteLands, MemoryOK
  <2>2. CASE WriteFails(i)
    BY <1>6, <2>2 DEF WriteFails, history, MemoryOK
  <2> QED
    BY <2>1, <2>2
<1>10. ASSUME NEW x \in Slots, run'[x].pc \in CriticalPCs
       PROVE  run'[x] = run[x]
  <2>1. CASE run' = run
    BY <2>1
  <2>2. CASE run' # run
    <3>1. writes[i].by \in Slots /\ GotoWith(writes[i].by, "replied", <<>>)
      BY <2>2 DEF WriteLands, WriteFails
    <3> QED
      BY <1>1, <1>10, <3>1 DEF GotoWith, CriticalPCs
  <2> QED
    BY <2>1, <2>2
<1>11. ASSUME NEW x \in Slots
       PROVE  /\ run'[x].pc \in {"validated", "signed"} =>
                    ToSet(ReqOf(x)'.ins) \cap mem'.spent = {}
              /\ run'[x].pc = "saving" =>
                    \A t \in ToSet(ReqOf(x)'.ins) : t \in mem'.spent /\ t \notin settled'
  <2>1. CASE run'[x].pc \in CriticalPCs
    <3>1. run'[x] = run[x] /\ ReqOf(x)' = ReqOf(x)
      BY <1>6, <1>10, <2>1 DEF ReqOf
    <3> QED
      BY <1>6, <3>1 DEF MemoryOK
  <2>2. CASE run'[x].pc \notin CriticalPCs
    BY <2>2 DEF CriticalPCs
  <2> QED
    BY <2>1, <2>2
<1>12. settled' \subseteq mem'.spent /\ phase' = "up"
  BY <1>6 DEF MemoryOK
<1> QED
  BY <1>8, <1>9, <1>11, <1>12 DEF MemoryOK

(* Every step but a crash, one case per action.                            *)
LEMMA MemoryStep ==
    ASSUME MemoryOK, ControlInv, [Next]_vars, [~Crash]_vars
    PROVE  MemoryOK'
<1>t. run \in [Slots -> Run] /\ mem \in ForgeState /\ phase = "up"
  BY DEF ControlInv, TypeOK, MemoryOK
<1>1. ASSUME NEW e \in Events, ClientSend(e) PROVE MemoryOK'
  <2>1. req[e] = NoReq /\ UNCHANGED <<mem, writes, phase, run, settled, revoked>>
    BY <1>1 DEF ClientSend, history
  <2>2. \A x \in Events \ {e} : req'[x] = req[x]
    BY <1>1 DEF ClientSend, ControlInv, TypeOK
  <2>3. ASSUME NEW x \in Slots, run[x].pc # "idle"
        PROVE  ReqOf(x)' = ReqOf(x)
    BY <2>1, <2>2, <2>3 DEF ControlInv, RunsOK, ReqOf
  <2>4. ASSUME NEW x \in Slots
        PROVE  /\ run'[x].pc \in {"validated", "signed"} => ToSet(ReqOf(x)'.ins) \cap mem.spent = {}
               /\ run'[x].pc = "saving" => run[x].pc = "saving" /\ ReqOf(x)' = ReqOf(x)
    BY <2>1, <2>3 DEF MemoryOK
  <2> QED
    BY <1>t, <2>1, <2>4, MemoryQuiet
<1>2. ASSUME NEW s \in Slots, NEW e \in Events, Deliver(s, e) PROVE MemoryOK'
  <2>1. PICK r : r = [pc |-> "received", ev |-> e, todo |-> <<>>]
    OBVIOUS
  <2>2. /\ run' = [run EXCEPT ![s] = r] /\ r.pc = "received"
        /\ UNCHANGED <<mem, writes, phase, req, settled, revoked>>
    BY <1>2, <2>1 DEF Deliver, history
  <2> QED
    BY <2>2, MemoryRun
<1>3. ASSUME NEW s \in Slots, FinishEvent(s) PROVE MemoryOK'
  <2>1. mem'.spent = mem.spent /\ mem'.forgers = mem.forgers
    BY <1>3, <1>t DEF FinishEvent, ForgeState
  <2>2. /\ run' = [run EXCEPT ![s] = IdleRun] /\ IdleRun.pc = "idle"
        /\ UNCHANGED <<writes, phase, req, settled, revoked>>
    BY <1>3 DEF FinishEvent, history, IdleRun
  <2> QED
    BY <2>1, <2>2, MemoryRun
<1>4. ASSUME NEW s \in Slots, NEW pc, NEW todo, GotoWith(s, pc, todo),
             pc \notin {"validated", "signed", "saving"},
             UNCHANGED <<req, phase, writes, settled, revoked>>,
             mem'.spent = mem.spent, mem'.forgers = mem.forgers
      PROVE  MemoryOK'
  <2>1. PICK r : r = [pc |-> pc, ev |-> run[s].ev, todo |-> todo]
    OBVIOUS
  <2>2. run' = [run EXCEPT ![s] = r] /\ r.pc = pc
    BY <1>4, <2>1 DEF GotoWith
  <2> QED
    BY <1>4, <2>2, MemoryRun
<1>5. ASSUME NEW s \in Slots,
             \/ MintCheck(s) \/ MintBuilt(s) \/ Verify(s) \/ Enqueue(s) \/ TransferReturn(s)
             \/ MintSend(s) \/ TransferSend(s)
      PROVE  MemoryOK'
  <2>1. /\ UNCHANGED <<req, phase, writes, settled, revoked>>
        /\ mem'.spent = mem.spent /\ mem'.forgers = mem.forgers
    <3>1. CASE MintBuilt(s)
      BY <1>t, <3>1 DEF MintBuilt, ForgeState, history
    <3>2. CASE ~MintBuilt(s)
      BY <1>5, <3>2 DEF MintCheck, Verify, Enqueue, TransferReturn, MintSend, TransferSend, history
    <3> QED
      BY <3>1, <3>2
  <2>2. \E pc \in {"building", "minting", "queued", "releasing", "replied"} :
            \E todo : GotoWith(s, pc, todo)
    <3>1. CASE MintCheck(s) \/ MintBuilt(s) \/ Verify(s) \/ Enqueue(s)
      BY <3>1 DEF MintCheck, MintBuilt, Verify, Enqueue, Goto
    <3>2. CASE TransferReturn(s) \/ MintSend(s) \/ TransferSend(s)
      BY <3>2 DEF TransferReturn, MintSend, TransferSend, Goto
    <3> QED
      BY <1>5, <3>1, <3>2
  <2> QED
    BY <1>4, <2>1, <2>2
<1>6. ASSUME NEW s \in Slots, TransferValidate(s) PROVE MemoryOK'
  <2>1. UNCHANGED <<mem, writes, phase, req, settled, revoked>>
    BY <1>6 DEF TransferValidate, history
  <2>2. CASE TransferAccepted(ReqOf(s))
    <3>1. ToSet(ReqOf(s).ins) \cap mem.spent = {}
      BY <2>2 DEF TransferAccepted, InputsAccepted
    <3>2. PICK r : r = [pc |-> "validated", ev |-> run[s].ev, todo |-> run[s].todo]
      OBVIOUS
    <3>3. run' = [run EXCEPT ![s] = r] /\ r.pc = "validated" /\ r.ev = run[s].ev
      BY <1>6, <2>2, <3>2 DEF TransferValidate, Goto, GotoWith
    <3> QED
      BY <2>1, <3>1, <3>3, MemoryRun
  <2>3. CASE ~TransferAccepted(ReqOf(s))
    BY <1>4, <1>6, <2>1, <2>3 DEF TransferValidate, Goto
  <2> QED
    BY <2>2, <2>3
<1>7. ASSUME NEW s \in Slots, TransferSign(s) PROVE MemoryOK'
  <2>1. ToSet(ReqOf(s).ins) \cap mem.spent = {}
    BY <1>7 DEF TransferSign, At, MemoryOK
  <2>2. PICK r : r = [pc |-> "signed", ev |-> run[s].ev, todo |-> Outputs(ReqOf(s))]
    OBVIOUS
  <2>3. /\ run' = [run EXCEPT ![s] = r] /\ r.pc = "signed" /\ r.ev = run[s].ev
        /\ UNCHANGED <<mem, writes, phase, req, settled, revoked>>
    BY <1>7, <2>2 DEF TransferSign, GotoWith, history
  <2> QED
    BY <2>1, <2>3, MemoryRun
<1>8. ASSUME NEW s \in Slots, TransferMark(s) PROVE MemoryOK'
  <2>1. /\ PublishSpent(s, ReqOf(s).ins) /\ GotoWith(s, "saving", run[s].todo)
        /\ run[s].pc = "signed" /\ UNCHANGED <<settled, revoked, phase, req>>
    BY <1>8 DEF TransferMark, At, Goto, history
  <2>2. ToSet(ReqOf(s).ins) \cap mem.spent = {} /\ HasLock(s)
    BY <2>1 DEF MemoryOK, ControlInv, LockOK, CriticalPCs
  <2>3. run[s].ev \in Events /\ ReqOf(s) # NoReq
    BY <2>1 DEF ControlInv, RunsOK
  <2> QED
    BY <2>1, <2>2, <2>3, MemoryPublish
<1>9. ASSUME NEW s \in Slots, BurnMark(s) PROVE MemoryOK'
  <2>1. /\ run[s].pc = "queued" /\ HasLock(s) /\ ReqOf(s).op = "burn"
        /\ UNCHANGED <<settled, revoked, phase, req>>
    BY <1>9 DEF BurnMark, At, history
  <2>2. CASE ReqOf(s).ins[1] \in mem.spent
    BY <1>4, <1>9, <2>1, <2>2 DEF BurnMark, Goto
  <2>3. CASE ReqOf(s).ins[1] \notin mem.spent
    <3>1. PublishSpent(s, ReqOf(s).ins) /\ GotoWith(s, "saving", run[s].todo)
      BY <1>9, <2>3 DEF BurnMark, Goto
    <3>2. /\ run[s].ev \in Events /\ ReqOf(s) # NoReq /\ Len(ReqOf(s).ins) = 1
          /\ ReqOf(s).ins \in Seq(Token)
      BY <2>1 DEF ControlInv, RunsOK, RequestsOK, ReqOf, TypeOK, Request
    <3>3. ToSet(ReqOf(s).ins) \cap mem.spent = {}
      BY <2>3, <3>2, LenProperties DEF ToSet
    <3> QED
      BY <2>1, <3>1, <3>2, <3>3, MemoryPublish
  <2> QED
    BY <2>2, <2>3
<1>10. ASSUME NEW s \in Slots, TransferSettle(s) \/ BurnSettle(s) PROVE MemoryOK'
  BY <1>10, MemorySettle DEF TransferSettle, BurnSettle, At, Goto
<1>11. ASSUME NEW p \in AdminKeys, AddForger(p) PROVE MemoryOK'
  <2>1. PICK state : state = [mem EXCEPT !.forgers = mem.forgers \cup {p}]
    OBVIOUS
  <2>2. state.spent = mem.spent /\ state.forgers = mem.forgers \cup {p}
    BY <1>t, <2>1 DEF ForgeState
  <2>3. /\ Save(p, state) /\ mem' = state /\ revoked' = revoked \ {p}
        /\ UNCHANGED <<settled, phase, run, req>>
        /\ \A i \in DOMAIN writes : writes[i].by # p
    BY <1>11, <2>1 DEF AddForger, AdminIdle
  <2>4. revoked' \cap mem'.forgers = {}
    BY <2>2, <2>3 DEF MemoryOK
  <2> QED
    BY <2>2, <2>3, <2>4, MemorySave
<1>12. ASSUME NEW p \in AdminKeys, RemoveForger(p) PROVE MemoryOK'
  <2>1. PICK state : state = [mem EXCEPT !.forgers = mem.forgers \ {p}]
    OBVIOUS
  <2>2. state.spent = mem.spent /\ state.forgers = mem.forgers \ {p}
    BY <1>t, <2>1 DEF ForgeState
  <2>3. /\ Save(p, state) /\ mem' = state /\ revoked' = revoked
        /\ UNCHANGED <<settled, phase, run, req>>
    BY <1>12, <2>1 DEF RemoveForger, AdminIdle, history
  <2>4. revoked' \cap mem'.forgers = {}
    BY <2>2, <2>3 DEF MemoryOK
  <2> QED
    BY <2>2, <2>3, <2>4, MemorySave
<1>13. ASSUME StartQueuedSave PROVE MemoryOK'
  <2>1. /\ Save("queue", mem) /\ mem' = mem /\ revoked' = revoked
        /\ UNCHANGED <<settled, phase, run, req>>
    BY <1>13 DEF StartQueuedSave, history
  <2>2. revoked' \cap mem'.forgers = {} /\ "queue" \notin Users
    BY <2>1, SentinelAssumption DEF MemoryOK
  <2> QED
    BY <2>1, <2>2, MemorySave
<1>14. ASSUME NEW i \in DOMAIN writes, WriteLands(i) \/ WriteFails(i) PROVE MemoryOK'
  BY <1>14, MemoryWrite
<1>15. ASSUME EndOfStoredEvents \/ Tick \/ UNCHANGED vars PROVE MemoryOK'
  <2>1. UNCHANGED <<mem, phase, writes, run, req, settled, revoked>>
    BY <1>15 DEF EndOfStoredEvents, Tick, vars, history
  <2>2. ASSUME NEW x \in Slots
        PROVE  /\ run'[x].pc \in {"validated", "signed"} => ToSet(ReqOf(x)'.ins) \cap mem.spent = {}
               /\ run'[x].pc = "saving" => run[x].pc = "saving" /\ ReqOf(x)' = ReqOf(x)
    BY <2>1 DEF MemoryOK, ReqOf
  <2> QED
    BY <1>t, <2>1, <2>2, MemoryQuiet
<1>16. CASE UNCHANGED vars
  BY <1>15, <1>16
<1>17. CASE Next /\ ~Crash
  <2>1. ~LoadState /\ ~Subscribe
    BY <1>t DEF LoadState, Subscribe
  <2> QED
    BY <1>1, <1>2, <1>3, <1>5, <1>6, <1>7, <1>8, <1>9, <1>10, <1>11, <1>12, <1>13, <1>14, <1>15,
       <1>17, <2>1 DEF Next, HandlerStep
<1> QED
  BY <1>16, <1>17

LEMMA MemoryFunds == MemoryOK => Unsettled
  BY DEF MemoryOK, Unsettled

(* While the process lives, memory keeps what storage may have lost.       *)
THEOREM MemoryCorrect ==
    Spec /\ [][~Crash]_vars => [](ControlInv /\ MemoryOK /\ FundsOK)
<1>1. Init => MemoryOK
  BY DEF Init, MemoryOK, IdleRun
<1>2. MemoryOK /\ ControlInv /\ [Next]_vars /\ [~Crash]_vars => MemoryOK'
  BY MemoryStep
<1>3. Spec /\ [][~Crash]_vars => []MemoryOK
  BY <1>1, <1>2, ControlCorrect, PTL DEF Spec
<1>4. ControlInv /\ ControlInv' /\ MemoryOK /\ FundsOK /\ [Next]_vars => FundsOK'
  BY MemoryFunds, FundsStep
<1> QED
  BY <1>3, <1>4, FundsInit, ControlCorrect, PTL DEF Spec

(* With any storage, ordered or not, a forge that is never restarted keeps *)
(* the ledger, consumes no token twice, creates no value and accepts no    *)
(* revoked key, whatever saves failed: only a restart can read what a      *)
(* storage without order left behind (_saveState, DiskStorage).            *)
THEOREM AnyStorageTheorem ==
    Spec /\ [][~Crash]_vars =>
        LedgerSpec /\ SpendOnce /\ []NoInflation /\ []RevocationSticks
<1> DEFINE Kept == ControlInv /\ MemoryOK /\ FundsOK
<1>1. Kept /\ Kept' /\ [Next]_vars => [Ledger!Next]_(Ledger!ledgerVars)
  BY MemoryFunds, LedgerStep
<1>2. Kept => [\A s \in Slots : TransferSettle(s) \/ BurnSettle(s)
                  => ToSet(ReqOf(s).ins) \cap settled = {}]_vars
  BY DEF MemoryOK, TransferSettle, BurnSettle, At
<1>3. Kept => NoInflation /\ RevocationSticks
  BY SpendableCovered DEF MemoryOK, NoInflation, RevocationSticks
<1> HIDE DEF Kept
<1>4. Spec /\ [][~Crash]_vars => []Kept
  BY MemoryCorrect DEF Kept
<1> QED
  BY <1>1, <1>2, <1>3, <1>4, LedgerInit, PTL DEF Spec, LedgerSpec, Ledger!Spec, SpendOnce
-----------------------------------------------------------------------------
(***************************************************************************)
(* The supply of a forge with a limit.  The check and the count of a mint  *)
(* are separated by an await (forgeToken), so overlapping mints pass on    *)
(* one count.  SupplyOK says by how much they exceed the limit.            *)
(***************************************************************************)
Capped(M) ==
    /\ M \in Nat /\ \A a \in Amounts : a <= M
    /\ IsFiniteSet(Slots) /\ Slots # {}
    /\ TotalSupply > 0 /\ Value(InitialTokens) <= TotalSupply

LEMMA WithinLimit ==
    ASSUME NEW M \in Nat, NEW c \in Int, NEW k \in Nat, c <= TotalSupply
    PROVE  Overrun(c, k, M)
<1>1. k * M \in Nat
  OBVIOUS
<1> QED
  BY <1>1, BoundsAssumption DEF Overrun

LEMMA MoreRoom ==
    ASSUME NEW M \in Nat, NEW c \in Int, NEW k \in Int, NEW j \in Int, k <= j, Overrun(c, k, M)
    PROVE  Overrun(c, j, M)
<1>1. k * M \in Int /\ j * M \in Int /\ k * M <= j * M
  OBVIOUS
<1> QED
  BY <1>1, BoundsAssumption DEF Overrun

LEMMA OneMore ==
    ASSUME NEW M \in Nat, NEW c \in Int, NEW k \in Int, NEW j \in Int, j = k + 1,
           NEW a \in Nat, a <= M, Overrun(c, k, M)
    PROVE  Overrun(c + a, j, M)
<1>1. k * M \in Int /\ j * M = k * M + M
  OBVIOUS
<1> QED
  BY <1>1, BoundsAssumption DEF Overrun

LEMMA OneLess ==
    ASSUME NEW M \in Nat, NEW c \in Int, NEW k \in Int, NEW a \in Nat, Overrun(c + a, k, M)
    PROVE  Overrun(c, k, M)
<1>1. k * M \in Int
  OBVIOUS
<1> QED
  BY <1>1, BoundsAssumption DEF Overrun

(* What a run between its check and its count adds.                        *)
LEMMA MintingFacts ==
    ASSUME ControlInv, NEW s \in Building
    PROVE  Minting(s) \in Nat /\ s \in Slots
<1>1. s \in Slots /\ run[s].todo \in Seq(Token) /\ run[s].todo # <<>>
  BY DEF Building, ControlInv, TypeOK, Run, RunsOK
<1>2. run[s].todo[1] \in Token
  BY <1>1, EmptySeq, LenProperties, ElementOfSeq
<1> QED
  BY <1>1, <1>2 DEF Minting, Token

LEMMA FreeSlots ==
    ASSUME IsFiniteSet(Slots), NEW B \in SUBSET Slots
    PROVE  /\ Cardinality(Slots \ B) \in Nat /\ Cardinality(Slots \ B) <= Cardinality(Slots)
           /\ Cardinality(Slots) \in Nat
           /\ \A s \in B : /\ Cardinality(Slots \ (B \ {s})) = Cardinality(Slots \ B) + 1
                           /\ Cardinality(Slots \ B) <= Cardinality(Slots) - 1
<1>1. /\ IsFiniteSet(Slots \ B) /\ Cardinality(Slots \ B) \in Nat
      /\ Cardinality(Slots \ B) <= Cardinality(Slots) /\ Cardinality(Slots) \in Nat
  BY FS_Subset, FS_CardinalityType
<1>2. ASSUME NEW s \in B
      PROVE  /\ Cardinality(Slots \ (B \ {s})) = Cardinality(Slots \ B) + 1
             /\ Cardinality(Slots \ B) <= Cardinality(Slots) - 1
  <2>1. Slots \ (B \ {s}) = (Slots \ B) \cup {s} /\ s \notin Slots \ B
    OBVIOUS
  <2>2. Cardinality(Slots \ (B \ {s})) = Cardinality(Slots \ B) + 1
    BY <1>1, <2>1, FS_AddElement
  <2>3. Cardinality(Slots \ (B \ {s})) <= Cardinality(Slots)
    BY FS_Subset
  <2> QED
    BY <1>1, <2>2, <2>3
<1> QED
  BY <1>1, <1>2

(* The count itself is exceeded by less than a mint for every slot.        *)
LEMMA SupplyHolds ==
    ASSUME NEW M, Capped(M), ControlInv, SupplyOK(M)
    PROVE  Overrun(mem.circulating, Cardinality(Slots) - 1, M)
<1>1. /\ M \in Nat /\ mem.circulating \in Int /\ Building \in SUBSET Slots
      /\ IsFiniteSet(Slots)
  BY DEF Capped, ControlInv, TypeOK, ForgeState, Building
<1>2. /\ Cardinality(Slots \ Building) \in Nat
      /\ Cardinality(Slots \ Building) <= Cardinality(Slots)
      /\ Cardinality(Slots) \in Nat
      /\ \A s \in Building : Cardinality(Slots \ Building) <= Cardinality(Slots) - 1
  BY <1>1, FreeSlots
<1>3. CASE Overrun(mem.circulating, Cardinality(Slots \ Building) - 1, M)
  BY <1>1, <1>2, <1>3, MoreRoom
<1>4. ASSUME NEW s \in Building,
             Overrun(mem.circulating + Minting(s), Cardinality(Slots \ Building), M)
      PROVE  Overrun(mem.circulating, Cardinality(Slots) - 1, M)
  <2>1. /\ Minting(s) \in Nat
        /\ Cardinality(Slots \ Building) \in Int /\ Cardinality(Slots) - 1 \in Int
        /\ Cardinality(Slots \ Building) <= Cardinality(Slots) - 1
    BY <1>2, MintingFacts
  <2> DEFINE k == Cardinality(Slots \ Building)
             n == Cardinality(Slots) - 1
  <2> HIDE DEF k, n
  <2>2. Overrun(mem.circulating, k, M)
    BY <1>1, <1>4, <2>1, OneLess DEF k
  <2>3. Overrun(mem.circulating, n, M)
    BY <1>1, <2>1, <2>2, MoreRoom DEF k, n
  <2> QED
    BY <2>3 DEF n
<1> QED
  BY <1>3, <1>4 DEF SupplyOK

LEMMA SupplyInit ==
    ASSUME NEW M, Capped(M), Init
    PROVE  SupplyOK(M)
<1>1. Building = {} /\ phase = "up" /\ writes = <<>>
  BY DEF Init, Building, IdleRun
<1>2. mem.circulating = Value(InitialTokens) /\ disk.circulating = Value(InitialTokens)
  BY DEF Init, EmptyState
<1>3. Value(InitialTokens) \in Int /\ M \in Nat
  BY InitialTokensAssumption, ValueIsNatural DEF Capped, Finite, Token
<1>4. Cardinality(Slots) \in Nat /\ Cardinality(Slots) - 1 \in Nat /\ Slots \ {} = Slots
  BY FS_CardinalityType, FS_EmptySet DEF Capped
<1>5. Overrun(Value(InitialTokens), Cardinality(Slots) - 1, M)
  BY <1>3, <1>4, WithinLimit DEF Capped
<1> QED
  BY <1>1, <1>2, <1>4, <1>5 DEF SupplyOK, Stored

(* Every snapshot was taken of memory, and storage holds a snapshot.       *)
LEMMA SnapsStep ==
    ASSUME ControlInv, [Next]_vars
    PROVE  /\ \A i \in DOMAIN writes' :
                 \/ writes'[i].snap.circulating = mem.circulating
                 \/ \E k \in DOMAIN writes : writes'[i].snap = writes[k].snap
           /\ disk' = disk \/ \E k \in DOMAIN writes : disk' = writes[k].snap
<1> DEFINE Goal == \A i \in DOMAIN writes' :
                      \/ writes'[i].snap.circulating = mem.circulating
                      \/ \E k \in DOMAIN writes : writes'[i].snap = writes[k].snap
<1>t. /\ writes \in Seq(Write) /\ Len(writes) \in Nat /\ DOMAIN writes = 1..Len(writes)
      /\ run \in [Slots -> Run] /\ mem \in ForgeState
  BY WritesFacts DEF ControlInv, TypeOK
<1>1. ASSUME NEW by, NEW state, Save(by, state), state.circulating = mem.circulating PROVE Goal
  <2>1. /\ DOMAIN writes' = 1..(Len(writes) + 1)
        /\ writes'[Len(writes) + 1] = [by |-> by, snap |-> state]
        /\ \A i \in 1..Len(writes) : writes'[i] = writes[i]
    BY <1>t, <1>1 DEF Save
  <2>2. ASSUME NEW i \in DOMAIN writes'
        PROVE  i = Len(writes) + 1 \/ i \in DOMAIN writes
    BY <1>t, <2>1
  <2> QED
    BY <1>t, <1>1, <2>1, <2>2
<1>2. ASSUME NEW s \in Slots, PublishSpent(s, ReqOf(s).ins), ReqOf(s).ins \in Seq(Token) PROVE Goal
  <2>1. /\ writes' \in Seq(Write)
        /\ Len(writes') = Len(writes) + Len(ReqOf(s).ins) /\ Len(ReqOf(s).ins) \in Nat
        /\ \A i \in 1..Len(writes) : writes'[i] = writes[i]
        /\ \A i \in (Len(writes) + 1)..(Len(writes) + Len(ReqOf(s).ins)) :
              writes'[i].snap.circulating = mem.circulating
    BY <1>t, <1>2, PublishSpentFacts, LenProperties
  <2>2. ASSUME NEW i \in DOMAIN writes'
        PROVE  i \in 1..Len(writes) \/ i \in (Len(writes) + 1)..(Len(writes) + Len(ReqOf(s).ins))
    BY <1>t, <2>1, LenProperties
  <2> QED
    BY <1>t, <2>1, <2>2
<1>3. ASSUME NEW s \in Slots, run[s].pc # "idle" PROVE ReqOf(s).ins \in Seq(Token)
  BY <1>3 DEF ControlInv, RunsOK, TypeOK, ReqOf, Request
<1>4. ASSUME NEW i \in DOMAIN writes, WriteLands(i) \/ WriteFails(i) PROVE Goal
  <2>1. i \in 1..Len(writes)
    BY <1>t
  <2>2. PICK q : q = RemoveAt(writes, i)
    OBVIOUS
  <2>3. /\ q \in Seq(Write) /\ Len(q) = Len(writes) - 1
        /\ \A j \in 1..(Len(writes) - 1) : q[j] = IF j < i THEN writes[j] ELSE writes[j + 1]
    BY <1>t, <2>1, <2>2, RemoveAtFacts
  <2>4. ASSUME NEW j \in 1..Len(q)
        PROVE  \E k \in DOMAIN writes : q[j] = writes[k]
    <3>1. j \in 1..(Len(writes) - 1)
      BY <2>3
    <3>2. CASE j < i
      BY <1>t, <2>3, <3>1, <3>2
    <3>3. CASE ~(j < i)
      <4>1. j + 1 \in DOMAIN writes /\ q[j] = writes[j + 1]
        BY <1>t, <2>3, <3>1, <3>3
      <4> QED
        BY <4>1
    <3> QED
      BY <3>2, <3>3
  <2>5. CASE writes' = q
    BY <2>3, <2>4, <2>5, LenProperties
  <2>6. ASSUME NEW s, writes' = Abandon(q, s) PROVE Goal
    <3>1. PICK f : f = Abandon(q, s)
      OBVIOUS
    <3>2. f \in Seq(Write) /\ Len(f) = Len(q) /\ \A x \in 1..Len(q) : f[x].snap = q[x].snap
      <4>1. /\ Abandon(q, s) \in Seq(Write) /\ Len(Abandon(q, s)) = Len(q)
            /\ \A x \in 1..Len(q) : Abandon(q, s)[x].snap = q[x].snap
        BY <2>3, AbandonFacts
      <4> QED
        BY <3>1, <4>1
    <3>3. ASSUME NEW j \in DOMAIN writes'
          PROVE  \E k \in DOMAIN writes : writes'[j].snap = writes[k].snap
      <4>1. j \in 1..Len(q)
        BY <2>6, <3>1, <3>2, <3>3, LenProperties
      <4>2. PICK k \in DOMAIN writes : q[j] = writes[k]
        BY <2>4, <4>1
      <4> QED
        BY <2>6, <3>1, <3>2, <4>1, <4>2
    <3> QED
      BY <3>3
  <2> QED
    BY <1>4, <2>2, <2>5, <2>6 DEF WriteLands, WriteFails
<1>5. CASE \E i \in DOMAIN writes : WriteLands(i) \/ WriteFails(i)
  <2>1. disk' = disk \/ \E k \in DOMAIN writes : disk' = writes[k].snap
    BY <1>5 DEF WriteLands, WriteFails
  <2> QED
    BY <1>4, <1>5, <2>1
<1>6. CASE \E p \in AdminKeys : AddForger(p) \/ RemoveForger(p)
  <2>1. PICK p \in AdminKeys : AddForger(p) \/ RemoveForger(p)
    BY <1>6
  <2>2. \E fs : Save(p, [mem EXCEPT !.forgers = fs])
    BY <2>1 DEF AddForger, RemoveForger
  <2>3. PICK fs : Save(p, [mem EXCEPT !.forgers = fs])
    BY <2>2
  <2>4. [mem EXCEPT !.forgers = fs].circulating = mem.circulating
    BY <1>t DEF ForgeState
  <2>5. disk' = disk
    BY <2>1 DEF AddForger, RemoveForger
  <2> QED
    BY <1>1, <2>3, <2>4, <2>5
<1>7. CASE StartQueuedSave
  BY <1>1, <1>7 DEF StartQueuedSave
<1>8. CASE \E s \in Slots : TransferMark(s) \/ BurnMark(s)
  <2>1. PICK s \in Slots : TransferMark(s) \/ BurnMark(s)
    BY <1>8
  <2>2. disk' = disk /\ run[s].pc # "idle" /\ (writes' = writes \/ PublishSpent(s, ReqOf(s).ins))
    BY <2>1 DEF TransferMark, BurnMark, At
  <2>3. CASE writes' = writes
    BY <2>2, <2>3
  <2>4. CASE PublishSpent(s, ReqOf(s).ins)
    BY <1>2, <1>3, <2>2, <2>4
  <2> QED
    BY <2>2, <2>3, <2>4
<1>9. CASE Crash
  BY <1>9 DEF Crash
<1>10. CASE UNCHANGED <<writes, disk>>
  BY <1>10
<1>11. ASSUME \/ \E e \in Events : ClientSend(e)
              \/ \E s \in Slots, e \in Events : Deliver(s, e)
              \/ \E s \in Slots :
                    \/ MintCheck(s) \/ MintBuilt(s) \/ MintSend(s) \/ Verify(s) \/ Enqueue(s)
                    \/ TransferValidate(s) \/ TransferSign(s)
                    \/ TransferSettle(s) \/ TransferSend(s) \/ TransferReturn(s)
                    \/ BurnSettle(s) \/ FinishEvent(s)
              \/ EndOfStoredEvents \/ LoadState \/ Subscribe \/ Tick
              \/ UNCHANGED vars
       PROVE  UNCHANGED <<writes, disk>>
  BY <1>11 DEF ClientSend, Deliver, MintCheck, MintBuilt, MintSend, Verify, Enqueue,
               TransferValidate, TransferSign, TransferSettle, TransferSend, TransferReturn,
               BurnSettle, FinishEvent, EndOfStoredEvents, LoadState, Subscribe, Tick, vars
<1> HIDE DEF Goal
<1> QED
  BY <1>5, <1>6, <1>7, <1>8, <1>9, <1>10, <1>11 DEF Next, HandlerStep, Goal

LEMMA StoredStep ==
    ASSUME NEW M, Capped(M), ControlInv, SupplyOK(M), [Next]_vars
    PROVE  Stored(M)'
  BY SupplyHolds, SnapsStep DEF Stored, SupplyOK

(* Steps that neither check nor count a mint.                              *)
LEMMA SupplyQuiet ==
    ASSUME NEW M, SupplyOK(M), Stored(M)', phase' \in {phase, "up"},
           mem'.circulating = mem.circulating,
           \A x \in Slots : /\ run'[x].pc = "building" <=> run[x].pc = "building"
                            /\ run[x].pc = "building" => run'[x].todo = run[x].todo
    PROVE  SupplyOK(M)'
<1>1. Building' = Building /\ \A x \in Building : Minting(x)' = Minting(x)
  BY DEF Building, Minting
<1> QED
  BY <1>1 DEF SupplyOK, Overrun

(* A run passes the check: the last one to do so.                          *)
LEMMA SupplyCheck ==
    ASSUME NEW M, Capped(M), ControlInv, SupplyOK(M), Stored(M)', NEW s \in Slots,
           MintCheck(s), MintAccepted(ReqOf(s))
    PROVE  SupplyOK(M)'
<1>1. /\ run \in [Slots -> Run] /\ run[s].pc = "received" /\ phase = "up" /\ phase' = "up"
      /\ GotoWith(s, "building", <<NewToken(ReqOf(s).outs[1])>>) /\ mem' = mem
  BY DEF MintCheck, At, ControlInv, TypeOK
<1>2. /\ run'[s].pc = "building" /\ run'[s].todo = <<NewToken(ReqOf(s).outs[1])>>
      /\ \A x \in Slots \ {s} : run'[x] = run[x]
  BY <1>1 DEF GotoWith
<1>3. Minting(s)' = ReqOf(s).outs[1].amount
  BY <1>2 DEF Minting, NewToken
<1>4. ReqOf(s) \in Request(Token) /\ Len(ReqOf(s).outs) = 1
  BY <1>1 DEF MintCheck, ControlInv, RunsOK, RequestsOK, TypeOK, ReqOf
<1>5. ReqOf(s).outs[1] \in Recipient
  BY <1>4, ElementOfSeq DEF Request
<1>6. /\ Minting(s)' \in Int /\ Minting(s)' <= M
      /\ mem.circulating + Minting(s)' <= TotalSupply
  BY <1>3, <1>5, BoundsAssumption DEF MintAccepted, WithinSupply, Capped, Recipient
<1>7. Building' = Building \cup {s} /\ \A x \in Building : Minting(x)' = Minting(x)
  BY <1>1, <1>2 DEF Building, Minting
<1>8. M \in Nat /\ mem.circulating + Minting(s)' \in Int
  BY <1>6 DEF Capped, ControlInv, TypeOK, ForgeState
<1>9. Building' \in SUBSET Slots /\ IsFiniteSet(Slots)
  BY DEF Building, Capped
<1>10. Cardinality(Slots \ Building') \in Nat
  BY <1>9, FreeSlots
<1>11. Overrun(mem.circulating + Minting(s)', Cardinality(Slots \ Building'), M)
  BY <1>6, <1>8, <1>10, WithinLimit
<1> QED
  BY <1>1, <1>6, <1>7, <1>11 DEF SupplyOK, Overrun

(* A run counts what it mints: its slot is free again.                     *)
LEMMA SupplyCount ==
    ASSUME NEW M, Capped(M), ControlInv, SupplyOK(M), Stored(M)', NEW s \in Slots, MintBuilt(s)
    PROVE  SupplyOK(M)'
<1>1. /\ run \in [Slots -> Run] /\ run[s].pc = "building" /\ phase = "up" /\ phase' = "up"
      /\ GotoWith(s, "minting", run[s].todo) /\ mem \in ForgeState
      /\ mem' = [mem EXCEPT !.circulating = mem.circulating + Minting(s)]
  BY DEF MintBuilt, At, Goto, ControlInv, TypeOK, Minting
<1>2. run'[s].pc = "minting" /\ \A x \in Slots \ {s} : run'[x] = run[x]
  BY <1>1 DEF GotoWith
<1>3. /\ Building' = Building \ {s} /\ s \in Building
      /\ \A x \in Building \ {s} : Minting(x)' = Minting(x)
  BY <1>1, <1>2 DEF Building, Minting
<1>4. mem'.circulating = mem.circulating + Minting(s) /\ mem.circulating \in Int
  BY <1>1 DEF ForgeState
<1>5. Minting(s) \in Nat /\ Minting(s) <= M /\ M \in Nat
  BY <1>3, MintingFacts DEF SupplyOK, Capped
<1>6. /\ Cardinality(Slots \ Building') = Cardinality(Slots \ Building) + 1
      /\ Cardinality(Slots \ Building) \in Nat
  BY <1>3, FreeSlots DEF Building, Capped
<1> DEFINE k == Cardinality(Slots \ Building)
           c == mem.circulating
           a == Minting(s)
<1>7. CASE Overrun(c, k - 1, M)
  <2>1. /\ c \in Int /\ a \in Nat /\ a <= M /\ k - 1 \in Int
        /\ Cardinality(Slots \ Building') - 1 = (k - 1) + 1
        /\ Cardinality(Slots \ Building') - 1 \in Int
    BY <1>4, <1>5, <1>6
  <2>2. Overrun(c + a, Cardinality(Slots \ Building') - 1, M)
    BY <1>5, <1>7, <2>1, OneMore
  <2>3. Overrun(mem'.circulating, Cardinality(Slots \ Building') - 1, M)
    BY <1>4, <2>2
  <2> QED
    BY <1>1, <1>3, <2>3 DEF SupplyOK, Overrun
<1>8. CASE Overrun(c + a, k, M)
  <2>1. k = Cardinality(Slots \ Building') - 1
    BY <1>6
  <2>2. Overrun(mem'.circulating, Cardinality(Slots \ Building') - 1, M)
    BY <1>4, <1>8, <2>1
  <2> QED
    BY <1>1, <1>3, <2>2 DEF SupplyOK, Overrun
<1>9. ASSUME NEW x \in Building \ {s}, Overrun(c + Minting(x), k, M) PROVE SupplyOK(M)'
  <2>1. Minting(x) \in Nat
    BY MintingFacts
  <2>2. Overrun((c + Minting(x)) + a, k + 1, M)
    <3>1. c + Minting(x) \in Int /\ a \in Nat /\ a <= M /\ k \in Int /\ k + 1 \in Int
      BY <1>4, <1>5, <1>6, <2>1
    <3> QED
      BY <1>5, <1>9, <3>1, OneMore
  <2>3. (c + Minting(x)) + a = mem'.circulating + Minting(x)'
    BY <1>3, <1>4, <1>5, <2>1
  <2>4. Overrun(mem'.circulating + Minting(x)', Cardinality(Slots \ Building'), M)
    BY <1>6, <2>2, <2>3
  <2> QED
    BY <1>1, <1>3, <2>4 DEF SupplyOK, Overrun
<1> QED
  BY <1>7, <1>8, <1>9 DEF SupplyOK

(* A process that starts over counts from what storage holds.              *)
LEMMA SupplyRestart ==
    ASSUME NEW M, Capped(M), ControlInv, SupplyOK(M), Stored(M)', Crash \/ LoadState
    PROVE  SupplyOK(M)'
<1>1. Building' = {} /\ IsFiniteSet(Slots) /\ M \in Nat
  BY DEF Crash, LoadState, Building, IdleRun, SupplyOK, Capped
<1>2. Cardinality(Slots) \in Nat /\ Cardinality(Slots) - 1 \in Nat /\ Slots \ {} = Slots
  BY FS_CardinalityType, FS_EmptySet DEF Capped
<1>3. Overrun(mem'.circulating, Cardinality(Slots) - 1, M)
  <2>1. CASE Crash
    <3>1. mem'.circulating = 0 /\ 0 <= TotalSupply
      BY <2>1, BoundsAssumption DEF Crash, EmptyState
    <3> QED
      BY <1>1, <1>2, <3>1, WithinLimit
  <2>2. CASE LoadState
    BY <2>2 DEF LoadState, SupplyOK, Stored
  <2> QED
    BY <2>1, <2>2
<1> QED
  BY <1>1, <1>2, <1>3 DEF SupplyOK, Overrun

(* Steps that neither check nor count nor send a mint.                     *)
MintPCs == {"building", "minting"}
NoMint ==
    /\ phase' \in {phase, "up"} /\ mem'.circulating = mem.circulating /\ minted' = minted
    /\ \A x \in Slots : run[x].pc \in MintPCs \/ run'[x].pc \in MintPCs =>
            run'[x].pc = run[x].pc /\ run'[x].todo = run[x].todo

LEMMA NoMintStep ==
    ASSUME ControlInv, [Next]_vars
    PROVE  \/ NoMint \/ Crash \/ LoadState
           \/ \E s \in Slots : \/ MintCheck(s) /\ MintAccepted(ReqOf(s))
                              \/ MintBuilt(s) \/ MintSend(s)
<1> USE DEF MintPCs
<1>t. run \in [Slots -> Run] /\ mem \in ForgeState
  BY DEF ControlInv, TypeOK
<1>1. ASSUME NEW s \in Slots, NEW r, run' = [run EXCEPT ![s] = r],
             run[s].pc \notin MintPCs, r.pc \notin MintPCs,
             phase' = phase, mem'.circulating = mem.circulating, minted' = minted
      PROVE  NoMint
  BY <1>1, <1>t DEF NoMint
<1>2. ASSUME NEW s \in Slots, NEW pc, NEW todo, GotoWith(s, pc, todo),
             run[s].pc \notin MintPCs, pc \notin MintPCs,
             phase' = phase, mem'.circulating = mem.circulating, minted' = minted
      PROVE  NoMint
  <2>1. PICK r : r = [pc |-> pc, ev |-> run[s].ev, todo |-> todo]
    OBVIOUS
  <2>2. run' = [run EXCEPT ![s] = r] /\ r.pc = pc
    BY <1>2, <2>1 DEF GotoWith
  <2> QED
    BY <1>1, <1>2, <2>2
<1>3. ASSUME UNCHANGED <<run, phase, minted>>, mem'.circulating = mem.circulating PROVE NoMint
  BY <1>3 DEF NoMint
<1>4. ASSUME Subscribe PROVE NoMint
  BY <1>4 DEF Subscribe, NoMint, history
<1>5. ASSUME NEW e \in Events, ClientSend(e) PROVE NoMint
  BY <1>3, <1>5 DEF ClientSend, history
<1>6. ASSUME NEW s \in Slots, NEW e \in Events, Deliver(s, e) PROVE NoMint
  <2>1. PICK r : r = [pc |-> "received", ev |-> e, todo |-> <<>>]
    OBVIOUS
  <2>2. /\ run' = [run EXCEPT ![s] = r] /\ r.pc = "received" /\ run[s].pc = "idle"
        /\ phase' = phase /\ mem' = mem /\ minted' = minted
    BY <1>6, <2>1 DEF Deliver, At, history
  <2> QED
    BY <1>1, <2>2
<1>7. ASSUME NEW s \in Slots, FinishEvent(s) PROVE NoMint
  <2>1. /\ mem'.circulating = mem.circulating /\ phase' = phase /\ minted' = minted
        /\ run[s].pc = "replied"
    BY <1>7, <1>t DEF FinishEvent, ForgeState, At, history
  <2>2. run' = [run EXCEPT ![s] = IdleRun] /\ IdleRun.pc = "idle"
    BY <1>7 DEF FinishEvent, IdleRun
  <2> QED
    BY <1>1, <2>1, <2>2
<1>8. ASSUME NEW s \in Slots, MintCheck(s), ~MintAccepted(ReqOf(s)) PROVE NoMint
  BY <1>2, <1>8 DEF MintCheck, Goto, At, history
<1>9. ASSUME NEW s \in Slots, Verify(s) \/ Enqueue(s) PROVE NoMint
  <2>1. /\ phase' = phase /\ mem' = mem /\ minted' = minted /\ run[s].pc = "received"
        /\ \E pc \in {"replied", "queued"} : GotoWith(s, pc, run[s].todo)
    BY <1>9 DEF Verify, Enqueue, Goto, At, history
  <2> QED
    BY <1>2, <2>1
<1>10. ASSUME NEW s \in Slots,
              TransferValidate(s) \/ TransferSign(s) \/ TransferSettle(s) \/ BurnSettle(s)
       PROVE  NoMint
  <2>1. /\ phase' = phase /\ mem' = mem /\ minted' = minted
        /\ run[s].pc \in {"queued", "validated", "saving"}
        /\ \E pc \in {"replied", "validated", "signed", "releasing"} : \E todo : GotoWith(s, pc, todo)
    <3>1. CASE TransferValidate(s)
      BY <3>1 DEF TransferValidate, Goto, At, history
    <3>2. CASE TransferSign(s)
      BY <3>2 DEF TransferSign, At, history
    <3>3. CASE TransferSettle(s) \/ BurnSettle(s)
      BY <3>3 DEF TransferSettle, BurnSettle, Goto, At
    <3> QED
      BY <1>10, <3>1, <3>2, <3>3
  <2> QED
    BY <1>2, <2>1
<1>11. ASSUME NEW s \in Slots, TransferSend(s) \/ TransferReturn(s) PROVE NoMint
  <2>1. /\ phase' = phase /\ mem' = mem /\ minted' = minted /\ run[s].pc = "releasing"
        /\ \E pc \in {"replied", "releasing"} : \E todo : GotoWith(s, pc, todo)
    BY <1>11 DEF TransferSend, TransferReturn, Goto, At, history
  <2> QED
    BY <1>2, <2>1
<1>12. ASSUME NEW s \in Slots, TransferMark(s) \/ BurnMark(s) PROVE NoMint
  <2>1. ReqOf(s).ins \in Seq(Token)
    BY <1>12 DEF TransferMark, BurnMark, At, ControlInv, RunsOK, TypeOK, ReqOf, Request
  <2>2. /\ phase' = phase /\ minted' = minted /\ run[s].pc \in {"queued", "signed"}
        /\ \E pc \in {"replied", "saving"} : GotoWith(s, pc, run[s].todo)
        /\ mem' = mem \/ mem' = Spend(ReqOf(s).ins, Len(ReqOf(s).ins))
    BY <1>12 DEF TransferMark, BurnMark, PublishSpent, Goto, At, history
  <2>3. mem'.circulating = mem.circulating
    BY <1>t, <2>1, <2>2, SpendFacts, LenProperties
  <2> QED
    BY <1>2, <2>2, <2>3
<1>13. ASSUME NEW p \in AdminKeys, AddForger(p) \/ RemoveForger(p) PROVE NoMint
  <2>1. /\ UNCHANGED <<run, phase, minted>>
        /\ \E fs : mem' = [mem EXCEPT !.forgers = fs]
    BY <1>13 DEF AddForger, RemoveForger, history
  <2>2. mem'.circulating = mem.circulating
    BY <1>t, <2>1 DEF ForgeState
  <2> QED
    BY <1>3, <2>1, <2>2
<1>14. ASSUME NEW i \in DOMAIN writes, WriteLands(i) PROVE NoMint
  BY <1>3, <1>14 DEF WriteLands
<1>15. ASSUME NEW i \in DOMAIN writes, WriteFails(i) PROVE NoMint
  <2>1. CASE writes[i].by \in Slots
    <3>1. /\ run[writes[i].by].pc = "saving" /\ GotoWith(writes[i].by, "replied", <<>>)
          /\ phase' = phase /\ mem' = mem /\ minted' = minted
      BY <1>15, <2>1 DEF WriteFails, ControlInv, WritersOK, history
    <3> QED
      BY <1>2, <2>1, <3>1
  <2>2. CASE writes[i].by \notin Slots
    BY <1>3, <1>15, <2>2 DEF WriteFails, history
  <2> QED
    BY <2>1, <2>2
<1>16. ASSUME EndOfStoredEvents \/ StartQueuedSave \/ Tick \/ UNCHANGED vars PROVE NoMint
  BY <1>3, <1>16 DEF EndOfStoredEvents, StartQueuedSave, Tick, vars, history
<1> QED
  BY <1>4, <1>5, <1>6, <1>7, <1>8, <1>9, <1>10, <1>11, <1>12, <1>13, <1>14, <1>15, <1>16
     DEF Next, HandlerStep

LEMMA SupplyStep ==
    ASSUME NEW M, Capped(M), ControlInv, SupplyOK(M), [Next]_vars
    PROVE  SupplyOK(M)'
<1>s. Stored(M)'
  BY StoredStep
<1>1. CASE NoMint
  BY <1>1, <1>s, SupplyQuiet DEF NoMint, MintPCs
<1>2. ASSUME NEW s \in Slots, MintSend(s) PROVE SupplyOK(M)'
  <2>1. /\ phase' = phase /\ mem' = mem /\ run \in [Slots -> Run]
        /\ run[s].pc = "minting" /\ GotoWith(s, "replied", <<>>)
    BY <1>2 DEF MintSend, At, ControlInv, TypeOK
  <2>2. run'[s].pc = "replied" /\ \A x \in Slots \ {s} : run'[x] = run[x]
    BY <2>1 DEF GotoWith
  <2> QED
    BY <1>s, <2>1, <2>2, SupplyQuiet
<1>3. ASSUME NEW s \in Slots, MintBuilt(s) \/ (MintCheck(s) /\ MintAccepted(ReqOf(s)))
      PROVE  SupplyOK(M)'
  BY <1>3, <1>s, SupplyCheck, SupplyCount
<1>4. CASE Crash \/ LoadState
  BY <1>4, <1>s, SupplyRestart
<1> QED
  BY <1>1, <1>2, <1>3, <1>4, NoMintStep

(* The count of what was minted never exceeds the supply by the largest    *)
(* amount a request names for every handler run but one, in memory, in     *)
(* storage, or in a save on its way, however mints overlap and whatever is *)
(* lost in a crash (forgeToken).                                           *)
THEOREM SupplyTheorem ==
    ASSUME NEW M, Capped(M)
    PROVE  Spec => [](/\ Overrun(mem.circulating, Cardinality(Slots) - 1, M)
                      /\ Overrun(disk.circulating, Cardinality(Slots) - 1, M))
<1>1. Init => SupplyOK(M)
  BY SupplyInit
<1>2. ControlInv /\ SupplyOK(M) /\ [Next]_vars => SupplyOK(M)'
  BY SupplyStep
<1>3. ControlInv /\ SupplyOK(M) => /\ Overrun(mem.circulating, Cardinality(Slots) - 1, M)
                                   /\ Overrun(disk.circulating, Cardinality(Slots) - 1, M)
  BY SupplyHolds DEF SupplyOK, Stored
<1> QED
  BY <1>1, <1>2, <1>3, ControlCorrect, PTL DEF Spec

(* What was minted was counted first: the minted value, with the mints that*)
(* are counted and not yet sent, is at most the count.  For as long as the *)
(* process lives: a crash forgets what no save had stored.                 *)
Due == [s \in Slots |-> IF run[s].pc = "minting" THEN run[s].todo[1].amount ELSE 0]
CountedOK ==
    /\ phase = "up"
    /\ \E f : IsSum(f, Due, Slots) /\ minted + f[Slots] <= mem.circulating

LEMMA DueFacts == ControlInv => \A s \in Slots : Due[s] \in Nat
<1> SUFFICES ASSUME ControlInv PROVE \A s \in Slots : Due[s] \in Nat
  OBVIOUS
<1>1. ASSUME NEW s \in Slots, run[s].pc = "minting" PROVE run[s].todo[1].amount \in Nat
  <2>1. run[s].todo \in Seq(Token) /\ run[s].todo # <<>>
    BY <1>1 DEF ControlInv, TypeOK, Run, RunsOK
  <2>2. run[s].todo[1] \in Token
    BY <2>1, EmptySeq, LenProperties, ElementOfSeq
  <2> QED
    BY <2>2 DEF Token
<1> QED
  BY <1>1 DEF Due

LEMMA CountedInit ==
    ASSUME Init, IsFiniteSet(Slots)
    PROVE  CountedOK
<1> DEFINE f == [t \in SUBSET Slots |-> 0]
<1>1. \A s \in Slots : Due[s] = 0
  BY DEF Init, Due, IdleRun
<1>2. IsSum(f, Due, Slots) /\ f[Slots] = 0
  BY <1>1 DEF IsSum
<1>3. phase = "up" /\ minted = mem.circulating /\ minted \in Int
  BY InitialTokensAssumption, ValueIsNatural DEF Init, EmptyState, Finite, Token
<1> HIDE DEF f
<1> QED
  BY <1>2, <1>3 DEF CountedOK

(* What is due from one run changes by what the count or the minted value  *)
(* changes.                                                                *)
LEMMA CountedChange ==
    ASSUME CountedOK, ControlInv, ControlInv', IsFiniteSet(Slots), NEW s \in Slots,
           Due'[s] \in Nat, \A x \in Slots \ {s} : Due'[x] = Due[x], phase' = "up",
           (minted' - minted) + (Due'[s] - Due[s]) <= mem'.circulating - mem.circulating
    PROVE  CountedOK'
<1>1. PICK f : IsSum(f, Due, Slots) /\ minted + f[Slots] <= mem.circulating
  BY DEF CountedOK
<1>2. \A x \in Slots : Due[x] \in Int /\ Due'[x] \in Int
  <2>1. \A x \in Slots : Due[x] \in Nat
    BY DueFacts
  <2> QED
    BY <2>1
<1>3. PICK v : v = Due'
  OBVIOUS
<1>4. PICK g : IsSum(g, v, Slots)
  BY <1>2, <1>3, SumExists
<1>5. g[Slots] = (f[Slots] - Due[s]) + v[s]
  BY <1>1, <1>2, <1>3, <1>4, SumChanged
<1>6. f[Slots] \in Int /\ g[Slots] \in Int
  BY <1>1, <1>4 DEF IsSum
<1>7. /\ minted \in Int /\ minted' \in Int
      /\ mem.circulating \in Int /\ mem'.circulating \in Int
  BY DEF ControlInv, TypeOK, ForgeState
<1>8. minted' + g[Slots] <= mem'.circulating
  BY <1>1, <1>2, <1>3, <1>5, <1>6, <1>7
<1> QED
  BY <1>3, <1>4, <1>8 DEF CountedOK

LEMMA CountedStep ==
    ASSUME CountedOK, ControlInv, ControlInv', IsFiniteSet(Slots), [Next]_vars, [~Crash]_vars
    PROVE  CountedOK'
<1>t. /\ run \in [Slots -> Run] /\ mem \in ForgeState
      /\ minted \in Int /\ minted' \in Int /\ mem.circulating \in Int
      /\ \A s \in Slots : Due[s] \in Nat
  BY DueFacts DEF ControlInv, TypeOK, ForgeState
<1>1. CASE NoMint
  <2>1. Due' = Due /\ phase' = "up"
    BY <1>1 DEF NoMint, MintPCs, Due, CountedOK
  <2> QED
    BY <1>1, <2>1 DEF NoMint, CountedOK
<1>2. ASSUME NEW s \in Slots, MintCheck(s), MintAccepted(ReqOf(s)) PROVE CountedOK'
  <2>1. /\ GotoWith(s, "building", <<NewToken(ReqOf(s).outs[1])>>) /\ run[s].pc = "received"
        /\ mem' = mem /\ minted' = minted /\ phase' = phase
    BY <1>2 DEF MintCheck, At, history
  <2>2. Due' = Due /\ phase' = "up"
    BY <1>t, <2>1 DEF GotoWith, Due, CountedOK
  <2> QED
    BY <2>1, <2>2 DEF CountedOK
<1>3. ASSUME NEW s \in Slots, MintBuilt(s) PROVE CountedOK'
  <2>1. /\ GotoWith(s, "minting", run[s].todo) /\ run[s].pc = "building"
        /\ mem' = [mem EXCEPT !.circulating = mem.circulating + run[s].todo[1].amount]
        /\ minted' = minted /\ phase' = "up"
    BY <1>3 DEF MintBuilt, Goto, At, history
  <2>2. /\ run'[s].pc = "minting" /\ run'[s].todo = run[s].todo
        /\ \A x \in Slots \ {s} : run'[x] = run[x]
    BY <1>t, <2>1 DEF GotoWith
  <2>3. /\ Due[s] = 0 /\ Due'[s] = run[s].todo[1].amount
        /\ \A x \in Slots \ {s} : Due'[x] = Due[x]
    BY <2>1, <2>2 DEF Due
  <2>4. Minting(s) \in Nat /\ Minting(s) = run[s].todo[1].amount
    BY <2>1, MintingFacts DEF Building, Minting
  <2>5. mem'.circulating = mem.circulating + run[s].todo[1].amount
    BY <1>t, <2>1 DEF ForgeState
  <2>6. (minted' - minted) + (Due'[s] - Due[s]) <= mem'.circulating - mem.circulating
    BY <1>t, <2>1, <2>3, <2>4, <2>5
  <2> QED
    BY <2>1, <2>3, <2>4, <2>6, CountedChange
<1>4. ASSUME NEW s \in Slots, MintSend(s) PROVE CountedOK'
  <2>1. /\ GotoWith(s, "replied", <<>>) /\ run[s].pc = "minting"
        /\ mem' = mem /\ phase' = "up"
        /\ minted' = minted \/ minted' = minted + Head(run[s].todo).amount
    BY <1>4 DEF MintSend, At
  <2>2. run'[s].pc = "replied" /\ \A x \in Slots \ {s} : run'[x] = run[x]
    BY <1>t, <2>1 DEF GotoWith
  <2>3. /\ Due[s] = run[s].todo[1].amount /\ Due'[s] = 0
        /\ \A x \in Slots \ {s} : Due'[x] = Due[x]
    BY <2>1, <2>2 DEF Due
  <2>4. Head(run[s].todo) = run[s].todo[1]
    BY <2>1, HeadTailProperties DEF ControlInv, TypeOK, Run, RunsOK
  <2>5. (minted' - minted) + (Due'[s] - Due[s]) <= mem'.circulating - mem.circulating
    BY <1>t, <2>1, <2>3, <2>4
  <2> QED
    BY <2>1, <2>3, <2>5, CountedChange
<1>5. CASE Crash
  BY <1>5, <1>t DEF Crash, vars, CountedOK
<1>6. ~LoadState
  BY DEF LoadState, CountedOK
<1> QED
  BY <1>1, <1>2, <1>3, <1>4, <1>5, <1>6, NoMintStep

(* As long as the forge is not restarted, the value that it minted exceeds *)
(* the supply by at most the largest amount for every handler run but one, *)
(* and everything minted is in the count (forgeToken).                     *)
THEOREM MintedTheorem ==
    ASSUME NEW M, Capped(M)
    PROVE  Spec /\ [][~Crash]_vars =>
               [](minted <= mem.circulating /\ Overrun(minted, Cardinality(Slots) - 1, M))
<1>0. IsFiniteSet(Slots)
  BY DEF Capped
<1>1. Init => CountedOK
  BY <1>0, CountedInit
<1>2. ControlInv /\ ControlInv' /\ CountedOK /\ [Next]_vars /\ [~Crash]_vars => CountedOK'
  BY <1>0, CountedStep
<1>3. ASSUME ControlInv, CountedOK,
             Overrun(mem.circulating, Cardinality(Slots) - 1, M)
      PROVE  minted <= mem.circulating /\ Overrun(minted, Cardinality(Slots) - 1, M)
  <2>1. PICK f : IsSum(f, Due, Slots) /\ minted + f[Slots] <= mem.circulating
    BY <1>3 DEF CountedOK
  <2>2. f[Slots] \in Nat
    BY <1>0, <1>3, <2>1, DueFacts, SumNatural
  <2>3. /\ minted \in Int /\ mem.circulating \in Int
        /\ M \in Nat /\ Cardinality(Slots) - 1 \in Int
    BY <1>0, <1>3, FS_CardinalityType DEF ControlInv, TypeOK, ForgeState, Capped
  <2>4. minted <= mem.circulating /\ mem.circulating - minted \in Nat
    BY <2>1, <2>2, <2>3
  <2>5. minted + (mem.circulating - minted) = mem.circulating
    BY <2>3
  <2>6. Overrun(minted, Cardinality(Slots) - 1, M)
    BY <1>3, <2>3, <2>4, <2>5, OneLess
  <2> QED
    BY <2>4, <2>6
<1> QED
  BY <1>1, <1>2, <1>3, SupplyTheorem, ControlCorrect, PTL DEF Spec
=============================================================================
