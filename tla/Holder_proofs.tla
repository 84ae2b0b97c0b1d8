---------------------------- MODULE Holder_proofs ----------------------------
(***************************************************************************)
(* Theorems about what a holder of tokens relies on, for every value of    *)
(* the constants: the wallet that keeps them (Pocket) and the contracts    *)
(* they are locked with (HTLC).  First what sums, sequences and lists of   *)
(* entries need; then the wallet, one lemma per action; then contracts.    *)
(***************************************************************************)
EXTENDS Pocket, HTLC, FiniteSetTheorems, SequenceTheorems, WellFoundedInduction, TLAPS

-----------------------------------------------------------------------------
(* Finite sets.  A property of all subsets is shown for the least number   *)
(* of elements for which it would fail.                                    *)
LEMMA LeastOf ==
    ASSUME NEW B \in SUBSET Nat, B # {}
    PROVE  \E n \in B : \A k \in 0..(n - 1) : k \notin B
<1> DEFINE Less == OpToRel(<, Nat)
<1>1. IsWellFoundedOn(Less, Nat)
  BY NatLessThanWellFounded
<1>2. \A n, m \in Nat : n < m => <<n, m>> \in Less
  BY DEF OpToRel
<1> HIDE DEF Less
<1>3. PICK n \in B : \A m \in B : ~(<<m, n>> \in Less)
  BY <1>1, WFMin
<1>4. \A k \in 0..(n - 1) : k \in Nat /\ k < n
  OBVIOUS
<1> QED
  BY <1>2, <1>3, <1>4

(* The sets of which the elements are counted have one fewer after a pick. *)
LEMMA OnePicked ==
    ASSUME NEW S, IsFiniteSet(S), NEW x \in S
    PROVE  /\ IsFiniteSet(S \ {x}) /\ Cardinality(S \ {x}) = Cardinality(S) - 1
           /\ Cardinality(S) \in Nat \ {0}
<1>1. IsFiniteSet(S \ {x}) /\ Cardinality(S \ {x}) = Cardinality(S) - 1
  BY FS_RemoveElement
<1>2. Cardinality(S) \in Nat /\ Cardinality(S \ {x}) \in Nat
  BY <1>1, FS_CardinalityType
<1> QED
  BY <1>1, <1>2

(* What a sum over the subsets of S does, whichever element it takes.      *)
Summing(f, w, pick, D) ==
    f = [s \in D |-> IF s = {} THEN 0 ELSE w[pick[s]] + f[s \ {pick[s]}]]

LEMMA SummingExists ==
    ASSUME NEW S, IsFiniteSet(S), NEW w, NEW pick,
           \A s \in SUBSET S : s # {} => pick[s] \in s
    PROVE  \E f : Summing(f, w, pick, SUBSET S)
<1> DEFINE Upto(n) == {s \in SUBSET S : Cardinality(s) <= n}
           Bad == {n \in Nat : ~\E f : Summing(f, w, pick, Upto(n))}
<1>1. \A s \in SUBSET S :
         IsFiniteSet(s) /\ Cardinality(s) \in Nat /\ Cardinality(s) <= Cardinality(S)
  BY FS_Subset, FS_CardinalityType
<1>2. ASSUME Bad # {}
      PROVE  FALSE
  <2>1. PICK n \in Bad : \A k \in 0..(n - 1) : k \notin Bad
    BY <1>2, LeastOf
  <2>2. n \in Nat /\ ~\E f : Summing(f, w, pick, Upto(n))
    OBVIOUS
  <2>3. CASE n = 0
    <3> DEFINE f == [s \in Upto(n) |-> 0]
    <3>1. \A s \in Upto(n) : s = {}
      BY <1>1, <2>3, FS_EmptySet
    <3>2. f = [s \in Upto(n) |-> IF s = {} THEN 0 ELSE w[pick[s]] + f[s \ {pick[s]}]]
      BY <3>1
    <3> QED
      BY <2>2, <3>2 DEF Summing
  <2>4. CASE n # 0
    <3>1. n - 1 \in Nat /\ n - 1 \in 0..(n - 1)
      BY <2>2, <2>4
    <3>2. PICK f : Summing(f, w, pick, Upto(n - 1))
      BY <2>1, <3>1
    <3> DEFINE g == [s \in Upto(n) |-> IF s = {} THEN 0 ELSE w[pick[s]] + f[s \ {pick[s]}]]
    <3>3. ASSUME NEW s \in Upto(n), s # {}
          PROVE  s \ {pick[s]} \in Upto(n) /\ g[s \ {pick[s]}] = f[s \ {pick[s]}]
      <4> DEFINE r == s \ {pick[s]}
      <4>1. pick[s] \in s /\ IsFiniteSet(s) /\ Cardinality(s) <= n
        BY <1>1, <3>3
      <4>2. Cardinality(r) = Cardinality(s) - 1 /\ Cardinality(s) \in Nat
        BY <4>1, OnePicked
      <4>3. r \in Upto(n) /\ r \in Upto(n - 1)
        BY <2>2, <4>1, <4>2
      <4> HIDE DEF r
      <4>4. g[r] = IF r = {} THEN 0 ELSE w[pick[r]] + f[r \ {pick[r]}]
        BY <4>3
      <4>5. f[r] = IF r = {} THEN 0 ELSE w[pick[r]] + f[r \ {pick[r]}]
        BY <3>2, <4>3 DEF Summing
      <4> QED
        BY <4>3, <4>4, <4>5 DEF r
    <3>4. g = [s \in Upto(n) |-> IF s = {} THEN 0 ELSE w[pick[s]] + g[s \ {pick[s]}]]
      BY <3>3
    <3> QED
      BY <2>2, <3>4 DEF Summing
  <2> QED
    BY <2>3, <2>4
<1>3. Cardinality(S) \notin Bad /\ Cardinality(S) \in Nat
  BY <1>2, FS_CardinalityType
<1>4. Upto(Cardinality(S)) = SUBSET S
  BY <1>1
<1>5. \E f : Summing(f, w, pick, Upto(Cardinality(S)))
  BY <1>3
<1> HIDE DEF Upto
<1> QED
  BY <1>4, <1>5

(* A property of all subsets holds if it passes from each subset without   *)
(* one of its elements to the subset itself.                               *)
LEMMA EachSubset ==
    ASSUME NEW S, IsFiniteSet(S), NEW H,
           \A s \in SUBSET S : (\A x \in s : s \ {x} \in H) => s \in H
    PROVE  SUBSET S \subseteq H
<1> DEFINE Bad == {n \in Nat : \E s \in SUBSET S : s \notin H /\ Cardinality(s) = n}
<1>1. \A s \in SUBSET S : IsFiniteSet(s) /\ Cardinality(s) \in Nat
  BY FS_Subset, FS_CardinalityType
<1>2. ASSUME Bad # {}
      PROVE  FALSE
  <2>1. PICK n \in Bad : \A k \in 0..(n - 1) : k \notin Bad
    BY <1>2, LeastOf
  <2>2. PICK s \in SUBSET S : s \notin H /\ Cardinality(s) = n
    OBVIOUS
  <2>3. PICK x \in s : s \ {x} \notin H
    BY <2>2
  <2>4. Cardinality(s \ {x}) = n - 1 /\ n \in Nat \ {0} /\ s \ {x} \in SUBSET S
    BY <1>1, <2>2, OnePicked
  <2>5. n - 1 \in 0..(n - 1) /\ n - 1 \in Bad
    BY <2>3, <2>4
  <2> QED
    BY <2>1, <2>5
<1> QED
  BY <1>1, <1>2

(* f gives every subset of S the sum of its weights.                       *)
IsSum(f, w, S) ==
    /\ f \in [SUBSET S -> Int] /\ f[{}] = 0
    /\ \A s \in SUBSET S : \A x \in s : f[s] = w[x] + f[s \ {x}]

LEMMA AnyOrder ==
    ASSUME NEW S, IsFiniteSet(S), NEW w, NEW pick, NEW f,
           \A s \in SUBSET S : s # {} => pick[s] \in s, \A x \in S : w[x] \in Int,
           Summing(f, w, pick, SUBSET S)
    PROVE  IsSum(f, w, S)
<1>1. /\ DOMAIN f = SUBSET S /\ f = [s \in SUBSET S |-> f[s]]
      /\ \A s \in SUBSET S : f[s] = IF s = {} THEN 0 ELSE w[pick[s]] + f[s \ {pick[s]}]
  BY DEF Summing
<1> DEFINE H == {s \in SUBSET S : f[s] \in Int}
           G == {s \in SUBSET S : \A x \in s : f[s] = w[x] + f[s \ {x}]}
<1>2. SUBSET S \subseteq H
  <2>1. ASSUME NEW s \in SUBSET S, \A x \in s : s \ {x} \in H
        PROVE  s \in H
    <3>1. CASE s = {}
      <4>1. f[s] = 0
        BY <1>1, <3>1
      <4> QED
        BY <4>1
    <3>2. CASE s # {}
      <4>1. pick[s] \in s /\ f[s] = w[pick[s]] + f[s \ {pick[s]}]
        BY <1>1, <3>2
      <4>2. w[pick[s]] \in Int /\ f[s \ {pick[s]}] \in Int
        BY <2>1, <4>1
      <4> QED
        BY <4>1, <4>2
    <3> QED
      BY <3>1, <3>2
  <2> HIDE DEF H
  <2> QED
    BY <2>1, EachSubset
<1>3. \A s \in SUBSET S : f[s] \in Int
  BY <1>2
<1>4. SUBSET S \subseteq G
  <2>1. ASSUME NEW s \in SUBSET S, \A x \in s : s \ {x} \in G
        PROVE  s \in G
    <3> SUFFICES ASSUME NEW x \in s
                 PROVE  f[s] = w[x] + f[s \ {x}]
      OBVIOUS
    <3>1. PICK c \in s : f[s] = w[c] + f[s \ {c}]
      BY <1>1
    <3>2. CASE c = x
      BY <3>1, <3>2
    <3>3. CASE c # x
      <4>1. f[s \ {c}] = w[x] + f[(s \ {c}) \ {x}]
        BY <2>1, <3>1, <3>3
      <4>2. f[s \ {x}] = w[c] + f[(s \ {x}) \ {c}]
        BY <2>1, <3>1, <3>3
      <4>3. (s \ {c}) \ {x} = (s \ {x}) \ {c}
        OBVIOUS
      <4>4. /\ w[x] \in Int /\ w[c] \in Int
            /\ f[s] \in Int /\ f[s \ {c}] \in Int /\ f[s \ {x}] \in Int
            /\ f[(s \ {x}) \ {c}] \in Int
        BY <1>3, <3>1
      <4>5. f[s \ {c}] = w[x] + f[(s \ {x}) \ {c}]
        BY <4>1, <4>3
      <4> QED
        BY <3>1, <4>2, <4>4, <4>5
    <3> QED
      BY <3>2, <3>3
  <2> HIDE DEF G
  <2> QED
    BY <2>1, EachSubset
<1>5. \A s \in SUBSET S : \A x \in s : f[s] = w[x] + f[s \ {x}]
  BY <1>4
<1>6. f[{}] = 0
  BY <1>1
<1>7. f \in [SUBSET S -> Int]
  BY <1>1, <1>3
<1> QED
  BY <1>5, <1>6, <1>7 DEF IsSum

(* A sum is the sum of a part and of the rest.                             *)
LEMMA SumSplits ==
    ASSUME NEW S, IsFiniteSet(S), NEW f, NEW w, IsSum(f, w, S), \A x \in S : w[x] \in Int,
           NEW T \in SUBSET S
    PROVE  f[S] = f[T] + f[S \ T]
<1> DEFINE H == {s \in SUBSET S : f[S] = f[S \ s] + f[s]}
<1>1. f[{}] = 0 /\ S \ {} = S /\ \A s \in SUBSET S : f[s] \in Int
  BY DEF IsSum
<1>2. ASSUME NEW s \in SUBSET S, \A x \in s : s \ {x} \in H
      PROVE  s \in H
  <2>1. CASE s = {}
    BY <1>1, <2>1
  <2>2. CASE s # {}
    <3>1. PICK x \in s : TRUE
      BY <2>2
    <3>2. S \ (s \ {x}) \in SUBSET S /\ x \in S \ (s \ {x}) /\ (S \ (s \ {x})) \ {x} = S \ s
      BY <3>1
    <3>3. f[S \ (s \ {x})] = w[x] + f[S \ s]
      BY <3>2 DEF IsSum
    <3>4. f[s] = w[x] + f[s \ {x}]
      BY <3>1 DEF IsSum
    <3>5. f[S] = f[S \ (s \ {x})] + f[s \ {x}]
      BY <1>2, <3>1
    <3>6. /\ w[x] \in Int /\ f[S \ s] \in Int /\ f[s \ {x}] \in Int /\ f[s] \in Int
          /\ f[S] \in Int /\ f[S \ (s \ {x})] \in Int
      BY <1>1, <3>1
    <3> QED
      BY <3>3, <3>4, <3>5, <3>6
  <2> QED
    BY <2>1, <2>2
<1> HIDE DEF H
<1>3. T \in H
  BY <1>2, EachSubset
<1> QED
  BY <1>1, <1>3 DEF H

(* A sum of natural numbers is one.                                        *)
LEMMA SumNatural ==
    ASSUME NEW S, IsFiniteSet(S), NEW f, NEW w, IsSum(f, w, S), \A x \in S : w[x] \in Nat
    PROVE  f[S] \in Nat
<1> DEFINE H == {s \in SUBSET S : f[s] \in Nat}
<1>1. ASSUME NEW s \in SUBSET S, \A x \in s : s \ {x} \in H
      PROVE  s \in H
  <2>1. CASE s = {}
    BY <2>1 DEF IsSum
  <2>2. CASE s # {}
    <3>1. PICK x \in s : TRUE
      BY <2>2
    <3>2. f[s] = w[x] + f[s \ {x}] /\ w[x] \in Nat /\ f[s \ {x}] \in Nat
      BY <1>1, <3>1 DEF IsSum
    <3> QED
      BY <3>2
  <2> QED
    BY <2>1, <2>2
<1> HIDE DEF H
<1>2. S \in H
  BY <1>1, EachSubset
<1> QED
  BY <1>2 DEF H

(* The value of finitely many entries is such a sum, the one that the      *)
(* module Folds takes.                                                     *)
ValueStep(f, S) ==
    [s \in SUBSET S |-> IF s = {} THEN 0
                        ELSE (CHOOSE e \in s : TRUE).tok.amount + f[s \ {CHOOSE e \in s : TRUE}]]

LEMMA ValueChosen ==
    ASSUME NEW S
    PROVE  Value(S) = (CHOOSE f : f = ValueStep(f, S))[S]
BY DEF Value, MapThenSumSet, MapThenFoldSet, ValueStep

Weight(S) == [e \in S |-> e.tok.amount]

LEMMA ValueSum ==
    ASSUME NEW S \in SUBSET Entry, IsFiniteSet(S)
    PROVE  \E f : IsSum(f, Weight(S), S) /\ f[S] = Value(S)
<1> DEFINE pick == [s \in SUBSET S |-> CHOOSE e \in s : TRUE]
           w == Weight(S)
<1>1. \A s \in SUBSET S : s # {} => pick[s] \in s
  OBVIOUS
<1>2. \A s \in SUBSET S : s # {} =>
         pick[s] = (CHOOSE e \in s : TRUE) /\ w[pick[s]] = (CHOOSE e \in s : TRUE).tok.amount
  BY <1>1 DEF Weight
<1>3. \A e \in S : w[e] \in Int
  BY DEF Entry, Token, Weight
<1>4. ASSUME NEW f
      PROVE  Summing(f, w, pick, SUBSET S) <=> f = ValueStep(f, S)
  <2>1. [s \in SUBSET S |-> IF s = {} THEN 0 ELSE w[pick[s]] + f[s \ {pick[s]}]] = ValueStep(f, S)
    <3> HIDE DEF pick, w
    <3> QED
      BY <1>2 DEF ValueStep
  <2> QED
    BY <2>1 DEF Summing
<1> HIDE DEF pick
<1>5. PICK g : g = ValueStep(g, S)
  BY <1>1, <1>4, SummingExists
<1>6. PICK f : f = (CHOOSE h : h = ValueStep(h, S))
  OBVIOUS
<1>7. f = ValueStep(f, S)
  BY <1>5, <1>6
<1>8. Summing(f, w, pick, SUBSET S)
  BY <1>4, <1>7
<1> HIDE DEF w
<1>9. IsSum(f, w, S)
  BY <1>1, <1>3, <1>8, AnyOrder
<1>10. f[S] = Value(S)
  BY <1>6, ValueChosen
<1> QED
  BY <1>9, <1>10 DEF w

LEMMA ValueNatural ==
    ASSUME NEW S \in SUBSET Entry, IsFiniteSet(S)
    PROVE  Value(S) \in Nat
<1>1. PICK f : IsSum(f, Weight(S), S) /\ f[S] = Value(S)
  BY ValueSum
<1>2. \A e \in S : Weight(S)[e] \in Nat
  BY DEF Entry, Token, Weight
<1> QED
  BY <1>1, <1>2, SumNatural

(* Values add up over the parts of a set.                                  *)
LEMMA ValueOfPart ==
    ASSUME NEW S \in SUBSET Entry, IsFiniteSet(S), NEW T \in SUBSET S
    PROVE  /\ Value(S) = Value(T) + Value(S \ T)
           /\ Value(S) \in Nat /\ Value(T) \in Nat /\ Value(S \ T) \in Nat
<1>1. PICK f : IsSum(f, Weight(S), S) /\ f[S] = Value(S)
  BY ValueSum
<1>2. \A e \in S : Weight(S)[e] \in Int
  BY DEF Entry, Token, Weight
<1>3. ASSUME NEW U \in SUBSET S
      PROVE  Value(U) = f[U] /\ Value(U) \in Nat
  <2>1. IsFiniteSet(U) /\ U \in SUBSET Entry
    BY FS_Subset
  <2>2. PICK g : IsSum(g, Weight(U), U) /\ g[U] = Value(U)
    BY <2>1, ValueSum
  <2> DEFINE H == {s \in SUBSET U : f[s] = g[s]}
  <2>3. ASSUME NEW s \in SUBSET U, \A x \in s : s \ {x} \in H
        PROVE  s \in H
    <3>1. CASE s = {}
      BY <1>1, <2>2, <3>1 DEF IsSum
    <3>2. CASE s # {}
      <4>1. PICK x \in s : TRUE
        BY <3>2
      <4>2. f[s] = Weight(S)[x] + f[s \ {x}]
        BY <1>1, <4>1 DEF IsSum
      <4>3. g[s] = Weight(U)[x] + g[s \ {x}]
        BY <2>2, <4>1 DEF IsSum
      <4>4. Weight(S)[x] = Weight(U)[x] /\ f[s \ {x}] = g[s \ {x}]
        BY <2>3, <4>1 DEF Weight
      <4> QED
        BY <4>2, <4>3, <4>4
    <3> QED
      BY <3>1, <3>2
  <2> HIDE DEF H
  <2>4. U \in H
    BY <2>1, <2>3, EachSubset
  <2> QED
    BY <2>1, <2>2, <2>4, ValueNatural DEF H
<1>4. f[S] = f[T] + f[S \ T]
  BY <1>1, <1>2, SumSplits
<1> QED
  BY <1>3, <1>4

LEMMA ValueOfNone == Value({}) = 0
<1>1. IsFiniteSet({})
  BY FS_EmptySet
<1>2. PICK f : IsSum(f, Weight({}), {}) /\ f[{}] = Value({})
  BY <1>1, ValueSum
<1> QED
  BY <1>2 DEF IsSum

LEMMA ValueOfOne ==
    ASSUME NEW e \in Entry
    PROVE  Value({e}) = e.tok.amount
<1>1. IsFiniteSet({e})
  BY FS_Singleton
<1>2. PICK f : IsSum(f, Weight({e}), {e}) /\ f[{e}] = Value({e})
  BY <1>1, ValueSum
<1>3. f[{e}] = Weight({e})[e] + f[{e} \ {e}] /\ f[{}] = 0 /\ {e} \ {e} = {}
  BY <1>2 DEF IsSum
<1>4. Weight({e})[e] = e.tok.amount /\ e.tok.amount \in Nat
  BY DEF Weight, Entry, Token
<1> QED
  BY <1>2, <1>3, <1>4

(* Entries of one denomination are worth their number times its value.     *)
LEMMA ValueOfEqual ==
    ASSUME NEW S \in SUBSET Entry, IsFiniteSet(S), NEW d \in Nat,
           \A e \in S : e.tok.amount = d
    PROVE  Value(S) = Cardinality(S) * d
<1> DEFINE H == {s \in SUBSET S : Value(s) = Cardinality(s) * d}
<1>1. ASSUME NEW s \in SUBSET S, \A x \in s : s \ {x} \in H
      PROVE  s \in H
  <2>1. CASE s = {}
    BY <2>1, ValueOfNone, FS_EmptySet
  <2>2. CASE s # {}
    <3>1. PICK x \in s : TRUE
      BY <2>2
    <3>2. IsFiniteSet(s) /\ s \in SUBSET Entry /\ x \in Entry
      BY <3>1, FS_Subset
    <3>3. Value(s) = Value({x}) + Value(s \ {x})
      BY <3>1, <3>2, ValueOfPart
    <3>4. Value({x}) = d
      BY <3>1, <3>2, ValueOfOne
    <3>5. Value(s \ {x}) = Cardinality(s \ {x}) * d
      BY <1>1, <3>1
    <3>6. PICK n \in Nat : Cardinality(s) = n + 1 /\ Cardinality(s \ {x}) = n
      <4>1. Cardinality(s \ {x}) = Cardinality(s) - 1 /\ Cardinality(s) \in Nat \ {0}
        BY <3>1, <3>2, OnePicked
      <4>2. Cardinality(s) - 1 \in Nat /\ Cardinality(s) = (Cardinality(s) - 1) + 1
        BY <4>1
      <4> QED
        BY <4>1, <4>2
    <3>7. d + n * d = (n + 1) * d
      OBVIOUS
    <3> QED
      BY <3>3, <3>4, <3>5, <3>6, <3>7
  <2> QED
    BY <2>1, <2>2
<1> HIDE DEF H
<1>2. S \in H
  BY <1>1, EachSubset
<1> QED
  BY <1>2 DEF H

(* A finite set has a subset of each size up to its own.                   *)
LEMMA SubsetOfSize ==
    ASSUME NEW S, IsFiniteSet(S), NEW n \in 0..Cardinality(S)
    PROVE  \E T \in SUBSET S : Cardinality(T) = n
<1> DEFINE H == {s \in SUBSET S : n <= Cardinality(s) =>
                                    \E T \in SUBSET s : Cardinality(T) = n}
<1>1. ASSUME NEW s \in SUBSET S, \A x \in s : s \ {x} \in H
      PROVE  s \in H
  <2>1. IsFiniteSet(s) /\ Cardinality(s) \in Nat
    BY FS_Subset, FS_CardinalityType
  <2>2. CASE n = Cardinality(s)
    BY <2>2
  <2>3. CASE n > Cardinality(s)
    BY <2>1, <2>3
  <2>4. CASE n < Cardinality(s)
    <3>1. s # {}
      BY <2>1, <2>4, FS_EmptySet
    <3>2. PICK x \in s : TRUE
      BY <3>1
    <3>3. Cardinality(s \ {x}) = Cardinality(s) - 1
      BY <2>1, <3>2, OnePicked
    <3>4. n <= Cardinality(s \ {x})
      BY <2>1, <2>4, <3>3
    <3>5. PICK T \in SUBSET (s \ {x}) : Cardinality(T) = n
      BY <1>1, <3>2, <3>4
    <3> QED
      BY <3>5
  <2>5. n \in Nat
    OBVIOUS
  <2> QED
    BY <2>1, <2>2, <2>3, <2>4, <2>5
<1> HIDE DEF H
<1>2. S \in H
  BY <1>1, EachSubset
<1>3. Cardinality(S) \in Nat
  BY FS_CardinalityType
<1> QED
  BY <1>2, <1>3 DEF H

(* The maximum of finitely many integers is one of them and no less than   *)
(* any.                                                                    *)
LEMMA MaxFacts ==
    ASSUME NEW s, IsFiniteSet(s), s \subseteq Int, s # {}
    PROVE  Max(s) \in s /\ \A y \in s : Max(s) >= y
<1> DEFINE Holds == {r \in SUBSET s : r # {} => \E x \in r : \A y \in r : x >= y}
<1>1. ASSUME NEW r \in SUBSET s, \A x \in r : r \ {x} \in Holds
      PROVE  r \in Holds
  <2>1. CASE r = {}
    BY <2>1
  <2>2. CASE r # {}
    <3>1. PICK x \in r : TRUE
      BY <2>2
    <3>2. CASE r \ {x} = {}
      <4>1. \A y \in r : y = x
        BY <3>2
      <4> QED
        BY <3>1, <4>1
    <3>3. CASE r \ {x} # {}
      <4>1. PICK z \in r \ {x} : \A y \in r \ {x} : z >= y
        BY <1>1, <3>1, <3>3
      <4>2. CASE z >= x
        <5>1. \A y \in r : z >= y
          BY <4>1, <4>2
        <5> QED
          BY <4>1, <5>1
      <4>3. CASE x > z
        <5>1. \A y \in r : x >= y
          BY <4>1, <4>3
        <5> QED
          BY <3>1, <5>1
      <4> QED
        BY <4>2, <4>3
    <3> QED
      BY <3>2, <3>3
  <2> QED
    BY <2>1, <2>2
<1> HIDE DEF Holds
<1>2. s \in Holds
  BY <1>1, EachSubset
<1> QED
  BY <1>2 DEF Max, Holds

-----------------------------------------------------------------------------
(* Sequences.                                                              *)

(* What remains when the i-th element is removed.                          *)
LEMMA RemoveAtFacts ==
    ASSUME NEW S, NEW q \in Seq(S), NEW i \in 1..Len(q)
    PROVE  /\ RemoveAt(q, i) \in Seq(S)
           /\ Len(RemoveAt(q, i)) = Len(q) - 1
           /\ \A j \in 1..(Len(q) - 1) :
                 RemoveAt(q, i)[j] = IF j < i THEN q[j] ELSE q[j + 1]
<1> DEFINE a == SubSeq(q, 1, i - 1)
           b == SubSeq(q, i + 1, Len(q))
<1>1. /\ a \in Seq(S) /\ Len(a) = i - 1
      /\ \A j \in 1..(i - 1) : a[j] = q[j]
  BY SubSeqProperties, ElementOfSeq, LenProperties
<1>2. /\ b \in Seq(S) /\ Len(b) = Len(q) - i
      /\ \A j \in 1..(Len(q) - i) : b[j] = q[i + j]
  BY SubSeqProperties, ElementOfSeq, LenProperties
<1>3. /\ a \o b \in Seq(S)
      /\ Len(a \o b) = Len(a) + Len(b)
      /\ \A j \in 1..(Len(a) + Len(b)) :
            (a \o b)[j] = IF j <= Len(a) THEN a[j] ELSE b[j - Len(a)]
  BY <1>1, <1>2, ConcatProperties
<1>4. RemoveAt(q, i) = a \o b
  BY DEF RemoveAt
<1>5. Len(q) \in Nat
  BY LenProperties
<1> HIDE DEF a, b
<1>6. Len(a \o b) = Len(q) - 1
  BY <1>1, <1>2, <1>3, <1>5
<1>7. ASSUME NEW j \in 1..(Len(q) - 1)
      PROVE  (a \o b)[j] = IF j < i THEN q[j] ELSE q[j + 1]
  <2>1. CASE j < i
    BY <2>1, <1>1, <1>2, <1>3, <1>5
  <2>2. CASE ~(j < i)
    <3>1. (a \o b)[j] = b[j - (i - 1)]
      BY <2>2, <1>1, <1>2, <1>3, <1>5
    <3>2. j - (i - 1) \in 1..(Len(q) - i) /\ i + (j - (i - 1)) = j + 1
      BY <2>2, <1>5
    <3> QED BY <3>1, <3>2, <2>2, <1>2
  <2> QED BY <2>1, <2>2
<1> QED BY <1>3, <1>4, <1>6, <1>7

LEMMA ToSetFacts ==
    ASSUME NEW S, NEW q \in Seq(S)
    PROVE  /\ Len(q) \in Nat /\ DOMAIN q = 1..Len(q)
           /\ ToSet(q) \in SUBSET S /\ IsFiniteSet(ToSet(q))
           /\ \A x : x \in ToSet(q) <=> \E i \in 1..Len(q) : x = q[i]
<1>1. Len(q) \in Nat /\ DOMAIN q = 1..Len(q) /\ q \in [1..Len(q) -> S]
  BY LenProperties
<1>2. \A x : x \in ToSet(q) <=> \E i \in 1..Len(q) : x = q[i]
  BY <1>1 DEF ToSet
<1>3. q \in Surjection(1..Len(q), ToSet(q))
  BY <1>1, <1>2 DEF Surjection
<1>4. IsFiniteSet(1..Len(q))
  BY <1>1, FS_Interval
<1>5. IsFiniteSet(ToSet(q))
  BY <1>3, <1>4, FS_Surjection
<1> QED
  BY <1>1, <1>2, <1>5

LEMMA ToSetOfNone == ToSet(<<>>) = {} /\ IsInjective(<<>>)
  BY DEF ToSet, IsInjective

LEMMA ConcatSet ==
    ASSUME NEW S, NEW p \in Seq(S), NEW q \in Seq(S)
    PROVE  /\ p \o q \in Seq(S) /\ ToSet(p \o q) = ToSet(p) \cup ToSet(q)
           /\ IsInjective(p \o q) <=>
                 IsInjective(p) /\ IsInjective(q) /\ ToSet(p) \cap ToSet(q) = {}
<1> DEFINE r == p \o q
<1>1. /\ r \in Seq(S) /\ Len(r) = Len(p) + Len(q) /\ Len(p) \in Nat /\ Len(q) \in Nat
      /\ \A i \in 1..(Len(p) + Len(q)) : r[i] = IF i <= Len(p) THEN p[i] ELSE q[i - Len(p)]
  BY ConcatProperties, LenProperties
<1>2. \A i \in 1..Len(p) : i \in 1..(Len(p) + Len(q)) /\ r[i] = p[i]
  BY <1>1
<1>3. \A i \in 1..Len(q) : Len(p) + i \in 1..(Len(p) + Len(q)) /\ r[Len(p) + i] = q[i]
  <2> SUFFICES ASSUME NEW i \in 1..Len(q)
               PROVE  Len(p) + i \in 1..(Len(p) + Len(q)) /\ r[Len(p) + i] = q[i]
    OBVIOUS
  <2> HIDE DEF r
  <2>1. /\ Len(p) + i \in 1..(Len(p) + Len(q)) /\ ~(Len(p) + i <= Len(p))
        /\ (Len(p) + i) - Len(p) = i
    BY <1>1
  <2> QED
    BY <1>1, <2>1
<1>4. \A i \in 1..(Len(p) + Len(q)) : i \in 1..Len(p) \/ \E j \in 1..Len(q) : i = Len(p) + j
  <2> SUFFICES ASSUME NEW i \in 1..(Len(p) + Len(q)), i \notin 1..Len(p)
               PROVE  \E j \in 1..Len(q) : i = Len(p) + j
    OBVIOUS
  <2>1. i - Len(p) \in 1..Len(q) /\ i = Len(p) + (i - Len(p))
    BY <1>1
  <2> QED
    BY <2>1
<1> HIDE DEF r
<1>5. /\ DOMAIN r = 1..(Len(p) + Len(q)) /\ DOMAIN p = 1..Len(p) /\ DOMAIN q = 1..Len(q)
      /\ \A x : x \in ToSet(r) <=> \E i \in 1..(Len(p) + Len(q)) : x = r[i]
      /\ \A x : x \in ToSet(p) <=> \E i \in 1..Len(p) : x = p[i]
      /\ \A x : x \in ToSet(q) <=> \E i \in 1..Len(q) : x = q[i]
  <2>1. /\ DOMAIN r = 1..Len(r) /\ \A x : x \in ToSet(r) <=> \E i \in 1..Len(r) : x = r[i]
    BY <1>1, ToSetFacts
  <2>2. /\ DOMAIN p = 1..Len(p) /\ \A x : x \in ToSet(p) <=> \E i \in 1..Len(p) : x = p[i]
    BY ToSetFacts
  <2>3. /\ DOMAIN q = 1..Len(q) /\ \A x : x \in ToSet(q) <=> \E i \in 1..Len(q) : x = q[i]
    BY ToSetFacts
  <2> QED
    BY <1>1, <2>1, <2>2, <2>3
<1>6. ASSUME NEW x
      PROVE  x \in ToSet(r) <=> x \in ToSet(p) \cup ToSet(q)
  <2>1. ASSUME x \in ToSet(r)
        PROVE  x \in ToSet(p) \cup ToSet(q)
    <3>1. PICK i \in 1..(Len(p) + Len(q)) : x = r[i]
      BY <1>5, <2>1
    <3>2. CASE i \in 1..Len(p)
      BY <1>2, <1>5, <3>1, <3>2
    <3>3. CASE i \notin 1..Len(p)
      BY <1>3, <1>4, <1>5, <3>1, <3>3
    <3> QED
      BY <3>2, <3>3
  <2>2. ASSUME x \in ToSet(p)
        PROVE  x \in ToSet(r)
    BY <1>2, <1>5, <2>2
  <2>3. ASSUME x \in ToSet(q)
        PROVE  x \in ToSet(r)
    BY <1>3, <1>5, <2>3
  <2> QED
    BY <2>1, <2>2, <2>3
<1>7. ASSUME IsInjective(r)
      PROVE  IsInjective(p) /\ IsInjective(q) /\ ToSet(p) \cap ToSet(q) = {}
  <2>1. \A i, j \in 1..(Len(p) + Len(q)) : r[i] = r[j] => i = j
    BY <1>5, <1>7 DEF IsInjective
  <2>2. IsInjective(p)
    BY <1>2, <1>5, <2>1 DEF IsInjective
  <2>3. \A i, j \in 1..Len(q) : q[i] = q[j] => Len(p) + i = Len(p) + j
    BY <1>3, <2>1
  <2>4. \A i, j \in 1..Len(q) : Len(p) + i = Len(p) + j => i = j
    BY <1>1
  <2>5. IsInjective(q)
    BY <1>5, <2>3, <2>4 DEF IsInjective
  <2>6. ASSUME NEW i \in 1..Len(p), NEW j \in 1..Len(q), p[i] = q[j]
        PROVE  FALSE
    <3>1. i = Len(p) + j
      BY <1>2, <1>3, <2>1, <2>6
    <3> QED
      BY <1>1, <3>1
  <2>7. ToSet(p) \cap ToSet(q) = {}
    BY <1>5, <2>6
  <2> QED
    BY <2>2, <2>5, <2>7
<1>8. ASSUME IsInjective(p), IsInjective(q), ToSet(p) \cap ToSet(q) = {}
      PROVE  IsInjective(r)
  <2> SUFFICES ASSUME NEW i \in 1..(Len(p) + Len(q)), NEW j \in 1..(Len(p) + Len(q)),
                      r[i] = r[j]
               PROVE  i = j
    BY <1>5 DEF IsInjective
  <2>1. \A m \in 1..Len(p), n \in 1..Len(q) : p[m] # q[n]
    BY <1>5, <1>8
  <2>2. CASE i \in 1..Len(p) /\ j \in 1..Len(p)
    BY <1>2, <1>5, <1>8, <2>2 DEF IsInjective
  <2>3. CASE i \in 1..Len(p) /\ j \notin 1..Len(p)
    <3>1. PICK n \in 1..Len(q) : j = Len(p) + n
      BY <1>4, <2>3
    <3>2. r[i] = p[i] /\ r[j] = q[n]
      BY <1>2, <1>3, <2>3, <3>1
    <3> QED
      BY <2>1, <2>3, <3>2
  <2>4. CASE i \notin 1..Len(p) /\ j \in 1..Len(p)
    <3>1. PICK n \in 1..Len(q) : i = Len(p) + n
      BY <1>4, <2>4
    <3>2. r[i] = q[n] /\ r[j] = p[j]
      BY <1>2, <1>3, <2>4, <3>1
    <3> QED
      BY <2>1, <2>4, <3>2
  <2>5. CASE i \notin 1..Len(p) /\ j \notin 1..Len(p)
    <3>1. PICK m \in 1..Len(q) : i = Len(p) + m
      BY <1>4, <2>5
    <3>2. PICK n \in 1..Len(q) : j = Len(p) + n
      BY <1>4, <2>5
    <3>3. q[m] = q[n]
      BY <1>3, <3>1, <3>2
    <3> QED
      BY <1>5, <1>8, <3>1, <3>2, <3>3 DEF IsInjective
  <2> QED
    BY <2>2, <2>3, <2>4, <2>5
<1> QED
  BY <1>1, <1>6, <1>7, <1>8 DEF r

LEMMA SingletonSet ==
    ASSUME NEW S, NEW x \in S
    PROVE  <<x>> \in Seq(S) /\ ToSet(<<x>>) = {x} /\ IsInjective(<<x>>)
<1>1. <<x>> \in Seq(S) /\ Len(<<x>>) = 1 /\ <<x>>[1] = x
  OBVIOUS
<1>2. DOMAIN <<x>> = 1..1 /\ \A y : y \in ToSet(<<x>>) <=> \E i \in 1..1 : y = <<x>>[i]
  BY <1>1, ToSetFacts
<1>3. ToSet(<<x>>) = {x}
  BY <1>1, <1>2
<1> QED
  BY <1>1, <1>2, <1>3 DEF IsInjective

LEMMA AppendSet ==
    ASSUME NEW S, NEW q \in Seq(S), NEW x \in S
    PROVE  /\ Append(q, x) \in Seq(S) /\ Append(q, x) # <<>>
           /\ ToSet(Append(q, x)) = ToSet(q) \cup {x}
           /\ IsInjective(Append(q, x)) <=> IsInjective(q) /\ x \notin ToSet(q)
<1>1. Append(q, x) = q \o <<x>> /\ Append(q, x) # <<>>
  BY AppendIsConcat, AppendProperties
<1>2. <<x>> \in Seq(S) /\ ToSet(<<x>>) = {x} /\ IsInjective(<<x>>)
  BY SingletonSet
<1>3. /\ q \o <<x>> \in Seq(S) /\ ToSet(q \o <<x>>) = ToSet(q) \cup ToSet(<<x>>)
      /\ IsInjective(q \o <<x>>) <=>
            IsInjective(q) /\ IsInjective(<<x>>) /\ ToSet(q) \cap ToSet(<<x>>) = {}
  BY <1>2, ConcatSet
<1> QED
  BY <1>1, <1>2, <1>3

(* Moving the head of what is to do to the end of what is done.            *)
LEMMA MovedHead ==
    ASSUME NEW S, NEW p \in Seq(S), NEW q \in Seq(S), q # <<>>
    PROVE  /\ Head(q) \in S /\ Tail(q) \in Seq(S) /\ q = <<Head(q)>> \o Tail(q)
           /\ Append(p, Head(q)) \o Tail(q) = p \o q
           /\ Len(q) \in Nat \ {0} /\ (Len(q) <= 1 => q = <<Head(q)>>)
<1>1. /\ Head(q) \in S /\ Tail(q) \in Seq(S) /\ Len(Tail(q)) = Len(q) - 1
      /\ \A i \in 1..Len(Tail(q)) : Tail(q)[i] = q[i + 1]
  BY HeadTailProperties
<1>2. Len(q) \in Nat \ {0}
  BY EmptySeq
<1>3. <<Head(q)>> \in Seq(S) /\ Len(<<Head(q)>>) = 1 /\ <<Head(q)>>[1] = q[1]
  BY <1>1
<1>4. PICK h \in Seq(S) : h = <<Head(q)>>
  BY <1>3
<1>5. PICK t \in Seq(S) : t = Tail(q)
  BY <1>1
<1>6. /\ h \o t \in Seq(S) /\ Len(h \o t) = Len(h) + Len(t)
      /\ \A i \in 1..(Len(h) + Len(t)) : (h \o t)[i] = IF i <= Len(h) THEN h[i] ELSE t[i - Len(h)]
  BY ConcatProperties
<1>7. Len(h \o t) = Len(q)
  BY <1>1, <1>2, <1>3, <1>4, <1>5, <1>6
<1>8. ASSUME NEW i \in 1..Len(h \o t)
      PROVE  (h \o t)[i] = q[i]
  <2>1. CASE i = 1
    BY <1>2, <1>3, <1>4, <1>6, <1>7, <2>1
  <2>2. CASE i # 1
    <3>1. (h \o t)[i] = t[i - 1]
      BY <1>2, <1>3, <1>4, <1>6, <1>7, <2>2
    <3>2. i - 1 \in 1..Len(t) /\ (i - 1) + 1 = i
      BY <1>1, <1>2, <1>5, <1>7, <2>2
    <3> QED
      BY <1>1, <1>5, <3>1, <3>2
  <2> QED
    BY <2>1, <2>2
<1>9. h \o t = q
  BY <1>6, <1>7, <1>8, SeqEqual
<1>10. (p \o h) \o t = p \o (h \o t)
  BY ConcatAssociative, SMTT(60)
<1>11. Append(p, Head(q)) = p \o h
  BY <1>1, <1>4, AppendIsConcat
<1>12. Len(q) <= 1 => q = <<Head(q)>>
  <2> SUFFICES ASSUME Len(q) <= 1
               PROVE  q = h
    BY <1>4
  <2>1. Len(h) = Len(q) /\ \A i \in 1..Len(h) : h[i] = q[i]
    BY <1>2, <1>3, <1>4
  <2> QED
    BY <2>1, SeqEqual
<1> QED
  BY <1>1, <1>2, <1>4, <1>5, <1>9, <1>10, <1>11, <1>12

LEMMA LongTail ==
    ASSUME NEW S, NEW q \in Seq(S), Len(q) > 1
    PROVE  Tail(q) # <<>>
<1>1. Len(q) \in Nat /\ (q = <<>> => Len(q) = 0)
  BY LenProperties, EmptySeq
<1>2. q # <<>>
  BY <1>1
<1>3. PICK t \in Seq(S) : t = Tail(q) /\ Len(t) = Len(q) - 1
  BY <1>2, HeadTailProperties
<1>4. Len(t) # 0 /\ (t = <<>> => Len(t) = 0)
  BY <1>1, <1>3, EmptySeq
<1> QED
  BY <1>3, <1>4

LEMMA AppendedTodo ==
    ASSUME NEW S, NEW p \in Seq(S), NEW q \in Seq(S), NEW x \in S
    PROVE  p \o Append(q, x) = Append(p \o q, x)
<1>1. <<x>> \in Seq(S) /\ p \o q \in Seq(S)
  BY SingletonSet, ConcatSet
<1>2. Append(q, x) = q \o <<x>> /\ Append(p \o q, x) = (p \o q) \o <<x>>
  BY <1>1, AppendIsConcat
<1> QED
  BY <1>1, <1>2, ConcatAssociative, SMTT(60)

LEMMA WithoutFacts ==
    ASSUME NEW S, NEW q \in Seq(S), NEW x
    PROVE  /\ Without(q, x) \in Seq(S) /\ ToSet(Without(q, x)) \subseteq ToSet(q)
           /\ IsInjective(q) => /\ IsInjective(Without(q, x))
                                /\ ToSet(Without(q, x)) = ToSet(q) \ {x}
<1>1. /\ Len(q) \in Nat /\ DOMAIN q = 1..Len(q)
      /\ \A y : y \in ToSet(q) <=> \E i \in 1..Len(q) : y = q[i]
  BY ToSetFacts
<1>2. CASE ~\E i \in DOMAIN q : q[i] = x
  BY <1>1, <1>2 DEF Without
<1>3. CASE \E i \in DOMAIN q : q[i] = x
  <2>1. PICK k \in 1..Len(q) : Without(q, x) = RemoveAt(q, k) /\ q[k] = x
    BY <1>1, <1>3 DEF Without
  <2>2. PICK r : r = Without(q, x)
    OBVIOUS
  <2>3. /\ r \in Seq(S) /\ Len(r) = Len(q) - 1
        /\ \A j \in 1..(Len(q) - 1) : r[j] = IF j < k THEN q[j] ELSE q[j + 1]
    BY <2>1, <2>2, RemoveAtFacts
  <2>4. DOMAIN r = 1..(Len(q) - 1) /\ \A y : y \in ToSet(r) <=> \E i \in 1..(Len(q) - 1) : y = r[i]
    BY <2>3, ToSetFacts
  <2>5. \A j \in 1..(Len(q) - 1) : j \in 1..Len(q) /\ j + 1 \in 1..Len(q)
    BY <1>1
  <2>6. ToSet(r) \subseteq ToSet(q)
    <3> SUFFICES ASSUME NEW j \in 1..(Len(q) - 1)
                 PROVE  \E i \in 1..Len(q) : r[j] = q[i]
      BY <1>1, <2>4
    <3> QED
      BY <2>3, <2>5
  <2>7. ASSUME IsInjective(q)
        PROVE  IsInjective(r) /\ ToSet(r) = ToSet(q) \ {x}
    <3>1. \A i, j \in 1..Len(q) : q[i] = q[j] => i = j
      BY <1>1, <2>7 DEF IsInjective
    <3>2. ASSUME NEW i \in 1..(Len(q) - 1), NEW j \in 1..(Len(q) - 1), r[i] = r[j]
          PROVE  i = j
      <4>1. CASE i < k /\ j < k
        BY <2>3, <2>5, <3>1, <3>2, <4>1
      <4>2. CASE i < k /\ ~(j < k)
        <5>1. i = j + 1
          BY <2>3, <2>5, <3>1, <3>2, <4>2
        <5> QED
          BY <1>1, <4>2, <5>1
      <4>3. CASE ~(i < k) /\ j < k
        <5>1. i + 1 = j
          BY <2>3, <2>5, <3>1, <3>2, <4>3
        <5> QED
          BY <1>1, <4>3, <5>1
      <4>4. CASE ~(i < k) /\ ~(j < k)
        <5>1. i + 1 = j + 1
          BY <2>3, <2>5, <3>1, <3>2, <4>4
        <5> QED
          BY <1>1, <5>1
      <4> QED
        BY <4>1, <4>2, <4>3, <4>4
    <3>3. IsInjective(r)
      BY <2>4, <3>2 DEF IsInjective
    <3>4. ASSUME NEW j \in 1..(Len(q) - 1)
          PROVE  r[j] # x
      <4>1. CASE j < k
        <5>1. j # k
          BY <1>1, <4>1
        <5> QED
          BY <2>1, <2>3, <2>5, <3>1, <4>1, <5>1
      <4>2. CASE ~(j < k)
        <5>1. j + 1 # k
          BY <1>1, <4>2
        <5> QED
          BY <2>1, <2>3, <2>5, <3>1, <4>2, <5>1
      <4> QED
        BY <4>1, <4>2
    <3>5. ASSUME NEW i \in 1..Len(q), q[i] # x
          PROVE  \E j \in 1..(Len(q) - 1) : q[i] = r[j]
      <4>1. CASE i < k
        <5>1. i \in 1..(Len(q) - 1)
          BY <1>1, <4>1
        <5> QED
          BY <2>3, <4>1, <5>1
      <4>2. CASE ~(i < k)
        <5>1. i # k
          BY <2>1, <3>5
        <5>2. i - 1 \in 1..(Len(q) - 1) /\ ~(i - 1 < k) /\ (i - 1) + 1 = i
          BY <1>1, <4>2, <5>1
        <5> QED
          BY <2>3, <5>2
      <4> QED
        BY <4>1, <4>2
    <3>6. ToSet(r) = ToSet(q) \ {x}
      <4>1. ASSUME NEW y
            PROVE  y \in ToSet(r) <=> y \in ToSet(q) /\ y # x
        BY <1>1, <2>4, <2>6, <3>4, <3>5
      <4> QED
        BY <4>1
    <3> QED
      BY <3>3, <3>6
  <2> QED
    BY <2>2, <2>3, <2>6, <2>7
<1> QED
  BY <1>2, <1>3

-----------------------------------------------------------------------------
(* Entries of the index, locks, and the counter of the keys.               *)
LEMMA ImageFinite ==
    ASSUME NEW S, IsFiniteSet(S), NEW f, DOMAIN f = S
    PROVE  IsFiniteSet({f[x] : x \in S})
<1> DEFINE T == {f[x] : x \in S}
           g == [x \in S |-> f[x]]
<1>1. g \in [S -> T] /\ \A t \in T : \E x \in S : g[x] = t
  OBVIOUS
<1>2. g \in Surjection(S, T)
  BY <1>1 DEF Surjection
<1> HIDE DEF g, T
<1>3. IsFiniteSet(T)
  BY <1>2, FS_Surjection
<1> QED
  BY <1>3 DEF T

LEMMA OnceFacts ==
    ASSUME NEW S \in SUBSET Token, IsFiniteSet(S)
    PROVE  Once(S) \in SUBSET Entry /\ IsFiniteSet(Once(S)) /\ Listed(Once(S)) = S
<1> DEFINE f == [t \in S |-> [tok |-> t, visit |-> 1]]
<1>1. Once(S) = {f[t] : t \in S}
  BY DEF Once
<1>2. IsFiniteSet({f[t] : t \in S})
  BY ImageFinite
<1>3. Once(S) \in SUBSET Entry
  BY DEF Once, Entry
<1>4. Listed(Once(S)) = S
  <2>1. ASSUME NEW t \in S
        PROVE  [tok |-> t, visit |-> 1] \in Once(S) /\ [tok |-> t, visit |-> 1].tok = t
    BY DEF Once
  <2>2. S \subseteq Listed(Once(S))
    BY <2>1 DEF Listed
  <2>3. Listed(Once(S)) \subseteq S
    BY DEF Once, Listed
  <2> QED
    BY <2>2, <2>3
<1> QED
  BY <1>1, <1>2, <1>3, <1>4

LEMMA EntryFacts ==
    ASSUME NEW E \in SUBSET Entry, IsFiniteSet(E)
    PROVE  /\ Listed(E) \in SUBSET Token
           /\ {e.tok.lock : e \in E} \in SUBSET Address
           /\ IsFiniteSet({e.tok.lock : e \in E})
<1> DEFINE f == [e \in E |-> e.tok.lock]
<1>1. {e.tok.lock : e \in E} = {f[e] : e \in E}
  OBVIOUS
<1>2. IsFiniteSet({f[e] : e \in E})
  BY ImageFinite
<1>3. Listed(E) \in SUBSET Token /\ {e.tok.lock : e \in E} \in SUBSET Address
  BY DEF Listed, Entry, Token
<1> QED
  BY <1>1, <1>2, <1>3

LEMMA NoneListed == Listed({}) = {} /\ Once({}) = {} /\ IsFiniteSet({})
  BY FS_EmptySet DEF Listed, Once

LEMMA MaxOfTwo ==
    ASSUME NEW a \in Int, NEW b \in Int
    PROVE  Max({a, b}) \in {a, b} /\ Max({a, b}) >= a /\ Max({a, b}) >= b
<1>1. IsFiniteSet({a, b})
  <2>1. IsFiniteSet({a}) /\ {a} \cup {b} = {a, b}
    BY FS_Singleton
  <2>2. IsFiniteSet({a} \cup {b})
    BY <2>1, FS_AddElement
  <2> QED
    BY <2>1, <2>2
<1> QED
  BY <1>1, MaxFacts

LEMMA MaxOfThree ==
    ASSUME NEW a \in Int, NEW b \in Int, NEW c \in Int
    PROVE  /\ Max({a, b, c}) \in {a, b, c}
           /\ Max({a, b, c}) >= a /\ Max({a, b, c}) >= b /\ Max({a, b, c}) >= c
<1>1. IsFiniteSet({a, b, c})
  <2>1. IsFiniteSet({a}) /\ {a} \cup {b} = {a, b} /\ {a, b} \cup {c} = {a, b, c}
    BY FS_Singleton
  <2>2. IsFiniteSet({a} \cup {b})
    BY <2>1, FS_AddElement
  <2>3. IsFiniteSet({a, b} \cup {c})
    BY <2>1, <2>2, FS_AddElement
  <2> QED
    BY <2>1, <2>3
<1> QED
  BY <1>1, MaxFacts

LEMMA HighestFacts ==
    ASSUME NEW K \in SUBSET SingleUse, IsFiniteSet(K)
    PROVE  /\ Highest(K) \in Int /\ Highest(K) >= -1
           /\ \A k \in K : k[2] \in Nat /\ k[2] <= Highest(K)
<1> DEFINE f == [k \in K |-> k[2]]
           T == {k[2] : k \in K} \cup {-1}
<1>1. {k[2] : k \in K} = {f[k] : k \in K}
  OBVIOUS
<1>2. IsFiniteSet({f[k] : k \in K})
  BY ImageFinite
<1>3. IsFiniteSet(T)
  BY <1>1, <1>2, FS_AddElement
<1>4. \A k \in K : k[2] \in Nat
  BY DEF SingleUse
<1>5. T \subseteq Int /\ T # {} /\ -1 \in T /\ \A k \in K : k[2] \in T
  BY <1>4
<1> HIDE DEF T
<1>6. Max(T) \in T /\ \A y \in T : Max(T) >= y
  BY <1>3, <1>5, MaxFacts
<1>7. Highest(K) = Max(T)
  BY DEF Highest, T
<1> QED
  BY <1>4, <1>5, <1>6, <1>7

LEMMA BumpedFacts ==
    ASSUME NEW K \in SUBSET SingleUse, IsFiniteSet(K), NEW n \in Nat
    PROVE  BumpedNext(K, n) \in Nat /\ BumpedNext(K, n) >= n
<1>1. PICK c \in Nat : c = Cardinality(K)
  BY FS_CardinalityType
<1>2. PICK h \in Int : h = Highest(K) + 1
  BY HighestFacts
<1>3. BumpedNext(K, n) = Max({n, c, h})
  BY <1>1, <1>2 DEF BumpedNext
<1>4. Max({n, c, h}) \in {n, c, h} /\ Max({n, c, h}) >= n
  BY MaxOfThree
<1> QED
  BY <1>3, <1>4

-----------------------------------------------------------------------------
(* Steps that leave the tokens alone.                                      *)
NoLists(r) == r.canon = <<>> /\ r.todo = <<>> /\ r.listed = {} /\ r.ins = {}
SameLists(r, q) ==
    /\ q.canon = r.canon /\ q.todo = r.todo /\ q.listed = r.listed
    /\ q.ins = r.ins /\ q.snap = r.snap

LEMMA IdleFacts ==
    /\ Idle \in Run /\ Idle.pc = "idle" /\ Idle.addr = Main /\ Idle.snap = Foreign
    /\ ControlOK(Idle) /\ NoLists(Idle) /\ IsFiniteSet(Idle.snap.keys)
<1>1. Foreign \in Snapshot /\ IsFiniteSet(Foreign.keys)
  BY SentinelAssumption
<1>2. Idle \in Run
  BY <1>1 DEF Idle, Run, PCs, Thens, Address
<1> QED
  BY <1>1, <1>2 DEF Idle, ControlOK, NoLists

LEMMA NoListsFacts ==
    ASSUME NEW r \in Run, ControlOK(r), NoLists(r), IsFiniteSet(r.snap.keys)
    PROVE  RunOK(r) /\ VisitedOnce(r)
<1>1. Listed({}) = {} /\ Once({}) = {} /\ IsFiniteSet({})
  BY NoneListed
<1>2. ToSet(<<>>) = {} /\ IsInjective(<<>>)
  BY ToSetOfNone
<1>3. <<>> \o <<>> = <<>>
  BY ConcatEmptySeq, EmptySeq
<1> QED
  BY <1>1, <1>2, <1>3 DEF RunOK, NoLists, VisitedOnce

LEMMA SameListsFacts ==
    ASSUME NEW r, NEW q, RunOK(r), ControlOK(q), SameLists(r, q)
    PROVE  RunOK(q) /\ (VisitedOnce(r) => VisitedOnce(q))
  BY DEF RunOK, SameLists, VisitedOnce

SameStore(m, n) == n.tokens = m.tokens /\ n.index = m.index /\ n.kept = m.kept

LEMMA PlainStep ==
    ASSUME IInv, NEW s \in Slots, NEW r \in Run, run' = [run EXCEPT ![s] = r],
           RunOK(r), ~returned => VisitedOnce(r),
           r.pc # "indexing", run[s].pc # "indexing", up, up' = up,
           mem' \in PocketState, IsFiniteSet(mem'.keys), SameStore(mem, mem'),
           disk' = disk \/ disk' = mem,
           UNCHANGED <<overlapped, returned, backups>>
    PROVE  /\ run' \in [Slots -> Run] /\ disk' \in PocketState
           /\ CopiesOK' /\ RunsOK' /\ IndexAgrees' /\ KeptOK'
<1>1. /\ run \in [Slots -> Run] /\ mem \in PocketState /\ disk \in PocketState
      /\ CopiesOK /\ RunsOK /\ IndexAgrees /\ KeptOK
  BY DEF IInv, TypeOK
<1>2. /\ run' \in [Slots -> Run] /\ run'[s] = r
      /\ \A o \in Slots \ {s} : run'[o] = run[o]
  BY <1>1
<1>3. disk' \in PocketState
  BY <1>1
<1>4. CopiesOK'
  BY <1>1 DEF CopiesOK, CopyOK, SameStore
<1>5. RunsOK'
  BY <1>1, <1>2 DEF RunsOK
<1>6. \A o \in Slots : /\ run'[o].pc = "indexing" <=> run[o].pc = "indexing"
                       /\ run'[o].pc = "indexing" => run'[o] = run[o]
  BY <1>2
<1>7. \A o \in Slots : /\ Rebuilding(o)' <=> Rebuilding(o)
                       /\ Rebuilding(o)' => run'[o] = run[o]
                       /\ Overlaps(o)' <=> Overlaps(o)
  BY <1>6 DEF Rebuilding, Overlaps
<1>8. IndexAgrees'
  BY <1>1, <1>7 DEF IndexAgrees, Settled, SameStore
<1>9. KeptOK'
  BY <1>1, <1>7 DEF KeptOK, SameStore
<1> QED
  BY <1>2, <1>3, <1>4, <1>5, <1>8, <1>9

LEMMA AheadGrows ==
    ASSUME NEW A, NEW m \in Int, NEW n \in Int, m <= n, A \subseteq Address, Ahead(A, m)
    PROVE  Ahead(A, n)
<1>1. \A a \in A \ {Main} : a[2] \in Nat
  BY DEF Address, SingleUse
<1> QED
  BY <1>1 DEF Ahead

LEMMA RunKeysGrow ==
    ASSUME NEW r \in Run, NEW m \in Int, NEW n \in Int, m <= n, RunKeysOK(r, m)
    PROVE  RunKeysOK(r, n)
<1>1. {r.addr} \subseteq Address /\ r.snap.keys \subseteq Address
  BY DEF Run, Snapshot, Address
<1> QED
  BY <1>1, AheadGrows DEF RunKeysOK

LEMMA KeysStep ==
    ASSUME IInv, NEW s \in Slots, NEW r \in Run, run' = [run EXCEPT ![s] = r], up, up' = up,
           mem' \in PocketState, mem'.next >= mem.next, disk' = disk \/ disk' = mem,
           UNCHANGED <<rewound, durable>>, ~rewound => RunKeysOK(r, mem'.next)
    PROVE  KeysOK'
<1> SUFFICES ASSUME ~rewound
             PROVE  KeysOK'
  BY DEF KeysOK
<1>1. /\ run \in [Slots -> Run] /\ mem \in PocketState /\ durable \subseteq Address
      /\ KeysOK
  BY DEF IInv, TypeOK, Address
<1>2. /\ Ahead(durable, disk.next) /\ Ahead(durable, mem.next)
      /\ \A o \in Slots : RunKeysOK(run[o], mem.next)
  BY <1>1 DEF KeysOK
<1>3. mem.next \in Int /\ mem'.next \in Int /\ mem.next <= mem'.next
  BY <1>1 DEF PocketState
<1>4. Ahead(durable, mem'.next)
  BY <1>1, <1>2, <1>3, AheadGrows
<1>5. \A o \in Slots : RunKeysOK(run[o], mem'.next)
  BY <1>1, <1>2, <1>3, RunKeysGrow
<1>6. \A o \in Slots : RunKeysOK(run'[o], mem'.next)
  BY <1>1, <1>5
<1>7. Ahead(durable, disk'.next)
  BY <1>2
<1> QED
  BY <1>4, <1>6, <1>7 DEF KeysOK

(* What a step leaves when its run, its memory and its counter are right.  *)
OthersOK ==
    /\ hd \in Seeds /\ up \in BOOLEAN
    /\ oneShot \subseteq listening /\ listening \subseteq Address /\ pending \subseteq Nat
    /\ requests \in Seq(Request)
    /\ events \subseteq Event /\ consumed \subseteq Token /\ issued \in Nat
    /\ backups \subseteq Snapshot /\ handed \subseteq SingleUse
    /\ left \in [Ops -> Nat]
    /\ durable \subseteq SingleUse
    /\ overlapped \in BOOLEAN /\ returned \in BOOLEAN /\ rewound \in BOOLEAN

LEMMA TypeParts ==
    TypeOK <=> /\ mem \in PocketState /\ disk \in PocketState
               /\ run \in [Slots -> Run] /\ OthersOK
  BY DEF TypeOK, OthersOK

RunTo(s, r) ==
    /\ r \in Run /\ run' = [run EXCEPT ![s] = r]
    /\ r.pc # "indexing" /\ run[s].pc # "indexing"
    /\ RunOK(r) /\ (~returned => VisitedOnce(r))
    /\ ~rewound => RunKeysOK(r, mem'.next)
MemoryTo(m) == m \in PocketState /\ IsFiniteSet(m.keys) /\ SameStore(mem, m) /\ m.next >= mem.next
Calm ==
    /\ up /\ up' = up /\ (disk' = disk \/ disk' = mem)
    /\ UNCHANGED <<overlapped, returned, backups, rewound, durable>>

LEMMA RunStep ==
    ASSUME IInv, NEW s \in Slots, NEW r, RunTo(s, r), MemoryTo(mem'), Calm, OthersOK'
    PROVE  IInv'
<1>1. /\ r \in Run /\ run' = [run EXCEPT ![s] = r]
      /\ r.pc # "indexing" /\ run[s].pc # "indexing"
      /\ RunOK(r) /\ (~returned => VisitedOnce(r))
      /\ ~rewound => RunKeysOK(r, mem'.next)
      /\ mem' \in PocketState /\ IsFiniteSet(mem'.keys) /\ SameStore(mem, mem')
      /\ mem'.next >= mem.next
      /\ up /\ up' = up /\ (disk' = disk \/ disk' = mem)
      /\ UNCHANGED <<overlapped, returned, backups, rewound, durable>>
  BY DEF RunTo, MemoryTo, Calm
<1>2. /\ run' \in [Slots -> Run] /\ disk' \in PocketState
      /\ CopiesOK' /\ RunsOK' /\ IndexAgrees' /\ KeptOK'
  BY <1>1, PlainStep
<1>3. KeysOK'
  BY <1>1, KeysStep
<1>4. TypeOK'
  BY <1>1, <1>2 DEF TypeOK, OthersOK
<1> QED
  BY <1>2, <1>3, <1>4 DEF IInv

LEMMA WorldStep ==
    ASSUME IInv, run' = run, mem' = mem, up' = up, disk' = disk \/ (up /\ disk' = mem),
           listening' = listening, UNCHANGED history,
           \A b \in backups' : IsFiniteSet(b.keys), OthersOK'
    PROVE  IInv'
<1>1. TypeOK'
  BY DEF IInv, TypeOK, OthersOK
<1>2. CopiesOK'
  BY DEF IInv, CopiesOK, CopyOK
<1>3. RunsOK'
  BY DEF IInv, RunsOK, history
<1>4. /\ \A o \in Slots : (Rebuilding(o)' <=> Rebuilding(o)) /\ (Overlaps(o)' <=> Overlaps(o))
      /\ Settled' <=> Settled
  BY DEF Rebuilding, Overlaps, Settled
<1>5. IndexAgrees'
  BY <1>4 DEF IInv, IndexAgrees, history
<1>6. KeptOK'
  BY <1>4 DEF IInv, KeptOK, history
<1>7. KeysOK'
  BY DEF IInv, KeysOK, history
<1> QED
  BY <1>1, <1>2, <1>3, <1>5, <1>6, <1>7 DEF IInv

LEMMA TakeType ==
    ASSUME OthersOK, NEW op \in Ops, Take(op)
    PROVE  left' \in [Ops -> Nat]
<1>1. left \in [Ops -> Nat] /\ left[op] - 1 \in Nat
  BY DEF OthersOK, Take
<1> QED
  BY <1>1 DEF Take

(* The steps of the world outside.                                         *)
LEMMA PayStep ==
    ASSUME IInv, NEW to \in handed \cup {Main}, NEW amount \in Amounts, Pay(to, amount)
    PROVE  IInv'
<1>1. OthersOK /\ CopiesOK
  BY TypeParts DEF IInv
<1>2. left' \in [Ops -> Nat]
  BY <1>1, TakeType DEF Pay, Ops
<1>3. PICK t : t = [id |-> issued, amount |-> amount, lock |-> to]
  OBVIOUS
<1>4. t \in Token /\ to \in Address
  BY <1>1, <1>3, KeysAssumption DEF OthersOK, Token, Address
<1>5. events' \subseteq Event /\ issued' \in Nat
  BY <1>1, <1>3, <1>4 DEF Pay, Event, OthersOK
<1>6. OthersOK'
  BY <1>1, <1>2, <1>5 DEF Pay, OthersOK, wallet, history
<1> QED
  BY <1>1, <1>6, WorldStep DEF Pay, wallet, history, CopiesOK

LEMMA SpendElsewhereStep ==
    ASSUME IInv, NEW t \in mem.kept, SpendElsewhere(t)
    PROVE  IInv'
<1>1. OthersOK /\ CopiesOK /\ mem \in PocketState
  BY TypeParts DEF IInv
<1>2. left' \in [Ops -> Nat]
  BY <1>1, TakeType DEF SpendElsewhere, Ops
<1>3. consumed' \subseteq Token
  BY <1>1 DEF SpendElsewhere, OthersOK, PocketState
<1>4. OthersOK'
  BY <1>1, <1>2, <1>3 DEF SpendElsewhere, OthersOK, wallet, history
<1> QED
  BY <1>1, <1>4, WorldStep DEF SpendElsewhere, wallet, history, CopiesOK

LEMMA EndOfStoredEventsStep ==
    ASSUME IInv, EndOfStoredEvents
    PROVE  IInv'
<1>1. OthersOK /\ CopiesOK
  BY TypeParts DEF IInv
<1>2. left' \in [Ops -> Nat]
  BY <1>1, TakeType DEF EndOfStoredEvents, Ops
<1>3. OthersOK'
  BY <1>1, <1>2 DEF EndOfStoredEvents, OthersOK, world, history
<1> QED
  BY <1>1, <1>3, WorldStep DEF EndOfStoredEvents, world, history, CopiesOK

LEMMA ExportStep ==
    ASSUME IInv, Export
    PROVE  IInv'
<1>1. OthersOK /\ CopiesOK /\ mem \in PocketState /\ IsFiniteSet(mem.keys)
  BY TypeParts DEF IInv, CopiesOK, CopyOK
<1>2. left' \in [Ops -> Nat]
  BY <1>1, TakeType DEF Export, Ops
<1>3. PICK b : b = [seed |-> mem.seed, keys |-> mem.keys, next |-> mem.next]
  OBVIOUS
<1>4. b \in Snapshot /\ IsFiniteSet(b.keys) /\ backups' = backups \cup {b}
  BY <1>1, <1>3 DEF PocketState, Snapshot, Export
<1>5. OthersOK'
  BY <1>1, <1>2, <1>4 DEF Export, OthersOK, wallet, history
<1>6. \A c \in backups' : IsFiniteSet(c.keys)
  BY <1>1, <1>4 DEF CopiesOK
<1> QED
  BY <1>5, <1>6, WorldStep DEF Export, wallet, history

LEMMA AnswerStep ==
    ASSUME IInv, NEW c \in DOMAIN requests, Answer(c)
    PROVE  IInv'
<1>1. OthersOK /\ CopiesOK
  BY TypeParts DEF IInv
<1>2. requests \in Seq(Request) /\ c \in 1..Len(requests) /\ requests[c] \in Request
  <2>1. requests \in Seq(Request)
    BY <1>1 DEF OthersOK
  <2> QED
    BY <2>1, LenProperties, ElementOfSeq
<1>3. PICK r \in Request : r = requests[c]
  BY <1>2
<1>4. requests' \in Seq(Request)
  <2>1. [r EXCEPT !.answered = TRUE] \in Request
    BY DEF Request
  <2>2. requests' = [requests EXCEPT ![c] = [r EXCEPT !.answered = TRUE]]
    BY <1>3 DEF Answer
  <2> QED
    BY <1>2, <2>1, <2>2, ExceptSeq
<1>5. PICK ins : ins = Listed(r.ins)
  OBVIOUS
<1>6. ins \subseteq Token
  BY <1>5 DEF Request, Listed, Entry
<1>7. c \in Nat
  BY <1>2
<1>8. \A kind \in {"spent", "refused"}, t \in ins :
         [kind |-> kind, tok |-> t, to |-> Main, call |-> c] \in Event
  BY <1>6, <1>7 DEF Event, Address
<1>9. events' \subseteq Event /\ consumed' \subseteq Token /\ issued' \in Nat
  <2>1. CASE events' = events \cup {[kind |-> "refused", tok |-> t, to |-> Main, call |-> c] :
                                      t \in ins \cap consumed}
             /\ UNCHANGED <<consumed, issued>>
    BY <1>1, <1>8, <2>1 DEF OthersOK
  <2>2. CASE
      /\ consumed' = consumed \cup ins
      /\ \E more : /\ events' = events
                        \cup {[kind |-> "spent", tok |-> t, to |-> Main, call |-> c] : t \in ins}
                        \cup more
                   /\ more = IF r.change > 0
                        THEN {[kind |-> "token", to |-> r.to, call |-> c, tok |->
                               [id |-> issued, amount |-> r.change, lock |-> r.to]]}
                        ELSE {}
      /\ issued' = IF r.change > 0 THEN issued + 1 ELSE issued
    <3>1. PICK more :
             /\ events' = events
                  \cup {[kind |-> "spent", tok |-> t, to |-> Main, call |-> c] : t \in ins}
                  \cup more
             /\ more = IF r.change > 0
                  THEN {[kind |-> "token", to |-> r.to, call |-> c, tok |->
                         [id |-> issued, amount |-> r.change, lock |-> r.to]]}
                  ELSE {}
      BY <2>2
    <3>2. r.change > 0 => r.change \in Nat
      BY DEF Request
    <3>3. r.to \in Address /\ issued \in Nat
      BY <1>1 DEF Request, OthersOK
    <3>4. r.change > 0 => [id |-> issued, amount |-> r.change, lock |-> r.to] \in Token
      BY <3>2, <3>3 DEF Token
    <3>5. more \subseteq Event
      BY <1>7, <3>1, <3>3, <3>4 DEF Event
    <3>6. consumed' \subseteq Token /\ issued' \in Nat
      BY <1>1, <1>6, <2>2, <3>3 DEF OthersOK
    <3> QED
      BY <1>1, <1>8, <3>1, <3>5, <3>6 DEF OthersOK
  <2> QED
    BY <1>3, <1>5, <2>1, <2>2 DEF Answer
<1>10. OthersOK'
  BY <1>1, <1>4, <1>9 DEF Answer, OthersOK, wallet, history
<1> QED
  BY <1>1, <1>10, WorldStep DEF Answer, wallet, history, CopiesOK

-----------------------------------------------------------------------------
(* The steps of a run that leave the tokens alone.                         *)
LEMMA RunFacts ==
    ASSUME IInv, NEW s \in Slots
    PROVE  /\ OthersOK /\ CopiesOK /\ run \in [Slots -> Run] /\ run[s] \in Run
           /\ RunOK(run[s]) /\ (~returned => VisitedOnce(run[s]))
           /\ ~rewound => RunKeysOK(run[s], mem.next)
           /\ mem \in PocketState /\ IsFiniteSet(mem.keys) /\ mem.keys \in SUBSET SingleUse
           /\ mem.next \in Nat
<1>1. /\ OthersOK /\ mem \in PocketState /\ run \in [Slots -> Run]
      /\ CopiesOK /\ RunsOK /\ KeysOK
  BY TypeParts DEF IInv
<1> QED
  BY <1>1 DEF RunsOK, KeysOK, CopiesOK, CopyOK, PocketState

LEMMA RecoveredFacts ==
    ASSUME mem.keys \in SUBSET SingleUse, IsFiniteSet(mem.keys),
           NEW A \in SUBSET Address, IsFiniteSet(A)
    PROVE  Recovered(A) \in SUBSET SingleUse /\ IsFiniteSet(Recovered(A))
<1> DEFINE B == {a \in A \ {Main} : Recoverable(a)}
<1>1. B \subseteq A /\ B \subseteq SingleUse
  BY DEF Address
<1>2. IsFiniteSet(B)
  BY <1>1, FS_Subset
<1>3. Recovered(A) = mem.keys \cup B
  BY DEF Recovered
<1> QED
  BY <1>1, <1>2, <1>3, FS_Union

LEMMA SameMemory ==
    ASSUME IInv
    PROVE  MemoryTo(mem)
<1>1. mem \in PocketState /\ IsFiniteSet(mem.keys) /\ mem.next \in Int
  BY DEF IInv, TypeOK, CopiesOK, CopyOK, PocketState
<1> QED
  BY <1>1 DEF MemoryTo, SameStore

LEMMA KeysMemory ==
    ASSUME IInv, NEW K \in SUBSET SingleUse, IsFiniteSet(K), NEW n \in Nat, n >= mem.next
    PROVE  MemoryTo([mem EXCEPT !.keys = K]) /\ MemoryTo([mem EXCEPT !.keys = K, !.next = n])
<1>1. MemoryTo(mem) /\ mem \in PocketState /\ mem.next \in Int
  BY SameMemory DEF IInv, TypeOK, PocketState
<1>2. PICK m : m = [mem EXCEPT !.keys = K]
  OBVIOUS
<1>3. /\ m \in PocketState /\ m.tokens = mem.tokens /\ m.index = mem.index /\ m.kept = mem.kept
      /\ m.keys = K /\ m.next = mem.next
  BY <1>1, <1>2 DEF PocketState
<1>4. MemoryTo(m)
  BY <1>1, <1>3 DEF MemoryTo, SameStore
<1>5. PICK l : l = [mem EXCEPT !.keys = K, !.next = n]
  OBVIOUS
<1>6. /\ l \in PocketState /\ l.tokens = mem.tokens /\ l.index = mem.index /\ l.kept = mem.kept
      /\ l.keys = K /\ l.next = n
  BY <1>1, <1>5 DEF PocketState
<1>7. MemoryTo(l)
  BY <1>1, <1>6 DEF MemoryTo, SameStore
<1> QED
  BY <1>2, <1>4, <1>5, <1>7

LEMMA ProcessedMemory ==
    ASSUME IInv, NEW E \in SUBSET Event
    PROVE  MemoryTo([mem EXCEPT !.processed = E])
<1>1. MemoryTo(mem) /\ mem \in PocketState /\ mem.next \in Int /\ IsFiniteSet(mem.keys)
  BY SameMemory DEF IInv, TypeOK, PocketState, MemoryTo
<1> QED
  BY <1>1 DEF MemoryTo, SameStore, PocketState

LEMMA SeedMemory ==
    ASSUME IInv, NEW seed \in Seeds
    PROVE  MemoryTo([mem EXCEPT !.seed = seed])
<1>1. MemoryTo(mem) /\ mem \in PocketState /\ mem.next \in Int /\ IsFiniteSet(mem.keys)
  BY SameMemory DEF IInv, TypeOK, PocketState, MemoryTo
<1> QED
  BY <1>1 DEF MemoryTo, SameStore, PocketState

LEMMA NextMemory ==
    ASSUME IInv, NEW n \in Nat, n >= mem.next
    PROVE  MemoryTo([mem EXCEPT !.next = n])
<1>1. MemoryTo(mem) /\ mem \in PocketState /\ mem.next \in Int /\ IsFiniteSet(mem.keys)
  BY SameMemory DEF IInv, TypeOK, PocketState, MemoryTo
<1> QED
  BY <1>1 DEF MemoryTo, SameStore, PocketState

LEMMA DeliverStep ==
    ASSUME IInv, NEW s \in Slots, NEW e \in events, Deliver(s, e)
    PROVE  IInv'
<1>1. /\ OthersOK /\ mem \in PocketState /\ IsFiniteSet(mem.keys)
      /\ mem.keys \in SUBSET SingleUse /\ mem.next \in Nat
  BY RunFacts
<1>2. e \in Event /\ e # NoEvent /\ e.to \in Address /\ e.tok \in Token /\ e.tok # NoToken
  BY <1>1, SentinelAssumption DEF OthersOK, Event
<1>3. /\ Idle \in Run /\ Idle.addr = Main /\ Idle.snap = Foreign /\ ControlOK(Idle)
      /\ NoLists(Idle) /\ IsFiniteSet(Idle.snap.keys) /\ Idle.then = "idle"
  BY IdleFacts DEF Idle
<1>4. OthersOK'
  BY <1>1 DEF Deliver, OthersOK, world, history
<1>5. CASE Recoverable(e.to)
  <2>1. PICK r : r = [Idle EXCEPT !.pc = "unwrapping", !.ev = e, !.tok = e.tok]
    OBVIOUS
  <2>2. /\ r \in Run /\ r.pc = "unwrapping" /\ r.then = "idle" /\ r.ev = e /\ r.tok = e.tok
        /\ r.addr = Main /\ NoLists(r) /\ IsFiniteSet(r.snap.keys)
    BY <1>2, <1>3, <2>1 DEF Run, PCs, NoLists
  <2>3. ControlOK(r) /\ RunKeysOK(r, mem'.next)
    BY <1>2, <2>2 DEF ControlOK, RunKeysOK, Ahead
  <2>4. RunOK(r) /\ VisitedOnce(r)
    BY <2>2, <2>3, NoListsFacts
  <2>5. Recovered({e.to}) \in SUBSET SingleUse /\ IsFiniteSet(Recovered({e.to}))
    BY <1>1, <1>2, FS_Singleton, RecoveredFacts
  <2>6. MemoryTo(mem')
    <3>1. mem' = [mem EXCEPT !.keys = Recovered({e.to})] /\ mem.next >= mem.next
      BY <1>1, <1>5 DEF Deliver
    <3> QED
      BY <1>1, <2>5, <3>1, KeysMemory
  <2>7. run[s].pc = "idle" /\ run' = [run EXCEPT ![s] = r]
    BY <1>5, <2>1 DEF Deliver, Begin, At
  <2>8. RunTo(s, r)
    BY <2>2, <2>3, <2>4, <2>7 DEF RunTo
  <2>9. Calm
    BY DEF Deliver, Begin, At, Calm, world, history
  <2> QED
    BY <1>4, <2>6, <2>8, <2>9, RunStep
<1>6. CASE ~Recoverable(e.to)
  <2>1. PICK r : r = [Idle EXCEPT !.pc = "saving", !.ev = e]
    OBVIOUS
  <2>2. /\ r \in Run /\ r.pc = "saving" /\ r.then = "idle" /\ r.ev = e
        /\ r.addr = Main /\ NoLists(r) /\ IsFiniteSet(r.snap.keys)
    BY <1>2, <1>3, <2>1 DEF Run, PCs, NoLists
  <2>3. ControlOK(r) /\ RunKeysOK(r, mem'.next)
    BY <1>2, <2>2 DEF ControlOK, RunKeysOK, Ahead
  <2>4. RunOK(r) /\ VisitedOnce(r)
    BY <2>2, <2>3, NoListsFacts
  <2>5. MemoryTo(mem')
    <3>1. mem' = [mem EXCEPT !.processed = @ \cup {e}] /\ mem.next >= mem.next
      BY <1>1, <1>6 DEF Deliver
    <3>2. mem.processed \cup {e} \in SUBSET Event
      BY <1>1, <1>2 DEF PocketState
    <3> QED
      BY <1>1, <3>1, <3>2, ProcessedMemory
  <2>6. run[s].pc = "idle" /\ run' = [run EXCEPT ![s] = r]
    BY <1>6, <2>1 DEF Deliver, Begin, At
  <2>7. RunTo(s, r)
    BY <2>2, <2>3, <2>4, <2>6 DEF RunTo
  <2>8. Calm
    BY DEF Deliver, Begin, At, Calm, world, history
  <2> QED
    BY <1>4, <2>5, <2>7, <2>8, RunStep
<1> QED
  BY <1>5, <1>6

(* A run that begins, and one that goes on, without a rebuild.             *)
LEMMA Begun ==
    ASSUME IInv, NEW s \in Slots, NEW r \in Run, Begin(s, r), NoLists(r),
           IsFiniteSet(r.snap.keys), ControlOK(r), r.pc # "indexing",
           ~rewound => RunKeysOK(r, mem'.next)
    PROVE  RunTo(s, r)
<1>1. RunOK(r) /\ VisitedOnce(r)
  BY NoListsFacts
<1> QED
  BY <1>1 DEF RunTo, Begin, At

Free(r) == r.pc \notin {"indexing", "rekeying"} /\ ~(r.pc = "saving" /\ r.then = "restored")

LEMMA Moved ==
    ASSUME IInv, NEW s \in Slots, NEW r \in Run, MemoryTo(mem'), run' = [run EXCEPT ![s] = r],
           SameLists(run[s], r), r.addr = run[s].addr, ControlOK(r), Free(r),
           run[s].pc # "indexing"
    PROVE  RunTo(s, r)
<1>1. RunOK(run[s]) /\ (~returned => VisitedOnce(run[s]))
  BY RunFacts
<1>2. RunOK(r) /\ (~returned => VisitedOnce(r))
  BY <1>1, SameListsFacts
<1>3. ASSUME ~rewound
      PROVE  RunKeysOK(r, mem'.next)
  <2>1. RunKeysOK(run[s], mem.next) /\ run[s] \in Run /\ mem.next \in Int
    BY <1>3, RunFacts
  <2>2. mem'.next \in Int /\ mem.next <= mem'.next
    BY <2>1 DEF MemoryTo, PocketState
  <2>3. Ahead({run[s].addr}, mem.next) /\ {run[s].addr} \subseteq Address
    BY <2>1 DEF RunKeysOK, Run
  <2>4. Ahead({r.addr}, mem'.next)
    BY <2>1, <2>2, <2>3, AheadGrows
  <2> QED
    BY <2>4 DEF RunKeysOK, Free
<1> QED
  BY <1>2, <1>3 DEF RunTo, Free

LEMMA UnwrappedStep ==
    ASSUME IInv, NEW s \in Slots, Unwrapped(s)
    PROVE  IInv'
<1>1. /\ OthersOK /\ mem \in PocketState /\ run[s] \in Run /\ RunOK(run[s])
      /\ run[s].pc = "unwrapping" /\ run \in [Slots -> Run]
  BY RunFacts DEF Unwrapped, At
<1>2. run[s].ev \in Event /\ run[s].tok \in Token
  BY <1>1 DEF RunOK, ControlOK, Run
<1>3. OthersOK'
  BY <1>1 DEF Unwrapped, OthersOK, world, history
<1>4. MemoryTo(mem')
  <2>1. mem.processed \cup {run[s].ev} \in SUBSET Event
    BY <1>1, <1>2 DEF PocketState
  <2>2. mem' = [mem EXCEPT !.processed = @ \cup {run[s].ev}]
    BY DEF Unwrapped
  <2> QED
    BY <1>1, <2>1, <2>2, ProcessedMemory
<1>5. PICK pc \in {"storing", "deleting", "replying"} :
         run' = [run EXCEPT ![s].then = "replying", ![s].pc = pc]
  BY <1>1, <1>2 DEF Unwrapped, Event
<1>6. PICK r : r = [run[s] EXCEPT !.then = "replying", !.pc = pc]
  OBVIOUS
<1>7. run' = [run EXCEPT ![s] = r]
  BY <1>1, <1>5, <1>6
<1>8. /\ r \in Run /\ SameLists(run[s], r) /\ r.addr = run[s].addr /\ r.pc = pc
      /\ r.then = "replying" /\ r.tok = run[s].tok
  BY <1>1, <1>6 DEF Run, PCs, Thens, SameLists
<1>9. ControlOK(r) /\ Free(r)
  BY <1>1, <1>8 DEF ControlOK, Free, RunOK
<1>10. RunTo(s, r)
  BY <1>1, <1>4, <1>7, <1>8, <1>9, Moved
<1>11. Calm
  BY DEF Unwrapped, At, Calm, world, history
<1> QED
  BY <1>3, <1>4, <1>10, <1>11, RunStep

LEMMA ReplyStep ==
    ASSUME IInv, NEW s \in Slots, Reply(s)
    PROVE  IInv'
<1>1. /\ OthersOK /\ run[s] \in Run /\ RunOK(run[s])
      /\ run[s].pc = "replying" /\ run \in [Slots -> Run]
  BY RunFacts DEF Reply, At
<1>2. OthersOK'
  BY <1>1 DEF Reply, OthersOK, world, history
<1>3. MemoryTo(mem')
  BY SameMemory DEF Reply
<1>4. PICK pc \in {"saving", "deleting"} :
         run' = [run EXCEPT ![s].pc = pc, ![s].then = "idle"]
  BY DEF Reply, SaveThen
<1>5. PICK r : r = [run[s] EXCEPT !.pc = pc, !.then = "idle"]
  OBVIOUS
<1>6. run' = [run EXCEPT ![s] = r]
  BY <1>1, <1>4, <1>5
<1>7. /\ r \in Run /\ SameLists(run[s], r) /\ r.addr = run[s].addr /\ r.pc = pc
      /\ r.then = "idle" /\ r.tok = run[s].tok
  BY <1>1, <1>5 DEF Run, PCs, Thens, SameLists
<1>8. ControlOK(r) /\ Free(r)
  BY <1>1, <1>7 DEF ControlOK, Free, RunOK
<1>9. RunTo(s, r)
  BY <1>1, <1>3, <1>6, <1>7, <1>8, Moved
<1>10. Calm
  BY DEF Reply, At, Calm, world, history
<1> QED
  BY <1>2, <1>3, <1>9, <1>10, RunStep

LEMMA SpentNoteStep ==
    ASSUME IInv, NEW s \in Slots, NEW t \in consumed, SpentNote(s, t)
    PROVE  IInv'
<1>1. OthersOK /\ t \in Token
  BY RunFacts DEF OthersOK
<1>2. OthersOK'
  BY <1>1 DEF SpentNote, OthersOK, wallet, world, history
<1>3. MemoryTo(mem')
  BY SameMemory DEF SpentNote, wallet
<1>4. PICK r : r = [Idle EXCEPT !.pc = "deleting", !.tok = t]
  OBVIOUS
<1>5. /\ r \in Run /\ r.pc = "deleting" /\ r.then = "idle" /\ r.tok = t /\ r.addr = Main
      /\ NoLists(r) /\ IsFiniteSet(r.snap.keys)
  BY <1>1, <1>4, IdleFacts DEF Run, PCs, NoLists, Idle
<1>6. ControlOK(r) /\ RunKeysOK(r, mem'.next)
  BY <1>5 DEF ControlOK, RunKeysOK, Ahead
<1>7. RunTo(s, r)
  BY <1>4, <1>5, <1>6, Begun DEF SpentNote
<1>8. Calm
  BY DEF SpentNote, Begin, At, Calm, wallet, world, history
<1> QED
  BY <1>2, <1>3, <1>7, <1>8, RunStep

LEMMA ImportTokenStep ==
    ASSUME IInv, NEW s \in Slots, ImportToken(s)
    PROVE  IInv'
<1>1. PICK e \in events : Begin(s, [Idle EXCEPT !.pc = "storing", !.tok = e.tok])
  BY DEF ImportToken
<1>2. OthersOK /\ e.tok \in Token /\ e.tok # NoToken
  BY RunFacts, SentinelAssumption DEF OthersOK, Event
<1>3. OthersOK'
  <2>1. left' \in [Ops -> Nat]
    BY <1>2, TakeType DEF ImportToken, Ops
  <2> QED
    BY <1>2, <2>1 DEF ImportToken, OthersOK, wallet, world, history
<1>4. MemoryTo(mem')
  BY SameMemory DEF ImportToken, wallet
<1>5. PICK r : r = [Idle EXCEPT !.pc = "storing", !.tok = e.tok]
  OBVIOUS
<1>6. /\ r \in Run /\ r.pc = "storing" /\ r.then = "idle" /\ r.tok = e.tok /\ r.addr = Main
      /\ NoLists(r) /\ IsFiniteSet(r.snap.keys)
  BY <1>2, <1>5, IdleFacts DEF Run, PCs, NoLists, Idle
<1>7. ControlOK(r) /\ RunKeysOK(r, mem'.next)
  BY <1>2, <1>6 DEF ControlOK, RunKeysOK, Ahead
<1>8. RunTo(s, r)
  BY <1>1, <1>5, <1>6, <1>7, Begun
<1>9. Calm
  BY <1>1 DEF ImportToken, Begin, At, Calm, wallet, world, history
<1> QED
  BY <1>3, <1>4, <1>8, <1>9, RunStep

LEMMA DeriveStep ==
    ASSUME IInv, NEW s \in Slots, NEW q \in Run, q.then \in {"handing", "building"},
           NoLists(q), IsFiniteSet(q.snap.keys), Derive(s, q), left' \in [Ops -> Nat]
    PROVE  IInv'
<1>1. OthersOK /\ mem.next \in Nat /\ mem \in PocketState
  BY RunFacts
<1>2. PICK a : a = <<hd, mem.next>>
  OBVIOUS
<1>3. a \in SingleUse /\ a \in Address /\ a # Main /\ a[2] = mem.next
  BY <1>1, <1>2, KeysAssumption DEF OthersOK, SingleUse, Address
<1>4. PICK r : r = [q EXCEPT !.pc = "subscribing", !.addr = a]
  OBVIOUS
<1>5. /\ r \in Run /\ r.pc = "subscribing" /\ r.then = q.then /\ r.addr = a
      /\ NoLists(r) /\ IsFiniteSet(r.snap.keys)
  BY <1>3, <1>4 DEF Run, PCs, NoLists
<1>6. mem' = [mem EXCEPT !.next = @ + 1]
  BY DEF Derive
<1>7. MemoryTo(mem')
  BY <1>1, <1>6, NextMemory
<1>8. mem'.next = mem.next + 1
  BY <1>1, <1>6 DEF PocketState
<1>9. ControlOK(r) /\ RunKeysOK(r, mem'.next)
  BY <1>1, <1>3, <1>5, <1>8 DEF ControlOK, RunKeysOK, Ahead
<1>10. RunTo(s, r)
  BY <1>2, <1>4, <1>5, <1>9, Begun DEF Derive
<1>11. OthersOK'
  BY <1>1 DEF Derive, OthersOK, world, history
<1>12. Calm
  BY DEF Derive, Begin, At, Calm, world, history
<1> QED
  BY <1>7, <1>10, <1>11, <1>12, RunStep

LEMMA NewReceiveAddressStep ==
    ASSUME IInv, NEW s \in Slots, NewReceiveAddress(s)
    PROVE  IInv'
<1>1. PICK q : q = [Idle EXCEPT !.then = "handing"]
  OBVIOUS
<1>2. q \in Run /\ q.then = "handing" /\ NoLists(q) /\ IsFiniteSet(q.snap.keys)
  BY <1>1, IdleFacts DEF Run, Thens, NoLists
<1>3. left' \in [Ops -> Nat] /\ Derive(s, q)
  BY <1>1, RunFacts, TakeType DEF NewReceiveAddress, Ops
<1> QED
  BY <1>2, <1>3, DeriveStep

LEMMA TransferStep ==
    ASSUME IInv, NEW s \in Slots, NEW amount \in Amounts, Transfer(s, amount)
    PROVE  IInv'
<1>1. PICK q : q = [Idle EXCEPT !.then = "building", !.amount = amount]
  OBVIOUS
<1>2. q \in Run /\ q.then = "building" /\ NoLists(q) /\ IsFiniteSet(q.snap.keys)
  BY <1>1, IdleFacts, KeysAssumption DEF Run, Thens, NoLists
<1>3. left' \in [Ops -> Nat] /\ Derive(s, q)
  BY <1>1, RunFacts, TakeType DEF Transfer, Ops
<1> QED
  BY <1>2, <1>3, DeriveStep

LEMMA AddKeyStep ==
    ASSUME IInv, NEW s \in Slots, AddKey(s)
    PROVE  IInv'
<1>1. /\ OthersOK /\ mem \in PocketState /\ run[s] \in Run /\ RunOK(run[s])
      /\ run[s].pc = "subscribing" /\ run \in [Slots -> Run]
      /\ mem.keys \in SUBSET SingleUse /\ IsFiniteSet(mem.keys) /\ mem.next \in Nat
  BY RunFacts DEF AddKey, At
<1>2. run[s].addr \in SingleUse
  BY <1>1 DEF RunOK, ControlOK, Run, Address
<1>3. PICK K : K = mem.keys \cup {run[s].addr}
  OBVIOUS
<1>4. K \in SUBSET SingleUse /\ IsFiniteSet(K)
  BY <1>1, <1>2, <1>3, FS_AddElement
<1>5. PICK n \in Nat : n = BumpedNext(K, mem.next) /\ n >= mem.next
  BY <1>1, <1>4, BumpedFacts
<1>6. mem' = [mem EXCEPT !.keys = K, !.next = n]
  BY <1>3, <1>5 DEF AddKey
<1>7. MemoryTo(mem')
  BY <1>4, <1>5, <1>6, KeysMemory
<1>8. OthersOK'
  BY <1>1, <1>2 DEF AddKey, OthersOK, world, history, Address
<1>9. PICK r : r = [run[s] EXCEPT !.pc = "saving", !.then = run[s].then]
  OBVIOUS
<1>10. run' = [run EXCEPT ![s] = r]
  BY <1>1, <1>9 DEF AddKey, SaveThen
<1>11. /\ r \in Run /\ SameLists(run[s], r) /\ r.addr = run[s].addr /\ r.pc = "saving"
       /\ r.then = run[s].then
  BY <1>1, <1>9 DEF Run, PCs, SameLists
<1>12. ControlOK(r) /\ Free(r)
  BY <1>1, <1>11 DEF ControlOK, RunOK, Free
<1>13. RunTo(s, r)
  BY <1>1, <1>7, <1>10, <1>11, <1>12, Moved
<1>14. Calm
  BY DEF AddKey, At, Calm, world, history
<1> QED
  BY <1>7, <1>8, <1>13, <1>14, RunStep

LEMMA RemoveKeyStep ==
    ASSUME IInv, NEW s \in Slots, NEW a \in mem.keys, RemoveKey(s, a)
    PROVE  IInv'
<1>1. /\ OthersOK /\ mem.keys \in SUBSET SingleUse /\ IsFiniteSet(mem.keys)
      /\ mem.next \in Nat
  BY RunFacts
<1>2. PICK K : K = mem.keys \ {a}
  OBVIOUS
<1>3. K \in SUBSET SingleUse /\ IsFiniteSet(K)
  BY <1>1, <1>2, FS_RemoveElement
<1>4. mem' = [mem EXCEPT !.keys = K] /\ mem.next >= mem.next
  BY <1>1, <1>2 DEF RemoveKey
<1>5. MemoryTo(mem')
  BY <1>1, <1>3, <1>4, KeysMemory
<1>6. OthersOK'
  <2>1. left' \in [Ops -> Nat]
    BY <1>1, TakeType DEF RemoveKey, Ops
  <2> QED
    BY <1>1, <2>1 DEF RemoveKey, OthersOK, world, history
<1>7. PICK r : r = [Idle EXCEPT !.pc = "saving"]
  OBVIOUS
<1>8. /\ r \in Run /\ r.pc = "saving" /\ r.then = "idle" /\ r.addr = Main
      /\ NoLists(r) /\ IsFiniteSet(r.snap.keys)
  BY <1>7, IdleFacts DEF Run, PCs, NoLists, Idle
<1>9. ControlOK(r) /\ RunKeysOK(r, mem'.next)
  BY <1>8 DEF ControlOK, RunKeysOK, Ahead
<1>10. RunTo(s, r)
  BY <1>7, <1>8, <1>9, Begun DEF RemoveKey
<1>11. Calm
  BY DEF RemoveKey, Begin, At, Calm, world, history
<1> QED
  BY <1>5, <1>6, <1>10, <1>11, RunStep

LEMMA RestoreStep ==
    ASSUME IInv, NEW s \in Slots, NEW b \in backups, Restore(s, b)
    PROVE  IInv'
<1>1. OthersOK /\ CopiesOK
  BY RunFacts
<1>2. b \in Snapshot /\ IsFiniteSet(b.keys) /\ b.seed \in Seeds
  BY <1>1 DEF OthersOK, CopiesOK, Snapshot
<1>3. MemoryTo(mem')
  BY <1>2, SeedMemory DEF Restore
<1>4. OthersOK'
  <2>1. left' \in [Ops -> Nat]
    BY <1>1, TakeType DEF Restore, Ops
  <2> QED
    BY <1>1, <2>1 DEF Restore, OthersOK, world, history
<1>5. PICK r : r = [Idle EXCEPT !.pc = "reseeding", !.snap = b]
  OBVIOUS
<1>6. /\ r \in Run /\ r.pc = "reseeding" /\ r.then = "idle" /\ r.addr = Main
      /\ NoLists(r) /\ IsFiniteSet(r.snap.keys)
  BY <1>2, <1>5, IdleFacts DEF Run, PCs, NoLists, Idle
<1>7. ControlOK(r) /\ RunKeysOK(r, mem'.next)
  BY <1>6 DEF ControlOK, RunKeysOK, Ahead
<1>8. RunTo(s, r)
  BY <1>5, <1>6, <1>7, Begun DEF Restore
<1>9. Calm
  BY DEF Restore, Begin, At, Calm, world, history
<1> QED
  BY <1>3, <1>4, <1>8, <1>9, RunStep

LEMMA RestoreKeysStep ==
    ASSUME IInv, NEW s \in Slots, RestoreKeys(s)
    PROVE  IInv'
<1>1. /\ OthersOK /\ run[s] \in Run /\ RunOK(run[s]) /\ (~returned => VisitedOnce(run[s]))
      /\ run[s].pc = "reseeding" /\ run \in [Slots -> Run]
      /\ mem.keys \in SUBSET SingleUse /\ IsFiniteSet(mem.keys) /\ mem.next \in Nat
  BY RunFacts DEF RestoreKeys, At
<1>2. PICK b : b = run[s].snap
  OBVIOUS
<1>3. b \in Snapshot /\ b.keys \in SUBSET SingleUse /\ IsFiniteSet(b.keys) /\ b.seed \in Seeds
  BY <1>1, <1>2 DEF Run, Snapshot, RunOK
<1>4. PICK K : K = mem.keys \cup b.keys
  OBVIOUS
<1>5. K \in SUBSET SingleUse /\ IsFiniteSet(K)
  BY <1>1, <1>3, <1>4, FS_Union
<1>6. PICK top \in Int : top = Highest(K) /\ \A k \in K : k[2] \in Nat /\ k[2] <= top
  BY <1>5, HighestFacts
<1>7. mem' = [mem EXCEPT !.keys = K] /\ mem.next >= mem.next
  BY <1>1, <1>2, <1>4 DEF RestoreKeys
<1>8. MemoryTo(mem')
  BY <1>1, <1>5, <1>7, KeysMemory
<1>9. OthersOK'
  BY <1>1, <1>2, <1>3 DEF RestoreKeys, OthersOK, world, history, Address
<1>10. PICK r : r = [run[s] EXCEPT !.pc = "rekeying", !.top = top]
  OBVIOUS
<1>11. run' = [run EXCEPT ![s] = r]
  BY <1>1, <1>2, <1>4, <1>6, <1>10 DEF RestoreKeys
<1>12. /\ r \in Run /\ SameLists(run[s], r) /\ r.addr = run[s].addr /\ r.pc = "rekeying"
       /\ r.then = run[s].then /\ r.top = top /\ r.snap = b
  BY <1>1, <1>2, <1>10 DEF Run, PCs, SameLists
<1>13. ControlOK(r)
  BY <1>1, <1>12 DEF ControlOK, RunOK
<1>14. RunOK(r) /\ (~returned => VisitedOnce(r))
  BY <1>1, <1>12, <1>13, SameListsFacts
<1>15. ASSUME ~rewound
       PROVE  RunKeysOK(r, mem'.next)
  <2>1. Ahead({run[s].addr}, mem.next)
    BY <1>15, RunFacts DEF RunKeysOK
  <2>2. mem'.next = mem.next
    BY <1>7, RunFacts DEF PocketState
  <2>3. \A k \in b.keys : k[2] < top + 1
    BY <1>4, <1>6
  <2> QED
    BY <1>12, <2>1, <2>2, <2>3 DEF RunKeysOK, Ahead
<1>16. RunTo(s, r)
  BY <1>1, <1>11, <1>12, <1>14, <1>15 DEF RunTo
<1>17. Calm
  BY DEF RestoreKeys, At, Calm, world, history
<1> QED
  BY <1>8, <1>9, <1>16, <1>17, RunStep

(* The counter may go back here, and then nothing more is promised of it.  *)
LEMMA RestoreCounterStep ==
    ASSUME IInv, NEW s \in Slots, RestoreCounter(s)
    PROVE  IInv'
<1>1. /\ OthersOK /\ run[s] \in Run /\ RunOK(run[s]) /\ (~returned => VisitedOnce(run[s]))
      /\ run[s].pc = "rekeying" /\ run \in [Slots -> Run] /\ up
      /\ mem \in PocketState /\ IsFiniteSet(mem.keys) /\ mem.next \in Nat
  BY RunFacts DEF RestoreCounter, At
<1>2. PICK b : b = run[s].snap
  OBVIOUS
<1>3. PICK c \in Nat : c = Cardinality(mem.keys)
  BY <1>1, FS_CardinalityType
<1>4. PICK d \in Int : d = run[s].top + 1
  BY <1>1 DEF Run
<1>5. PICK a \in Nat : a = b.next
  BY <1>1, <1>2 DEF Run, Snapshot
<1>6. PICK next : next = Max({a, c, d})
  OBVIOUS
<1>7. next \in {a, c, d} /\ next >= a /\ next >= d
  <2>1. Max({a, c, d}) \in {a, c, d} /\ Max({a, c, d}) >= a /\ Max({a, c, d}) >= d
    BY MaxOfThree
  <2> QED
    BY <1>6, <2>1
<1>8. next \in Nat
  BY <1>5, <1>7
<1>9. /\ mem' = [mem EXCEPT !.next = next]
      /\ rewound' = (rewound \/ next < mem.next)
  BY <1>2, <1>3, <1>4, <1>5, <1>6 DEF RestoreCounter
<1>10. PICK r : r = [run[s] EXCEPT !.pc = "saving", !.then = "restored"]
  OBVIOUS
<1>11. run' = [run EXCEPT ![s] = r]
  BY <1>1, <1>10 DEF RestoreCounter, SaveThen
<1>12. /\ r \in Run /\ SameLists(run[s], r) /\ r.addr = run[s].addr /\ r.pc = "saving"
       /\ r.then = "restored" /\ r.snap = b
  BY <1>1, <1>2, <1>10 DEF Run, PCs, Thens, SameLists
<1>13. ControlOK(r)
  BY <1>12 DEF ControlOK
<1>14. RunOK(r) /\ (~returned => VisitedOnce(r))
  BY <1>1, <1>12, <1>13, SameListsFacts
<1>15. rewound' \in BOOLEAN
  BY <1>1, <1>9 DEF OthersOK
<1>16. OthersOK'
  BY <1>1, <1>15 DEF RestoreCounter, OthersOK, world
<1>17. mem' \in PocketState /\ IsFiniteSet(mem'.keys) /\ SameStore(mem, mem') /\ mem'.next = next
  BY <1>1, <1>8, <1>9 DEF PocketState, SameStore
<1>18. UNCHANGED <<up, disk, overlapped, returned, backups, durable>>
  BY DEF RestoreCounter, world
<1>19. CASE next < mem.next
  <2>1. /\ run' \in [Slots -> Run] /\ disk' \in PocketState
        /\ CopiesOK' /\ RunsOK' /\ IndexAgrees' /\ KeptOK'
    <3>1. r.pc # "indexing" /\ run[s].pc # "indexing" /\ up' = up /\ disk' = disk
      BY <1>1, <1>12, <1>18
    <3>2. UNCHANGED <<overlapped, returned, backups>>
      BY <1>18
    <3> QED
      BY <1>1, <1>11, <1>12, <1>14, <1>17, <3>1, <3>2, PlainStep
  <2>2. KeysOK'
    BY <1>9, <1>19 DEF KeysOK
  <2>3. TypeOK'
    BY <1>16, <1>17, <2>1 DEF TypeOK, OthersOK
  <2> QED
    BY <2>1, <2>2, <2>3 DEF IInv
<1>20. CASE ~(next < mem.next)
  <2>1. MemoryTo(mem')
    BY <1>1, <1>8, <1>17, <1>20 DEF MemoryTo
  <2>2. rewound' = rewound
    BY <1>1, <1>9, <1>20 DEF OthersOK
  <2>3. ASSUME ~rewound
        PROVE  RunKeysOK(r, mem'.next)
    <3>1. RunKeysOK(run[s], mem.next)
      BY <2>3, RunFacts
    <3>2. Ahead({r.addr}, mem.next) /\ Ahead(b.keys, d)
      BY <1>1, <1>2, <1>4, <1>12, <3>1 DEF RunKeysOK
    <3>3. {r.addr} \subseteq Address /\ b.keys \subseteq Address
      BY <1>1, <1>2, <1>12 DEF Run, Snapshot, Address
    <3>4. mem.next <= next /\ d <= next
      BY <1>1, <1>7, <1>8, <1>20
    <3>5. Ahead({r.addr}, next)
      BY <1>1, <1>8, <3>2, <3>3, <3>4, AheadGrows
    <3>6. Ahead(b.keys, next)
      BY <1>8, <3>2, <3>3, <3>4, AheadGrows
    <3> QED
      BY <1>12, <1>17, <3>5, <3>6 DEF RunKeysOK
  <2>4. RunTo(s, r)
    BY <1>1, <1>11, <1>12, <1>14, <2>3 DEF RunTo
  <2>5. Calm
    BY <1>1, <1>18, <2>2 DEF Calm
  <2> QED
    BY <1>16, <2>1, <2>4, <2>5, RunStep
<1> QED
  BY <1>19, <1>20

LEMMA ToIdle ==
    ASSUME IInv, NEW s \in Slots, run' = [run EXCEPT ![s] = Idle], run[s].pc # "indexing"
    PROVE  RunTo(s, Idle)
<1>1. /\ Idle \in Run /\ Idle.pc = "idle" /\ Idle.addr = Main
      /\ ControlOK(Idle) /\ NoLists(Idle) /\ IsFiniteSet(Idle.snap.keys)
  BY IdleFacts
<1>2. RunOK(Idle) /\ VisitedOnce(Idle)
  BY <1>1, NoListsFacts
<1>3. RunKeysOK(Idle, mem'.next)
  BY <1>1 DEF RunKeysOK, Ahead
<1> QED
  BY <1>1, <1>2, <1>3 DEF RunTo

LEMMA SettleStep ==
    ASSUME IInv, NEW s \in Slots, Settle(s)
    PROVE  IInv'
<1>1. OthersOK /\ run[s].pc = "waiting" /\ run' = [run EXCEPT ![s] = Idle]
  BY RunFacts DEF Settle, At
<1>2. OthersOK'
  BY <1>1 DEF Settle, OthersOK, world, history
<1>3. RunTo(s, Idle)
  BY <1>1, ToIdle
<1>4. MemoryTo(mem')
  BY SameMemory DEF Settle
<1>5. Calm
  BY DEF Settle, At, Calm, world, history
<1> QED
  BY <1>2, <1>3, <1>4, <1>5, RunStep

LEMMA SelectionFacts ==
    ASSUME NEW amount \in Nat, NEW S \in Selections(amount)
    PROVE  S = {} \/ S \in SUBSET mem.index
  BY DEF Selections

LEMMA BuildStep ==
    ASSUME IInv, NEW s \in Slots, Build(s)
    PROVE  IInv'
<1>1. /\ OthersOK /\ run[s] \in Run /\ RunOK(run[s]) /\ (~returned => VisitedOnce(run[s]))
      /\ run[s].pc = "building" /\ run \in [Slots -> Run] /\ mem \in PocketState /\ CopiesOK
  BY RunFacts DEF Build, At
<1>2. PICK S \in Selections(run[s].amount) :
         run' = [run EXCEPT ![s] = IF mem.index # {} /\ Listed(S) \subseteq ToSet(mem.tokens)
                                   THEN [run[s] EXCEPT !.pc = "witnessing", !.ins = S]
                                   ELSE Idle]
  BY DEF Build
<1>3. S \in SUBSET Entry /\ IsFiniteSet(S)
  <2>1. run[s].amount \in Nat
    BY <1>1 DEF Run
  <2>2. S = {} \/ S \in SUBSET mem.index
    BY <2>1, SelectionFacts
  <2>3. mem.index \in SUBSET Entry /\ IsFiniteSet(mem.index)
    BY <1>1 DEF PocketState, CopiesOK
  <2> QED
    BY <2>2, <2>3, FS_Subset, FS_EmptySet
<1>4. OthersOK'
  BY <1>1 DEF Build, OthersOK, wallet, world, history
<1>5. MemoryTo(mem')
  BY SameMemory DEF Build, wallet
<1>6. Calm
  BY DEF Build, At, Calm, wallet, world, history
<1>7. CASE run' = [run EXCEPT ![s] = Idle]
  <2>1. RunTo(s, Idle)
    BY <1>1, <1>7, ToIdle
  <2> QED
    BY <1>4, <1>5, <1>6, <2>1, RunStep
<1>8. CASE run' = [run EXCEPT ![s] = [run[s] EXCEPT !.pc = "witnessing", !.ins = S]]
  <2>1. PICK r : r = [run[s] EXCEPT !.pc = "witnessing", !.ins = S]
    OBVIOUS
  <2>2. /\ r \in Run /\ r.pc = "witnessing" /\ r.then = run[s].then /\ r.addr = run[s].addr
        /\ r.canon = run[s].canon /\ r.todo = run[s].todo /\ r.listed = run[s].listed
        /\ r.snap = run[s].snap /\ r.ins = S
    BY <1>1, <1>3, <2>1 DEF Run, PCs
  <2>3. RunOK(r) /\ (~returned => VisitedOnce(r))
    BY <1>1, <1>3, <2>2 DEF RunOK, ControlOK, VisitedOnce
  <2>4. ASSUME ~rewound
        PROVE  RunKeysOK(r, mem'.next)
    <3>1. RunKeysOK(run[s], mem.next) /\ mem' = mem
      BY <2>4, RunFacts DEF Build, wallet
    <3> QED
      BY <2>2, <3>1 DEF RunKeysOK
  <2>5. RunTo(s, r)
    BY <1>1, <1>8, <2>1, <2>2, <2>3, <2>4 DEF RunTo
  <2> QED
    BY <1>4, <1>5, <1>6, <2>5, RunStep
<1> QED
  BY <1>2, <1>7, <1>8

LEMMA ChangeType ==
    ASSUME NEW S \in SUBSET Entry, IsFiniteSet(S), NEW amount \in Nat
    PROVE  Change(S, amount) \in Int
<1>1. Value(S) \in Nat
  BY ValueNatural
<1> QED
  BY <1>1 DEF Change

LEMMA WitnessStep ==
    ASSUME IInv, NEW s \in Slots, Witness(s)
    PROVE  IInv'
<1>1. /\ OthersOK /\ run[s] \in Run /\ RunOK(run[s])
      /\ run[s].pc = "witnessing" /\ run \in [Slots -> Run]
      /\ mem.keys \in SUBSET SingleUse /\ IsFiniteSet(mem.keys) /\ mem.next \in Nat
  BY RunFacts DEF Witness, At
<1>2. PICK q \in Run : q = run[s]
  BY <1>1
<1>3. q.ins \in SUBSET Entry /\ IsFiniteSet(q.ins) /\ q.amount \in Nat /\ q.addr \in Address
  BY <1>1, <1>2 DEF RunOK, Run
<1>4. PICK locks : locks = {e.tok.lock : e \in q.ins}
  OBVIOUS
<1>5. locks \in SUBSET Address /\ IsFiniteSet(locks)
  BY <1>3, <1>4, EntryFacts
<1>6. PICK c \in Nat : c = Len(requests) + 1
  BY <1>1, LenProperties DEF OthersOK
<1>7. PICK u : u = [ins |-> q.ins, amount |-> q.amount, answered |-> FALSE,
                    change |-> Change(q.ins, q.amount), to |-> q.addr]
  OBVIOUS
<1>8. u \in Request
  BY <1>3, <1>7, ChangeType DEF Request
<1>9. Calm
  BY DEF Witness, At, Calm, history
<1>10. CASE /\ mem' = [mem EXCEPT !.keys = Recovered(locks)]
            /\ SaveThen(s, "witnessing") /\ UNCHANGED <<requests, pending>>
  <2>1. Recovered(locks) \in SUBSET SingleUse /\ IsFiniteSet(Recovered(locks))
    BY <1>1, <1>5, RecoveredFacts
  <2>2. MemoryTo(mem')
    <3>1. mem.next >= mem.next
      BY <1>1
    <3> QED
      BY <1>1, <1>10, <2>1, <3>1, KeysMemory
  <2>3. PICK r : r = [run[s] EXCEPT !.pc = "saving", !.then = "witnessing"]
    OBVIOUS
  <2>4. run' = [run EXCEPT ![s] = r]
    BY <1>1, <1>10, <2>3 DEF SaveThen
  <2>5. /\ r \in Run /\ SameLists(run[s], r) /\ r.addr = run[s].addr /\ r.pc = "saving"
        /\ r.then = "witnessing"
    BY <1>1, <2>3 DEF Run, PCs, Thens, SameLists
  <2>6. ControlOK(r) /\ Free(r)
    BY <2>5 DEF ControlOK, Free
  <2>7. RunTo(s, r)
    BY <1>1, <2>2, <2>4, <2>5, <2>6, Moved
  <2>8. OthersOK'
    BY <1>1, <1>10 DEF Witness, OthersOK, history
  <2> QED
    BY <1>9, <2>2, <2>7, <2>8, RunStep
<1>11. CASE run' = [run EXCEPT ![s] = Idle] /\ UNCHANGED <<mem, requests, pending>>
  <2>1. RunTo(s, Idle)
    BY <1>1, <1>11, ToIdle
  <2>2. MemoryTo(mem')
    BY <1>11, SameMemory
  <2>3. OthersOK'
    BY <1>1, <1>11 DEF Witness, OthersOK, history
  <2> QED
    BY <1>9, <2>1, <2>2, <2>3, RunStep
<1>12. CASE /\ requests' = Append(requests, u) /\ pending' = pending \cup {c}
            /\ run' = [run EXCEPT ![s].pc = "waiting", ![s].call = c]
            /\ UNCHANGED mem
  <2>1. requests' \in Seq(Request) /\ pending' \subseteq Nat
    BY <1>1, <1>6, <1>8, <1>12, AppendProperties DEF OthersOK
  <2>2. OthersOK'
    BY <1>1, <2>1 DEF Witness, OthersOK, history
  <2>3. MemoryTo(mem')
    BY <1>12, SameMemory
  <2>4. PICK r : r = [run[s] EXCEPT !.pc = "waiting", !.call = c]
    OBVIOUS
  <2>5. run' = [run EXCEPT ![s] = r]
    BY <1>1, <1>12, <2>4
  <2>6. /\ r \in Run /\ SameLists(run[s], r) /\ r.addr = run[s].addr /\ r.pc = "waiting"
        /\ r.then = run[s].then
    BY <1>1, <1>6, <2>4 DEF Run, PCs, SameLists
  <2>7. ControlOK(r) /\ Free(r)
    BY <1>1, <2>6 DEF ControlOK, Free, RunOK
  <2>8. RunTo(s, r)
    BY <1>1, <2>3, <2>5, <2>6, <2>7, Moved
  <2> QED
    BY <1>9, <2>2, <2>3, <2>8, RunStep
<1> QED
  BY <1>2, <1>4, <1>6, <1>7, <1>10, <1>11, <1>12 DEF Witness

(* The save that hands keys out makes them durable if it lands.            *)
LEMMA SavedStep ==
    ASSUME IInv, NEW s \in Slots, NEW landed \in BOOLEAN, Saved(s, landed)
    PROVE  IInv'
<1>1. /\ OthersOK /\ run[s] \in Run /\ RunOK(run[s]) /\ (~returned => VisitedOnce(run[s]))
      /\ run[s].pc = "saving" /\ run \in [Slots -> Run] /\ up
      /\ mem \in PocketState /\ IsFiniteSet(mem.keys) /\ mem.next \in Nat
  BY RunFacts DEF Saved, At
<1>2. PICK q \in Run : q = run[s]
  BY <1>1
<1>3. PICK given :
         /\ given = CASE q.then \in {"handing", "building"} -> {q.addr}
                      [] q.then = "restored" -> q.snap.keys
                      [] OTHER -> {}
         /\ handed' = IF q.then = "handing" THEN handed \cup given ELSE handed
         /\ durable' = IF landed THEN durable \cup given ELSE durable
  BY <1>2 DEF Saved
<1>4. given \subseteq SingleUse
  BY <1>1, <1>2, <1>3 DEF RunOK, ControlOK, Run, Snapshot, Address
<1>5. disk' = disk \/ disk' = mem
  BY DEF Saved
<1>6. left' \in [Ops -> Nat]
  <2>1. CASE landed
    BY <1>1, <2>1 DEF Saved, OthersOK
  <2>2. CASE ~landed
    BY <1>1, <2>2, TakeType DEF Saved, Ops
  <2> QED
    BY <2>1, <2>2
<1>7. OthersOK'
  <2>1. handed' \subseteq SingleUse /\ durable' \subseteq SingleUse
    BY <1>1, <1>3, <1>4 DEF OthersOK
  <2>2. oneShot' \subseteq listening' /\ listening' \subseteq Address
    BY <1>1 DEF Saved, OthersOK
  <2> QED
    BY <1>1, <1>6, <2>1, <2>2 DEF Saved, OthersOK
<1>8. PICK r \in Run :
         /\ run' = [run EXCEPT ![s] = r] /\ r.pc \notin {"indexing", "saving", "rekeying"}
         /\ RunOK(r) /\ (~returned => VisitedOnce(r)) /\ (r = Idle \/ r.addr = q.addr)
  <2>1. CASE q.then \in {"idle", "handing", "restored"}
    <3>1. run' = [run EXCEPT ![s] = Idle]
      BY <1>2, <2>1 DEF Saved
    <3>2. Idle \in Run /\ Idle.pc = "idle" /\ RunOK(Idle) /\ VisitedOnce(Idle)
      BY IdleFacts, NoListsFacts
    <3> QED
      BY <3>1, <3>2
  <2>2. CASE q.then \notin {"idle", "handing", "restored"}
    <3>1. q.then \in {"replying", "building", "witnessing"}
      BY <2>2 DEF Run, Thens
    <3>2. PICK r : r = [q EXCEPT !.pc = q.then]
      OBVIOUS
    <3>3. run' = [run EXCEPT ![s] = r]
      BY <1>2, <2>2, <3>2 DEF Saved
    <3>4. /\ r \in Run /\ SameLists(q, r) /\ r.addr = q.addr /\ r.pc = q.then
          /\ r.then = q.then
      BY <3>1, <3>2 DEF Run, PCs, SameLists
    <3>5. ControlOK(r)
      BY <1>1, <1>2, <3>1, <3>4 DEF ControlOK, RunOK
    <3>6. RunOK(r) /\ (~returned => VisitedOnce(r))
      BY <1>1, <1>2, <3>4, <3>5, SameListsFacts
    <3> QED
      BY <3>1, <3>3, <3>4, <3>6
  <2> QED
    BY <2>1, <2>2
<1>9. /\ run' \in [Slots -> Run] /\ disk' \in PocketState
      /\ CopiesOK' /\ RunsOK' /\ IndexAgrees' /\ KeptOK'
  <2>1. mem' \in PocketState /\ IsFiniteSet(mem'.keys) /\ SameStore(mem, mem')
    BY <1>1 DEF Saved, SameStore
  <2>2. UNCHANGED <<up, overlapped, returned, backups>>
    BY DEF Saved
  <2>3. run[s].pc # "indexing" /\ r.pc # "indexing"
    BY <1>1, <1>8
  <2>4. up' = up
    BY <2>2
  <2>5. UNCHANGED <<overlapped, returned, backups>>
    BY <2>2
  <2> QED
    BY <1>1, <1>5, <1>8, <2>1, <2>3, <2>4, <2>5, PlainStep
<1>10. KeysOK'
  <2> SUFFICES ASSUME ~rewound
               PROVE  KeysOK'
    BY DEF Saved, KeysOK
  <2>1. /\ Ahead(durable, disk.next) /\ Ahead(durable, mem.next)
        /\ \A o \in Slots : RunKeysOK(run[o], mem.next)
    BY <1>1 DEF IInv, KeysOK
  <2>2. Ahead(given, mem.next)
    <3>1. RunKeysOK(q, mem.next)
      BY <1>2, <2>1
    <3> QED
      BY <1>1, <1>2, <1>3, <3>1 DEF RunKeysOK, Ahead
  <2>3. Ahead(durable \cup given, mem.next)
    BY <2>1, <2>2 DEF Ahead
  <2>4. Ahead(durable', mem.next)
    BY <1>3, <2>1, <2>3
  <2>5. Ahead(durable', disk'.next)
    <3>1. CASE landed
      BY <2>4, <3>1 DEF Saved
    <3>2. CASE ~landed
      BY <1>3, <2>1, <3>2 DEF Saved
    <3> QED
      BY <3>1, <3>2
  <2>6. RunKeysOK(r, mem.next)
    <3>1. CASE r = Idle
      BY <3>1, IdleFacts DEF RunKeysOK, Ahead
    <3>2. CASE r.addr = q.addr
      BY <1>2, <1>8, <2>1, <3>2 DEF RunKeysOK
    <3> QED
      BY <1>8, <3>1, <3>2
  <2>7. \A o \in Slots : RunKeysOK(run'[o], mem.next)
    BY <1>1, <1>8, <2>1, <2>6
  <2> QED
    BY <2>4, <2>5, <2>7 DEF Saved, KeysOK
<1>11. TypeOK'
  BY <1>1, <1>7, <1>9 DEF TypeOK, OthersOK, Saved
<1> QED
  BY <1>9, <1>10, <1>11 DEF IInv

-----------------------------------------------------------------------------
(* What happens to a rebuild when the tokens change.                       *)
Follows(q, r) ==
    /\ r \in Run /\ r.addr = q.addr /\ r.snap = q.snap /\ r.top = q.top
    /\ r.pc = "rekeying" => q.pc = "rekeying"
    /\ r.pc = "saving" /\ r.then = "restored" => q.pc = "saving" /\ q.then = "restored"

LEMMA AddedFacts ==
    ASSUME NEW q \in Run, RunOK(q), NEW t \in Token
    PROVE  /\ Follows(q, Added(q, t)) /\ RunOK(Added(q, t)) /\ Added(q, t).pc = q.pc
           /\ VisitedOnce(q) /\ (q.pc = "indexing" /\ q.live => t \notin ToSet(q.canon \o q.todo))
                => VisitedOnce(Added(q, t))
<1>1. CASE ~(q.pc = "indexing" /\ q.live)
  BY <1>1 DEF Added, Follows
<1>2. CASE q.pc = "indexing" /\ q.live
  <2>1. q.canon \in Seq(Token) /\ q.todo \in Seq(Token)
    BY DEF Run
  <2>2. PICK todo : todo = Append(q.todo, t)
    OBVIOUS
  <2>3. todo \in Seq(Token) /\ todo # <<>>
    BY <2>1, <2>2, AppendSet
  <2>4. PICK r : r = [q EXCEPT !.todo = todo]
    OBVIOUS
  <2>5. Added(q, t) = r
    BY <1>2, <2>2, <2>4 DEF Added
  <2>6. /\ r \in Run /\ r.addr = q.addr /\ r.snap = q.snap /\ r.top = q.top /\ r.pc = q.pc
        /\ r.then = q.then /\ r.canon = q.canon /\ r.listed = q.listed /\ r.ins = q.ins
        /\ r.ev = q.ev /\ r.tok = q.tok /\ r.todo = todo
    BY <2>3, <2>4 DEF Run
  <2>7. Follows(q, r) /\ RunOK(r)
    BY <2>3, <2>6 DEF Follows, RunOK, ControlOK
  <2>8. ASSUME VisitedOnce(q), t \notin ToSet(q.canon \o q.todo)
        PROVE  VisitedOnce(r)
    <3>1. PICK a \in Seq(Token), b \in Seq(Token) : a = q.canon /\ b = q.todo
      BY <2>1
    <3>2. PICK l \in Seq(Token) : l = a \o b
      BY ConcatSet
    <3>3. a \o Append(b, t) = Append(l, t)
      BY <3>2, AppendedTodo
    <3>4. IsInjective(l) /\ t \notin ToSet(l)
      BY <2>8, <3>1, <3>2 DEF VisitedOnce
    <3>5. IsInjective(Append(l, t))
      BY <3>4, AppendSet
    <3>6. IsInjective(q.canon \o todo)
      BY <2>2, <3>1, <3>3, <3>5
    <3> QED
      BY <2>6, <2>8, <3>6 DEF VisitedOnce
  <2> QED
    BY <1>2, <2>5, <2>6, <2>7, <2>8
<1> QED
  BY <1>1, <1>2

LEMMA DeletedFacts ==
    ASSUME NEW q \in Run, RunOK(q), NEW t
    PROVE  /\ Follows(q, Deleted(q, t)) /\ RunOK(Deleted(q, t)) /\ Deleted(q, t).pc = q.pc
           /\ VisitedOnce(q) => VisitedOnce(Deleted(q, t))
<1>1. CASE ~(q.pc = "indexing" /\ q.live)
  BY <1>1 DEF Deleted, Follows
<1>2. CASE q.pc = "indexing" /\ q.live
  <2>1. q.canon \in Seq(Token) /\ q.todo \in Seq(Token) /\ q.todo # <<>>
    BY <1>2 DEF Run, RunOK, ControlOK
  <2>2. /\ Head(q.todo) \in Token /\ Tail(q.todo) \in Seq(Token)
        /\ q.todo = <<Head(q.todo)>> \o Tail(q.todo)
    BY <2>1, MovedHead
  <2>3. PICK h \in Seq(Token) : h = <<Head(q.todo)>> /\ h # <<>>
    BY <2>2, SingletonSet
  <2>4. PICK b \in Seq(Token) : b = Tail(q.todo)
    BY <2>2
  <2>5. PICK c : c = Without(b, t)
    OBVIOUS
  <2>6. /\ c \in Seq(Token) /\ ToSet(c) \subseteq ToSet(b)
        /\ IsInjective(b) => IsInjective(c)
    BY <2>4, <2>5, WithoutFacts
  <2>7. h \o c \in Seq(Token) /\ h \o c # <<>> /\ q.todo = h \o b
    BY <2>2, <2>3, <2>4, <2>6, ConcatSet, ConcatEqualIffEmpty
  <2>8. PICK r : r = [q EXCEPT !.todo = h \o c]
    OBVIOUS
  <2>9. Deleted(q, t) = r
    BY <1>2, <2>3, <2>4, <2>5, <2>8 DEF Deleted
  <2>10. /\ r \in Run /\ r.addr = q.addr /\ r.snap = q.snap /\ r.top = q.top /\ r.pc = q.pc
         /\ r.then = q.then /\ r.canon = q.canon /\ r.listed = q.listed /\ r.ins = q.ins
         /\ r.ev = q.ev /\ r.tok = q.tok /\ r.todo = h \o c
    BY <2>7, <2>8 DEF Run
  <2>11. Follows(q, r) /\ RunOK(r)
    BY <2>7, <2>10 DEF Follows, RunOK, ControlOK
  <2>12. ASSUME VisitedOnce(q)
         PROVE  VisitedOnce(r)
    <3>1. PICK a \in Seq(Token) : a = q.canon \o h
      BY <2>1, <2>3, ConcatSet
    <3>2. q.canon \o (h \o b) = a \o b /\ q.canon \o (h \o c) = a \o c
      <4>1. PICK p \in Seq(Token) : p = q.canon
        BY <2>1
      <4>2. (p \o h) \o b = p \o (h \o b)
        BY ConcatAssociative, SMTT(60)
      <4>3. (p \o h) \o c = p \o (h \o c)
        BY <2>6, ConcatAssociative, SMTT(60)
      <4> QED
        BY <3>1, <4>1, <4>2, <4>3
    <3>3. IsInjective(a \o b)
      BY <2>7, <2>12, <3>2 DEF VisitedOnce
    <3>4. IsInjective(a) /\ IsInjective(b) /\ ToSet(a) \cap ToSet(b) = {}
      BY <2>4, <3>1, <3>3, ConcatSet
    <3>5. IsInjective(c) /\ ToSet(a) \cap ToSet(c) = {}
      BY <2>6, <3>4
    <3>6. IsInjective(a \o c)
      BY <2>6, <3>1, <3>4, <3>5, ConcatSet
    <3> QED
      BY <2>10, <2>12, <3>2, <3>6 DEF VisitedOnce
  <2> QED
    BY <2>9, <2>10, <2>11, <2>12
<1> QED
  BY <1>1, <1>2

LEMMA DetachedFacts ==
    ASSUME NEW q \in Run, RunOK(q)
    PROVE  /\ Follows(q, Detached(q)) /\ RunOK(Detached(q)) /\ Detached(q).pc = q.pc
           /\ Detached(q).canon = q.canon /\ Detached(q).todo = q.todo
           /\ VisitedOnce(q) => VisitedOnce(Detached(q))
<1>1. PICK r : r = [q EXCEPT !.live = FALSE]
  OBVIOUS
<1>2. /\ r \in Run /\ r.addr = q.addr /\ r.snap = q.snap /\ r.top = q.top /\ r.pc = q.pc
      /\ r.then = q.then /\ r.canon = q.canon /\ r.listed = q.listed /\ r.ins = q.ins
      /\ r.ev = q.ev /\ r.tok = q.tok /\ r.todo = q.todo
  BY <1>1 DEF Run
<1> QED
  BY <1>1, <1>2 DEF Detached, Follows, RunOK, ControlOK, VisitedOnce

LEMMA IteratingFacts ==
    ASSUME NEW q \in Run, RunOK(q), q.then \in {"idle", "replying"},
           NEW tokens \in Seq(Token), tokens # <<>>, IsInjective(tokens)
    PROVE  /\ Follows(q, Iterating(q, tokens)) /\ RunOK(Iterating(q, tokens))
           /\ VisitedOnce(Iterating(q, tokens)) /\ Iterating(q, tokens).pc = "indexing"
           /\ Iterating(q, tokens).canon \o Iterating(q, tokens).todo = tokens
<1>1. PICK r : r = Iterating(q, tokens)
  OBVIOUS
<1>2. /\ r \in Run /\ r.addr = q.addr /\ r.snap = q.snap /\ r.top = q.top /\ r.pc = "indexing"
      /\ r.then = q.then /\ r.canon = <<>> /\ r.listed = {} /\ r.ins = q.ins
      /\ r.ev = q.ev /\ r.tok = q.tok /\ r.todo = tokens
  <2>1. <<>> \in Seq(Token)
    BY EmptySeq
  <2> QED
    BY <1>1, <2>1 DEF Run, PCs, Iterating
<1>3. Listed({}) = {} /\ Once({}) = {} /\ IsFiniteSet({}) /\ ToSet(<<>>) = {} /\ IsInjective(<<>>)
  BY NoneListed, ToSetOfNone
<1>4. <<>> \o tokens = tokens
  BY ConcatEmptySeq
<1>5. Follows(q, r) /\ RunOK(r) /\ VisitedOnce(r)
  BY <1>2, <1>3, <1>4 DEF Follows, RunOK, ControlOK, VisitedOnce
<1> QED
  BY <1>1, <1>2, <1>4, <1>5

LEMMA IndexedFacts ==
    ASSUME NEW q \in Run, RunOK(q), q.then \in {"idle", "replying"}
    PROVE  /\ Follows(q, Indexed(q)) /\ RunOK(Indexed(q))
           /\ VisitedOnce(Indexed(q)) /\ Indexed(q).pc = "saving"
<1>1. PICK r : r = Indexed(q)
  OBVIOUS
<1>2. /\ r \in Run /\ r.addr = q.addr /\ r.snap = q.snap /\ r.top = q.top /\ r.pc = "saving"
      /\ r.then = q.then /\ r.canon = <<>> /\ r.listed = {} /\ r.ins = q.ins
      /\ r.ev = q.ev /\ r.tok = q.tok /\ r.todo = <<>>
  <2>1. <<>> \in Seq(Token)
    BY EmptySeq
  <2> QED
    BY <1>1, <2>1 DEF Run, PCs, Indexed
<1>3. Listed({}) = {} /\ Once({}) = {} /\ IsFiniteSet({}) /\ ToSet(<<>>) = {} /\ IsInjective(<<>>)
  BY NoneListed, ToSetOfNone
<1>4. <<>> \o <<>> = <<>>
  BY ConcatEmptySeq, EmptySeq
<1>5. Follows(q, r) /\ RunOK(r) /\ VisitedOnce(r)
  BY <1>2, <1>3, <1>4 DEF Follows, RunOK, ControlOK, VisitedOnce
<1> QED
  BY <1>1, <1>2, <1>5

(* One entry is restored: it is in the new Map, once.                      *)
SameRest(q, r) ==
    /\ r.addr = q.addr /\ r.snap = q.snap /\ r.top = q.top /\ r.pc = q.pc /\ r.then = q.then
    /\ r.ins = q.ins /\ r.ev = q.ev /\ r.tok = q.tok /\ r.todo = q.todo

LEMMA VisitFacts ==
    ASSUME NEW q \in Run, RunOK(q), q.pc = "indexing"
    PROVE  \E r \in Run :
              /\ r = Visit(q) /\ SameRest(q, r) /\ IsInjective(r.canon)
              /\ Listed(r.listed) = ToSet(r.canon) /\ IsFiniteSet(r.listed)
              /\ VisitedOnce(q) => r.listed = Once(ToSet(r.canon))
              /\ IsInjective(q.canon \o q.todo) =>
                    /\ r.canon = Append(q.canon, Head(q.todo))
                    /\ r.canon \o Tail(q.todo) = q.canon \o q.todo
<1>1. /\ q.canon \in Seq(Token) /\ q.todo \in Seq(Token) /\ q.todo # <<>>
      /\ q.listed \in SUBSET Entry /\ IsFiniteSet(q.listed) /\ IsInjective(q.canon)
      /\ Listed(q.listed) = ToSet(q.canon)
  BY DEF Run, RunOK, ControlOK
<1>2. PICK p \in Seq(Token), d \in Seq(Token) : p = q.canon /\ d = q.todo
  BY <1>1
<1>3. /\ Head(d) \in Token /\ Tail(d) \in Seq(Token)
      /\ Append(p, Head(d)) \o Tail(d) = p \o d
  <2>1. d # <<>>
    BY <1>1, <1>2
  <2> QED
    BY <2>1, MovedHead
<1>4. PICK t \in Token : t = Head(d)
  BY <1>3
<1>5. PICK seen : seen = {e \in q.listed : e.tok = t}
  OBVIOUS
<1>6. seen \subseteq q.listed /\ Cardinality(seen) \in Nat
  BY <1>1, <1>5, FS_Subset, FS_CardinalityType
<1>7. PICK visit \in Nat \ {0} : visit = 1 + Cardinality(seen)
  BY <1>6
<1>8. PICK canon : canon = IF t \in ToSet(p) THEN p ELSE Append(p, t)
  OBVIOUS
<1>9. canon \in Seq(Token) /\ IsInjective(canon) /\ ToSet(canon) = ToSet(p) \cup {t}
  <2>1. CASE t \in ToSet(p)
    BY <1>1, <1>2, <1>8, <2>1
  <2>2. CASE t \notin ToSet(p)
    <3>1. canon = Append(p, t)
      BY <1>8, <2>2
    <3>2. /\ Append(p, t) \in Seq(Token) /\ ToSet(Append(p, t)) = ToSet(p) \cup {t}
          /\ IsInjective(Append(p, t)) <=> IsInjective(p) /\ t \notin ToSet(p)
      BY AppendSet
    <3> QED
      BY <1>1, <1>2, <2>2, <3>1, <3>2
  <2> QED
    BY <2>1, <2>2
<1>10. PICK n : n = [tok |-> t, visit |-> visit]
  OBVIOUS
<1>11. n \in Entry /\ n.tok = t
  BY <1>10 DEF Entry
<1>12. PICK listed : listed = q.listed \cup {n}
  OBVIOUS
<1>13. listed \in SUBSET Entry /\ IsFiniteSet(listed) /\ Listed(listed) = Listed(q.listed) \cup {t}
  <2>1. IsFiniteSet(listed)
    BY <1>1, <1>12, FS_AddElement
  <2> QED
    BY <1>1, <1>11, <1>12, <2>1 DEF Listed
<1>14. PICK r : r = [q EXCEPT !.canon = canon, !.listed = listed]
  OBVIOUS
<1>15. r = Visit(q)
  <2>1. Visit(q) = [q EXCEPT !.canon = canon, !.listed = listed]
    BY <1>2, <1>4, <1>5, <1>7, <1>8, <1>10, <1>12 DEF Visit
  <2> QED
    BY <1>14, <2>1
<1>16. r \in Run /\ SameRest(q, r) /\ r.canon = canon /\ r.listed = listed
  BY <1>9, <1>13, <1>14 DEF Run, SameRest
<1>17. ASSUME IsInjective(q.canon \o q.todo)
       PROVE  /\ canon = Append(p, t) /\ canon \o Tail(q.todo) = q.canon \o q.todo
              /\ t \notin ToSet(p)
  <2>1. IsInjective(p \o d)
    BY <1>2, <1>17
  <2>2. PICK a \in Seq(Token) : a = Append(p, t)
    BY AppendSet
  <2>3. PICK b \in Seq(Token) : b = Tail(d)
    BY <1>3
  <2>4. a \o b = p \o d
    BY <1>3, <1>4, <2>2, <2>3
  <2>5. IsInjective(a)
    BY <2>1, <2>4, ConcatSet
  <2>6. t \notin ToSet(p)
    BY <2>2, <2>5, AppendSet
  <2>7. canon = a
    BY <1>8, <2>2, <2>6
  <2> QED
    BY <1>2, <2>2, <2>3, <2>4, <2>6, <2>7
<1>18. ASSUME VisitedOnce(q)
       PROVE  listed = Once(ToSet(canon))
  <2>1. q.listed = Once(ToSet(p)) /\ t \notin ToSet(p)
    BY <1>2, <1>17, <1>18 DEF VisitedOnce
  <2>2. seen = {}
    BY <1>5, <2>1 DEF Once
  <2>3. visit = 1
    BY <1>7, <2>2, FS_EmptySet
  <2>4. listed = Once(ToSet(p) \cup {t})
    BY <1>10, <1>12, <2>1, <2>3 DEF Once
  <2> QED
    BY <1>9, <2>4
<1>19. Listed(r.listed) = ToSet(r.canon) /\ IsInjective(r.canon) /\ IsFiniteSet(r.listed)
  BY <1>1, <1>2, <1>9, <1>13, <1>16
<1>20. VisitedOnce(q) => r.listed = Once(ToSet(r.canon))
  BY <1>16, <1>18
<1>21. IsInjective(q.canon \o q.todo) =>
          /\ r.canon = Append(q.canon, Head(q.todo))
          /\ r.canon \o Tail(q.todo) = q.canon \o q.todo
  BY <1>2, <1>4, <1>16, <1>17
<1> QED
  BY <1>15, <1>16, <1>19, <1>20, <1>21

(* A step that changes the tokens or lists them anew.                      *)
RunsTo ==
    /\ run' \in [Slots -> Run]
    /\ \A o \in Slots : /\ RunOK(run'[o]) /\ Follows(run[o], run'[o])
                        /\ ~returned' => VisitedOnce(run'[o])
TokensTo(m) ==
    /\ m \in PocketState /\ m.keys = mem.keys /\ m.next = mem.next
    /\ IsInjective(m.tokens) /\ IsFiniteSet(m.index)

LEMMA ListsStep ==
    ASSUME IInv, up, UNCHANGED <<up, disk, backups, durable, rewound>>, OthersOK',
           RunsTo, TokensTo(mem'), IndexAgrees', KeptOK'
    PROVE  IInv'
<1>1. TypeOK'
  BY DEF IInv, TypeOK, OthersOK, RunsTo, TokensTo
<1>2. CopiesOK'
  BY DEF IInv, CopiesOK, CopyOK, TokensTo
<1>3. RunsOK'
  BY DEF RunsTo, RunsOK
<1>4. KeysOK'
  <2> SUFFICES ASSUME ~rewound
               PROVE  KeysOK'
    BY DEF KeysOK
  <2>1. /\ Ahead(durable, disk.next) /\ Ahead(durable, mem.next)
        /\ \A o \in Slots : RunKeysOK(run[o], mem.next)
    BY DEF IInv, KeysOK
  <2>2. \A o \in Slots : RunKeysOK(run'[o], mem.next)
    <3> TAKE o \in Slots
    <3>1. RunKeysOK(run[o], mem.next) /\ Follows(run[o], run'[o])
      BY <2>1 DEF RunsTo
    <3> QED
      BY <3>1 DEF RunKeysOK, Follows
  <2> QED
    BY <2>1, <2>2 DEF KeysOK, TokensTo
<1> QED
  BY <1>1, <1>2, <1>3, <1>4 DEF IInv

LEMMA StoreStep ==
    ASSUME IInv, NEW s \in Slots, Store(s)
    PROVE  IInv'
<1>1. /\ OthersOK /\ run[s] \in Run /\ RunOK(run[s]) /\ run[s].pc = "storing" /\ up
      /\ run \in [Slots -> Run] /\ mem \in PocketState
      /\ IsInjective(mem.tokens) /\ IsFiniteSet(mem.index)
  BY RunFacts DEF Store, At, CopiesOK, CopyOK
<1>2. run[s].then \in {"idle", "replying"} /\ run[s].tok \in Token
  BY <1>1 DEF RunOK, ControlOK, Run
<1>3. PICK t \in Token : t = run[s].tok
  BY <1>2
<1>4. CASE Held(t)
  <2>1. /\ run' = [run EXCEPT ![s].pc = run[s].then]
        /\ UNCHANGED <<mem, overlapped, returned>>
    BY <1>3, <1>4 DEF Store, Goto
  <2>2. PICK r : r = [run[s] EXCEPT !.pc = run[s].then]
    OBVIOUS
  <2>3. run' = [run EXCEPT ![s] = r]
    BY <1>1, <2>1, <2>2
  <2>4. /\ r \in Run /\ SameLists(run[s], r) /\ r.addr = run[s].addr /\ r.pc = run[s].then
        /\ r.then = run[s].then
    BY <1>1, <1>2, <2>2 DEF Run, PCs, SameLists
  <2>5. ControlOK(r) /\ Free(r)
    BY <1>1, <1>2, <2>4 DEF ControlOK, Free, RunOK
  <2>6. MemoryTo(mem')
    BY <2>1, SameMemory
  <2>7. RunTo(s, r)
    BY <1>1, <2>3, <2>4, <2>5, <2>6, Moved
  <2>8. Calm
    BY <1>1, <2>1 DEF Store, Calm, world
  <2>9. OthersOK'
    BY <1>1, <2>1 DEF Store, OthersOK, world
  <2> QED
    BY <2>6, <2>7, <2>8, <2>9, RunStep
<1>5. CASE ~Held(t)
  <2>1. PICK tokens \in Seq(Token) :
           /\ tokens = Append(mem.tokens, t) /\ tokens # <<>>
           /\ IsInjective(tokens) /\ ToSet(tokens) = ToSet(mem.tokens) \cup {t}
    <3>1. PICK m \in Seq(Token) : m = mem.tokens
      BY <1>1 DEF PocketState
    <3>2. t \notin ToSet(m) /\ IsInjective(m)
      BY <1>1, <1>5, <3>1 DEF Held
    <3> QED
      BY <3>1, <3>2, AppendSet
  <2>2. /\ mem' = [mem EXCEPT !.tokens = tokens, !.kept = @ \cup {t}]
        /\ run' = [o \in Slots |-> IF o = s THEN Iterating(run[s], tokens) ELSE Added(run[o], t)]
        /\ overlapped' = (overlapped \/ Overlaps(s))
        /\ returned' = (returned \/ Passed(s, t))
    BY <1>3, <1>5, <2>1 DEF Store
  <2>3. /\ mem' \in PocketState /\ mem'.tokens = tokens /\ mem'.index = mem.index
        /\ mem'.kept = mem.kept \cup {t} /\ mem'.keys = mem.keys /\ mem'.next = mem.next
    BY <1>1, <2>1, <2>2 DEF PocketState
  <2>4. TokensTo(mem')
    BY <1>1, <2>1, <2>3 DEF TokensTo
  <2>5. /\ Follows(run[s], run'[s]) /\ RunOK(run'[s]) /\ VisitedOnce(run'[s])
        /\ run'[s].pc = "indexing" /\ run'[s].canon \o run'[s].todo = tokens
    BY <1>1, <1>2, <2>1, <2>2, IteratingFacts
  <2>6. ASSUME NEW o \in Slots, o # s
        PROVE  /\ RunOK(run'[o]) /\ Follows(run[o], run'[o]) /\ run'[o].pc = run[o].pc
               /\ ~returned' => VisitedOnce(run'[o])
    <3>1. run'[o] = Added(run[o], t)
      BY <2>2, <2>6
    <3>2. run[o] \in Run /\ RunOK(run[o]) /\ (~returned => VisitedOnce(run[o]))
      BY RunFacts
    <3>3. /\ Follows(run[o], run'[o]) /\ RunOK(run'[o]) /\ run'[o].pc = run[o].pc
          /\ VisitedOnce(run[o])
             /\ (run[o].pc = "indexing" /\ run[o].live
                   => t \notin ToSet(run[o].canon \o run[o].todo))
                => VisitedOnce(run'[o])
      BY <3>1, <3>2, AddedFacts
    <3>4. ~returned' => /\ ~returned
                        /\ run[o].pc = "indexing" /\ run[o].live
                             => t \notin ToSet(run[o].canon \o run[o].todo)
      BY <2>2, <2>6 DEF Passed, Rebuilding
    <3> QED
      BY <3>2, <3>3, <3>4
  <2>7. RunsTo
    <3>1. \A o \in Slots : /\ RunOK(run'[o]) /\ Follows(run[o], run'[o])
                           /\ ~returned' => VisitedOnce(run'[o])
      BY <2>5, <2>6
    <3>2. run' \in [Slots -> Run]
      BY <2>2, <3>1 DEF Follows
    <3> QED
      BY <3>1, <3>2 DEF RunsTo
  <2>8. IndexAgrees'
    BY <2>5 DEF IndexAgrees, Settled, Rebuilding
  <2>9. KeptOK'
    <3> SUFFICES ASSUME ~overlapped'
                 PROVE  KeptOK'
      BY DEF KeptOK
    <3>1. ~overlapped /\ ~Overlaps(s)
      BY <2>2
    <3>2. ToSet(mem.tokens) = mem.kept /\ ToSet(disk.tokens) = disk.kept
      BY <3>1 DEF IInv, KeptOK
    <3>3. ToSet(tokens) = mem.kept \cup {t}
      BY <2>1, <3>2
    <3>4. \A o \in Slots \ {s} : run'[o].pc # "indexing"
      BY <2>6, <3>1 DEF Overlaps, Rebuilding
    <3>5. ~Overlaps(s)'
      BY <3>4 DEF Overlaps, Rebuilding
    <3>6. \A o \in Slots : Rebuilding(o)' => o = s
      BY <3>4 DEF Rebuilding
    <3>7. disk' = disk
      BY DEF Store
    <3> QED
      BY <2>3, <2>5, <3>2, <3>3, <3>5, <3>6, <3>7 DEF KeptOK
  <2>10. OthersOK'
    BY <1>1, <2>2 DEF Store, OthersOK, world, Overlaps, Passed
  <2>11. UNCHANGED <<up, disk, backups, durable, rewound>>
    BY DEF Store, world
  <2> QED
    BY <1>1, <2>4, <2>7, <2>8, <2>9, <2>10, <2>11, ListsStep
<1> QED
  BY <1>4, <1>5

(* A rebuild begins: over no tokens it is over before its first await.     *)
AsBefore(runs) ==
    \A o \in Slots : /\ Follows(run[o], runs[o]) /\ RunOK(runs[o]) /\ runs[o].pc = run[o].pc
                     /\ VisitedOnce(run[o]) => VisitedOnce(runs[o])

LEMMA StartRebuildFacts ==
    ASSUME IInv, NEW s \in Slots, run[s].then \in {"idle", "replying"}, returned' = returned,
           NEW tokens \in Seq(Token), IsInjective(tokens), NEW runs, AsBefore(runs),
           StartRebuild(s, tokens, runs)
    PROVE  /\ RunsTo /\ \A o \in Slots \ {s} : run'[o].pc = run[o].pc
           /\ tokens # <<>> => /\ run'[s].pc = "indexing"
                               /\ run'[s].canon \o run'[s].todo = tokens
           /\ tokens = <<>> => run'[s].pc = "saving"
<1>1. run' = [o \in Slots |->
                CASE o = s /\ tokens # <<>> -> Iterating(run[s], tokens)
                  [] o = s /\ tokens = <<>> -> Indexed(run[s])
                  [] o # s /\ tokens # <<>> -> runs[o]
                  [] OTHER                  -> Detached(runs[o])]
  BY DEF StartRebuild
<1>2. run[s] \in Run /\ RunOK(run[s])
  BY RunFacts
<1>3. CASE tokens # <<>>
  <2>1. run'[s] = Iterating(run[s], tokens) /\ \A o \in Slots \ {s} : run'[o] = runs[o]
    BY <1>1, <1>3
  <2>2. /\ Follows(run[s], run'[s]) /\ RunOK(run'[s]) /\ VisitedOnce(run'[s])
        /\ run'[s].pc = "indexing" /\ run'[s].canon \o run'[s].todo = tokens
    BY <1>2, <1>3, <2>1, IteratingFacts
  <2>3. \A o \in Slots : /\ RunOK(run'[o]) /\ Follows(run[o], run'[o])
                         /\ ~returned' => VisitedOnce(run'[o])
    <3> TAKE o \in Slots
    <3>1. ~returned => VisitedOnce(run[o])
      BY RunFacts
    <3> QED
      BY <2>1, <2>2, <3>1 DEF AsBefore
  <2>4. run' \in [Slots -> Run]
    BY <1>1, <2>3 DEF Follows
  <2> QED
    BY <1>3, <2>1, <2>2, <2>3, <2>4 DEF RunsTo, AsBefore
<1>4. CASE tokens = <<>>
  <2>1. run'[s] = Indexed(run[s]) /\ \A o \in Slots \ {s} : run'[o] = Detached(runs[o])
    BY <1>1, <1>4
  <2>2. /\ Follows(run[s], run'[s]) /\ RunOK(run'[s]) /\ VisitedOnce(run'[s])
        /\ run'[s].pc = "saving"
    BY <1>2, <2>1, IndexedFacts
  <2>3. ASSUME NEW o \in Slots \ {s}
        PROVE  /\ RunOK(run'[o]) /\ Follows(run[o], run'[o]) /\ run'[o].pc = run[o].pc
               /\ ~returned' => VisitedOnce(run'[o])
    <3>1. PICK q : q = runs[o]
      OBVIOUS
    <3>2. /\ q \in Run /\ RunOK(q) /\ Follows(run[o], q) /\ q.pc = run[o].pc
          /\ VisitedOnce(run[o]) => VisitedOnce(q)
      BY <2>3, <3>1 DEF AsBefore, Follows
    <3>3. /\ Follows(q, Detached(q)) /\ RunOK(Detached(q)) /\ Detached(q).pc = q.pc
          /\ VisitedOnce(q) => VisitedOnce(Detached(q))
      BY <3>2, DetachedFacts
    <3>4. run'[o] = Detached(q)
      BY <2>1, <3>1
    <3>5. ~returned => VisitedOnce(run[o])
      BY RunFacts
    <3>6. Follows(run[o], run'[o])
      BY <3>2, <3>3, <3>4 DEF Follows
    <3> QED
      BY <3>2, <3>3, <3>4, <3>5, <3>6
  <2>4. \A o \in Slots : /\ RunOK(run'[o]) /\ Follows(run[o], run'[o])
                         /\ ~returned' => VisitedOnce(run'[o])
    BY <2>2, <2>3
  <2>5. run' \in [Slots -> Run]
    BY <1>1, <2>4 DEF Follows
  <2> QED
    BY <1>4, <2>2, <2>3, <2>4, <2>5 DEF RunsTo
<1> QED
  BY <1>3, <1>4

StartedOn(tokens, kept) ==
    /\ mem' \in PocketState /\ mem'.tokens = tokens /\ mem'.index = IndexOf(tokens)
    /\ mem'.kept = kept /\ mem'.keys = mem.keys /\ mem'.next = mem.next
    /\ ToSet(mem.tokens) = mem.kept => ToSet(tokens) = kept

LEMMA StartedStep ==
    ASSUME IInv, NEW s \in Slots, run[s].then \in {"idle", "replying"}, up,
           NEW tokens \in Seq(Token), IsInjective(tokens), NEW runs, AsBefore(runs),
           StartRebuild(s, tokens, runs), NEW kept, StartedOn(tokens, kept),
           overlapped' = (overlapped \/ Overlaps(s)), OthersOK',
           UNCHANGED <<up, disk, backups, durable, returned, rewound>>
    PROVE  IInv'
<1>1. /\ RunsTo /\ \A o \in Slots \ {s} : run'[o].pc = run[o].pc
      /\ tokens # <<>> => /\ run'[s].pc = "indexing"
                          /\ run'[s].canon \o run'[s].todo = tokens
      /\ tokens = <<>> => run'[s].pc = "saving"
  <2>1. returned' = returned
    OBVIOUS
  <2> QED
    BY <2>1, StartRebuildFacts
<1>2. TokensTo(mem')
  <2>1. IsFiniteSet(mem.index) /\ IsFiniteSet({})
    BY FS_EmptySet DEF IInv, CopiesOK
  <2> QED
    BY <2>1 DEF StartedOn, TokensTo, IndexOf
<1>3. IndexAgrees'
  <2>1. CASE tokens = <<>>
    BY <2>1, NoneListed, ToSetOfNone DEF StartedOn, IndexOf, IndexAgrees
  <2>2. CASE tokens # <<>>
    BY <1>1, <2>2 DEF IndexAgrees, Settled, Rebuilding
  <2> QED
    BY <2>1, <2>2
<1>4. KeptOK'
  <2> SUFFICES ASSUME ~overlapped'
               PROVE  KeptOK'
    BY DEF KeptOK
  <2>1. ~overlapped /\ ~Overlaps(s)
    OBVIOUS
  <2>2. ToSet(tokens) = kept /\ ToSet(disk.tokens) = disk.kept
    BY <2>1 DEF IInv, KeptOK, StartedOn
  <2>3. \A o \in Slots \ {s} : run'[o].pc # "indexing"
    BY <1>1, <2>1 DEF Overlaps, Rebuilding
  <2>4. ~Overlaps(s)'
    BY <2>3 DEF Overlaps, Rebuilding
  <2>5. \A o \in Slots : Rebuilding(o)' => o = s /\ tokens # <<>>
    BY <1>1, <2>3 DEF Rebuilding
  <2> QED
    BY <1>1, <2>2, <2>4, <2>5 DEF KeptOK, StartedOn
<1> QED
  BY <1>1, <1>2, <1>3, <1>4, ListsStep

LEMMA DeleteStep ==
    ASSUME IInv, NEW s \in Slots, Delete(s)
    PROVE  IInv'
<1>1. /\ OthersOK /\ run[s] \in Run /\ RunOK(run[s]) /\ run[s].pc = "deleting" /\ up
      /\ mem \in PocketState /\ IsInjective(mem.tokens) /\ mem.tokens \in Seq(Token)
  BY RunFacts DEF Delete, At, CopiesOK, CopyOK, PocketState
<1>2. PICK t : t = run[s].tok
  OBVIOUS
<1>3. PICK tokens \in Seq(Token) :
         /\ tokens = Without(mem.tokens, t) /\ IsInjective(tokens)
         /\ ToSet(tokens) = ToSet(mem.tokens) \ {t}
  BY <1>1, WithoutFacts
<1>4. PICK runs : runs = [o \in Slots |-> Deleted(run[o], t)]
  OBVIOUS
<1>5. /\ mem' = [mem EXCEPT !.tokens = tokens, !.index = IndexOf(tokens), !.kept = @ \ {t}]
      /\ StartRebuild(s, tokens, runs) /\ overlapped' = (overlapped \/ Overlaps(s))
      /\ UNCHANGED <<up, disk, backups, durable, returned, rewound>>
  BY <1>2, <1>3, <1>4 DEF Delete, world
<1>6. AsBefore(runs)
  <2> SUFFICES ASSUME NEW o \in Slots
               PROVE  /\ Follows(run[o], runs[o]) /\ RunOK(runs[o]) /\ runs[o].pc = run[o].pc
                      /\ VisitedOnce(run[o]) => VisitedOnce(runs[o])
    BY DEF AsBefore
  <2>1. run[o] \in Run /\ RunOK(run[o])
    BY RunFacts
  <2> QED
    BY <1>4, <2>1, DeletedFacts
<1>7. PICK kept : kept = mem.kept \ {t}
  OBVIOUS
<1>8. StartedOn(tokens, kept)
  <2>1. IndexOf(tokens) \in SUBSET Entry /\ kept \in SUBSET Token
    BY <1>1, <1>7 DEF IndexOf, PocketState
  <2> QED
    BY <1>1, <1>3, <1>5, <1>7, <2>1 DEF StartedOn, PocketState
<1>9. OthersOK'
  BY <1>1, <1>5 DEF Delete, OthersOK, world, Overlaps
<1>10. run[s].then \in {"idle", "replying"}
  BY <1>1 DEF RunOK, ControlOK
<1> QED
  BY <1>1, <1>3, <1>5, <1>6, <1>8, <1>9, <1>10, StartedStep

LEMMA ReconcileStep ==
    ASSUME IInv, NEW s \in Slots, Reconcile(s)
    PROVE  IInv'
<1>1. /\ OthersOK /\ run[s] \in Run /\ RunOK(run[s]) /\ run[s].pc = "idle" /\ up
      /\ mem \in PocketState /\ IsInjective(mem.tokens) /\ mem.tokens \in Seq(Token)
  BY RunFacts DEF Reconcile, At, CopiesOK, CopyOK, PocketState
<1>2. PICK tokens \in Seq(Token) : tokens = mem.tokens
  BY <1>1
<1>3. /\ mem' = [mem EXCEPT !.index = IndexOf(tokens)]
      /\ StartRebuild(s, tokens, run) /\ overlapped' = (overlapped \/ Overlaps(s))
      /\ UNCHANGED <<up, disk, backups, durable, returned, rewound>>
  BY <1>2 DEF Reconcile, world
<1>4. AsBefore(run)
  BY RunFacts DEF AsBefore, Follows
<1>5. StartedOn(tokens, mem.kept)
  <2>1. IndexOf(tokens) \in SUBSET Entry
    BY <1>1 DEF IndexOf, PocketState
  <2> QED
    BY <1>1, <1>2, <1>3, <2>1 DEF StartedOn, PocketState
<1>6. left' \in [Ops -> Nat]
  BY <1>1, TakeType DEF Reconcile, Ops
<1>7. OthersOK'
  BY <1>1, <1>3, <1>6 DEF Reconcile, OthersOK, world, Overlaps
<1>8. run[s].then \in {"idle", "replying"} /\ IsInjective(tokens)
  BY <1>1, <1>2 DEF RunOK, ControlOK
<1> QED
  BY <1>1, <1>3, <1>4, <1>5, <1>7, <1>8, StartedStep

LEMMA RebuildStep ==
    ASSUME IInv, NEW s \in Slots, Rebuild(s)
    PROVE  IInv'
<1>1. /\ OthersOK /\ run[s] \in Run /\ RunOK(run[s]) /\ (~returned => VisitedOnce(run[s]))
      /\ run[s].pc = "indexing" /\ up /\ run \in [Slots -> Run] /\ mem \in PocketState
      /\ IsInjective(mem.tokens) /\ IsFiniteSet(mem.index) /\ mem.tokens \in Seq(Token)
  BY RunFacts DEF Rebuild, At, CopiesOK, CopyOK, PocketState
<1>2. PICK q \in Run : q = run[s]
  BY <1>1
<1>3. /\ q.canon \in Seq(Token) /\ q.todo \in Seq(Token) /\ q.todo # <<>>
      /\ q.then \in {"idle", "replying"}
  BY <1>1, <1>2 DEF Run, RunOK, ControlOK
<1>4. PICK r \in Run :
         /\ r = Visit(q) /\ SameRest(q, r) /\ IsInjective(r.canon)
         /\ Listed(r.listed) = ToSet(r.canon) /\ IsFiniteSet(r.listed)
         /\ VisitedOnce(q) => r.listed = Once(ToSet(r.canon))
         /\ IsInjective(q.canon \o q.todo) =>
               /\ r.canon = Append(q.canon, Head(q.todo))
               /\ r.canon \o Tail(q.todo) = q.canon \o q.todo
  BY <1>1, <1>2, VisitFacts
<1>5. /\ UNCHANGED <<up, disk, backups, durable, overlapped, returned, rewound>>
      /\ OthersOK'
  BY <1>1 DEF Rebuild, OthersOK, world, history
<1>6. r.canon \in Seq(Token) /\ r.listed \in SUBSET Entry /\ r.todo = q.todo
  BY <1>4 DEF Run, SameRest
<1>7. ASSUME ~overlapped
      PROVE  /\ ToSet(mem.tokens) = mem.kept /\ ToSet(disk.tokens) = disk.kept
             /\ q.canon \o q.todo = mem.tokens /\ IsInjective(q.canon \o q.todo)
             /\ \A o \in Slots \ {s} : run[o].pc # "indexing"
  BY <1>1, <1>2, <1>7 DEF IInv, KeptOK, Rebuilding, Overlaps
<1>8. CASE Len(q.todo) > 1
  <2>1. PICK todo \in Seq(Token) : todo = Tail(q.todo) /\ todo # <<>>
    <3>1. PICK d \in Seq(Token) : d = q.todo
      BY <1>3
    <3>2. d # <<>> /\ Len(d) > 1
      BY <1>3, <1>8, <3>1
    <3>3. Tail(d) \in Seq(Token)
      BY <3>2, MovedHead
    <3>4. Tail(d) # <<>>
      BY <3>2, LongTail
    <3> QED
      BY <3>1, <3>3, <3>4
  <2>2. PICK z : z = [r EXCEPT !.todo = todo]
    OBVIOUS
  <2>3. run' = [run EXCEPT ![s] = z] /\ mem' = mem
    BY <1>2, <1>4, <1>6, <1>8, <2>1, <2>2 DEF Rebuild
  <2>4. /\ z \in Run /\ z.canon = r.canon /\ z.listed = r.listed /\ z.todo = todo
        /\ z.addr = q.addr /\ z.snap = q.snap /\ z.top = q.top /\ z.pc = q.pc
        /\ z.then = q.then /\ z.ins = q.ins /\ z.ev = q.ev /\ z.tok = q.tok
    BY <1>4, <2>1, <2>2 DEF Run, SameRest
  <2>5. RunOK(z) /\ Follows(q, z)
    BY <1>1, <1>2, <1>4, <2>1, <2>4 DEF RunOK, ControlOK, Follows
  <2>6. VisitedOnce(q) => VisitedOnce(z)
    BY <1>4, <2>1, <2>4 DEF VisitedOnce
  <2>7. run'[s] = z /\ \A o \in Slots \ {s} : run'[o] = run[o]
    BY <1>1, <2>3
  <2>8. RunsTo
    <3>1. \A o \in Slots : /\ RunOK(run'[o]) /\ Follows(run[o], run'[o])
                           /\ ~returned' => VisitedOnce(run'[o])
      <4> TAKE o \in Slots
      <4>1. CASE o = s
        BY <1>1, <1>2, <1>5, <2>5, <2>6, <2>7, <4>1
      <4>2. CASE o # s
        BY <1>5, <2>7, <4>2, RunFacts DEF Follows
      <4> QED
        BY <4>1, <4>2
    <3>2. run' \in [Slots -> Run]
      BY <1>1, <2>3, <2>4
    <3> QED
      BY <3>1, <3>2 DEF RunsTo
  <2>9. TokensTo(mem')
    BY <1>1, <2>3 DEF TokensTo
  <2>10. IndexAgrees'
    BY <1>1, <1>2, <2>4, <2>7 DEF IndexAgrees, Settled, Rebuilding
  <2>11. KeptOK'
    <3> SUFFICES ASSUME ~overlapped
                 PROVE  KeptOK'
      BY <1>5 DEF KeptOK
    <3>1. z.canon \o z.todo = mem.tokens
      BY <1>4, <1>7, <2>1, <2>4
    <3>2. \A o \in Slots \ {s} : run'[o].pc # "indexing"
      BY <1>7, <2>7
    <3>3. ~Overlaps(s)' /\ \A o \in Slots : Rebuilding(o)' => o = s
      BY <3>2 DEF Overlaps, Rebuilding
    <3> QED
      BY <1>5, <1>7, <2>3, <2>7, <3>1, <3>3 DEF KeptOK
  <2> QED
    BY <1>1, <1>5, <2>8, <2>9, <2>10, <2>11, ListsStep
<1>9. CASE ~(Len(q.todo) > 1)
  <2>1. /\ mem' = [mem EXCEPT !.tokens = r.canon, !.index = r.listed]
        /\ run' = [o \in Slots |-> IF o = s THEN Indexed(run[s]) ELSE Detached(run[o])]
    BY <1>2, <1>4, <1>6, <1>9 DEF Rebuild
  <2>2. /\ mem' \in PocketState /\ mem'.tokens = r.canon /\ mem'.index = r.listed
        /\ mem'.kept = mem.kept /\ mem'.keys = mem.keys /\ mem'.next = mem.next
    BY <1>1, <1>6, <2>1 DEF PocketState
  <2>3. TokensTo(mem')
    BY <1>4, <2>2 DEF TokensTo
  <2>4. /\ Follows(run[s], run'[s]) /\ RunOK(run'[s]) /\ VisitedOnce(run'[s])
        /\ run'[s].pc = "saving"
    BY <1>1, <1>2, <1>3, <2>1, IndexedFacts
  <2>5. ASSUME NEW o \in Slots \ {s}
        PROVE  /\ RunOK(run'[o]) /\ Follows(run[o], run'[o]) /\ run'[o].pc = run[o].pc
               /\ ~returned' => VisitedOnce(run'[o])
    <3>1. run'[o] = Detached(run[o])
      BY <2>1
    <3>2. run[o] \in Run /\ RunOK(run[o]) /\ (~returned => VisitedOnce(run[o]))
      BY RunFacts
    <3> QED
      BY <1>5, <3>1, <3>2, DetachedFacts
  <2>6. RunsTo
    <3>1. \A o \in Slots : /\ RunOK(run'[o]) /\ Follows(run[o], run'[o])
                           /\ ~returned' => VisitedOnce(run'[o])
      BY <2>4, <2>5
    <3>2. run' \in [Slots -> Run]
      BY <2>1, <3>1 DEF Follows
    <3> QED
      BY <3>1, <3>2 DEF RunsTo
  <2>7. IndexAgrees'
    BY <1>1, <1>2, <1>4, <1>5, <2>2 DEF IndexAgrees
  <2>8. KeptOK'
    <3> SUFFICES ASSUME ~overlapped
                 PROVE  KeptOK'
      BY <1>5 DEF KeptOK
    <3>1. r.canon = mem.tokens
      <4>1. PICK p \in Seq(Token), d \in Seq(Token) : p = q.canon /\ d = q.todo
        BY <1>3
      <4>2. Head(d) \in Token /\ (Len(d) <= 1 => d = <<Head(d)>>) /\ Len(d) \in Nat
        <5>1. d # <<>>
          BY <1>3, <4>1
        <5> QED
          BY <5>1, MovedHead
      <4>3. d = <<Head(d)>>
        BY <1>9, <4>1, <4>2
      <4>4. Append(p, Head(d)) = p \o <<Head(d)>>
        BY <4>2, AppendIsConcat
      <4> QED
        BY <1>4, <1>7, <4>1, <4>3, <4>4
    <3>2. \A o \in Slots : run'[o].pc # "indexing"
      BY <1>7, <2>4, <2>5
    <3> QED
      BY <1>5, <1>7, <2>2, <3>1, <3>2 DEF KeptOK, Rebuilding
  <2> QED
    BY <1>1, <1>5, <2>3, <2>6, <2>7, <2>8, ListsStep
<1> QED
  BY <1>8, <1>9

-----------------------------------------------------------------------------
(* A crash ends the runs; loading starts from the copy in storage.         *)
LEMMA CrashStep ==
    ASSUME IInv, Crash
    PROVE  IInv'
<1>1. /\ OthersOK /\ mem \in PocketState /\ disk \in PocketState
      /\ CopiesOK /\ KeptOK /\ KeysOK
  BY TypeParts DEF IInv
<1>2. /\ up' = FALSE /\ run' = [s \in Slots |-> Idle]
      /\ UNCHANGED <<mem, disk, hd, requests, events, consumed, issued, backups, handed,
                     durable, overlapped, returned, rewound>>
      /\ pending' = {} /\ listening' = {} /\ oneShot' = {}
  BY DEF Crash, world, history
<1>3. left' \in [Ops -> Nat]
  BY <1>1, TakeType DEF Crash, Ops
<1>4. OthersOK'
  BY <1>1, <1>2, <1>3 DEF OthersOK
<1>5. run' \in [Slots -> Run] /\ RunOK(Idle) /\ VisitedOnce(Idle) /\ Idle.pc = "idle"
  BY <1>2, IdleFacts, NoListsFacts
<1>6. TypeOK'
  BY <1>1, <1>2, <1>4, <1>5 DEF TypeOK, OthersOK
<1>7. CopiesOK'
  BY <1>1, <1>2 DEF CopiesOK, CopyOK
<1>8. RunsOK'
  BY <1>2, <1>5 DEF RunsOK
<1>9. IndexAgrees'
  BY <1>2 DEF IndexAgrees, Settled
<1>10. KeptOK'
  BY <1>1, <1>2, <1>5 DEF KeptOK, Rebuilding
<1>11. KeysOK'
  <2>1. \A n : RunKeysOK(Idle, n)
    BY IdleFacts DEF RunKeysOK, Ahead
  <2> QED
    BY <1>1, <1>2, <2>1 DEF KeysOK
<1> QED
  BY <1>6, <1>7, <1>8, <1>9, <1>10, <1>11 DEF IInv

LEMMA LoadStep ==
    ASSUME IInv, Load
    PROVE  IInv'
<1>1. /\ OthersOK /\ mem \in PocketState /\ disk \in PocketState /\ run \in [Slots -> Run]
      /\ CopiesOK /\ KeptOK /\ KeysOK /\ \A s \in Slots : run[s] = Idle
  BY TypeParts DEF IInv, RunsOK, Load
<1>2. PICK S : S = ToSet(disk.tokens)
  OBVIOUS
<1>3. PICK n : n = BumpedNext(disk.keys, disk.next)
  OBVIOUS
<1>4. /\ up' = TRUE /\ mem' = [disk EXCEPT !.index = Once(S), !.next = n]
      /\ hd' = disk.seed /\ listening' = disk.keys \cup {Main}
      /\ UNCHANGED <<disk, run, oneShot, pending, requests, events, consumed, issued, backups,
                     handed, left, durable, overlapped, returned, rewound>>
  BY <1>2, <1>3 DEF Load, world, history
<1>5. /\ disk.tokens \in Seq(Token) /\ disk.keys \in SUBSET SingleUse /\ disk.next \in Nat
      /\ disk.seed \in Seeds /\ IsFiniteSet(disk.keys)
  BY <1>1 DEF PocketState, CopiesOK, CopyOK
<1>6. S \in SUBSET Token /\ IsFiniteSet(S)
  BY <1>2, <1>5, ToSetFacts
<1>7. Once(S) \in SUBSET Entry /\ IsFiniteSet(Once(S)) /\ Listed(Once(S)) = S
  BY <1>6, OnceFacts
<1>8. n \in Nat /\ n >= disk.next
  BY <1>3, <1>5, BumpedFacts
<1>9. /\ mem' \in PocketState /\ mem'.tokens = disk.tokens /\ mem'.index = Once(S)
      /\ mem'.keys = disk.keys /\ mem'.next = n /\ mem'.kept = disk.kept
  BY <1>1, <1>4, <1>7, <1>8 DEF PocketState
<1>10. OthersOK'
  <2>1. oneShot = {}
    BY <1>1 DEF Load, IInv, RunsOK, OthersOK
  <2> QED
    BY <1>1, <1>4, <1>5, <2>1 DEF OthersOK, Address
<1>11. TypeOK'
  BY <1>1, <1>4, <1>9, <1>10 DEF TypeOK, OthersOK
<1>12. CopiesOK'
  BY <1>1, <1>4, <1>7, <1>9 DEF CopiesOK, CopyOK
<1>13. RunsOK'
  BY <1>4 DEF IInv, RunsOK
<1>14. IndexAgrees'
  BY <1>2, <1>7, <1>9 DEF IndexAgrees
<1>15. KeptOK'
  BY <1>1, <1>4, <1>9, IdleFacts DEF KeptOK, Rebuilding
<1>16. KeysOK'
  <2> SUFFICES ASSUME ~rewound
               PROVE  KeysOK'
    BY <1>4 DEF KeysOK
  <2>1. \A s \in Slots : RunKeysOK(run'[s], n)
    BY <1>1, <1>4, IdleFacts DEF RunKeysOK, Ahead
  <2>2. Ahead(durable, disk.next) /\ durable \subseteq Address
    BY <1>1 DEF KeysOK, OthersOK, Address
  <2>3. Ahead(durable, n)
    BY <1>5, <1>8, <2>2, AheadGrows
  <2> QED
    BY <1>4, <1>9, <2>1, <2>2, <2>3 DEF KeysOK
<1> QED
  BY <1>11, <1>12, <1>13, <1>14, <1>15, <1>16 DEF IInv

-----------------------------------------------------------------------------
LEMMA PocketInitial == Init => IInv
<1> SUFFICES ASSUME Init
             PROVE  IInv
  OBVIOUS
<1>1. /\ mem = Empty /\ disk = Empty /\ run = [s \in Slots |-> Idle] /\ durable = {}
      /\ backups = {Foreign} /\ up = TRUE
  BY DEF Init
<1>2. Idle \in Run /\ RunOK(Idle) /\ VisitedOnce(Idle) /\ Idle.pc = "idle"
  BY IdleFacts, NoListsFacts
<1>3. Empty \in PocketState
  <2>1. <<>> \in Seq(Token)
    BY EmptySeq
  <2> QED
    BY <2>1, KeysAssumption DEF Empty, PocketState
<1>4. OthersOK
  <2>1. requests \in Seq(Request)
    <3>1. <<>> \in Seq(Request)
      BY EmptySeq
    <3> QED
      BY <3>1 DEF Init
  <2> QED
    BY <2>1, KeysAssumption, SentinelAssumption, WorkloadsAssumption
    DEF Init, OthersOK, Address
<1>5. TypeOK
  BY <1>1, <1>2, <1>3, <1>4, TypeParts
<1>6. CopiesOK
  BY <1>1, ToSetOfNone, NoneListed, SentinelAssumption DEF CopiesOK, CopyOK, Empty
<1>7. RunsOK
  BY <1>1, <1>2 DEF RunsOK
<1>8. IndexAgrees
  BY <1>1, ToSetOfNone, NoneListed DEF IndexAgrees, Empty
<1>9. KeptOK
  BY <1>1, <1>2, ToSetOfNone DEF KeptOK, Empty, Rebuilding
<1>10. KeysOK
  BY <1>1, IdleFacts DEF KeysOK, RunKeysOK, Ahead
<1> QED
  BY <1>5, <1>6, <1>7, <1>8, <1>9, <1>10 DEF IInv

LEMMA PocketStutter ==
    ASSUME IInv, UNCHANGED vars
    PROVE  IInv'
<1>1. /\ UNCHANGED <<mem, disk, hd, up, listening, oneShot, pending, run>>
      /\ UNCHANGED <<requests, events, consumed, issued, backups, handed, left>>
      /\ UNCHANGED history
  BY DEF vars, wallet, world
<1>2. OthersOK'
  BY <1>1, TypeParts DEF IInv, OthersOK, history
<1> QED
  BY <1>1, <1>2, WorldStep DEF IInv, CopiesOK

(* What every reachable state of the wallet satisfies: no Map holds a      *)
(* token twice, a rebuild files what it lists, whenever no rebuild is      *)
(* under way balances and indexes are those of the tokens held, without    *)
(* overlap these are the tokens kept, in memory and in storage, and the    *)
(* counter is ahead of every key handed out (storeToken, deleteToken,      *)
(* reindexIssuerState, savePocketState, loadPocketState,                   *)
(* restoreKeyMaterial).                                                    *)
THEOREM PocketInvariant == Spec => []IInv
<1>1. Init => IInv
  BY PocketInitial
<1>2. IInv /\ [Next]_vars => IInv'
  <2> SUFFICES ASSUME IInv, [Next]_vars
               PROVE  IInv'
    OBVIOUS
  <2>1. CASE World
    BY <2>1, PayStep, SpendElsewhereStep, AnswerStep, EndOfStoredEventsStep, ExportStep,
       CrashStep, LoadStep DEF World
  <2>2. ASSUME NEW s \in Slots, Call(s)
        PROVE  IInv'
    BY <2>2, DeliverStep, SpentNoteStep, ImportTokenStep, ReconcileStep,
       NewReceiveAddressStep, TransferStep, RemoveKeyStep, RestoreStep DEF Call
  <2>3. ASSUME NEW s \in Slots, Step(s)
        PROVE  IInv'
    BY <2>3, UnwrappedStep, ReplyStep, StoreStep, DeleteStep, RebuildStep, SavedStep,
       AddKeyStep, RestoreKeysStep, RestoreCounterStep, BuildStep, WitnessStep, SettleStep
    DEF Step
  <2>4. CASE UNCHANGED vars
    BY <2>4, PocketStutter
  <2> QED
    BY <2>1, <2>2, <2>3, <2>4 DEF Next
<1> QED
  BY <1>1, <1>2, PTL DEF Spec

(* As long as no two rebuilds overlapped, a settled wallet holds exactly   *)
(* the tokens it stored and did not delete (storeToken, deleteToken,       *)
(* reindexIssuerState).                                                    *)
THEOREM KeepsTokensTheorem == Spec => []KeepsTokens
<1>1. IInv => KeepsTokens
  BY DEF IInv, KeptOK, KeepsTokens
<1> QED
  BY <1>1, PocketInvariant, PTL

(* A key that a caller was given stays recoverable under its mnemonic,     *)
(* after removeSingleUseKey and a crash as well                            *)
(* (findOrRecoverSingleUseKeyByPubkey).                                    *)
THEOREM AddressReachableTheorem == Spec => []AddressReachable
<1>1. IInv => AddressReachable
  <2> SUFFICES ASSUME IInv, up, ~rewound, NEW a \in durable, a[1] = hd
               PROVE  Recoverable(a)
    BY DEF AddressReachable
  <2>1. a \in SingleUse /\ a # Main
    BY KeysAssumption DEF IInv, TypeOK, SingleUse
  <2>2. a[2] \in Nat /\ a[2] < mem.next
    BY <2>1 DEF IInv, KeysOK, Ahead, SingleUse
  <2>3. mem.next \in Nat /\ IsFiniteSet(mem.keys)
    BY DEF IInv, TypeOK, PocketState, CopiesOK, CopyOK
  <2>4. PICK n \in Nat : n = mem.next
    BY <2>3
  <2>5. PICK c \in Nat : c = Cardinality(mem.keys)
    BY <2>3, FS_CardinalityType
  <2>6. Max({n, c}) \in {n, c} /\ Max({n, c}) >= n
    BY MaxOfTwo
  <2>7. a[2] < Max({mem.next, Cardinality(mem.keys)})
    BY <2>2, <2>4, <2>5, <2>6
  <2> QED
    BY <2>7 DEF Recoverable
<1> QED
  BY <1>1, PocketInvariant, PTL

-----------------------------------------------------------------------------
(* Coin selection.  The search of Reached is the function that satisfies   *)
(* its recursion; Branch is one step of it, for denominations D.           *)
Coins(S, d) == {e \in S : e.tok.amount = d}
Denominations(S) == SetToSeq({e.tok.amount : e \in S})
Branch(f, S, D, target, i, sum) ==
    IF sum >= target THEN {sum}
    ELSE IF i > Len(D) THEN {}
    ELSE UNION {f[i + 1][sum + n * D[i]] : n \in 0..Cardinality(Coins(S, D[i]))}
Searching(f, S, D, target) ==
    [i \in Nat \ {0} |-> [sum \in Nat |-> Branch(f, S, D, target, i, sum)]]

LEMMA ReachedChosen ==
    ASSUME NEW S, NEW target
    PROVE  Reached(S, target) =
               (CHOOSE f : f = Searching(f, S, Denominations(S), target))[1][0]
BY DEF Reached, Searching, Branch, Coins, Denominations

(* Each denomination is searched once.                                     *)
LEMMA DenominationsFacts ==
    ASSUME NEW S \in SUBSET Entry, IsFiniteSet(S)
    PROVE  LET D == Denominations(S) IN
           /\ D \in Seq(Nat) /\ IsInjective(D)
           /\ \A e \in S : \E i \in 1..Len(D) : e.tok.amount = D[i]
<1> DEFINE A == {e.tok.amount : e \in S}
           n == Cardinality(A)
           D == Denominations(S)
<1>1. IsFiniteSet(A) /\ n \in Nat
  <2>1. DOMAIN Weight(S) = S /\ A = {Weight(S)[e] : e \in S}
    BY DEF Weight
  <2> HIDE DEF A
  <2>2. IsFiniteSet(A)
    BY <2>1, ImageFinite
  <2> QED
    BY <2>2, FS_CardinalityType
<1>2. A \subseteq Nat
  BY DEF Entry, Token
<1>3. \E f \in [1..n -> A] : IsInjective(f)
  <2>1. PICK f : f \in Bijection(1..n, A)
    BY <1>1, FS_CardinalityType DEF ExistsBijection
  <2> QED
    BY <2>1 DEF Bijection, Injection, IsInjective
<1>4. D \in [1..n -> A] /\ IsInjective(D)
  <2> HIDE DEF A
  <2>1. D = CHOOSE f \in [1..Cardinality(A) -> A] : IsInjective(f)
    BY DEF Denominations, SetToSeq, A
  <2> QED
    BY <1>3, <2>1
<1> HIDE DEF D, n
<1>5. D \in [1..n -> Nat] /\ D \in Seq(Nat) /\ Len(D) = n
  BY <1>1, <1>2, <1>4
<1>6. D \in Surjection(1..n, A)
  <2>1. D \in Injection(1..n, A)
    BY <1>4 DEF Injection, IsInjective
  <2>2. Cardinality(1..n) = n
    BY <1>1, FS_Interval
  <2> HIDE DEF A
  <2> QED
    BY <1>1, <2>1, <2>2, FS_Injection DEF n
<1>7. \A a \in A : \E i \in 1..n : D[i] = a
  BY <1>6 DEF Surjection
<1> QED
  BY <1>4, <1>5, <1>7 DEF D

(* What holds behind the last denomination, and at each one if it holds    *)
(* at the next, holds from a on.                                           *)
LEMMA Downward ==
    ASSUME NEW L \in Nat, NEW a \in 0..(L + 1), NEW H,
           L + 1 \in H, \A i \in a..L : i + 1 \in H => i \in H
    PROVE  a \in H
<1> DEFINE Bad == {k \in 0..(L + 1 - a) : L + 1 - k \notin H}
<1>1. ASSUME Bad # {}
      PROVE  FALSE
  <2>1. Bad \in SUBSET Nat
    OBVIOUS
  <2>2. PICK k \in Bad : \A j \in 0..(k - 1) : j \notin Bad
    BY <1>1, <2>1, LeastOf
  <2>3. k \in 0..(L + 1 - a) /\ L + 1 - k \notin H
    BY <2>2
  <2>4. k # 0
    BY <2>3
  <2>5. k - 1 \in 0..(k - 1) /\ k - 1 \in 0..(L + 1 - a)
    BY <2>3, <2>4
  <2>6. L + 1 - (k - 1) \in H
    BY <2>2, <2>5
  <2>7. (L + 1 - k) + 1 = L + 1 - (k - 1) /\ L + 1 - k \in a..L
    BY <2>3, <2>4
  <2> QED
    BY <2>3, <2>6, <2>7
<1>2. L + 1 - a \in 0..(L + 1 - a) /\ L + 1 - (L + 1 - a) = a
  OBVIOUS
<1> QED
  BY <1>1, <1>2

(* The recursion has a solution: it is unrolled from behind the last       *)
(* denomination to the first.                                              *)
Unrolled(f, S, D, target, m) ==
    \A i \in Nat \ {0}, sum \in Nat : i >= m => f[i][sum] = Branch(f, S, D, target, i, sum)

LEMMA SearchExists ==
    ASSUME NEW S, IsFiniteSet(S), NEW D \in Seq(Nat), NEW target \in Nat
    PROVE  \E f : f = Searching(f, S, D, target)
<1> DEFINE L == Len(D)
           H == {m \in 1..(L + 1) : \E f : Unrolled(f, S, D, target, m)}
<1>1. L \in Nat
  OBVIOUS
<1>2. L + 1 \in H
  <2> DEFINE f == [i \in Nat \ {0} |-> [sum \in Nat |-> IF sum >= target THEN {sum} ELSE {}]]
  <2>1. Unrolled(f, S, D, target, L + 1)
    BY <1>1 DEF Unrolled, Branch
  <2> QED
    BY <1>1, <2>1
<1>3. ASSUME NEW m \in 1..L, m + 1 \in H
      PROVE  m \in H
  <2>1. PICK f : Unrolled(f, S, D, target, m + 1)
    BY <1>3
  <2> DEFINE g == Searching(f, S, D, target)
  <2>2. ASSUME NEW i \in Nat \ {0}, NEW sum \in Nat
        PROVE  g[i][sum] = Branch(f, S, D, target, i, sum)
    BY DEF Searching
  <2> HIDE DEF g
  <2>3. ASSUME NEW i \in Nat \ {0}, NEW sum \in Nat, i >= m
        PROVE  Branch(f, S, D, target, i, sum) = Branch(g, S, D, target, i, sum)
    <3>1. CASE sum >= target \/ i > Len(D)
      BY <3>1 DEF Branch
    <3>2. CASE ~(sum >= target \/ i > Len(D))
      <4>1. ASSUME NEW n \in 0..Cardinality(Coins(S, D[i]))
            PROVE  f[i + 1][sum + n * D[i]] = g[i + 1][sum + n * D[i]]
        <5>1. i \in 1..Len(D)
          BY <1>1, <3>2
        <5>2. D[i] \in Nat /\ n \in Nat
          BY <5>1
        <5>3. n * D[i] \in Nat
          BY <5>2
        <5>4. PICK v \in Nat : v = sum + n * D[i]
          BY <5>3
        <5>5. i + 1 \in Nat \ {0} /\ i + 1 >= m + 1
          BY <2>3
        <5> QED
          BY <2>1, <2>2, <5>4, <5>5 DEF Unrolled
      <4> QED
        BY <3>2, <4>1 DEF Branch
    <3> QED
      BY <3>1, <3>2
  <2>4. Unrolled(g, S, D, target, m)
    BY <2>2, <2>3 DEF Unrolled
  <2> QED
    BY <1>1, <2>4
<1> HIDE DEF H
<1>4. 1 \in H
  BY <1>1, <1>2, <1>3, Downward
<1>5. PICK f : Unrolled(f, S, D, target, 1)
  BY <1>4 DEF H
<1> DEFINE g == Searching(f, S, D, target)
<1>6. ASSUME NEW i \in Nat \ {0}, NEW sum \in Nat
      PROVE  g[i][sum] = f[i][sum]
  BY <1>5, <1>6 DEF Searching, Unrolled
<1> HIDE DEF g
<1>7. ASSUME NEW i \in Nat \ {0}, NEW sum \in Nat
      PROVE  Branch(f, S, D, target, i, sum) = Branch(g, S, D, target, i, sum)
  <2>1. CASE sum >= target \/ i > Len(D)
    BY <2>1 DEF Branch
  <2>2. CASE ~(sum >= target \/ i > Len(D))
    <3>1. ASSUME NEW n \in 0..Cardinality(Coins(S, D[i]))
          PROVE  f[i + 1][sum + n * D[i]] = g[i + 1][sum + n * D[i]]
      <4>1. i \in 1..Len(D)
        BY <1>1, <2>2
      <4>2. D[i] \in Nat /\ n \in Nat
        BY <4>1
      <4>3. n * D[i] \in Nat
        BY <4>2
      <4>4. PICK v \in Nat : v = sum + n * D[i]
        BY <4>3
      <4> QED
        BY <1>6, <4>4
    <3> QED
      BY <2>2, <3>1 DEF Branch
  <2> QED
    BY <2>1, <2>2
<1>8. g = Searching(g, S, D, target)
  BY <1>7 DEF g, Searching
<1> QED
  BY <1>8

(* The entries of the denominations from the i-th on, and what taking n    *)
(* coins of the i-th adds.                                                 *)
From(S, D, i) == {e \in S : \E j \in i..Len(D) : e.tok.amount = D[j]}
Search(S, D, target) ==
    /\ S \in SUBSET Entry /\ IsFiniteSet(S) /\ D \in Seq(Nat) /\ IsInjective(D)
    /\ target \in Nat

LEMMA FromFacts ==
    ASSUME NEW S, NEW D, NEW target, Search(S, D, target), NEW i \in 1..Len(D)
    PROVE  /\ From(S, D, i + 1) = From(S, D, i) \ Coins(S, D[i])
           /\ Coins(S, D[i]) \subseteq From(S, D, i)
           /\ From(S, D, Len(D) + 1) = {}
<1>1. Len(D) \in Nat /\ DOMAIN D = 1..Len(D)
  BY DEF Search
<1>2. \A j \in 1..Len(D) : D[j] = D[i] => j = i
  BY <1>1 DEF Search, IsInjective
<1>3. \A j \in i..Len(D) : j = i \/ (j \in (i + 1)..Len(D) /\ j # i)
  BY <1>1
<1>4. \A j \in (i + 1)..Len(D) : j \in i..Len(D) /\ j \in 1..Len(D) /\ j # i
  BY <1>1
<1>5. i \in i..Len(D)
  BY <1>1
<1>6. ASSUME NEW e \in S
      PROVE  (\E j \in (i + 1)..Len(D) : e.tok.amount = D[j])
                 <=> /\ \E j \in i..Len(D) : e.tok.amount = D[j]
                     /\ e.tok.amount # D[i]
  BY <1>2, <1>3, <1>4
<1>7. (Len(D) + 1)..Len(D) = {}
  BY <1>1
<1> QED
  BY <1>5, <1>6, <1>7 DEF From, Coins

LEMMA TakenFacts ==
    ASSUME NEW S, NEW D, NEW target, Search(S, D, target), NEW i \in 1..Len(D),
           NEW T \in SUBSET From(S, D, i)
    PROVE  LET U == T \cap Coins(S, D[i]) IN
           /\ IsFiniteSet(U) /\ Cardinality(U) \in 0..Cardinality(Coins(S, D[i]))
           /\ T \ U \in SUBSET From(S, D, i + 1)
           /\ Value(T) = Cardinality(U) * D[i] + Value(T \ U)
           /\ Value(T) \in Nat /\ Value(T \ U) \in Nat /\ Cardinality(U) * D[i] \in Nat
<1> DEFINE U == T \cap Coins(S, D[i])
<1>1. T \in SUBSET Entry /\ IsFiniteSet(T)
  <2>1. T \in SUBSET S
    BY DEF From
  <2> QED
    BY <2>1, FS_Subset DEF Search
<1>2. D[i] \in Nat
  BY DEF Search
<1>3. U \in SUBSET T /\ U \in SUBSET Coins(S, D[i]) /\ \A e \in U : e.tok.amount = D[i]
  BY DEF Coins
<1>4. IsFiniteSet(Coins(S, D[i]))
  <2>1. Coins(S, D[i]) \in SUBSET S
    BY DEF Coins
  <2> QED
    BY <2>1, FS_Subset DEF Search
<1>5. T \ U \in SUBSET From(S, D, i + 1)
  BY FromFacts
<1> HIDE DEF U
<1>6. IsFiniteSet(U) /\ Cardinality(U) \in Nat /\ Cardinality(Coins(S, D[i])) \in Nat
      /\ Cardinality(U) <= Cardinality(Coins(S, D[i]))
  BY <1>3, <1>4, FS_Subset, FS_CardinalityType
<1>7. Value(U) = Cardinality(U) * D[i]
  BY <1>1, <1>2, <1>3, <1>6, ValueOfEqual
<1>8. /\ Value(T) = Value(U) + Value(T \ U)
      /\ Value(T) \in Nat /\ Value(U) \in Nat /\ Value(T \ U) \in Nat
  BY <1>1, <1>3, ValueOfPart
<1> QED
  BY <1>5, <1>6, <1>7, <1>8 DEF U

(* Whatever the search reaches covers the target with coins that are held. *)
LEMMA SearchSound ==
    ASSUME NEW S, NEW D, NEW target, Search(S, D, target),
           NEW f, f = Searching(f, S, D, target)
    PROVE  \A v \in f[1][0] :
              /\ v \in Nat /\ v >= target
              /\ \E T \in SUBSET From(S, D, 1) : v = Value(T)
<1> DEFINE L == Len(D)
           Fine(i, sum) == \A v \in f[i][sum] :
                              /\ v \in Nat /\ v >= target
                              /\ \E T \in SUBSET From(S, D, i) : v = sum + Value(T)
           H == {i \in 1..(L + 1) : \A sum \in Nat : Fine(i, sum)}
<1>1. L \in Nat /\ target \in Nat
  BY DEF Search
<1>2. \A i \in Nat \ {0}, sum \in Nat : f[i][sum] = Branch(f, S, D, target, i, sum)
  BY DEF Searching
<1>3. ASSUME NEW i \in Nat \ {0}, NEW sum \in Nat, sum >= target
      PROVE  Fine(i, sum)
  <2>1. f[i][sum] = {sum}
    BY <1>2, <1>3 DEF Branch
  <2>2. {} \in SUBSET From(S, D, i) /\ sum + Value({}) = sum
    BY ValueOfNone
  <2> QED
    BY <1>3, <2>1, <2>2
<1>4. L + 1 \in H
  <2>1. ASSUME NEW sum \in Nat
        PROVE  Fine(L + 1, sum)
    <3>1. CASE sum >= target
      BY <1>1, <1>3, <3>1
    <3>2. CASE ~(sum >= target)
      <4>1. L + 1 \in Nat \ {0} /\ L + 1 > Len(D)
        BY <1>1
      <4>2. f[L + 1][sum] = Branch(f, S, D, target, L + 1, sum)
        BY <1>2, <4>1
      <4>3. f[L + 1][sum] = {}
        BY <3>2, <4>1, <4>2 DEF Branch
      <4> QED
        BY <4>3
    <3> QED
      BY <3>1, <3>2
  <2> QED
    BY <1>1, <2>1
<1>5. ASSUME NEW i \in 1..L, i + 1 \in H
      PROVE  i \in H
  <2>1. ASSUME NEW sum \in Nat
        PROVE  Fine(i, sum)
    <3>1. CASE sum >= target
      BY <1>1, <1>3, <3>1
    <3>2. CASE ~(sum >= target)
      <4> SUFFICES ASSUME NEW v \in f[i][sum]
                   PROVE  /\ v \in Nat /\ v >= target
                          /\ \E T \in SUBSET From(S, D, i) : v = sum + Value(T)
        OBVIOUS
      <4>1. PICK n \in 0..Cardinality(Coins(S, D[i])) : v \in f[i + 1][sum + n * D[i]]
        <5>1. f[i][sum] = Branch(f, S, D, target, i, sum) /\ ~(i > Len(D))
          BY <1>1, <1>2
        <5>2. f[i][sum] = UNION {f[i + 1][sum + n * D[i]] : n \in 0..Cardinality(Coins(S, D[i]))}
          BY <3>2, <5>1 DEF Branch
        <5> QED
          BY <5>2
      <4>2. PICK U \in SUBSET Coins(S, D[i]) : Cardinality(U) = n
        <5>1. Coins(S, D[i]) \in SUBSET S
          BY DEF Coins
        <5>2. IsFiniteSet(Coins(S, D[i]))
          BY <5>1, FS_Subset DEF Search
        <5> QED
          BY <5>2, SubsetOfSize
      <4>3. n \in Nat /\ D[i] \in Nat
        BY DEF Search
      <4>4. n * D[i] \in Nat
        BY <4>3
      <4>5. PICK m \in Nat : m = n * D[i]
        BY <4>4
      <4>6. /\ v \in Nat /\ v >= target
            /\ \E T \in SUBSET From(S, D, i + 1) : v = (sum + m) + Value(T)
        BY <1>5, <4>1, <4>5
      <4>7. PICK T \in SUBSET From(S, D, i + 1) : v = (sum + m) + Value(T)
        BY <4>6
      <4>8. T \cup U \in SUBSET From(S, D, i)
            /\ (T \cup U) \cap Coins(S, D[i]) = U /\ (T \cup U) \ U = T
        <5>1. /\ From(S, D, i + 1) = From(S, D, i) \ Coins(S, D[i])
              /\ Coins(S, D[i]) \subseteq From(S, D, i)
          BY FromFacts
        <5> QED
          BY <5>1
      <4>9. Value(T \cup U) = Cardinality(U) * D[i] + Value(T) /\ Value(T) \in Nat
        <5> DEFINE V == T \cup U
                   W == V \cap Coins(S, D[i])
        <5>1. V \in SUBSET From(S, D, i) /\ W = U /\ V \ W = T
          BY <4>8
        <5> HIDE DEF V
        <5>2. Value(V) = Cardinality(W) * D[i] + Value(V \ W) /\ Value(V \ W) \in Nat
          BY <5>1, TakenFacts
        <5> QED
          BY <5>1, <5>2 DEF V
      <4>10. v = sum + Value(T \cup U)
        BY <4>2, <4>5, <4>7, <4>9
      <4> QED
        BY <4>6, <4>8, <4>10
    <3> QED
      BY <3>1, <3>2
  <2> QED
    BY <2>1
<1>6. 1 \in 0..(L + 1)
  BY <1>1
<1> HIDE DEF H
<1>7. 1 \in H
  BY <1>1, <1>4, <1>5, <1>6, Downward
<1>8. Fine(1, 0)
  BY <1>7 DEF H
<1>9. \A T \in SUBSET From(S, D, 1) : Value(T) \in Nat
  <2>1. From(S, D, 1) \in SUBSET S
    BY DEF From
  <2> QED
    BY <2>1, FS_Subset, ValueNatural DEF Search
<1> QED
  BY <1>8, <1>9

(* Whatever coins cover the target, the search reaches a sum as small.     *)
LEMMA SearchComplete ==
    ASSUME NEW S, NEW D, NEW target, Search(S, D, target),
           NEW f, f = Searching(f, S, D, target)
    PROVE  \A T \in SUBSET From(S, D, 1) :
              Value(T) >= target => \E v \in f[1][0] : v <= Value(T)
<1> DEFINE L == Len(D)
           Found(i, sum) == \A T \in SUBSET From(S, D, i) :
              sum + Value(T) >= target => \E v \in f[i][sum] : v <= sum + Value(T)
           H == {i \in 1..(L + 1) : \A sum \in Nat : Found(i, sum)}
<1>1. L \in Nat /\ target \in Nat
  BY DEF Search
<1>2. \A i \in Nat \ {0}, sum \in Nat : f[i][sum] = Branch(f, S, D, target, i, sum)
  BY DEF Searching
<1>3. \A i \in Nat \ {0} : \A T \in SUBSET From(S, D, i) : Value(T) \in Nat
  <2>1. \A i \in Nat \ {0} : From(S, D, i) \in SUBSET S
    BY DEF From
  <2> QED
    BY <2>1, FS_Subset, ValueNatural DEF Search
<1>4. ASSUME NEW i \in Nat \ {0}, NEW sum \in Nat, sum >= target
      PROVE  Found(i, sum)
  <2>1. f[i][sum] = {sum}
    BY <1>2, <1>4 DEF Branch
  <2>2. \A T \in SUBSET From(S, D, i) : sum <= sum + Value(T)
    BY <1>3
  <2> QED
    BY <2>1, <2>2
<1>5. L + 1 \in H
  <2>1. ASSUME NEW sum \in Nat
        PROVE  Found(L + 1, sum)
    <3>1. CASE sum >= target
      BY <1>1, <1>4, <3>1
    <3>2. CASE ~(sum >= target)
      <4>1. (L + 1)..L = {}
        BY <1>1
      <4>2. From(S, D, L + 1) = {}
        BY <4>1 DEF From
      <4>3. \A T \in SUBSET From(S, D, L + 1) : Value(T) = 0
        BY <4>2, ValueOfNone
      <4>4. \A T \in SUBSET From(S, D, L + 1) : sum + Value(T) = sum
        BY <4>3
      <4> QED
        BY <3>2, <4>4
    <3> QED
      BY <3>1, <3>2
  <2> QED
    BY <1>1, <2>1
<1>6. ASSUME NEW i \in 1..L, i + 1 \in H
      PROVE  i \in H
  <2>1. ASSUME NEW sum \in Nat
        PROVE  Found(i, sum)
    <3>1. CASE sum >= target
      BY <1>1, <1>4, <3>1
    <3>2. CASE ~(sum >= target)
      <4> SUFFICES ASSUME NEW T \in SUBSET From(S, D, i), sum + Value(T) >= target
                   PROVE  \E v \in f[i][sum] : v <= sum + Value(T)
        OBVIOUS
      <4> DEFINE U == T \cap Coins(S, D[i])
                 n == Cardinality(U)
      <4>1. /\ IsFiniteSet(U) /\ n \in 0..Cardinality(Coins(S, D[i]))
            /\ T \ U \in SUBSET From(S, D, i + 1)
            /\ Value(T) = n * D[i] + Value(T \ U)
            /\ Value(T) \in Nat /\ Value(T \ U) \in Nat /\ n * D[i] \in Nat
        <5>1. i \in 1..Len(D)
          OBVIOUS
        <5> QED
          BY <5>1, TakenFacts, Zenon
      <4> HIDE DEF n, U
      <4>2. PICK m \in Nat : m = n * D[i]
        BY <4>1
      <4>3. (sum + m) + Value(T \ U) = sum + Value(T)
        BY <4>1, <4>2
      <4>4. \E v \in f[i + 1][sum + m] : v <= (sum + m) + Value(T \ U)
        <5>1. Found(i + 1, sum + m)
          BY <1>6
        <5> QED
          BY <4>1, <4>3, <5>1
      <4>5. PICK v \in f[i + 1][sum + n * D[i]] : v <= sum + Value(T)
        BY <4>2, <4>3, <4>4
      <4>6. f[i][sum] = Branch(f, S, D, target, i, sum) /\ ~(i > Len(D))
        BY <1>1, <1>2
      <4>7. f[i][sum] = UNION {f[i + 1][sum + k * D[i]] : k \in 0..Cardinality(Coins(S, D[i]))}
        BY <3>2, <4>6 DEF Branch
      <4> QED
        BY <4>1, <4>5, <4>7
    <3> QED
      BY <3>1, <3>2
  <2> QED
    BY <2>1
<1>7. 1 \in 0..(L + 1)
  BY <1>1
<1> HIDE DEF H
<1>8. 1 \in H
  BY <1>1, <1>5, <1>6, <1>7, Downward
<1>9. Found(1, 0)
  BY <1>8 DEF H
<1> QED
  BY <1>3, <1>9

(* Two sets of numbers of which each has, for every member of the other,   *)
(* one that is as small have the same minimum.                             *)
LEMMA SameMin ==
    ASSUME NEW A \in SUBSET Nat, NEW B \in SUBSET Nat, A # {}, A \subseteq B,
           \A b \in B : \E a \in A : a <= b
    PROVE  Min(A) = Min(B)
<1>1. PICK m \in A : \A k \in 0..(m - 1) : k \notin A
  BY LeastOf
<1>2. \A a \in A : m <= a
  <2> SUFFICES ASSUME NEW a \in A, a < m
               PROVE  FALSE
    OBVIOUS
  <2>1. a \in 0..(m - 1)
    OBVIOUS
  <2> QED
    BY <1>1, <2>1
<1>3. m \in B /\ \A b \in B : m <= b
  <2> SUFFICES ASSUME NEW b \in B
               PROVE  m <= b
    OBVIOUS
  <2>1. PICK a \in A : a <= b
    OBVIOUS
  <2>2. m <= a
    BY <1>2
  <2> QED
    BY <2>1, <2>2
<1>4. \A x \in A : (\A y \in A : x <= y) => x = m
  <2> SUFFICES ASSUME NEW x \in A, \A y \in A : x <= y
               PROVE  x = m
    OBVIOUS
  <2>1. x <= m /\ m <= x
    BY <1>2
  <2> QED
    BY <2>1
<1>5. \A x \in B : (\A y \in B : x <= y) => x = m
  <2> SUFFICES ASSUME NEW x \in B, \A y \in B : x <= y
               PROVE  x = m
    OBVIOUS
  <2>1. x <= m /\ m <= x
    BY <1>3
  <2> QED
    BY <2>1
<1>6. Min(A) = m
  BY <1>2, <1>4 DEF Min
<1>7. Min(B) = m
  BY <1>3, <1>5 DEF Min
<1> QED
  BY <1>6, <1>7

(* The search finds the least value that covers the target, of all sets    *)
(* of entries there are.                                                   *)
LEMMA ReachedLeast ==
    ASSUME NEW S \in SUBSET Entry, IsFiniteSet(S), NEW target \in Nat
    PROVE  LET covering == {Value(T) : T \in SUBSET S} \cap {v \in Nat : v >= target}
               sums == Reached(S, target)
           IN  IF covering = {} THEN sums = {} ELSE sums # {} /\ Min(sums) = Min(covering)
<1> DEFINE D == Denominations(S)
           covering == {Value(T) : T \in SUBSET S} \cap {v \in Nat : v >= target}
           sums == Reached(S, target)
<1>1. Search(S, D, target)
  BY DenominationsFacts DEF Search
<1>2. From(S, D, 1) = S
  BY DenominationsFacts DEF From
<1> HIDE DEF D
<1>3. PICK f : f = (CHOOSE g : g = Searching(g, S, D, target))
  OBVIOUS
<1>4. f = Searching(f, S, D, target)
  BY <1>1, <1>3, SearchExists DEF Search
<1>5. sums = f[1][0]
  BY <1>3, ReachedChosen DEF D
<1>6. sums \subseteq covering
  <2>1. \A v \in f[1][0] : /\ v \in Nat /\ v >= target
                           /\ \E T \in SUBSET From(S, D, 1) : v = Value(T)
    BY <1>1, <1>4, SearchSound
  <2> QED
    BY <1>2, <1>5, <2>1
<1>7. \A c \in covering : \E v \in sums : v <= c
  <2>1. \A T \in SUBSET From(S, D, 1) : Value(T) >= target => \E v \in f[1][0] : v <= Value(T)
    BY <1>1, <1>4, SearchComplete
  <2> QED
    BY <1>2, <1>5, <2>1
<1>8. covering \in SUBSET Nat
  OBVIOUS
<1> HIDE DEF covering, sums
<1>9. CASE covering = {}
  BY <1>6, <1>9 DEF covering, sums
<1>10. CASE covering # {}
  <2>1. sums # {}
    BY <1>7, <1>10
  <2>2. Min(sums) = Min(covering)
    BY <1>6, <1>7, <1>8, <2>1, SameMin
  <2> QED
    BY <1>10, <2>1, <2>2 DEF covering, sums
<1> QED
  BY <1>9, <1>10

(* Coin selection finds the least sum of held tokens that covers the       *)
(* amount, and finds none only if all of them together do not cover it     *)
(* (Transaction.greedy).                                                   *)
THEOREM SelectionTheorem == Spec => []SelectionMinimal
<1>1. IInv => SelectionMinimal
  <2> SUFFICES ASSUME IInv, NEW amount \in Amounts
               PROVE  LET covering == {Value(S) : S \in SUBSET mem.index}
                                          \cap {v \in Nat : v >= amount}
                          sums == Reached(mem.index, amount)
                      IN IF covering = {} THEN sums = {}
                         ELSE sums # {} /\ Min(sums) = Min(covering)
    BY DEF SelectionMinimal
  <2>1. mem.index \in SUBSET Entry /\ IsFiniteSet(mem.index)
    BY DEF IInv, TypeOK, CopiesOK, PocketState
  <2>2. amount \in Nat
    BY KeysAssumption
  <2> QED
    BY <2>1, <2>2, ReachedLeast
<1> QED
  BY <1>1, PocketInvariant, PTL

-----------------------------------------------------------------------------
(* Only the derivation of a key takes an idle run to a subscription.       *)
LEMMA KeepsPlace ==
    ASSUME NEW o \in Slots, NEW s \in Slots, s # o, Call(o) \/ Step(o), run \in [Slots -> Run],
           run[s].pc = "idle"
    PROVE  run'[s].pc = "idle"
<1>1. \A q \in Run : q.pc = "idle" => /\ \A t : Added(q, t) = q /\ Deleted(q, t) = q
                                      /\ Detached(q).pc = "idle"
  BY DEF Added, Deleted, Detached, Run
<1>2. run[s] \in Run
  OBVIOUS
<1>3. ASSUME NEW r, run' = [run EXCEPT ![o] = r]
      PROVE  run'[s] = run[s]
  BY <1>3
<1>4. ASSUME Call(o), ~Reconcile(o)
      PROVE  \E r : run' = [run EXCEPT ![o] = r]
  BY <1>4 DEF Call, Deliver, SpentNote, ImportToken, NewReceiveAddress, Transfer, Derive,
     RemoveKey, Restore, Begin
<1>5. ASSUME Step(o), ~Store(o), ~Delete(o), ~Rebuild(o)
      PROVE  \A p \in Slots \ {o} : run'[p] = run[p]
  BY <1>5 DEF Step, Unwrapped, Reply, Saved, AddKey, RestoreKeys, RestoreCounter, Build,
     Witness, Settle, SaveThen
<1>6. CASE Reconcile(o)
  BY <1>1, <1>2, <1>6 DEF Reconcile, StartRebuild
<1>7. CASE Store(o)
  BY <1>1, <1>2, <1>7 DEF Store, Goto
<1>8. CASE Delete(o)
  BY <1>1, <1>2, <1>8 DEF Delete, StartRebuild
<1>9. CASE Rebuild(o)
  BY <1>1, <1>2, <1>9 DEF Rebuild
<1> QED
  BY <1>3, <1>4, <1>5, <1>6, <1>7, <1>8, <1>9

LEMMA Subscribes ==
    ASSUME IInv, Next, NEW s \in Slots, run[s].pc = "idle", run'[s].pc = "subscribing"
    PROVE  up /\ run'[s].addr = <<hd, mem.next>>
<1>1. run \in [Slots -> Run] /\ Idle \in Run /\ Idle.pc = "idle"
  BY IdleFacts DEF IInv, TypeOK
<1>2. CASE World
  BY <1>1, <1>2 DEF World, Pay, SpendElsewhere, Answer, EndOfStoredEvents, Export, Crash, Load
<1>3. ASSUME NEW o \in Slots, o # s, Call(o) \/ Step(o)
      PROVE  FALSE
  BY <1>1, <1>3, KeepsPlace
<1>4. ~Step(s)
  BY DEF Step, Unwrapped, Reply, Store, Delete, Rebuild, Saved, AddKey, RestoreKeys,
     RestoreCounter, Build, Witness, Settle, At
<1>5. CASE Call(s)
  <2>1. ASSUME NEW q \in Run, Derive(s, q)
        PROVE  up /\ run'[s].addr = <<hd, mem.next>>
    BY <1>1, <2>1 DEF Derive, Begin, At, Run
  <2>2. CASE NewReceiveAddress(s)
    <3>1. [Idle EXCEPT !.then = "handing"] \in Run
      BY <1>1 DEF Run, Thens
    <3> QED
      BY <2>1, <2>2, <3>1 DEF NewReceiveAddress
  <2>3. ASSUME NEW amount \in Amounts, Transfer(s, amount)
        PROVE  up /\ run'[s].addr = <<hd, mem.next>>
    <3>1. [Idle EXCEPT !.then = "building", !.amount = amount] \in Run
      BY <1>1, KeysAssumption DEF Run, Thens
    <3> QED
      BY <2>1, <2>3, <3>1 DEF Transfer
  <2>4. ASSUME NEW r, r.pc # "subscribing"
        PROVE  ~Begin(s, r)
    BY <1>1, <2>4 DEF Begin
  <2>5. ASSUME NEW e \in events, Deliver(s, e)
        PROVE  FALSE
    <3>1. PICK r \in {[Idle EXCEPT !.pc = "unwrapping", !.ev = e, !.tok = e.tok],
                      [Idle EXCEPT !.pc = "saving", !.ev = e]} : Begin(s, r)
      BY <2>5 DEF Deliver
    <3>2. r.pc # "subscribing"
      BY <1>1 DEF Run
    <3> QED
      BY <2>4, <3>1, <3>2
  <2>6. \A t \in consumed : ~SpentNote(s, t)
    BY <1>1 DEF SpentNote, Begin, Run
  <2>7. ~ImportToken(s)
    BY <1>1 DEF ImportToken, Begin, Run
  <2>8. ~Reconcile(s)
    <3>1. /\ Indexed(run[s]).pc = "saving"
          /\ \A tokens : Iterating(run[s], tokens).pc = "indexing"
      BY <1>1 DEF Iterating, Indexed, Run
    <3>2. Reconcile(s) => run'[s] \in {Iterating(run[s], mem.tokens), Indexed(run[s])}
      BY DEF Reconcile, StartRebuild
    <3> QED
      BY <3>1, <3>2
  <2>9. \A a \in mem.keys : ~RemoveKey(s, a)
    BY <1>1 DEF RemoveKey, Begin, Run
  <2>10. \A b \in backups : ~Restore(s, b)
    BY <1>1 DEF Restore, Begin, Run
  <2> QED
    BY <1>5, <2>2, <2>3, <2>5, <2>6, <2>7, <2>8, <2>9, <2>10 DEF Call
<1> QED
  BY <1>2, <1>3, <1>4, <1>5 DEF Next

(* The key a run derives is neither one whose save landed, even before a   *)
(* crash, nor one another run is about to hand out, unless a restored      *)
(* snapshot turned the counter back (deriveSingleUseKey, addSingleUseKey,  *)
(* loadPocketState).                                                       *)
THEOREM AddressFreshTheorem == Spec => AddressFresh
<1> DEFINE Fresh == ~rewound => \A s \in Slots :
              run[s].pc = "idle" /\ run'[s].pc = "subscribing" =>
                  run'[s].addr \notin durable \cup {run[o].addr : o \in Slots}
<1>1. IInv /\ [Next]_vars => [Fresh]_vars
  <2> SUFFICES ASSUME IInv, Next, ~rewound, NEW s \in Slots,
                      run[s].pc = "idle", run'[s].pc = "subscribing"
               PROVE  run'[s].addr \notin durable \cup {run[o].addr : o \in Slots}
    OBVIOUS
  <2>1. up /\ run'[s].addr = <<hd, mem.next>>
    BY Subscribes
  <2>2. /\ Ahead(durable, mem.next) /\ \A o \in Slots : Ahead({run[o].addr}, mem.next)
        /\ hd \in Seeds /\ mem.next \in Nat
    BY <2>1 DEF IInv, KeysOK, RunKeysOK, TypeOK, PocketState
  <2>3. <<hd, mem.next>> # Main
    BY <2>2, KeysAssumption
  <2>4. ~(mem.next < mem.next)
    BY <2>2
  <2>5. <<hd, mem.next>> \notin durable
    BY <2>2, <2>3, <2>4 DEF Ahead
  <2>6. \A o \in Slots : run[o].addr # <<hd, mem.next>>
    <3> SUFFICES ASSUME NEW o \in Slots, run[o].addr = <<hd, mem.next>>
                 PROVE  FALSE
      OBVIOUS
    <3>1. run[o].addr \in {run[o].addr} \ {Main}
      BY <2>3
    <3>2. run[o].addr[2] < mem.next
      BY <2>2, <3>1 DEF Ahead
    <3> QED
      BY <2>4, <3>2
  <2> QED
    BY <2>1, <2>5, <2>6
<1>2. Spec => [][Fresh]_vars
  BY <1>1, PocketInvariant, PTL DEF Spec
<1> QED
  BY <1>2 DEF AddressFresh

-----------------------------------------------------------------------------
(* Contracts on tokens, for every set of tokens, parties and secrets and   *)
(* for windows of any width.                                               *)

(* A contract that validateHTLC accepts can be redeemed strictly before    *)
(* its timelock, refunded from then on, and never both.                    *)
LEMMA TwoWays ==
    ASSUME NEW c \in Contract, NEW time \in Int
    PROVE  /\ ValidateHTLC(c, time).isValid <=> WellFormed(c) /\ InWindow(c, time)
           /\ ValidateHTLC(c, time).canRedeem
                <=> WellFormed(c) /\ InWindow(c, time) /\ time < c.timelock
           /\ ValidateHTLC(c, time).canRefund
                <=> WellFormed(c) /\ InWindow(c, time) /\ c.timelock <= time
  BY DEF ValidateHTLC, Contract

(* The forge accepts a contract from its timelock on, as canRefund does,   *)
(* until the window behind it ends; a bare hash never.                     *)
LEMMA Accepted ==
    ASSUME NEW c \in Contract, now \in Nat
    PROVE  /\ CanRefund(c, now) <=>
                WellFormed(c) /\ c.timelock <= now /\ now <= c.timelock + Past
           /\ ContractAccepts(c) <=>
                c.form # "hash" /\ (c.form = "object" => CanRefund(c, now))
<1>1. c.timelock \in Int /\ c.form \in {"none", "object", "hash"}
  BY DEF Contract
<1>2. CanRefund(c, now) <=> WellFormed(c) /\ InWindow(c, now) /\ c.timelock <= now
  BY TwoWays DEF CanRefund
<1>3. c.timelock <= now => (InWindow(c, now) <=> now <= c.timelock + Past)
  BY <1>1, ClockAssumption DEF InWindow
<1>4. ContractAccepts(c) <=> (c.form # "none" => c.form = "object" /\ CanRefund(c, now))
  BY TwoWays DEF ContractAccepts, ValidateTokenHTLC, CanRefund
<1> QED
  BY <1>1, <1>2, <1>3, <1>4

(* A number of whole seconds has passed when its milliseconds have.        *)
LEMMA Product ==
    ASSUME NEW a \in Nat, NEW b \in Nat, NEW q \in Nat, a <= b
    PROVE  a * q <= b * q
  OBVIOUS
LEMMA Division ==
    ASSUME NEW n \in Nat, NEW q \in Nat \ {0}
    PROVE  n \div q \in Nat /\ (n \div q) * q <= n /\ n < (n \div q) * q + q
  OBVIOUS
LEMMA WholeSeconds ==
    ASSUME NEW n \in Nat, NEW k \in Nat, NEW q \in Nat \ {0}
    PROVE  n \div q >= k <=> k * q <= n
<1>1. PICK d \in Nat : d = n \div q /\ d * q <= n /\ n < d * q + q
  BY Division
<1>2. ASSUME k <= d
      PROVE  k * q <= n
  <2>1. k * q <= d * q /\ k * q \in Nat /\ d * q \in Nat
    BY <1>2, Product
  <2> QED
    BY <2>1, <1>1
<1>3. ASSUME d < k
      PROVE  n < k * q
  <2>1. (d + 1) * q <= k * q
    BY <1>3, Product
  <2>2. (d + 1) * q = d * q + q /\ d * q \in Nat /\ k * q \in Nat /\ (d + 1) * q \in Nat
    OBVIOUS
  <2> QED
    BY <2>1, <2>2, <1>1
<1>4. k * q \in Nat
  OBVIOUS
<1> QED
  BY <1>1, <1>2, <1>3, <1>4

(* The forge's conditions in whole seconds and its two windows are the     *)
(* token's time in milliseconds.                                           *)
LEMMA InTime ==
    ASSUME HTLCTypeOK, NEW t \in Tokens, NEW p \in Parties, Unlocked(t, p)
    PROVE  InputAccepted(t, p) <=> InItsTime(token[t], now)
<1> DEFINE c == token[t].htlc
           lock == token[t].timeLock
           exp == token[t].exp
<1>1. c \in Contract /\ lock \in Nat /\ exp \in Nat /\ now \in Nat
  BY DEF HTLCTypeOK, Unlocked, Issued, Payload
<1>2. PerSecond \in Nat \ {0}
  BY ClockAssumption
<1>3. (lock = 0 \/ Seconds >= lock) <=> lock * PerSecond <= now
  <2>1. Seconds >= lock <=> lock * PerSecond <= now
    BY <1>1, <1>2, WholeSeconds DEF Seconds
  <2>2. lock = 0 => lock * PerSecond = 0
    BY <1>2
  <2> QED
    BY <1>1, <2>1, <2>2
<1>4. ~IsExpired(token[t]) <=> (exp # 0 => now < exp * PerSecond)
  <2>1. Seconds >= exp <=> exp * PerSecond <= now
    BY <1>1, <1>2, WholeSeconds DEF Seconds
  <2>2. exp * PerSecond \in Nat
    BY <1>1, <1>2
  <2> QED
    BY <1>1, <2>1, <2>2 DEF IsExpired
<1>5. ContractAccepts(c) <=>
        /\ c.form # "hash"
        /\ c.form = "object" =>
              WellFormed(c) /\ c.timelock <= now /\ now <= c.timelock + Past
  BY <1>1, Accepted
<1>6. InputAccepted(t, p) <=>
        ~IsExpired(token[t]) /\ (lock = 0 \/ Seconds >= lock) /\ ContractAccepts(c)
  BY DEF InputAccepted, Unlocked
<1> HIDE DEF c, lock, exp
<1>7. InputAccepted(t, p) <=>
        /\ exp # 0 => now < exp * PerSecond
        /\ lock * PerSecond <= now
        /\ c.form # "hash"
        /\ c.form = "object" =>
              WellFormed(c) /\ c.timelock <= now /\ now <= c.timelock + Past
  BY <1>3, <1>4, <1>5, <1>6
<1> QED
  BY <1>7 DEF InItsTime, c, lock, exp

LEMMA HTLCInitial == HTLCInit => HTLCInv
  BY DEF HTLCInit, HTLCInv, HTLCTypeOK, SpentRightly

(* Issuing a token leaves the ones that are issued, hence the spent ones,  *)
(* as they are.                                                            *)
LEMMA IssueStep ==
    ASSUME HTLCInv, NEW t \in Tokens, NEW payload \in Payload, Issue(t, payload)
    PROVE  HTLCInv'
<1>1. HTLCTypeOK'
  BY DEF Issue, HTLCInv, HTLCTypeOK
<1>2. SpentRightly'
  <2> SUFFICES ASSUME NEW u \in Tokens, (spent[u] # Unspent)'
               PROVE  RightlySpent(u)'
    BY DEF SpentRightly
  <2>1. RightlySpent(u) /\ u # t
    BY DEF Issue, HTLCInv, SpentRightly, RightlySpent, Issued
  <2>2. token'[u] = token[u] /\ spent' = spent /\ now' = now
    BY <2>1 DEF Issue, HTLCInv, HTLCTypeOK
  <2> QED
    BY <2>1, <2>2 DEF RightlySpent, Issued, InItsTime, WellFormed
<1> QED
  BY <1>1, <1>2 DEF HTLCInv

(* The tokens of a request were unspent; those of a transfer were in their *)
(* time.                                                                   *)
LEMMA SpendStep ==
    ASSUME HTLCInv, NEW op \in {"transfer", "burn"}, NEW p \in Parties,
           NEW ins \in SUBSET Tokens, Spend(op, p, ins), \A t \in ins : Issued(t),
           op = "transfer" =>
              \A t \in ins : token[t].lock \in {NoOne, p} /\ InItsTime(token[t], now)
    PROVE  HTLCInv'
<1>1. /\ token' = token /\ now' = now
      /\ \A u \in Tokens : spent'[u] = IF u \in ins THEN [op |-> op, by |-> p, at |-> now]
                                       ELSE spent[u]
  BY DEF Spend
<1>2. [op |-> op, by |-> p, at |-> now] \in Spending
  BY DEF HTLCInv, HTLCTypeOK, Spending
<1>3. HTLCTypeOK'
  <2>1. spent' \in [Tokens -> Spending \cup {Unspent}]
    BY <1>2 DEF Spend, HTLCInv, HTLCTypeOK
  <2> QED
    BY <1>1, <2>1 DEF HTLCInv, HTLCTypeOK
<1>4. ASSUME NEW u \in Tokens, (spent[u] # Unspent)'
      PROVE  RightlySpent(u)'
  <2>1. CASE u \notin ins
    <3>1. RightlySpent(u) /\ spent'[u] = spent[u]
      BY <1>1, <1>4, <2>1 DEF HTLCInv, SpentRightly
    <3> QED
      BY <1>1, <3>1 DEF RightlySpent, Issued, InItsTime, WellFormed
  <2>2. CASE u \in ins
    <3>1. /\ spent'[u].op = op /\ spent'[u].by = p /\ spent'[u].at = now
          /\ token'[u] = token[u] /\ now' = now /\ Issued(u)
      BY <1>1, <2>2
    <3>2. now <= now
      BY DEF HTLCInv, HTLCTypeOK
    <3>3. op = "transfer" => token[u].lock \in {NoOne, p} /\ InItsTime(token[u], now)
      BY <2>2
    <3> QED
      BY <3>1, <3>2, <3>3 DEF RightlySpent, Issued, InItsTime, WellFormed
  <2> QED
    BY <2>1, <2>2
<1> QED
  BY <1>3, <1>4 DEF HTLCInv, SpentRightly

LEMMA TransferInputsStep ==
    ASSUME HTLCInv, NEW p \in Parties, NEW ins \in SUBSET Tokens, TransferInputs(p, ins)
    PROVE  HTLCInv'
<1>1. ASSUME NEW t \in ins
      PROVE  Issued(t) /\ token[t].lock \in {NoOne, p} /\ InItsTime(token[t], now)
  <2>1. Unlocked(t, p) /\ InputAccepted(t, p)
    BY DEF TransferInputs, InputAccepted, Unlocked
  <2> QED
    BY <2>1, InTime DEF HTLCInv, Unlocked
<1> QED
  BY <1>1, SpendStep DEF TransferInputs

LEMMA HandleBurnStep ==
    ASSUME HTLCInv, NEW p \in Parties, NEW t \in Tokens, HandleBurn(p, t)
    PROVE  HTLCInv'
  BY SpendStep DEF HandleBurn

(* Time passes.                                                            *)
LEMMA TickStep ==
    ASSUME HTLCInv, Tick
    PROVE  HTLCInv'
<1>1. HTLCTypeOK'
  BY DEF Tick, HTLCInv, HTLCTypeOK
<1>2. ASSUME NEW u \in Tokens, spent[u] # Unspent, RightlySpent(u)
      PROVE  RightlySpent(u)'
  <2>1. spent[u].at \in Nat /\ now \in Nat
    BY <1>2 DEF HTLCInv, HTLCTypeOK, Spending
  <2>2. spent[u].at <= now + 1
    BY <1>2, <2>1 DEF RightlySpent
  <2> QED
    BY <1>2, <2>2 DEF Tick, RightlySpent, Issued, InItsTime, WellFormed
<1> QED
  BY <1>1, <1>2 DEF HTLCInv, SpentRightly, Tick

(* A transfer spends a token by its key and in its time only: under a      *)
(* contract not before the timelock, whatever its sender knows             *)
(* (validateTXInputs).  The invariant is inductive.                        *)
THEOREM HTLCInvariant == HTLCSpec => []HTLCInv
<1>1. ASSUME HTLCInv, [HTLCNext]_htlcVars
      PROVE  HTLCInv'
  <2>1. ASSUME NEW t \in Tokens, NEW lock \in Parties \cup {NoOne},
               NEW s \in Secrets, NEW d \in Durations, CreateHTLC(t, s, d, lock)
        PROVE  HTLCInv'
    <3> DEFINE c == [form |-> "object", hashlock |-> s, timelock |-> now + d]
    <3>1. CreatePayload(c, lock, 0, 0) \in Payload
      BY <1>1, ClockAssumption DEF CreatePayload, Payload, Contract, HTLCInv, HTLCTypeOK
    <3> QED
      BY <1>1, <2>1, <3>1, IssueStep DEF CreateHTLC
  <2>2. ASSUME NEW t \in Tokens, NEW lock \in Parties \cup {NoOne},
               NEW h \in Secrets \cup {Malformed}, NEW d \in Durations,
               NEW timeLock \in LockTimes, NEW exp \in LockTimes,
               CounterHTLC(t, h, d, lock, timeLock, exp)
        PROVE  HTLCInv'
    <3> DEFINE c == [form |-> "object", hashlock |-> h, timelock |-> d]
    <3>1. CreatePayload(c, lock, timeLock, exp) \in Payload
      BY ClockAssumption DEF CreatePayload, Payload, Contract
    <3> QED
      BY <1>1, <2>2, <3>1, IssueStep DEF CounterHTLC
  <2>3. ASSUME NEW t \in Tokens, NEW lock \in Parties \cup {NoOne},
               NEW form \in {"none", "hash"}, NEW s \in Secrets,
               NEW timeLock \in LockTimes, NEW exp \in LockTimes,
               Lock(t, form, s, lock, timeLock, exp)
        PROVE  HTLCInv'
    <3> DEFINE c == [form |-> form, hashlock |-> s, timelock |-> 0]
    <3>1. CreatePayload(c, lock, timeLock, exp) \in Payload
      BY ClockAssumption DEF CreatePayload, Payload, Contract
    <3> QED
      BY <1>1, <2>3, <3>1, IssueStep DEF Lock
  <2>4. CASE UNCHANGED htlcVars
    BY <1>1, <2>4
    DEF htlcVars, HTLCInv, HTLCTypeOK, SpentRightly, RightlySpent, Issued, InItsTime, WellFormed
  <2> QED
    BY <1>1, <2>1, <2>2, <2>3, <2>4, TransferInputsStep, HandleBurnStep, TickStep DEF HTLCNext
<1> QED
  BY HTLCInitial, <1>1, PTL DEF HTLCSpec

(* Whole seconds, milliseconds and the two windows of a contract come to   *)
(* one span of time in which a token can be transferred (validateTXInputs). *)
THEOREM TransferableTheorem == HTLCSpec => []TransferableInTime
<1>1. HTLCInv => TransferableInTime
  BY InTime DEF HTLCInv, TransferableInTime
<1> QED
  BY HTLCInvariant, <1>1, PTL

(* While the preimage opens a contract for redeemHTLC, no transfer spends  *)
(* the token (validateTXInputs).                                           *)
THEOREM RefundTheorem == HTLCSpec => []RefundOnly
<1>1. HTLCInv => RefundOnly
  <2> SUFFICES ASSUME HTLCInv, NEW t \in Tokens, NEW p \in Parties,
                      Unlocked(t, p), token[t].htlc.form = "object"
               PROVE  /\ \A s \in Secrets :
                             RedeemHTLC(token[t].htlc, s, now) => ~InputAccepted(t, p)
                      /\ token[t].timeLock = 0 /\ token[t].exp = 0 =>
                            (InputAccepted(t, p) <=> CanRefund(token[t].htlc, now))
    BY DEF RefundOnly
  <2> DEFINE c == token[t].htlc
  <2>1. c \in Contract /\ now \in Nat
    BY DEF HTLCInv, HTLCTypeOK, Unlocked, Issued, Payload
  <2>2. ContractAccepts(c) <=> CanRefund(c, now)
    BY <2>1, Accepted
  <2>3. CanRefund(c, now) => c.timelock <= now
    BY <2>1, Accepted
  <2>4. \A s \in Secrets : RedeemHTLC(c, s, now) => now < c.timelock
    BY <2>1, TwoWays DEF RedeemHTLC
  <2>5. c.timelock \in Int
    BY <2>1 DEF Contract
  <2>6. InputAccepted(t, p) => ContractAccepts(c)
    BY DEF InputAccepted
  <2>7. ContractAccepts(c) /\ token[t].timeLock = 0 /\ token[t].exp = 0 => InputAccepted(t, p)
    BY DEF InputAccepted, IsExpired, Unlocked
  <2> HIDE DEF c
  <2>8. \A s \in Secrets : RedeemHTLC(c, s, now) => ~InputAccepted(t, p)
    BY <2>1, <2>2, <2>3, <2>4, <2>5, <2>6
  <2> QED
    BY <2>2, <2>6, <2>7, <2>8 DEF c
<1> QED
  BY HTLCInvariant, <1>1, PTL
=============================================================================
