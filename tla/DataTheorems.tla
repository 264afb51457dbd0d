----------------------------- MODULE DataTheorems -----------------------------
(***************************************************************************)
(* Facts about finite sets, sequences and sums that the proofs share.      *)
(*                                                                         *)
(* A sum is SumFunctionOnSet of the community modules, a fold.  The        *)
(* library's induction theorems take an operator as a parameter, which     *)
(* the provers cannot instantiate; an induction over sets (ByInduction,    *)
(* ByRemoval, ByAddition) needs none.                                      *)
(***************************************************************************)
EXTENDS Integers, SequencesExt, FiniteSetTheorems, SequenceTheorems, WellFoundedInduction, TLAPS

Less == OpToRel(<, Nat)

(* A set that has 0 and the successor of each of its members has every       *)
(* natural number.                                                           *)
LEMMA ByInduction ==
    ASSUME NEW T, 0 \in T, \A n \in Nat : n \in T => n + 1 \in T
    PROVE  Nat \subseteq T
<1> SUFFICES ASSUME Nat \ T # {} PROVE FALSE
  OBVIOUS
<1>1. \A i, j \in Nat : <<i, j>> \in Less <=> i < j
  BY DEF Less, OpToRel
<1>2. IsWellFoundedOn(Less, Nat)
  BY NatLessThanWellFounded DEF Less
<1>3. PICK n \in Nat \ T : \A m \in Nat \ T : ~(<<m, n>> \in Less)
  <2>1. Nat \ T \subseteq Nat
    OBVIOUS
  <2> QED BY <1>2, <2>1, WFMin
<1>4. n - 1 \in Nat /\ n - 1 < n
  OBVIOUS
<1>5. n - 1 \in T
  BY <1>1, <1>3, <1>4
<1> QED BY <1>4, <1>5

(* The same for the subsets of a finite set: one belongs to P if all that    *)
(* lack one of its elements do.                                              *)
LEMMA ByRemoval ==
    ASSUME NEW S, IsFiniteSet(S), NEW P, {} \in P,
           \A s \in SUBSET S : s # {} /\ (\A x \in s : s \ {x} \in P) => s \in P
    PROVE  SUBSET S \subseteq P
<1> DEFINE Sized(n) == \A s \in SUBSET S : Cardinality(s) = n => s \in P
           T == {n \in Nat : Sized(n)}
<1>1. \A s \in SUBSET S : IsFiniteSet(s) /\ Cardinality(s) \in Nat
  BY FS_Subset, FS_CardinalityType
<1>2. 0 \in T
  BY <1>1, FS_EmptySet
<1>3. ASSUME NEW n \in Nat, n \in T PROVE n + 1 \in T
  <2>1. Sized(n)
    BY <1>3
  <2>2. ASSUME NEW s \in SUBSET S, Cardinality(s) = n + 1 PROVE s \in P
    <3>1. s # {}
      BY <2>2, FS_EmptySet
    <3>2. ASSUME NEW x \in s PROVE s \ {x} \in P
      <4>1. Cardinality(s \ {x}) = n
        BY <1>1, <2>2, FS_RemoveElement
      <4>2. s \ {x} \in SUBSET S
        OBVIOUS
      <4> QED BY <2>1, <4>1, <4>2
    <3> QED BY <3>1, <3>2
  <2>3. Sized(n + 1)
    BY <2>2
  <2> QED BY <2>3
<1> HIDE DEF T
<1>4. Nat \subseteq T
  BY <1>2, <1>3, ByInduction
<1> QED BY <1>1, <1>4 DEF T

(* Or if it does after the addition of an element.                           *)
LEMMA ByAddition ==
    ASSUME NEW S, IsFiniteSet(S), NEW P, {} \in P,
           \A s \in SUBSET S, x \in S : s \in P /\ x \notin s => s \cup {x} \in P
    PROVE  S \in P
<1>1. ASSUME NEW s \in SUBSET S, s # {}, \A x \in s : s \ {x} \in P PROVE s \in P
  <2>1. PICK x : x \in s
    BY <1>1
  <2>2. s \ {x} \in P /\ s \ {x} \in SUBSET S /\ x \in S /\ x \notin s \ {x}
    BY <1>1, <2>1
  <2>3. (s \ {x}) \cup {x} \in P
    BY <2>2
  <2>4. (s \ {x}) \cup {x} = s
    BY <2>1
  <2> QED BY <2>3, <2>4
<1>2. SUBSET S \subseteq P
  BY <1>1, ByRemoval
<1> QED BY <1>2

-----------------------------------------------------------------------------
(* The function behind a sum over subsets of S.                              *)
Pick(s) == CHOOSE x \in s : TRUE
Step(f, g, s) == IF s = {} THEN 0 ELSE f[Pick(s)] + g[s \ {Pick(s)}]
Sums(f, S, g) == g = [s \in SUBSET S |-> Step(f, g, s)]

(* The element picked is one of the set.                                     *)
LEMMA PickIn == ASSUME NEW s, s # {} PROVE Pick(s) \in s
BY DEF Pick

(* There is one: values computed by size are right up to any size.           *)
LEMMA SumsExist == ASSUME NEW f, NEW S, IsFiniteSet(S) PROVE \E g : Sums(f, S, g)
<1> DEFINE Upto(n, g) == \A s \in SUBSET S : Cardinality(s) < n => g[s] = Step(f, g, s)
           T == {n \in Nat : \E g : Upto(n, g)}
<1>1. \A s \in SUBSET S : IsFiniteSet(s) /\ Cardinality(s) \in Nat
  BY FS_Subset, FS_CardinalityType
<1>2. 0 \in T
  <2>1. Upto(0, f)
    BY <1>1
  <2> QED BY <2>1
<1>3. ASSUME NEW n \in Nat, n \in T PROVE n + 1 \in T
  <2>1. PICK g : Upto(n, g)
    BY <1>3
  <2> DEFINE h == [s \in SUBSET S |-> Step(f, g, s)]
  <2>2. ASSUME NEW s \in SUBSET S, Cardinality(s) < n + 1, s # {}
        PROVE  h[s \ {Pick(s)}] = g[s \ {Pick(s)}]
    <3> DEFINE r == s \ {Pick(s)}
    <3>1. r \in SUBSET S /\ Cardinality(r) = Cardinality(s) - 1
      BY <1>1, <2>2, PickIn, FS_RemoveElement
    <3>2. Cardinality(r) < n
      BY <1>1, <2>2, <3>1
    <3> QED BY <2>1, <3>1, <3>2
  <2>3. ASSUME NEW s \in SUBSET S, Cardinality(s) < n + 1 PROVE h[s] = Step(f, h, s)
    BY <2>2, <2>3 DEF Step
  <2> HIDE DEF h
  <2>4. Upto(n + 1, h)
    BY <2>3
  <2> QED BY <2>4
<1> HIDE DEF T
<1>4. Cardinality(S) + 1 \in T
  BY <1>1, <1>2, <1>3, ByInduction
<1>5. PICK g : Upto(Cardinality(S) + 1, g)
  BY <1>4 DEF T
<1> DEFINE h == [s \in SUBSET S |-> Step(f, g, s)]
<1>6. ASSUME NEW s \in SUBSET S PROVE h[s] = Step(f, h, s)
  <2>1. Cardinality(s) < Cardinality(S) + 1
    BY <1>1, FS_Subset
  <2>2. s # {} => h[s \ {Pick(s)}] = g[s \ {Pick(s)}]
    <3>1. ASSUME NEW r \in SUBSET S PROVE h[r] = g[r]
      <4>1. Cardinality(r) < Cardinality(S) + 1
        BY <1>1, FS_Subset
      <4> QED BY <1>5, <4>1
    <3> QED BY <3>1
  <2> QED BY <2>2 DEF Step
<1>7. h = [s \in SUBSET S |-> Step(f, h, s)]
  BY <1>6
<1> HIDE DEF h
<1> QED BY <1>7 DEF Sums

(* SumFunctionOnSet is the value of such a function at its set.              *)
LEMMA SumIsValue ==
    ASSUME NEW f, NEW S, IsFiniteSet(S)
    PROVE  \E g : Sums(f, S, g) /\ SumFunctionOnSet(f, S) = g[S]
<1> DEFINE g == CHOOSE h : Sums(f, S, h)
<1>1. Sums(f, S, g)
  BY SumsExist
<1>2. SumFunctionOnSet(f, S) = g[S]
  BY DEF SumFunctionOnSet, FoldFunctionOnSet, MapThenFoldSet, Sums, Step, Pick
<1> QED BY <1>1, <1>2

(* Two such functions agree where their summands do.                         *)
LEMMA SumsAgree ==
    ASSUME NEW e, NEW f, NEW S, NEW U \in SUBSET S, IsFiniteSet(S),
           NEW g, Sums(e, S, g), NEW h, Sums(f, U, h), \A x \in U : e[x] = f[x]
    PROVE  g[U] = h[U]
<1> DEFINE P == {s \in SUBSET U : g[s] = h[s]}
<1>1. \A s \in SUBSET U : g[s] = Step(e, g, s) /\ h[s] = Step(f, h, s)
  BY DEF Sums
<1>2. {} \in P
  BY <1>1 DEF Step
<1>3. ASSUME NEW s \in SUBSET U, s # {}, \A x \in s : s \ {x} \in P PROVE s \in P
  <2>1. Pick(s) \in s
    BY <1>3, PickIn
  <2>2. g[s \ {Pick(s)}] = h[s \ {Pick(s)}] /\ e[Pick(s)] = f[Pick(s)]
    BY <1>3, <2>1
  <2>3. g[s] = h[s]
    BY <1>1, <1>3, <2>2 DEF Step
  <2> QED BY <2>3
<1> HIDE DEF P
<1>4. IsFiniteSet(U)
  BY FS_Subset
<1>5. SUBSET U \subseteq P
  BY <1>2, <1>3, <1>4, ByRemoval
<1> QED BY <1>5 DEF P

-----------------------------------------------------------------------------

(* The value of a sum depends on its summands only.                          *)
LEMMA SumSame ==
    ASSUME NEW f, NEW g, NEW S, IsFiniteSet(S), \A x \in S : f[x] = g[x]
    PROVE  SumFunctionOnSet(f, S) = SumFunctionOnSet(g, S)
BY SumIsValue, SumsAgree

(* The empty sum.                                                            *)
LEMMA SumEmpty == ASSUME NEW f PROVE SumFunctionOnSet(f, {}) = 0
<1>1. IsFiniteSet({})
  BY FS_EmptySet
<1>2. PICK g : Sums(f, {}, g) /\ SumFunctionOnSet(f, {}) = g[{}]
  BY <1>1, SumIsValue
<1> QED BY <1>2 DEF Sums, Step

(* One index is taken out.                                                   *)
LEMMA SumPick ==
    ASSUME NEW f, NEW S, IsFiniteSet(S), S # {}
    PROVE  SumFunctionOnSet(f, S) = f[Pick(S)] + SumFunctionOnSet(f, S \ {Pick(S)})
<1> DEFINE x == Pick(S)
           R == S \ {x}
<1>1. IsFiniteSet(R) /\ R \subseteq S
  BY FS_Subset
<1>2. PICK g : Sums(f, S, g) /\ SumFunctionOnSet(f, S) = g[S]
  BY SumIsValue
<1>3. g[S] = f[x] + g[R]
  BY <1>2 DEF Sums, Step
<1> HIDE DEF R, x
<1>4. PICK h : Sums(f, R, h) /\ SumFunctionOnSet(f, R) = h[R]
  BY <1>1, SumIsValue
<1>5. g[R] = h[R]
  <2>1. R \in SUBSET S /\ \A z \in R : f[z] = f[z]
    BY <1>1
  <2> QED BY <1>2, <1>4, <2>1, SumsAgree
<1>6. SumFunctionOnSet(f, S) = f[x] + SumFunctionOnSet(f, R)
  BY <1>2, <1>3, <1>4, <1>5
<1> QED BY <1>6 DEF R, x

(* Sums of integers are integers.                                            *)
LEMMA SumType ==
    ASSUME NEW f, NEW S, IsFiniteSet(S), \A x \in S : f[x] \in Int
    PROVE  SumFunctionOnSet(f, S) \in Int
<1> DEFINE P == {s \in SUBSET S : SumFunctionOnSet(f, s) \in Int}
<1>1. {} \in P
  BY SumEmpty
<1>2. ASSUME NEW s \in SUBSET S, s # {}, \A x \in s : s \ {x} \in P PROVE s \in P
  <2>1. Pick(s) \in s /\ IsFiniteSet(s)
    BY <1>2, PickIn, FS_Subset
  <2>2. SumFunctionOnSet(f, s \ {Pick(s)}) \in Int /\ f[Pick(s)] \in Int
    BY <1>2, <2>1
  <2>3. SumFunctionOnSet(f, s) \in Int
    BY <1>2, <2>1, <2>2, SumPick
  <2> QED BY <2>3
<1> HIDE DEF P
<1>3. SUBSET S \subseteq P
  BY <1>1, <1>2, ByRemoval
<1> QED BY <1>3 DEF P

(* Any index may be taken out: the order of a sum does not matter.           *)
LEMMA SumRemove ==
    ASSUME NEW f, NEW S, IsFiniteSet(S), \A x \in S : f[x] \in Int, NEW y \in S
    PROVE  SumFunctionOnSet(f, S) = f[y] + SumFunctionOnSet(f, S \ {y})
<1> DEFINE AnySet(s) == \A x \in s : SumFunctionOnSet(f, s) = f[x] + SumFunctionOnSet(f, s \ {x})
           P == {s \in SUBSET S : AnySet(s)}
<1>1. \A s \in SUBSET S : IsFiniteSet(s) /\ SumFunctionOnSet(f, s) \in Int
  BY FS_Subset, SumType
<1>2. {} \in P
  OBVIOUS
<1>3. ASSUME NEW s \in SUBSET S, s # {}, \A x \in s : s \ {x} \in P PROVE s \in P
  <2> SUFFICES ASSUME NEW x \in s PROVE SumFunctionOnSet(f, s) = f[x] + SumFunctionOnSet(f, s \ {x})
    OBVIOUS
  <2>1. PICK c : c = Pick(s)
    OBVIOUS
  <2>2. c \in s /\ SumFunctionOnSet(f, s) = f[c] + SumFunctionOnSet(f, s \ {c})
    BY <1>1, <1>3, <2>1, PickIn, SumPick
  <2>3. CASE x # c
    <3>1. PICK r \in SUBSET S : r = (s \ {c}) \ {x} /\ r = (s \ {x}) \ {c}
      OBVIOUS
    <3>2. AnySet(s \ {c}) /\ AnySet(s \ {x})
      BY <1>3, <2>2
    <3>3. x \in s \ {c} /\ c \in s \ {x}
      BY <2>2, <2>3
    <3>4. SumFunctionOnSet(f, s \ {c}) = f[x] + SumFunctionOnSet(f, r)
      BY <3>1, <3>2, <3>3
    <3>5. SumFunctionOnSet(f, s \ {x}) = f[c] + SumFunctionOnSet(f, r)
      BY <3>1, <3>2, <3>3
    <3>6. f[c] \in Int /\ f[x] \in Int /\ SumFunctionOnSet(f, r) \in Int
      BY <1>1, <2>2
    <3>7. SumFunctionOnSet(f, s) = f[x] + (f[c] + SumFunctionOnSet(f, r))
      BY <2>2, <3>4, <3>6
    <3> QED BY <3>5, <3>7
  <2> QED BY <2>2, <2>3
<1> HIDE DEF P
<1>4. SUBSET S \subseteq P
  BY <1>2, <1>3, ByRemoval
<1> QED BY <1>4 DEF P

(* An index is added.                                                        *)
LEMMA SumAdd ==
    ASSUME NEW f, NEW S, IsFiniteSet(S), \A x \in S : f[x] \in Int,
           NEW y, y \notin S, f[y] \in Int
    PROVE  SumFunctionOnSet(f, S \cup {y}) = SumFunctionOnSet(f, S) + f[y]
<1> DEFINE T == S \cup {y}
<1>1. IsFiniteSet(T) /\ y \in T /\ T \ {y} = S /\ \A x \in T : f[x] \in Int
  BY FS_AddElement
<1> HIDE DEF T
<1>2. SumFunctionOnSet(f, T) = f[y] + SumFunctionOnSet(f, S)
  BY <1>1, SumRemove
<1>3. SumFunctionOnSet(f, S) \in Int
  BY SumType
<1> QED BY <1>2, <1>3 DEF T

(* The sum over two disjoint sets.                                           *)
LEMMA SumUnion ==
    ASSUME NEW f, NEW S, NEW T, IsFiniteSet(S), IsFiniteSet(T), S \cap T = {},
           \A x \in S \cup T : f[x] \in Int
    PROVE  SumFunctionOnSet(f, S \cup T) = SumFunctionOnSet(f, S) + SumFunctionOnSet(f, T)
<1> DEFINE P == {s \in SUBSET T : SumFunctionOnSet(f, S \cup s)
                                    = SumFunctionOnSet(f, S) + SumFunctionOnSet(f, s)}
<1>1. SumFunctionOnSet(f, S) \in Int
  BY SumType
<1>2. {} \in P
  <2>1. S \cup {} = S
    OBVIOUS
  <2> QED BY <1>1, <2>1, SumEmpty
<1>3. ASSUME NEW s \in SUBSET T, NEW x \in T, s \in P, x \notin s PROVE s \cup {x} \in P
  <2>1. IsFiniteSet(s) /\ IsFiniteSet(S \cup s)
    BY FS_Subset, FS_Union
  <2>2. SumFunctionOnSet(f, s \cup {x}) = SumFunctionOnSet(f, s) + f[x]
    BY <1>3, <2>1, SumAdd
  <2> DEFINE U == S \cup s
  <2>3. x \notin U /\ \A y \in U : f[y] \in Int
    BY <1>3
  <2>4. S \cup (s \cup {x}) = U \cup {x}
    OBVIOUS
  <2> HIDE DEF U
  <2>5. SumFunctionOnSet(f, U \cup {x}) = SumFunctionOnSet(f, U) + f[x]
    BY <2>1, <2>3, SumAdd DEF U
  <2>6. SumFunctionOnSet(f, s) \in Int /\ f[x] \in Int
    BY <2>1, SumType
  <2>7. SumFunctionOnSet(f, U) = SumFunctionOnSet(f, S) + SumFunctionOnSet(f, s)
    BY <1>3 DEF U
  <2>8. SumFunctionOnSet(f, U \cup {x}) = SumFunctionOnSet(f, S) + SumFunctionOnSet(f, s \cup {x})
    BY <1>1, <2>2, <2>5, <2>6, <2>7
  <2>9. SumFunctionOnSet(f, S \cup (s \cup {x}))
          = SumFunctionOnSet(f, S) + SumFunctionOnSet(f, s \cup {x})
    BY <2>4, <2>8
  <2> QED BY <2>9
<1> HIDE DEF P
<1>4. T \in P
  BY <1>2, <1>3, ByAddition
<1> QED BY <1>4 DEF P

(* A sum of naturals is one, and grows with its set.                         *)
LEMMA SumNat ==
    ASSUME NEW f, NEW S, IsFiniteSet(S), \A x \in S : f[x] \in Nat
    PROVE  SumFunctionOnSet(f, S) \in Nat
<1> DEFINE P == {s \in SUBSET S : SumFunctionOnSet(f, s) \in Nat}
<1>1. {} \in P
  BY SumEmpty
<1>2. ASSUME NEW s \in SUBSET S, NEW x \in S, s \in P, x \notin s PROVE s \cup {x} \in P
  <2>1. IsFiniteSet(s) /\ f[x] \in Nat /\ SumFunctionOnSet(f, s) \in Nat
    BY <1>2, FS_Subset
  <2>2. SumFunctionOnSet(f, s \cup {x}) = SumFunctionOnSet(f, s) + f[x]
    BY <1>2, <2>1, SumAdd
  <2> QED BY <2>1, <2>2
<1> HIDE DEF P
<1>3. S \in P
  BY <1>1, <1>2, ByAddition
<1> QED BY <1>3 DEF P

(* A sum of positive amounts is positive.                                    *)
LEMMA SumPositive ==
    ASSUME NEW f, NEW S, IsFiniteSet(S), S # {}, \A x \in S : f[x] \in Nat /\ f[x] > 0
    PROVE  SumFunctionOnSet(f, S) \in Nat /\ SumFunctionOnSet(f, S) > 0
<1>1. PICK y \in S : TRUE
  OBVIOUS
<1>2. SumFunctionOnSet(f, S) = f[y] + SumFunctionOnSet(f, S \ {y})
  BY SumRemove
<1>3. IsFiniteSet(S \ {y})
  BY FS_RemoveElement
<1>4. SumFunctionOnSet(f, S \ {y}) \in Nat
  BY <1>3, SumNat
<1> QED BY <1>2, <1>4

(* More naturals sum up to no less.                                          *)
LEMMA SumSubset ==
    ASSUME NEW f, NEW S, IsFiniteSet(S), \A x \in S : f[x] \in Nat, NEW T, T \subseteq S
    PROVE  SumFunctionOnSet(f, T) <= SumFunctionOnSet(f, S)
<1> DEFINE R == S \ T
<1>1. IsFiniteSet(T) /\ IsFiniteSet(R) /\ T \cap R = {} /\ T \cup R = S
  BY FS_Subset
<1> HIDE DEF R
<1>2. \A x \in T \cup R : f[x] \in Int /\ f[x] \in Nat
  BY <1>1
<1>3. SumFunctionOnSet(f, S) = SumFunctionOnSet(f, T) + SumFunctionOnSet(f, R)
  BY <1>1, <1>2, SumUnion
<1>4. SumFunctionOnSet(f, T) \in Nat /\ SumFunctionOnSet(f, R) \in Nat
  BY <1>1, <1>2, SumNat
<1> QED BY <1>3, <1>4

(* Larger summands sum up to no less.                                        *)
LEMMA SumMonotone ==
    ASSUME NEW f, NEW g, NEW S, IsFiniteSet(S),
           \A x \in S : f[x] \in Int /\ g[x] \in Int /\ f[x] <= g[x]
    PROVE  SumFunctionOnSet(f, S) <= SumFunctionOnSet(g, S)
<1> DEFINE P == {s \in SUBSET S : SumFunctionOnSet(f, s) <= SumFunctionOnSet(g, s)}
<1>1. {} \in P
  BY SumEmpty
<1>2. ASSUME NEW s \in SUBSET S, NEW x \in S, s \in P, x \notin s PROVE s \cup {x} \in P
  <2>1. IsFiniteSet(s) /\ SumFunctionOnSet(f, s) <= SumFunctionOnSet(g, s)
    BY <1>2, FS_Subset
  <2>2. /\ SumFunctionOnSet(f, s \cup {x}) = SumFunctionOnSet(f, s) + f[x]
        /\ SumFunctionOnSet(g, s \cup {x}) = SumFunctionOnSet(g, s) + g[x]
    BY <1>2, <2>1, SumAdd
  <2>3. SumFunctionOnSet(f, s) \in Int /\ SumFunctionOnSet(g, s) \in Int
    BY <2>1, SumType
  <2> QED BY <2>1, <2>2, <2>3
<1> HIDE DEF P
<1>3. S \in P
  BY <1>1, <1>2, ByAddition
<1> QED BY <1>3 DEF P

-----------------------------------------------------------------------------
(* Strict orders on finite sets.                                             *)

(* A strict total order.                                                     *)
StrictOrder(R, S) ==
    /\ \A x \in S : <<x, x>> \notin R
    /\ \A x, y \in S : x # y => <<x, y>> \in R \/ <<y, x>> \in R
    /\ \A x, y, z \in S : <<x, y>> \in R /\ <<y, z>> \in R => <<x, z>> \in R

(* Every nonempty part of a finite set has a last element.                   *)
LEMMA LastElement ==
    ASSUME NEW S, IsFiniteSet(S), NEW R, StrictOrder(R, S)
    PROVE  \A s \in SUBSET S : s # {} => \E m \in s : \A y \in s : y = m \/ <<y, m>> \in R
<1> DEFINE P == {s \in SUBSET S : s = {} \/ \E m \in s : \A y \in s : y = m \/ <<y, m>> \in R}
<1>1. {} \in P
  OBVIOUS
<1>2. ASSUME NEW s \in SUBSET S, s # {}, \A x \in s : s \ {x} \in P PROVE s \in P
  <2>1. PICK x : x \in s
    BY <1>2
  <2>2. s \ {x} \in P
    BY <1>2, <2>1
  <2>3. CASE s \ {x} = {}
    <3>1. \A y \in s : y = x
      BY <2>3
    <3> QED BY <2>1, <3>1
  <2>4. CASE s \ {x} # {}
    <3>1. PICK m \in s \ {x} : \A y \in s \ {x} : y = m \/ <<y, m>> \in R
      BY <2>2, <2>4
    <3>2. x \in S /\ m \in S /\ x # m
      BY <2>1, <3>1
    <3>3. CASE <<x, m>> \in R
      BY <3>1, <3>3
    <3>4. CASE <<m, x>> \in R
      <4>1. \A y \in s : y = x \/ <<y, x>> \in R
        BY <3>1, <3>2, <3>4 DEF StrictOrder
      <4> QED BY <2>1, <4>1
    <3> QED BY <3>2, <3>3, <3>4 DEF StrictOrder
  <2> QED BY <2>3, <2>4
<1> HIDE DEF P
<1>3. SUBSET S \subseteq P
  BY <1>1, <1>2, ByRemoval
<1> QED BY <1>3 DEF P

(* In a finite set there is one element for each number of predecessors.     *)
LEMMA Ranks ==
    ASSUME NEW S, IsFiniteSet(S), NEW R, StrictOrder(R, S)
    PROVE  \A k \in 0..(Cardinality(S) - 1) :
               \E x \in S : Cardinality({y \in S : <<y, x>> \in R}) = k
<1> DEFINE Ranked(s) == \A k \in 0..(Cardinality(s) - 1) :
                            \E x \in s : Cardinality({y \in s : <<y, x>> \in R}) = k
           P == {s \in SUBSET S : Ranked(s)}
<1>1. {} \in P
  BY FS_EmptySet
<1>2. ASSUME NEW s \in SUBSET S, s # {}, \A x \in s : s \ {x} \in P PROVE s \in P
  <2>1. PICK m \in s : \A y \in s : y = m \/ <<y, m>> \in R
    BY <1>2, LastElement
  <2> DEFINE t == s \ {m}
  <2>2. IsFiniteSet(s) /\ IsFiniteSet(t) /\ Cardinality(s) = Cardinality(t) + 1
        /\ Cardinality(t) \in Nat
    BY FS_Subset, FS_RemoveElement, FS_CardinalityType
  <2>3. Ranked(t)
    BY <1>2, <2>1
  <2>4. ASSUME NEW k \in 0..(Cardinality(s) - 1)
        PROVE  \E x \in s : Cardinality({y \in s : <<y, x>> \in R}) = k
    <3>1. CASE k = Cardinality(t)
      <4>1. {y \in s : <<y, m>> \in R} = t
        BY <2>1 DEF StrictOrder
      <4> QED BY <3>1, <4>1
    <3>2. CASE k # Cardinality(t)
      <4>1. k \in 0..(Cardinality(t) - 1)
        BY <2>2, <3>2
      <4>2. PICK x \in t : Cardinality({y \in t : <<y, x>> \in R}) = k
        BY <2>3, <4>1
      <4>3. {y \in t : <<y, x>> \in R} = {y \in s : <<y, x>> \in R}
        <5>1. x \in S /\ m \in S /\ <<x, m>> \in R /\ <<m, m>> \notin R
          BY <2>1 DEF StrictOrder
        <5>2. <<m, x>> \notin R
          BY <5>1 DEF StrictOrder
        <5> QED BY <5>2
      <4> QED BY <4>2, <4>3
    <3> QED BY <3>1, <3>2
  <2> QED BY <2>4
<1> HIDE DEF P
<1>3. SUBSET S \subseteq P
  BY <1>1, <1>2, ByRemoval
<1>4. S \in P
  BY <1>3
<1> QED BY <1>4 DEF P

-----------------------------------------------------------------------------
(* More about sums.                                                          *)

(* The sum does not change when the indices are renamed.                     *)
LEMMA SumRenamed ==
    ASSUME NEW f, NEW g, NEW S, NEW T, IsFiniteSet(S), \A x \in S : f[x] \in Int,
           NEW h \in [S -> T], \A y \in T : \E x \in S : h[x] = y,
           \A x, y \in S : h[x] = h[y] => x = y, \A x \in S : f[x] = g[h[x]]
    PROVE  IsFiniteSet(T) /\ SumFunctionOnSet(f, S) = SumFunctionOnSet(g, T)
<1> DEFINE Image(s) == {h[x] : x \in s}
           P == {s \in SUBSET S : /\ IsFiniteSet(Image(s))
                                  /\ SumFunctionOnSet(f, s) = SumFunctionOnSet(g, Image(s))}
<1>1. {} \in P
  <2>1. Image({}) = {}
    OBVIOUS
  <2> QED BY <2>1, SumEmpty, FS_EmptySet
<1>2. ASSUME NEW s \in SUBSET S, NEW x \in S, s \in P, x \notin s PROVE s \cup {x} \in P
  <2>1. Image(s \cup {x}) = Image(s) \cup {h[x]}
    OBVIOUS
  <2>2. h[x] \notin Image(s) /\ IsFiniteSet(s) /\ IsFiniteSet(Image(s))
    BY <1>2, FS_Subset
  <2>3. g[h[x]] = f[x] /\ f[x] \in Int /\ \A y \in Image(s) : g[y] \in Int
    OBVIOUS
  <2>4. SumFunctionOnSet(f, s \cup {x}) = SumFunctionOnSet(f, s) + f[x]
    BY <1>2, <2>2, SumAdd
  <2> DEFINE I == Image(s)
             y == h[x]
  <2>5. IsFiniteSet(I) /\ y \notin I /\ (\A z \in I : g[z] \in Int) /\ g[y] \in Int
    BY <2>2, <2>3
  <2> HIDE DEF I, y
  <2>6. SumFunctionOnSet(g, I \cup {y}) = SumFunctionOnSet(g, I) + g[y]
    BY <2>5, SumAdd
  <2>7. IsFiniteSet(I \cup {y})
    BY <2>5, FS_AddElement
  <2>8. SumFunctionOnSet(f, s) = SumFunctionOnSet(g, I)
    BY <1>2 DEF I
  <2>9. Image(s \cup {x}) = I \cup {y} /\ g[y] = f[x]
    BY <2>1, <2>3 DEF I, y
  <2> HIDE DEF Image
  <2> QED BY <2>4, <2>6, <2>7, <2>8, <2>9
<1> HIDE DEF P
<1>3. S \in P
  BY <1>1, <1>2, ByAddition
<1>4. Image(S) = T
  OBVIOUS
<1> QED BY <1>3, <1>4 DEF P

(* The sum of one summand.                                                   *)
LEMMA SumOne ==
    ASSUME NEW f, NEW x, f[x] \in Int
    PROVE  SumFunctionOnSet(f, {x}) = f[x]
<1>1. SumFunctionOnSet(f, {} \cup {x}) = SumFunctionOnSet(f, {}) + f[x]
  BY SumAdd, FS_EmptySet
<1>2. {} \cup {x} = {x}
  OBVIOUS
<1> QED BY <1>1, <1>2, SumEmpty

(* A sum of zeros is zero.                                                   *)
LEMMA SumZeros ==
    ASSUME NEW f, NEW D, IsFiniteSet(D), \A x \in D : f[x] = 0
    PROVE  SumFunctionOnSet(f, D) = 0
<1> DEFINE P == {S \in SUBSET D : SumFunctionOnSet(f, S) = 0}
<1>1. {} \in P
  BY SumEmpty
<1>2. ASSUME NEW S \in SUBSET D, NEW x \in D, S \in P, x \notin S PROVE S \cup {x} \in P
  <2>1. IsFiniteSet(S)
    BY FS_Subset
  <2>2. SumFunctionOnSet(f, S \cup {x}) = SumFunctionOnSet(f, S) + f[x]
    BY <1>2, <2>1, SumAdd
  <2> QED BY <1>2, <2>2
<1> HIDE DEF P
<1>3. D \in P
  BY <1>1, <1>2, ByAddition
<1> QED BY <1>3 DEF P

(* A sum with at most one summand that is not zero.                          *)
LEMMA SumSingle ==
    ASSUME NEW f, NEW D, IsFiniteSet(D), NEW y \in D, f[y] \in Int,
           \A x \in D : x # y => f[x] = 0
    PROVE  SumFunctionOnSet(f, D) = f[y]
<1>1. \A x \in D : f[x] \in Int
  OBVIOUS
<1>2. SumFunctionOnSet(f, D) = f[y] + SumFunctionOnSet(f, D \ {y})
  BY <1>1, SumRemove
<1>3. IsFiniteSet(D \ {y})
  BY FS_Subset
<1>4. SumFunctionOnSet(f, D \ {y}) = 0
  BY <1>3, SumZeros
<1> QED BY <1>2, <1>4

(* The sum of differences is the difference of the sums.                     *)
LEMMA SumDifference ==
    ASSUME NEW f, NEW g, NEW h, NEW S, IsFiniteSet(S),
           \A x \in S : f[x] \in Int /\ g[x] \in Int /\ h[x] = f[x] - g[x]
    PROVE  SumFunctionOnSet(h, S) = SumFunctionOnSet(f, S) - SumFunctionOnSet(g, S)
<1> DEFINE P == {s \in SUBSET S : SumFunctionOnSet(h, s) = SumFunctionOnSet(f, s) - SumFunctionOnSet(g, s)}
<1>1. {} \in P
  BY SumEmpty
<1>2. ASSUME NEW s \in SUBSET S, NEW x \in S, s \in P, x \notin s
      PROVE  s \cup {x} \in P
  <2>1. IsFiniteSet(s)
    BY FS_Subset
  <2>2. \A y \in s : f[y] \in Int /\ g[y] \in Int /\ h[y] \in Int
    OBVIOUS
  <2>3. f[x] \in Int /\ g[x] \in Int /\ h[x] \in Int /\ h[x] = f[x] - g[x]
    OBVIOUS
  <2>4. /\ SumFunctionOnSet(f, s \cup {x}) = SumFunctionOnSet(f, s) + f[x]
        /\ SumFunctionOnSet(g, s \cup {x}) = SumFunctionOnSet(g, s) + g[x]
        /\ SumFunctionOnSet(h, s \cup {x}) = SumFunctionOnSet(h, s) + h[x]
    BY <1>2, <2>1, <2>2, <2>3, SumAdd
  <2>5. SumFunctionOnSet(f, s) \in Int /\ SumFunctionOnSet(g, s) \in Int
    BY <2>1, <2>2, SumType
  <2>6. SumFunctionOnSet(h, s) = SumFunctionOnSet(f, s) - SumFunctionOnSet(g, s)
    BY <1>2
  <2>7. SumFunctionOnSet(h, s \cup {x}) = SumFunctionOnSet(f, s \cup {x}) - SumFunctionOnSet(g, s \cup {x})
    BY <2>3, <2>4, <2>5, <2>6
  <2> QED BY <2>7
<1> HIDE DEF P
<1>3. S \in P
  BY <1>1, <1>2, ByAddition
<1> QED BY <1>3 DEF P

(* A sum of summands that are all the same.                                  *)
LEMMA SumSteady ==
    ASSUME NEW f, NEW S, IsFiniteSet(S), NEW c \in Int, \A x \in S : f[x] = c
    PROVE  SumFunctionOnSet(f, S) = Cardinality(S) * c
<1> DEFINE P == {s \in SUBSET S : SumFunctionOnSet(f, s) = Cardinality(s) * c}
<1>1. {} \in P
  <2>1. SumFunctionOnSet(f, {}) = 0 /\ Cardinality({}) = 0
    BY SumEmpty, FS_EmptySet
  <2>2. 0 * c = 0
    OBVIOUS
  <2> QED BY <2>1, <2>2
<1>2. ASSUME NEW s \in SUBSET S, NEW x \in S, s \in P, x \notin s PROVE s \cup {x} \in P
  <2>1. IsFiniteSet(s) /\ Cardinality(s) \in Nat
    BY FS_Subset, FS_CardinalityType
  <2>2. SumFunctionOnSet(f, s \cup {x}) = SumFunctionOnSet(f, s) + f[x]
    BY <1>2, <2>1, SumAdd
  <2>3. Cardinality(s \cup {x}) = Cardinality(s) + 1
    BY <1>2, <2>1, FS_AddElement
  <2>4. PICK k : k = Cardinality(s)
    OBVIOUS
  <2>5. k \in Nat /\ (k + 1) * c = k * c + c
    BY <2>1, <2>4
  <2>6. SumFunctionOnSet(f, s \cup {x}) = k * c + c
    BY <1>2, <2>2, <2>4
  <2> QED BY <2>3, <2>4, <2>5, <2>6
<1> HIDE DEF P
<1>3. S \in P
  BY <1>1, <1>2, ByAddition
<1> QED BY <1>3 DEF P

(* Of numbers listed from the largest to the smallest, no k sum up to more   *)
(* than the first k.                                                         *)
LEMMA FirstAreMost ==
    ASSUME NEW n \in Nat, NEW v, \A i \in 1..n : v[i] \in Int,
           \A i, j \in 1..n : i < j => v[j] <= v[i],
           NEW I, I \subseteq 1..n, NEW k \in 1..n, Cardinality(I) = k
    PROVE  SumFunctionOnSet(v, I) <= SumFunctionOnSet(v, 1..k)
<1> DEFINE K == 1..k
           A == I \ K
           B == K \ I
           J == I \cap K
<1>1. IsFiniteSet(I) /\ IsFiniteSet(K) /\ Cardinality(K) = k /\ K \subseteq 1..n
  <2>1. IsFiniteSet(1..n) /\ IsFiniteSet(1..k) /\ Cardinality(1..k) = k
    BY FS_Interval
  <2>2. 1..k \subseteq 1..n
    OBVIOUS
  <2> QED BY <2>1, <2>2, FS_Subset
<1>2. IsFiniteSet(A) /\ IsFiniteSet(B) /\ IsFiniteSet(J) /\ Cardinality(A) = Cardinality(B)
  <2>1. Cardinality(A) = k - Cardinality(J)
    BY <1>1, FS_Difference
  <2>2. Cardinality(B) = k - Cardinality(K \cap I)
    BY <1>1, FS_Difference
  <2>3. K \cap I = J /\ J \subseteq I
    OBVIOUS
  <2> QED BY <1>1, <2>1, <2>2, <2>3, FS_Difference, FS_Subset
<1>3. /\ I = J \cup A /\ J \cap A = {} /\ K = J \cup B /\ J \cap B = {}
      /\ \A i \in J \cup A \cup B : v[i] \in Int
      /\ \A i \in A : v[i] <= v[k] /\ i \in 1..n
      /\ \A i \in B : v[k] <= v[i] /\ i \in 1..n
  <2>1. \A i \in A : i \in 1..n /\ k < i
    OBVIOUS
  <2>2. \A i \in B : i \in 1..n /\ (i < k \/ i = k)
    OBVIOUS
  <2>3. v[k] \in Int /\ k \in 1..n
    OBVIOUS
  <2>4. \A i \in A : v[i] <= v[k]
    BY <2>1, <2>3
  <2>5. \A i \in B : v[k] <= v[i]
    BY <2>2, <2>3
  <2>6. /\ I = J \cup A /\ J \cap A = {} /\ K = J \cup B /\ J \cap B = {}
    OBVIOUS
  <2>7. \A i \in J \cup A \cup B : v[i] \in Int
    BY <1>1
  <2> QED BY <2>1, <2>2, <2>4, <2>5, <2>6, <2>7
<1> HIDE DEF K, A, B, J
<1>4. PICK c : c = [i \in 1..n |-> v[k]]
  OBVIOUS
<1>5. v[k] \in Int /\ (\A i \in A : c[i] = v[k]) /\ \A i \in B : c[i] = v[k]
  BY <1>3, <1>4
<1>6. SumFunctionOnSet(v, A) <= SumFunctionOnSet(c, A)
  BY <1>2, <1>3, <1>5, SumMonotone
<1>7. SumFunctionOnSet(c, B) <= SumFunctionOnSet(v, B)
  BY <1>2, <1>3, <1>5, SumMonotone
<1>8. SumFunctionOnSet(c, A) = SumFunctionOnSet(c, B)
  <2>1. SumFunctionOnSet(c, A) = Cardinality(A) * v[k] /\ SumFunctionOnSet(c, B) = Cardinality(B) * v[k]
    BY <1>2, <1>5, SumSteady
  <2> QED BY <1>2, <2>1
<1>9. /\ SumFunctionOnSet(v, A) \in Int /\ SumFunctionOnSet(v, B) \in Int /\ SumFunctionOnSet(v, J) \in Int
      /\ SumFunctionOnSet(c, A) \in Int /\ SumFunctionOnSet(c, B) \in Int
  BY <1>2, <1>3, <1>5, SumType
<1>10. /\ SumFunctionOnSet(v, I) = SumFunctionOnSet(v, J) + SumFunctionOnSet(v, A)
       /\ SumFunctionOnSet(v, K) = SumFunctionOnSet(v, J) + SumFunctionOnSet(v, B)
  BY <1>2, <1>3, SumUnion
<1>11. SumFunctionOnSet(v, I) <= SumFunctionOnSet(v, K)
  BY <1>6, <1>7, <1>8, <1>9, <1>10
<1> QED BY <1>11 DEF K

(* A sum whose summands vanish outside of a set.                             *)
LEMMA SumWhere ==
    ASSUME NEW f, NEW h, NEW S, NEW T, IsFiniteSet(S), T \subseteq S,
           \A x \in T : f[x] \in Int /\ h[x] = f[x],
           \A x \in S \ T : h[x] = 0
    PROVE  SumFunctionOnSet(h, S) = SumFunctionOnSet(f, T)
<1>1. IsFiniteSet(T) /\ IsFiniteSet(S \ T)
  BY FS_Subset
<1>2. S = T \cup (S \ T) /\ T \cap (S \ T) = {}
  OBVIOUS
<1>3. \A x \in T \cup (S \ T) : h[x] \in Int
  OBVIOUS
<1>4. SumFunctionOnSet(h, T \cup (S \ T)) = SumFunctionOnSet(h, T) + SumFunctionOnSet(h, S \ T)
  BY <1>1, <1>2, <1>3, SumUnion
<1>5. SumFunctionOnSet(h, S \ T) = 0
  BY <1>1, SumZeros
<1>6. SumFunctionOnSet(h, T) = SumFunctionOnSet(f, T) /\ SumFunctionOnSet(f, T) \in Int
  BY <1>1, SumSame, SumType
<1>7. SumFunctionOnSet(h, S) = SumFunctionOnSet(f, T) + 0
  <2>1. T \cup (S \ T) = S
    OBVIOUS
  <2> QED BY <1>4, <1>5, <1>6, <2>1
<1> QED BY ONLY <1>6, <1>7

-----------------------------------------------------------------------------
(* Positions, sequences and their parts.                                     *)

(* Any set of positions of a sequence is finite.                             *)
LEMMA Positions ==
    ASSUME NEW n \in Nat, NEW I \in SUBSET (1..n) PROVE IsFiniteSet(I)
<1>1. IsFiniteSet(1..n)
  BY FS_Interval
<1> QED BY ONLY <1>1, I \in SUBSET (1..n), FS_Subset

(* The least of some naturals is one of them, and none is less.              *)
LEMMA MinIn ==
    ASSUME NEW K, K \subseteq Nat, K # {}
    PROVE  Min(K) \in K /\ \A k \in K : Min(K) <= k
<1> DEFINE Q == {n \in Nat : (\E k \in K : k <= n) => \E m \in K : \A k \in K : m <= k}
<1>1. 0 \in Q
  OBVIOUS
<1>2. ASSUME NEW n \in Nat, n \in Q PROVE n + 1 \in Q
  <2>1. CASE \E k \in K : k <= n
    BY <1>2, <2>1
  <2>2. CASE ~\E k \in K : k <= n
    <3>1. ASSUME \E k \in K : k <= n + 1 PROVE \E m \in K : \A k \in K : m <= k
      <4>1. PICK m \in K : m <= n + 1
        BY <3>1
      <4>2. \A k \in K : m <= k
        BY <2>2, <4>1
      <4> QED BY <4>2
    <3> QED BY <3>1
  <2> QED BY <2>1, <2>2
<1> HIDE DEF Q
<1>3. Nat \subseteq Q
  BY <1>1, <1>2, ByInduction
<1>4. PICK n \in K : TRUE
  OBVIOUS
<1>5. \E m \in K : \A k \in K : m <= k
  BY <1>3, <1>4 DEF Q
<1> QED BY <1>5 DEF Min

(* A sequence over a set is one over a larger set.                           *)
LEMMA SeqSubset ==
    ASSUME NEW S, NEW T, S \subseteq T, NEW s \in Seq(S) PROVE s \in Seq(T)
OBVIOUS

(* Sequences without a set of elements.                                      *)
IsSeq(s) == Len(s) \in Nat /\ s = [i \in 1..Len(s) |-> s[i]]

(* A sequence over a set is one ...                                          *)
LEMMA SeqIs == ASSUME NEW S, NEW s \in Seq(S) PROVE IsSeq(s) /\ DOMAIN s = 1..Len(s)
BY DEF IsSeq

(* ... and the other way round.                                              *)
LEMMA IsSeqOf ==
    ASSUME NEW s, IsSeq(s)
    PROVE  s \in Seq({s[i] : i \in 1..Len(s)}) /\ DOMAIN s = 1..Len(s)
<1> DEFINE n == Len(s)
           T == {s[i] : i \in 1..n}
           t == [i \in 1..n |-> s[i]]
<1>1. n \in Nat /\ s = t
  BY DEF IsSeq
<1>2. \A i \in 1..n : s[i] \in T
  OBVIOUS
<1>3. DOMAIN t = 1..n /\ \A i \in 1..n : t[i] \in T
  BY <1>2
<1> HIDE DEF n, T
<1>4. t \in Seq(T)
  BY <1>1, <1>3
<1> QED BY <1>1, <1>3, <1>4 DEF n, T

(* A function on 1..n is a sequence of length n.                             *)
LEMMA Listed ==
    ASSUME NEW n \in Nat, NEW f, f = [i \in 1..n |-> f[i]]
    PROVE  IsSeq(f) /\ Len(f) = n
<1> DEFINE S == {f[i] : i \in 1..n}
           t == [i \in 1..n |-> f[i]]
<1>1. \A i \in 1..n : f[i] \in S
  OBVIOUS
<1> HIDE DEF S
<1>2. t \in Seq(S) /\ Len(t) = n
  BY <1>1
<1> QED BY <1>2, SeqIs

(* What a concatenation holds, and where.                                    *)
LEMMA Joined ==
    ASSUME NEW s, NEW t, IsSeq(s), IsSeq(t)
    PROVE  /\ IsSeq(s \o t) /\ Len(s \o t) = Len(s) + Len(t)
           /\ \A i \in 1..Len(s) : (s \o t)[i] = s[i]
           /\ \A i \in 1..Len(t) : (s \o t)[Len(s) + i] = t[i]
<1>1. PICK S : s \in Seq(S)
  BY IsSeqOf
<1>2. PICK T : t \in Seq(T)
  BY IsSeqOf
<1> DEFINE U == S \cup T
<1>3. s \in Seq(U) /\ t \in Seq(U)
  BY <1>1, <1>2, SeqSubset
<1> HIDE DEF U
<1>4. s \o t \in Seq(U) /\ Len(s \o t) = Len(s) + Len(t)
  BY <1>3
<1>5. \A i \in 1..Len(s) : (s \o t)[i] = s[i]
  BY <1>3
<1>6. \A i \in 1..Len(t) : (s \o t)[Len(s) + i] = t[i]
  BY <1>3
<1> QED BY <1>4, <1>5, <1>6, SeqIs

(* Sequences of one element, ...                                             *)
LEMMA One == ASSUME NEW x PROVE IsSeq(<<x>>) /\ Len(<<x>>) = 1
<1>1. <<x>> \in Seq({x})
  OBVIOUS
<1> QED BY <1>1, SeqIs

(* ... of two, ...                                                           *)
LEMMA Two == ASSUME NEW x, NEW y PROVE IsSeq(<<x, y>>) /\ Len(<<x, y>>) = 2
<1>1. <<x, y>> \in Seq({x, y})
  OBVIOUS
<1> QED BY <1>1, SeqIs

(* ... and of none.                                                          *)
LEMMA NoElement == IsSeq(<<>>) /\ Len(<<>>) = 0
<1>1. <<>> \in Seq({})
  OBVIOUS
<1> QED BY <1>1, SeqIs

(* Nothing appended changes nothing.                                         *)
LEMMA NothingAfter == ASSUME NEW S, NEW s \in Seq(S) PROVE s \o <<>> = s
OBVIOUS

Replaced(t, s, k, x) ==
    /\ IsSeq(t) /\ Len(t) = Len(s)
    /\ \A i \in 1..Len(s) : t[i] = IF i = k THEN x ELSE s[i]

(* Replacing an element by EXCEPT.                                           *)
LEMMA ReplacedIn ==
    ASSUME NEW s, IsSeq(s), NEW k, NEW x, NEW t, t = [s EXCEPT ![k] = x]
    PROVE  Replaced(t, s, k, x)
<1>1. DOMAIN s = 1..Len(s) /\ Len(s) \in Nat
  BY IsSeqOf DEF IsSeq
<1>2. t = [i \in 1..Len(s) |-> IF i = k THEN x ELSE s[i]]
  BY <1>1
<1>4. t = [i \in 1..Len(s) |-> t[i]]
  BY <1>2
<1>5. IsSeq(t) /\ Len(t) = Len(s)
  BY <1>1, <1>4, Listed
<1> QED BY <1>2, <1>5 DEF Replaced

(* Sequences of sequences are strung together.                               *)
LEMMA Flattened ==
    ASSUME NEW S, NEW q \in Seq(Seq(S)) PROVE FlattenSeq(q) \in Seq(S)
<1> DEFINE n == Len(q)
           Succ(f, i) == IF i = 1 THEN q[i] ELSE f[i - 1] \o q[i]
           Has(m) == \E f : f = [i \in 1..m |-> Succ(f, i)]
           T == {m \in Nat : m <= n => Has(m)}
<1>1. n \in Nat
  OBVIOUS
<1>2. 0 \in T
  <2>1. <<>> = [i \in 1..0 |-> Succ(<<>>, i)]
    OBVIOUS
  <2> HIDE DEF Succ
  <2>2. Has(0)
    BY <2>1
  <2> QED BY <2>2
<1>3. ASSUME NEW m \in Nat, m \in T PROVE m + 1 \in T
  <2> HIDE DEF Has
  <2> SUFFICES ASSUME m + 1 <= n PROVE Has(m + 1)
    OBVIOUS
  <2>0. Has(m)
    BY <1>1, <1>3
  <2> HIDE DEF Succ
  <2>1. PICK f : f = [i \in 1..m |-> Succ(f, i)]
    BY <2>0 DEF Has
  <2> DEFINE g == [i \in 1..(m + 1) |-> IF i = m + 1 THEN Succ(f, i) ELSE f[i]]
  <2>2. \A i \in 1..(m + 1) : g[i] = Succ(g, i)
    <3> SUFFICES ASSUME NEW i \in 1..(m + 1) PROVE g[i] = Succ(g, i)
      OBVIOUS
    <3>1. i # 1 => i - 1 \in 1..(m + 1) /\ i - 1 # m + 1 /\ g[i - 1] = f[i - 1]
      OBVIOUS
    <3>2. Succ(g, i) = Succ(f, i)
      BY <3>1 DEF Succ
    <3>3. i # m + 1 => f[i] = Succ(f, i)
      <4>1. i # m + 1 => i \in 1..m
        OBVIOUS
      <4> HIDE DEF Succ
      <4> QED BY <2>1, <4>1
    <3> HIDE DEF Succ
    <3> QED BY <3>2, <3>3
  <2> HIDE DEF g
  <2>3. g = [i \in 1..(m + 1) |-> Succ(g, i)]
    BY <2>2 DEF g
  <2> QED BY <2>3 DEF Has
<1> HIDE DEF T, Has
<1>4. n \in T
  BY <1>1, <1>2, <1>3, ByInduction
<1>4a. Has(n)
  BY <1>1, <1>4 DEF T
<1> HIDE DEF Succ
<1>5. \E f : f = [i \in 1..n |-> Succ(f, i)]
  BY <1>4a DEF Has
<1> DEFINE flatten == CHOOSE f : f = [i \in 1..n |-> Succ(f, i)]
<1>6. flatten = [i \in 1..n |-> Succ(flatten, i)]
  BY <1>5
<1>7. FlattenSeq(q) = IF n = 0 THEN q ELSE flatten[n]
  BY DEF FlattenSeq, Succ
<1> HIDE DEF flatten
<1> DEFINE U == {m \in Nat : m \in 1..n => flatten[m] \in Seq(S)}
<1>8. 0 \in U
  OBVIOUS
<1>9. ASSUME NEW m \in Nat, m \in U PROVE m + 1 \in U
  <2> SUFFICES ASSUME m + 1 \in 1..n PROVE flatten[m + 1] \in Seq(S)
    OBVIOUS
  <2>0. q[m + 1] \in Seq(S)
    OBVIOUS
  <2>1. flatten[m + 1] = Succ(flatten, m + 1) /\ q[m + 1] \in Seq(S)
    BY ONLY <1>6, <2>0, m + 1 \in 1..n
  <2>2. CASE m = 0
    BY <2>1, <2>2 DEF Succ
  <2>3. CASE m # 0
    <3>1. m + 1 # 1 /\ (m + 1) - 1 = m /\ flatten[m] \in Seq(S)
      BY <1>9, <2>3
    <3>2. flatten[m + 1] = flatten[m] \o q[m + 1]
      BY <2>1, <3>1 DEF Succ
    <3>3. \A a, b \in Seq(S) : a \o b \in Seq(S)
      OBVIOUS
    <3> QED BY ONLY <2>1, <3>1, <3>2, <3>3
  <2> QED BY <2>2, <2>3
<1> HIDE DEF U
<1>10. n \in U
  BY <1>1, <1>8, <1>9, ByInduction
<1>11. CASE n = 0
  BY <1>7, <1>11
<1>12. CASE n # 0
  BY <1>1, <1>7, <1>10, <1>12 DEF U
<1> QED BY <1>11, <1>12

(* A positive factor cancels.                                                *)
LEMMA Cancelled ==
    ASSUME NEW c \in Int, c > 0, NEW a \in Int, NEW b \in Int, c * a <= c * b
    PROVE  a <= b
<1> SUFFICES ASSUME b + 1 <= a PROVE FALSE
  OBVIOUS
<1>1. c * (b + 1) <= c * a
  OBVIOUS
<1>2. c * (b + 1) = c * b + c
  OBVIOUS
<1> QED BY <1>1, <1>2

LEMMA CancelledStrictly ==
    ASSUME NEW c \in Int, c > 0, NEW a \in Int, NEW b \in Int, c * a < c * b
    PROVE  a < b
<1> SUFFICES ASSUME b <= a PROVE FALSE
  OBVIOUS
<1>1. c * b <= c * a
  OBVIOUS
<1> QED BY <1>1

(* The quotient rounds down.                                                 *)
LEMMA Quotient ==
    ASSUME NEW x \in Int, NEW d \in Int, d > 0, NEW m \in Int, x \div d <= m
    PROVE  x < d * (m + 1)
<1>1. PICK q : q = x \div d
  OBVIOUS
<1>2. q \in Int /\ q <= m
  BY <1>1
<1>3. x < d * q + d
  BY ONLY <1>1, x \in Int, d \in Int, d > 0
<1>4. d * q <= d * m
  BY <1>2
<1>5. d * (m + 1) = d * m + d
  OBVIOUS
<1>6. d * q \in Int /\ d * m \in Int
  BY <1>2
<1> QED BY <1>3, <1>4, <1>5, <1>6

(* The quotient is the largest number that does.                             *)
LEMMA QuotientBelow == ASSUME NEW x \in Int, NEW d \in Int, d > 0 PROVE d * (x \div d) <= x
OBVIOUS

LEMMA QuotientAtLeast ==
    ASSUME NEW x \in Int, NEW d \in Int, d > 0, NEW m \in Int, d * m <= x
    PROVE  x \div d \in Int /\ x \div d >= m
<1>1. PICK q : q = x \div d
  OBVIOUS
<1>2. q \in Int
  BY <1>1
<1>3. x < d * q + d
  BY ONLY <1>1, x \in Int, d \in Int, d > 0
<1>4. d * (q + 1) = d * q + d
  BY <1>2
<1>5. d * m < d * (q + 1)
  <2>1. d * q \in Int /\ d * m \in Int
    BY <1>2
  <2> QED BY <1>3, <1>4, <2>1
<1>6. m < q + 1
  BY <1>2, <1>5, CancelledStrictly
<1> QED BY <1>1, <1>2, <1>6

=============================================================================
