---------------------------- MODULE Split_proofs ----------------------------
(***************************************************************************)
(* Sums over finite sets, and what they give of the two closed forms: the  *)
(* shares of compute_shares add up, stay within a cent of the exact        *)
(* proportion and follow the weights; the suggested transfers, paid in     *)
(* full, settle everybody.                                                 *)
(*                                                                         *)
(* A sum is a fold along an arbitrary choice of the next element.  The     *)
(* induction over a finite set that its laws need is stated of a set U of  *)
(* subsets (SetInd) rather than of a predicate, which no prover can        *)
(* instantiate.                                                            *)
(***************************************************************************)
EXTENDS Split, Transfers, FiniteSetTheorems, WellFoundedInduction, TLAPS

\* Induction over the natural numbers, as a fact about a set of them.
LEMMA NatSet ==
  ASSUME NEW U, 0 \in U, \A n \in Nat : n \in U => n + 1 \in U
  PROVE  Nat \subseteq U
<1> SUFFICES ASSUME Nat \ U # {} PROVE FALSE
  OBVIOUS
<1> DEFINE R == OpToRel(<, Nat)
<1>1. \A m, n \in Nat : m < n => <<m, n>> \in R
  BY DEF OpToRel
<1>2. IsWellFoundedOn(R, Nat)
  BY NatLessThanWellFounded
<1> HIDE DEF R
<1>3. PICK n \in Nat \ U : \A m \in Nat \ U : <<m, n>> \notin R
  BY <1>2, WFMin
<1>4. n # 0 /\ n - 1 \in Nat /\ n - 1 < n
  OBVIOUS
<1>5. n - 1 \in U
  BY <1>1, <1>3, <1>4
<1> QED  BY <1>4, <1>5

\* Induction over the subsets of a finite set, likewise: U holds every set whose
\* one-smaller sets it holds.
LEMMA SetInd ==
  ASSUME NEW S, IsFiniteSet(S), NEW U, {} \in U,
         \A s \in SUBSET S : s # {} /\ (\A x \in s : s \ {x} \in U) => s \in U
  PROVE  SUBSET S \subseteq U
<1> DEFINE V == {n \in Nat : \A s \in SUBSET S : Cardinality(s) = n => s \in U}
<1>1. \A s \in SUBSET S : IsFiniteSet(s) /\ Cardinality(s) \in Nat
  BY FS_Subset, FS_CardinalityType
<1>2. 0 \in V
  BY <1>1, FS_EmptySet
<1>3. ASSUME NEW n \in Nat, n \in V PROVE n + 1 \in V
  <2> SUFFICES ASSUME NEW s \in SUBSET S, Cardinality(s) = n + 1 PROVE s \in U
    OBVIOUS
  <2>1. s # {}  BY <1>1, FS_EmptySet
  <2>2. ASSUME NEW x \in s PROVE s \ {x} \in U
    <3>1. Cardinality(s \ {x}) = n  BY <1>1, FS_RemoveElement
    <3> QED  BY <1>3, <3>1
  <2> QED  BY <2>1, <2>2
<1> HIDE DEF V
<1>4. Nat \subseteq V  BY <1>2, <1>3, NatSet
<1> QED  BY <1>1, <1>4 DEF V

-----------------------------------------------------------------------------

Pick(s)      == CHOOSE x \in s : TRUE
Rec(f, g, s) == IF s = {} THEN 0 ELSE f[Pick(s)] + g[s \ {Pick(s)}]
Adder(f)     == CHOOSE g : g = [s \in SUBSET DOMAIN f |-> Rec(f, g, s)]

LEMMA TotalIs == \A f : Total(f) = Adder(f)[DOMAIN f]
BY DEF Total, SumFunction, SumFunctionOnSet, FoldFunctionOnSet, MapThenFoldSet,
       Adder, Rec, Pick

\* The recursive function exists.
LEMMA AdderRec ==
  ASSUME NEW f, IsFiniteSet(DOMAIN f), NEW s \in SUBSET DOMAIN f
  PROVE  Adder(f)[s] = Rec(f, Adder(f), s)
<1> DEFINE Small(n) == {t \in SUBSET DOMAIN f : Cardinality(t) <= n}
           V == {n \in Nat : \E g : g = [t \in Small(n) |-> Rec(f, g, t)]}
<1>1. \A t \in SUBSET DOMAIN f : IsFiniteSet(t) /\ Cardinality(t) \in Nat
  BY FS_Subset, FS_CardinalityType
<1>2. \A t \in SUBSET DOMAIN f : t # {} => Pick(t) \in t
  BY DEF Pick
<1>3. 0 \in V
  <2> DEFINE g == [t \in Small(0) |-> 0]
  <2>1. \A t \in Small(0) : t = {}  BY <1>1, FS_EmptySet
  <2>2. g = [t \in Small(0) |-> Rec(f, g, t)]
    BY <2>1 DEF Rec
  <2> QED  BY <2>2
<1>4. ASSUME NEW n \in Nat, n \in V PROVE n + 1 \in V
  <2>1. PICK g : g = [t \in Small(n) |-> Rec(f, g, t)]
    BY <1>4
  <2> DEFINE h == [t \in Small(n + 1) |-> Rec(f, g, t)]
  <2>2. \A t \in Small(n + 1) : t # {} => t \ {Pick(t)} \in Small(n)
    BY <1>1, <1>2, FS_RemoveElement
  <2>3. Small(n) \subseteq Small(n + 1)
    BY <1>1
  <2>4. \A t \in Small(n) : h[t] = g[t]
    BY <2>1, <2>3
  <2>5. \A t \in Small(n + 1) : Rec(f, g, t) = Rec(f, h, t)
    BY <2>2, <2>4 DEF Rec
  <2>6. h = [t \in Small(n + 1) |-> Rec(f, h, t)]
    BY <2>5
  <2> HIDE DEF h, Small
  <2> QED  BY <2>6
<1> HIDE DEF V
<1>5. Cardinality(DOMAIN f) \in V  BY <1>1, <1>3, <1>4, NatSet
<1>6. SUBSET DOMAIN f = Small(Cardinality(DOMAIN f))
  BY <1>1, FS_Subset
<1>7. PICK g : g = [t \in SUBSET DOMAIN f |-> Rec(f, g, t)]
  BY <1>5, <1>6 DEF V
<1>8. Adder(f) = [t \in SUBSET DOMAIN f |-> Rec(f, Adder(f), t)]
  BY <1>7 DEF Adder
<1> QED  BY <1>8

LEMMA PickIn == \A s : s # {} => Pick(s) \in s
BY DEF Pick

LEMMA AdderInt ==
  ASSUME NEW D, IsFiniteSet(D), NEW f \in [D -> Int], NEW s \in SUBSET D
  PROVE  Adder(f)[s] \in Int
<1> DEFINE A == Adder(f)
           U == {t \in SUBSET D : A[t] \in Int}
<1>0. DOMAIN f = D
  OBVIOUS
<1>1. A[{}] = 0
  BY <1>0, AdderRec DEF Rec
<1>2. ASSUME NEW t \in SUBSET D, t # {}, \A x \in t : t \ {x} \in U PROVE A[t] \in Int
  <2>1. A[t] = f[Pick(t)] + A[t \ {Pick(t)}]
    BY <1>0, <1>2, AdderRec DEF Rec
  <2>2. Pick(t) \in t  BY <1>2, PickIn
  <2>3. f[Pick(t)] \in Int  BY <2>2
  <2> HIDE DEF A
  <2>4. A[t \ {Pick(t)}] \in Int  BY <1>2, <2>2
  <2> QED  BY <2>1, <2>3, <2>4
<1> HIDE DEF A
<1>3. SUBSET D \subseteq U
  <2>1. {} \in U  BY <1>1
  <2>2. \A t \in SUBSET D : t # {} /\ (\A x \in t : t \ {x} \in U) => t \in U
    BY <1>2
  <2> HIDE DEF U
  <2> QED  BY <2>1, <2>2, SetInd
<1> QED  BY <1>3 DEF A

\* The order in which elements are taken out does not matter.
LEMMA AdderAny ==
  ASSUME NEW D, IsFiniteSet(D), NEW f \in [D -> Int], NEW s \in SUBSET D, NEW x \in s
  PROVE  Adder(f)[s] = f[x] + Adder(f)[s \ {x}]
<1> DEFINE A == Adder(f)
           U == {t \in SUBSET D : \A y \in t : A[t] = f[y] + A[t \ {y}]}
<1>0. DOMAIN f = D
  OBVIOUS
<1>1. {} \in U
  OBVIOUS
<1>2. ASSUME NEW t \in SUBSET D, t # {}, \A y \in t : t \ {y} \in U, NEW y \in t
      PROVE  A[t] = f[y] + A[t \ {y}]
  <2> DEFINE c == Pick(t)
  <2>1. c \in t  BY <1>2, PickIn
  <2>2. A[t] = f[c] + A[t \ {c}]
    BY <1>0, <1>2, AdderRec DEF Rec
  <2>3. CASE c = y  BY <2>2, <2>3
  <2>4. CASE c # y
    <3> HIDE DEF c
    <3>1. y \in t \ {c} /\ c \in t \ {y}  BY <2>1, <2>4
    <3>2. A[t \ {c}] = f[y] + A[(t \ {c}) \ {y}]  BY <1>2, <2>1, <3>1
    <3>3. A[t \ {y}] = f[c] + A[(t \ {y}) \ {c}]  BY <1>2, <3>1
    <3> DEFINE r == A[(t \ {c}) \ {y}]
    <3>4. A[t \ {y}] = f[c] + r
      <4>1. (t \ {c}) \ {y} = (t \ {y}) \ {c}  OBVIOUS
      <4> QED  BY <3>3, <4>1
    <3>5. f[c] \in Int /\ f[y] \in Int /\ r \in Int
      BY <2>1, AdderInt
    <3>6. A[t] = f[c] + (f[y] + r)
      BY <2>2, <3>2
    <3> HIDE DEF A, r, U
    <3>7. f[c] + (f[y] + r) = f[y] + (f[c] + r)
      BY <3>5
    <3> QED  BY <3>4, <3>6, <3>7
  <2> QED  BY <2>3, <2>4
<1>3. \A t \in SUBSET D : t # {} /\ (\A y \in t : t \ {y} \in U) => t \in U
  BY <1>2
<1> HIDE DEF U, A
<1>4. SUBSET D \subseteq U  BY <1>1, <1>3, SetInd
<1> QED  BY <1>4 DEF U, A

\* Two functions that agree on a set add up to the same over it.
LEMMA AdderAgree ==
  ASSUME NEW f, IsFiniteSet(DOMAIN f), NEW g, IsFiniteSet(DOMAIN g),
         NEW s \in SUBSET (DOMAIN f \cap DOMAIN g), \A x \in s : f[x] = g[x]
  PROVE  Adder(f)[s] = Adder(g)[s]
<1> DEFINE U == {t \in SUBSET s : Adder(f)[t] = Adder(g)[t]}
<1>1. {} \in U
  BY AdderRec DEF Rec
<1>2. ASSUME NEW t \in SUBSET s, t # {}, \A x \in t : t \ {x} \in U PROVE t \in U
  <2>1. /\ Adder(f)[t] = f[Pick(t)] + Adder(f)[t \ {Pick(t)}]
        /\ Adder(g)[t] = g[Pick(t)] + Adder(g)[t \ {Pick(t)}]
    BY <1>2, AdderRec DEF Rec
  <2>2. Pick(t) \in t  BY <1>2, PickIn
  <2> QED  BY <1>2, <2>1, <2>2
<1>3. IsFiniteSet(s)  BY FS_Subset
<1> HIDE DEF U
<1>4. SUBSET s \subseteq U  BY <1>1, <1>2, <1>3, SetInd
<1> QED  BY <1>4 DEF U

LEMMA TotalEmpty == ASSUME NEW f, DOMAIN f = {} PROVE Total(f) = 0
BY TotalIs, AdderRec, FS_EmptySet DEF Rec

LEMMA TotalInt ==
  ASSUME NEW D, IsFiniteSet(D), NEW f \in [D -> Int]
  PROVE  Total(f) \in Int
BY TotalIs, AdderInt

\* One term taken out of a sum.
LEMMA TotalTake ==
  ASSUME NEW D, IsFiniteSet(D), NEW f \in [D -> Int], NEW x \in D
  PROVE  Total(f) = f[x] + Total([k \in D \ {x} |-> f[k]])
<1> DEFINE g == [k \in D \ {x} |-> f[k]]
<1>1. IsFiniteSet(D \ {x})  BY FS_Subset
<1>2. Adder(f)[D \ {x}] = Adder(g)[D \ {x}]  BY <1>1, AdderAgree
<1> QED  BY <1>2, TotalIs, AdderAny

\* One term more.
Extends(D, m, v, f, g) == g = [k \in D \cup {m} |-> IF k = m THEN v ELSE f[k]]

LEMMA TotalMore ==
  ASSUME NEW D, IsFiniteSet(D), NEW f \in [D -> Int], NEW m, m \notin D, NEW v \in Int,
         NEW g, Extends(D, m, v, f, g)
  PROVE  Total(g) = v + Total(f) /\ Total(f) \in Int
<1> DEFINE E == D \cup {m}
<1>0. g = [k \in E |-> IF k = m THEN v ELSE f[k]]  BY DEF Extends
<1>1. IsFiniteSet(E) /\ g \in [E -> Int] /\ m \in E
  BY <1>0, FS_AddElement
<1>2. E \ {m} = D /\ g[m] = v  BY <1>0
<1>3. [k \in D |-> g[k]] = f  BY <1>0
<1> HIDE DEF E
<1>4. Total(g) = g[m] + Total([k \in E \ {m} |-> g[k]])
  BY <1>1, TotalTake
<1> QED  BY <1>2, <1>3, <1>4, TotalInt
-----------------------------------------------------------------------------
(* Sums over a part of a function's domain, and what follows by induction. *)

Over(f, s) == Total([k \in s |-> f[k]])

LEMMA OverAll == ASSUME NEW D, NEW f \in [D -> Int] PROVE Over(f, D) = Total(f)
<1>1. [k \in D |-> f[k]] = f  OBVIOUS
<1> QED  BY <1>1 DEF Over

LEMMA OverEmpty == \A f : Over(f, {}) = 0
BY TotalEmpty DEF Over

LEMMA OverInt ==
  ASSUME NEW D, IsFiniteSet(D), NEW f \in [D -> Int], NEW s \in SUBSET D
  PROVE  Over(f, s) \in Int
<1>1. IsFiniteSet(s) /\ [k \in s |-> f[k]] \in [s -> Int]  BY FS_Subset
<1> QED  BY <1>1, TotalInt DEF Over

LEMMA OverTake ==
  ASSUME NEW D, IsFiniteSet(D), NEW f \in [D -> Int], NEW s \in SUBSET D, NEW x \in s
  PROVE  Over(f, s) = f[x] + Over(f, s \ {x})
<1> DEFINE g == [k \in s |-> f[k]]
<1>1. IsFiniteSet(s) /\ g \in [s -> Int]  BY FS_Subset
<1>2. [k \in s \ {x} |-> g[k]] = [k \in s \ {x} |-> f[k]]  OBVIOUS
<1>3. g[x] = f[x]  OBVIOUS
<1> HIDE DEF g
<1>4. Total(g) = g[x] + Total([k \in s \ {x} |-> g[k]])
  BY <1>1, TotalTake
<1> QED  BY <1>2, <1>3, <1>4 DEF Over, g

\* A sum of natural numbers is one, and at least each of its terms.
LEMMA OverNat ==
  ASSUME NEW D, IsFiniteSet(D), NEW f \in [D -> Int], NEW s \in SUBSET D,
         \A k \in s : f[k] >= 0
  PROVE  Over(f, s) \in Nat
<1> DEFINE U == {t \in SUBSET s : Over(f, t) \in Nat}
<1>1. {} \in U  BY OverEmpty
<1>2. ASSUME NEW t \in SUBSET s, t # {}, \A x \in t : t \ {x} \in U PROVE Over(f, t) \in Nat
  <2>1. PICK x : x \in t  BY <1>2
  <2>2. Over(f, t) = f[x] + Over(f, t \ {x})  BY <2>1, OverTake
  <2>3. f[x] \in Nat  BY <2>1
  <2>4. Over(f, t \ {x}) \in Nat  BY <1>2, <2>1
  <2> QED  BY <2>2, <2>3, <2>4
<1>3. \A t \in SUBSET s : t # {} /\ (\A x \in t : t \ {x} \in U) => t \in U
  BY <1>2
<1>4. IsFiniteSet(s)  BY FS_Subset
<1> HIDE DEF U
<1>5. SUBSET s \subseteq U  BY <1>1, <1>3, <1>4, SetInd
<1> QED  BY <1>5 DEF U

\* Of terms that are not negative, fewer add up to no more.
LEMMA OverLess ==
  ASSUME NEW D, IsFiniteSet(D), NEW f \in [D -> Int], NEW s \in SUBSET D, NEW t \in SUBSET s,
         \A k \in s : f[k] >= 0
  PROVE  Over(f, t) <= Over(f, s)
<1> DEFINE V == {r \in SUBSET (s \ t) : Over(f, t) <= Over(f, t \cup r)}
<1>0. IsFiniteSet(s \ t) /\ t \in SUBSET D  BY FS_Subset
<1>1. {} \in V
  <2>1. t \cup {} = t  OBVIOUS
  <2>2. Over(f, t) \in Int  BY <1>0, OverInt
  <2> QED  BY <2>1, <2>2
<1>2. ASSUME NEW r \in SUBSET (s \ t), r # {}, \A x \in r : r \ {x} \in V
      PROVE  Over(f, t) <= Over(f, t \cup r)
  <2>1. PICK x \in r : TRUE  BY <1>2
  <2>2. /\ t \cup r \in SUBSET D /\ x \in t \cup r /\ (t \cup r) \ {x} = t \cup (r \ {x})
        /\ t \cup (r \ {x}) \in SUBSET D
    BY <2>1
  <2> DEFINE a == Over(f, t)  b == Over(f, t \cup (r \ {x}))
  <2>3. Over(f, t \cup r) = f[x] + b  BY <2>2, OverTake
  <2>4. a \in Int /\ b \in Int  BY <1>0, <2>2, OverInt
  <2>5. f[x] \in Int /\ f[x] >= 0  BY <2>1
  <2>6. a <= b  BY <1>2, <2>1
  <2> HIDE DEF a, b
  <2>7. a <= f[x] + b  BY <2>4, <2>5, <2>6
  <2> QED  BY <2>3, <2>7 DEF a
<1>3. \A r \in SUBSET (s \ t) : r # {} /\ (\A x \in r : r \ {x} \in V) => r \in V
  BY <1>2
<1> HIDE DEF V
<1>4. SUBSET (s \ t) \subseteq V  BY <1>0, <1>1, <1>3, SetInd
<1>5. t \cup (s \ t) = s  OBVIOUS
<1> QED  BY <1>4, <1>5 DEF V

\* A sum is at most the largest term times the number of terms.
LEMMA OverAtMost ==
  ASSUME NEW D, IsFiniteSet(D), NEW f \in [D -> Int], NEW s \in SUBSET D,
         NEW c \in Int, \A k \in s : f[k] <= c
  PROVE  Over(f, s) <= c * Cardinality(s)
<1> DEFINE U == {t \in SUBSET s : Over(f, t) <= c * Cardinality(t)}
<1>0. IsFiniteSet(s) /\ \A t \in SUBSET s : IsFiniteSet(t) /\ Cardinality(t) \in Nat
  BY FS_Subset, FS_CardinalityType
<1>1. {} \in U
  BY OverEmpty, FS_EmptySet
<1>2. ASSUME NEW t \in SUBSET s, t # {}, \A x \in t : t \ {x} \in U
      PROVE  Over(f, t) <= c * Cardinality(t)
  <2>1. PICK x : x \in t  BY <1>2
  <2> DEFINE a == Over(f, t) b == Over(f, t \ {x}) m == Cardinality(t \ {x})
  <2>2. a = f[x] + b  BY <2>1, OverTake
  <2>3. f[x] \in Int /\ f[x] <= c  BY <2>1
  <2>4. b <= c * m  BY <1>2, <2>1
  <2>5. b \in Int  BY OverInt
  <2>6. Cardinality(t) = m + 1 /\ m \in Nat  BY <1>0, <2>1, FS_RemoveElement
  <2> HIDE DEF a, b, m
  <2>7. c * (m + 1) = c * m + c /\ c * m \in Int  BY <2>6
  <2>8. a <= c * (m + 1)  BY <2>2, <2>3, <2>4, <2>5, <2>7
  <2> QED  BY <2>6, <2>8 DEF a
<1>3. \A t \in SUBSET s : t # {} /\ (\A x \in t : t \ {x} \in U) => t \in U
  BY <1>2
<1> HIDE DEF U
<1>4. SUBSET s \subseteq U  BY <1>0, <1>1, <1>3, SetInd
<1> QED  BY <1>4 DEF U

\* Sums of sums, and of multiples.
Combines(D, h, c, f, g) == \A k \in D : h[k] = c * f[k] + g[k]

LEMMA OverPlus ==
  ASSUME NEW D, IsFiniteSet(D), NEW f \in [D -> Int], NEW g \in [D -> Int], NEW h \in [D -> Int],
         NEW c \in Int, Combines(D, h, c, f, g), NEW s \in SUBSET D
  PROVE  Over(h, s) = c * Over(f, s) + Over(g, s)
<1> DEFINE U == {t \in SUBSET s : Over(h, t) = c * Over(f, t) + Over(g, t)}
<1>1. {} \in U
  BY OverEmpty
<1>2. ASSUME NEW t \in SUBSET s, t # {}, \A x \in t : t \ {x} \in U
      PROVE  Over(h, t) = c * Over(f, t) + Over(g, t)
  <2>1. PICK x : x \in t  BY <1>2
  <2> DEFINE r == t \ {x}  a == Over(f, r)  b == Over(g, r)
  <2>2. /\ Over(f, t) = f[x] + a
        /\ Over(g, t) = g[x] + b
        /\ Over(h, t) = h[x] + Over(h, r)
    BY <2>1, OverTake
  <2>3. Over(h, r) = c * a + b  BY <1>2, <2>1
  <2>4. h[x] = c * f[x] + g[x] /\ f[x] \in Int /\ g[x] \in Int  BY <2>1 DEF Combines
  <2>5. a \in Int /\ b \in Int  BY OverInt
  <2> HIDE DEF r, a, b
  <2>6. (c * f[x] + g[x]) + (c * a + b) = c * (f[x] + a) + (g[x] + b)
    BY <2>4, <2>5
  <2> QED  BY <2>2, <2>3, <2>4, <2>6
<1>3. \A t \in SUBSET s : t # {} /\ (\A x \in t : t \ {x} \in U) => t \in U
  BY <1>2
<1>4. IsFiniteSet(s)  BY FS_Subset
<1> HIDE DEF U
<1>5. SUBSET s \subseteq U  BY <1>1, <1>3, <1>4, SetInd
<1> QED  BY <1>5 DEF U

LEMMA TotalPlus ==
  ASSUME NEW D, IsFiniteSet(D), NEW f \in [D -> Int], NEW g \in [D -> Int], NEW h \in [D -> Int],
         NEW c \in Int, Combines(D, h, c, f, g)
  PROVE  Total(h) = c * Total(f) + Total(g)
<1>1. D \in SUBSET D  OBVIOUS
<1>2. Over(h, D) = c * Over(f, D) + Over(g, D)  BY <1>1, OverPlus
<1> QED  BY <1>2, OverAll

\* Two functions that agree on a set add up to the same over it.
LEMMA OverSame ==
  ASSUME NEW f, NEW g, NEW s, \A k \in s : f[k] = g[k]
  PROVE  Over(f, s) = Over(g, s)
<1>1. [k \in s |-> f[k]] = [k \in s |-> g[k]]  OBVIOUS
<1> QED  BY <1>1 DEF Over

\* Leaving terms out is adding zeros.
Keeps(D, E, f, g) == \A k \in D : g[k] = IF k \in E THEN f[k] ELSE 0

LEMMA OverFilter ==
  ASSUME NEW D, IsFiniteSet(D), NEW f \in [D -> Int], NEW g \in [D -> Int], NEW E \in SUBSET D,
         Keeps(D, E, f, g)
  PROVE  Over(f, E) = Total(g)
<1> DEFINE U == {t \in SUBSET D : Over(f, t \cap E) = Over(g, t)}
<1>1. {} \in U
  <2>1. {} \cap E = {}  OBVIOUS
  <2> QED  BY <2>1, OverEmpty
<1>2. ASSUME NEW t \in SUBSET D, t # {}, \A x \in t : t \ {x} \in U
      PROVE  Over(f, t \cap E) = Over(g, t)
  <2>1. PICK x : x \in t  BY <1>2
  <2>2. Over(g, t) = g[x] + Over(g, t \ {x})  BY <2>1, OverTake
  <2>3. Over(f, (t \ {x}) \cap E) = Over(g, t \ {x})  BY <1>2, <2>1
  <2>4. Over(g, t \ {x}) \in Int  BY OverInt
  <2>5. CASE x \in E
    <3>1. (t \ {x}) \cap E = (t \cap E) \ {x} /\ x \in t \cap E /\ t \cap E \in SUBSET D
      BY <2>1, <2>5
    <3>2. Over(f, t \cap E) = f[x] + Over(f, (t \cap E) \ {x})  BY <3>1, OverTake
    <3>3. g[x] = f[x]  BY <2>1, <2>5 DEF Keeps
    <3> QED  BY <2>2, <2>3, <3>1, <3>2, <3>3
  <2>6. CASE x \notin E
    <3>1. (t \ {x}) \cap E = t \cap E  BY <2>6
    <3>2. g[x] = 0  BY <2>1, <2>6 DEF Keeps
    <3>3. Over(g, t) = Over(g, t \ {x})  BY <2>2, <2>4, <3>2
    <3> QED  BY <2>3, <3>1, <3>3
  <2> QED  BY <2>5, <2>6
<1>3. \A t \in SUBSET D : t # {} /\ (\A x \in t : t \ {x} \in U) => t \in U
  BY <1>2
<1> HIDE DEF U
<1>4. SUBSET D \subseteq U  BY <1>1, <1>3, SetInd
<1>5. D \cap E = E  OBVIOUS
<1>6. Over(f, E) = Over(g, D)  BY <1>4, <1>5 DEF U
<1> QED  BY <1>6, OverAll

\* A sum with one term.
LEMMA TotalPoint ==
  ASSUME NEW D, IsFiniteSet(D), NEW x \in D, NEW v \in Int,
         NEW g \in [D -> Int], g = [k \in D |-> IF k = x THEN v ELSE 0]
  PROVE  Total(g) = v
<1>1. Keeps(D, {x}, g, g)  BY DEF Keeps
<1>2. {x} \in SUBSET D  OBVIOUS
<1>3. Over(g, {x}) = Total(g)  BY <1>1, <1>2, OverFilter
<1>4. Over(g, {x}) = g[x] + Over(g, {x} \ {x})  BY <1>2, OverTake
<1>5. {x} \ {x} = {}  OBVIOUS
<1>6. Over(g, {x}) = v + 0  BY <1>4, <1>5, OverEmpty
<1> QED  BY <1>3, <1>6

\* Rows first or columns first: the sum of a table is the same.
ColumnSums(D, C, m, s) == [c \in C |-> Over([k \in D |-> m[k][c]], s)]
RowSums(D, m)          == [k \in D |-> Total(m[k])]

LEMMA Exchange ==
  ASSUME NEW D, IsFiniteSet(D), NEW C, IsFiniteSet(C), NEW m \in [D -> [C -> Int]],
         NEW s \in SUBSET D
  PROVE  Total(ColumnSums(D, C, m, s)) = Over(RowSums(D, m), s)
<1> DEFINE col(c) == [k \in D |-> m[k][c]]
           tot    == [k \in D |-> Total(m[k])]
           sums(t) == [c \in C |-> Over(col(c), t)]
           U == {t \in SUBSET s : Total(sums(t)) = Over(tot, t)}
<1>0. /\ \A c \in C : col(c) \in [D -> Int]
      /\ \A k \in D : m[k] \in [C -> Int]
  OBVIOUS
<1>a. tot \in [D -> Int]
  <2>1. \A k \in D : Total(m[k]) \in Int  BY <1>0, TotalInt
  <2> QED  BY <2>1
<1>b. ASSUME NEW t \in SUBSET s PROVE sums(t) \in [C -> Int]
  <2>1. t \in SUBSET D  OBVIOUS
  <2>2. ASSUME NEW c \in C PROVE Over(col(c), t) \in Int
    <3> HIDE DEF col
    <3> QED  BY <1>0, <2>1, OverInt
  <2> HIDE DEF col
  <2> QED  BY <2>2
<1>1. {} \in U
  <2>1. \A c \in C : sums({})[c] = 0
    <3> HIDE DEF col
    <3> QED  BY OverEmpty
  <2>2. sums({}) \in [C -> Int]  BY <1>b
  <2>3. Combines(C, sums({}), 2, sums({}), sums({}))
    <3> HIDE DEF sums
    <3> QED  BY <2>1 DEF Combines
  <2> DEFINE z == sums({})
  <2> HIDE DEF sums, z, tot
  <2>4. Total(z) = 2 * Total(z) + Total(z)
    <3>1. z \in [C -> Int] /\ 2 \in Int /\ Combines(C, z, 2, z, z)  BY <2>2, <2>3 DEF z
    <3> QED  BY <3>1, TotalPlus
  <2>5. Total(z) \in Int
    <3>1. z \in [C -> Int]  BY <2>2 DEF z
    <3> QED  BY <3>1, TotalInt
  <2>6. Total(z) = 0  BY <2>4, <2>5
  <2> QED  BY <2>6, OverEmpty DEF z
<1>2. ASSUME NEW t \in SUBSET s, t # {}, \A x \in t : t \ {x} \in U
      PROVE  Total(sums(t)) = Over(tot, t)
  <2>1. PICK x : x \in t  BY <1>2
  <2> DEFINE r == t \ {x}
  <2>2. r \in SUBSET s /\ x \in D /\ t \in SUBSET D  BY <2>1
  <2>3. sums(t) \in [C -> Int] /\ sums(r) \in [C -> Int] /\ m[x] \in [C -> Int]
    BY <1>0, <1>b, <2>2
  <2>4. Combines(C, sums(t), 1, m[x], sums(r))
    <3>1. ASSUME NEW c \in C PROVE sums(t)[c] = 1 * m[x][c] + sums(r)[c]
      <4>1. Over(col(c), t) = col(c)[x] + Over(col(c), t \ {x})
        <5> HIDE DEF col
        <5> QED  BY <1>0, <2>1, <2>2, OverTake
      <4>2. col(c)[x] = m[x][c] /\ m[x][c] \in Int  BY <2>2, <2>3
      <4> HIDE DEF col
      <4>3. sums(t)[c] = Over(col(c), t) /\ sums(r)[c] = Over(col(c), r)  OBVIOUS
      <4>4. 1 * m[x][c] = m[x][c]  BY <4>2
      <4> QED  BY <4>1, <4>2, <4>3, <4>4
    <3> HIDE DEF sums, r
    <3> QED  BY <3>1 DEF Combines
  <2>5. Total(sums(t)) = 1 * Total(m[x]) + Total(sums(r))
    <3> DEFINE a == sums(t) b == sums(r)
    <3> HIDE DEF sums, r, a, b
    <3>1. a \in [C -> Int] /\ b \in [C -> Int] /\ m[x] \in [C -> Int] /\ 1 \in Int
          /\ Combines(C, a, 1, m[x], b)
      BY <2>3, <2>4 DEF a, b
    <3>2. Total(a) = 1 * Total(m[x]) + Total(b)  BY <3>1, TotalPlus
    <3> QED  BY <3>2 DEF a, b
  <2>6. Total(sums(r)) = Over(tot, r)
    <3>1. r \in U  BY <1>2, <2>1
    <3> HIDE DEF sums, tot, r
    <3> QED  BY <3>1
  <2>7. tot[x] = Total(m[x])  BY <2>2
  <2>8. Total(m[x]) \in Int  BY <2>3, TotalInt
  <2> HIDE DEF sums, tot
  <2>9. Over(tot, t) = tot[x] + Over(tot, r)  BY <1>a, <2>1, <2>2, OverTake
  <2>10. 1 * Total(m[x]) = Total(m[x])  BY <2>8
  <2> QED  BY <2>5, <2>6, <2>7, <2>9, <2>10
<1>3. \A t \in SUBSET s : t # {} /\ (\A x \in t : t \ {x} \in U) => t \in U
  BY <1>2
<1>4. IsFiniteSet(s)  BY FS_Subset
<1> HIDE DEF U
<1>5. SUBSET s \subseteq U  BY <1>1, <1>3, <1>4, SetInd
<1>6. Total(sums(s)) = Over(tot, s)  BY <1>5 DEF U
<1> QED  BY <1>6 DEF ColumnSums, RowSums

\* Counting is adding ones.
LEMMA OverCount ==
  ASSUME NEW D, IsFiniteSet(D), NEW E \in SUBSET D
  PROVE  Total([k \in D |-> IF k \in E THEN 1 ELSE 0]) = Cardinality(E)
<1> DEFINE f == [k \in D |-> IF k \in E THEN 1 ELSE 0]
           U == {t \in SUBSET D : Over(f, t) = Cardinality(t \cap E)}
<1>0. \A t \in SUBSET D : IsFiniteSet(t) /\ Cardinality(t) \in Nat
  BY FS_Subset, FS_CardinalityType
<1>1. {} \in U
  <2>1. {} \cap E = {}  OBVIOUS
  <2> QED  BY <2>1, OverEmpty, FS_EmptySet
<1>2. ASSUME NEW t \in SUBSET D, t # {}, \A x \in t : t \ {x} \in U
      PROVE  Over(f, t) = Cardinality(t \cap E)
  <2>1. PICK x : x \in t  BY <1>2
  <2>2. f \in [D -> Int]  OBVIOUS
  <2>3. Over(f, t) = f[x] + Over(f, t \ {x})
    <3> HIDE DEF f
    <3> QED  BY <2>1, <2>2, OverTake
  <2>4. Over(f, t \ {x}) = Cardinality((t \ {x}) \cap E)  BY <1>2, <2>1
  <2>5. CASE x \in E
    <3>1. (t \ {x}) \cap E = (t \cap E) \ {x} /\ x \in t \cap E  BY <2>1, <2>5
    <3>2. Cardinality((t \cap E) \ {x}) = Cardinality(t \cap E) - 1
      BY <1>0, <3>1, FS_RemoveElement
    <3>3. f[x] = 1  BY <2>1, <2>5
    <3> DEFINE m == Cardinality(t \cap E)
    <3>4. m \in Nat  BY <1>0
    <3> HIDE DEF f, U, m
    <3>5. Over(f, t) = 1 + (m - 1)  BY <2>3, <2>4, <3>1, <3>2, <3>3 DEF m
    <3>6. 1 + (m - 1) = m  BY <3>4
    <3> QED  BY <3>5, <3>6 DEF m
  <2>6. CASE x \notin E
    <3>1. (t \ {x}) \cap E = t \cap E  BY <2>6
    <3>2. f[x] = 0  BY <2>1, <2>6
    <3> DEFINE m == Cardinality(t \cap E)
    <3>3. m \in Nat  BY <1>0
    <3> HIDE DEF f, U, m
    <3>4. Over(f, t) = 0 + m  BY <2>3, <2>4, <3>1, <3>2 DEF m
    <3>5. 0 + m = m  BY <3>3
    <3> QED  BY <3>4, <3>5 DEF m
  <2> QED  BY <2>5, <2>6
<1>3. \A t \in SUBSET D : t # {} /\ (\A x \in t : t \ {x} \in U) => t \in U
  BY <1>2
<1> HIDE DEF U
<1>4. SUBSET D \subseteq U  BY <1>1, <1>3, SetInd
<1>5. D \cap E = E  OBVIOUS
<1>6. Over(f, D) = Cardinality(E)  BY <1>4, <1>5 DEF U
<1>7. f \in [D -> Int]  OBVIOUS
<1> HIDE DEF f
<1>8. Over(f, D) = Total(f)  BY <1>7, OverAll
<1> QED  BY <1>6, <1>8 DEF f
-----------------------------------------------------------------------------
(* The line in which left-over cents are handed out, and the split itself. *)

Rank(D, r, k) == Cardinality({j \in D : Ahead(r, j, k)})

\* Two people never stand at the same place: remainders.sort leaves no ties.
LEMMA RanksDiffer ==
  ASSUME NEW D \in SUBSET Nat, IsFiniteSet(D), NEW r \in [D -> Int],
         NEW j \in D, NEW k \in D, Ahead(r, j, k)
  PROVE  Rank(D, r, j) < Rank(D, r, k)
<1> DEFINE J == {i \in D : Ahead(r, i, j)}
           K == {i \in D : Ahead(r, i, k)}
<1>0. r[j] \in Int /\ r[k] \in Int /\ j \in Nat /\ k \in Nat
  OBVIOUS
<1>1. J \subseteq K /\ j \in K /\ j \notin J
  <2>1. ASSUME NEW i \in D, Ahead(r, i, j) PROVE Ahead(r, i, k)
    <3>1. r[i] \in Int /\ i \in Nat  OBVIOUS
    <3> QED  BY <1>0, <2>1, <3>1 DEF Ahead
  <2>2. ~Ahead(r, j, j)  BY <1>0 DEF Ahead
  <2> QED  BY <2>1, <2>2
<1> HIDE DEF J, K
<1>2. IsFiniteSet(K)  BY FS_Subset DEF K
<1>3. J \subseteq K \ {j}  BY <1>1
<1>4. IsFiniteSet(K \ {j}) /\ Cardinality(K \ {j}) = Cardinality(K) - 1 /\ Cardinality(K) \in Nat
  BY <1>1, <1>2, FS_RemoveElement, FS_CardinalityType
<1>5. Cardinality(J) <= Cardinality(K \ {j}) /\ Cardinality(J) \in Nat
  BY <1>3, <1>4, FS_Subset, FS_CardinalityType
<1> QED  BY <1>4, <1>5 DEF Rank, J, K

\* The first m places are taken by m people.
LEMMA Ranks ==
  ASSUME NEW D \in SUBSET Nat, IsFiniteSet(D), NEW r \in [D -> Int],
         NEW m \in 0..Cardinality(D)
  PROVE  Cardinality({k \in D : Rank(D, r, k) < m}) = m
<1> DEFINE n == Cardinality(D)
           p == [k \in D |-> Rank(D, r, k)]
           E == {k \in D : Rank(D, r, k) < m}
           q == [k \in E |-> p[k]]
<1>1. n \in Nat  BY FS_CardinalityType
<1>2. ASSUME NEW k \in D PROVE Rank(D, r, k) \in 0..n - 1
  <2> DEFINE K == {i \in D : Ahead(r, i, k)}
  <2>1. K \subseteq D \ {k}  BY DEF Ahead
  <2>2. IsFiniteSet(D \ {k}) /\ Cardinality(D \ {k}) = n - 1  BY FS_RemoveElement
  <2> HIDE DEF K, n
  <2>3. IsFiniteSet(K) /\ Cardinality(K) <= Cardinality(D \ {k})
    BY <2>1, <2>2, FS_Subset
  <2>4. Cardinality(K) \in Nat  BY <2>3, FS_CardinalityType
  <2> QED  BY <1>1, <2>2, <2>3, <2>4 DEF Rank, K
<1>3. \A j, k \in D : Rank(D, r, j) = Rank(D, r, k) => j = k
  <2> SUFFICES ASSUME NEW j \in D, NEW k \in D, j # k PROVE Rank(D, r, j) # Rank(D, r, k)
    OBVIOUS
  <2>1. Ahead(r, j, k) \/ Ahead(r, k, j)  BY DEF Ahead
  <2>2. Rank(D, r, j) \in Int /\ Rank(D, r, k) \in Int  BY <1>2
  <2> QED  BY <2>1, <2>2, RanksDiffer
<1> HIDE DEF n
<1>4. IsFiniteSet(0..n - 1) /\ Cardinality(0..n - 1) = n
  <2>1. n - 1 \in Int /\ 0 \in Int  BY <1>1
  <2>2. IsFiniteSet(0..n - 1) /\ Cardinality(0..n - 1) = IF 0 > n - 1 THEN 0 ELSE n - 1 - 0 + 1
    BY <2>1, FS_Interval
  <2> QED  BY <1>1, <2>2
<1>5. p \in Injection(D, 0..n - 1)
  <2>1. p \in [D -> 0..n - 1]  BY <1>2
  <2>2. IsInjective(p)  BY <1>3 DEF IsInjective
  <2> HIDE DEF p
  <2> QED  BY <2>1, <2>2 DEF Injection
<1>6. p \in Surjection(D, 0..n - 1)
  <2> HIDE DEF p
  <2> QED  BY <1>4, <1>5, FS_Injection DEF n
<1>7. q \in Bijection(E, 0..m - 1)
  <2>1. m \in 0..n  BY DEF n
  <2>2. q \in [E -> 0..m - 1]
    <3>1. ASSUME NEW k \in E PROVE q[k] \in 0..m - 1
      BY <1>1, <1>2, <2>1
    <3> HIDE DEF E
    <3> QED  BY <3>1
  <2>3. IsInjective(q)  BY <1>3 DEF IsInjective
  <2>4. \A i \in 0..m - 1 : \E k \in E : q[k] = i
    <3> SUFFICES ASSUME NEW i \in 0..m - 1 PROVE \E k \in E : q[k] = i
      OBVIOUS
    <3>1. i \in 0..n - 1  BY <1>1, <2>1
    <3>2. PICK k \in D : p[k] = i  BY <1>6, <3>1 DEF Surjection
    <3>3. k \in E /\ q[k] = i  BY <3>2
    <3> QED  BY <3>3
  <2> HIDE DEF q, E
  <2> QED  BY <2>2, <2>3, <2>4 DEF Bijection, Injection, Surjection
<1>8. IsFiniteSet(E)  BY FS_Subset
<1>9. Cardinality(0..m - 1) = Cardinality(E)
  <2> HIDE DEF E, q
  <2> QED  BY <1>7, <1>8, FS_Bijection DEF ExistsBijection
<1>10. Cardinality(0..m - 1) = m
  BY FS_Interval
<1> QED  BY <1>9, <1>10

\* Floor and remainder of one person.
LEMMA Division ==
  ASSUME NEW x \in Nat, NEW d \in Nat, d > 0
  PROVE  x \div d \in Nat /\ x % d \in 0..d - 1 /\ x = d * (x \div d) + (x % d)
<1>1. x \div d \in Int /\ x % d \in Int
  OBVIOUS
<1>2. 0 <= x % d /\ x % d < d
  OBVIOUS
<1>3. x = d * (x \div d) + (x % d)
  OBVIOUS
<1>4. x \div d >= 0
  BY <1>1, <1>2, <1>3
<1> QED  BY <1>1, <1>2, <1>3, <1>4

Weights(D) == {w \in [D -> Nat] : Total(w) > 0}

LEMMA FloorRem ==
  ASSUME NEW D, IsFiniteSet(D), NEW w \in Weights(D), NEW amount \in Nat, NEW k \in D
  PROVE  /\ Floor(amount, w, k) \in Nat /\ Rem(amount, w, k) \in 0..Total(w) - 1
         /\ amount * w[k] = Total(w) * Floor(amount, w, k) + Rem(amount, w, k)
<1>1. w \in [D -> Nat] /\ w[k] \in Nat /\ w \in [D -> Int] /\ Total(w) > 0
  BY DEF Weights
<1>2. Total(w) \in Nat /\ Total(w) > 0
  <2>1. Total(w) \in Int  BY <1>1, TotalInt
  <2> QED  BY <1>1, <2>1
<1> DEFINE d == Total(w)
<1> HIDE DEF d
<1>3. d \in Nat /\ d > 0  BY <1>2 DEF d
<1>4. amount * w[k] \in Nat  BY <1>1
<1> QED  BY <1>3, <1>4, Division DEF Floor, Rem, d

\* The cents left over are what the remainders add up to.
LEMMA RemsAddUp ==
  ASSUME NEW D, IsFiniteSet(D), NEW w \in Weights(D), NEW amount \in Nat
  PROVE  /\ Total([k \in D |-> Rem(amount, w, k)]) = Total(w) * LeftOver(amount, w)
         /\ LeftOver(amount, w) \in Int
<1> DEFINE a == [k \in D |-> amount * w[k]]
           f == [k \in D |-> Floor(amount, w, k)]
           r == [k \in D |-> Rem(amount, w, k)]
           z == [k \in D |-> 0]
           d == Total(w)
<1>0. w \in [D -> Nat] /\ w \in [D -> Int] /\ d > 0  BY DEF Weights
<1>1. d \in Int /\ d > 0  BY <1>0, TotalInt
<1>2. f \in [D -> Int] /\ r \in [D -> Int] /\ z \in [D -> Int]
  BY FloorRem
<1>3. a \in [D -> Int]  BY <1>0
<1>4. Combines(D, a, d, f, r)  BY FloorRem DEF Combines
<1>5. Combines(D, a, amount, w, z)  BY <1>0 DEF Combines
<1>6. LeftOver(amount, w) = amount - Total(f)
  BY <1>0 DEF LeftOver
<1>7. \A k \in D : z[k] >= 0 /\ z[k] <= 0  OBVIOUS
<1> HIDE DEF a, f, r, z, d
<1>8. Total(a) = d * Total(f) + Total(r)  BY <1>1, <1>2, <1>3, <1>4, TotalPlus
<1>9. Total(a) = amount * d + Total(z)  BY <1>0, <1>2, <1>3, <1>5, TotalPlus DEF d
<1> DEFINE n == Cardinality(D)
<1>10. n \in Nat  BY FS_CardinalityType
<1>11. Total(z) = 0
  <2>1. Over(z, D) \in Nat /\ Over(z, D) <= 0 * n
    BY <1>2, <1>7, OverNat, OverAtMost
  <2> QED  BY <1>2, <1>10, <2>1, OverAll
<1>12. Total(f) \in Int /\ Total(r) \in Int  BY <1>2, TotalInt
<1> DEFINE t == Total(f)  e == Total(r)
<1>13. amount * d = d * t + e
  <2>1. amount * d \in Int  BY <1>1
  <2> QED  BY <1>8, <1>9, <1>11, <2>1
<1> HIDE DEF t, e
<1>14. t \in Int /\ e \in Int  BY <1>12 DEF t, e
<1>15. e = d * (amount - t)  BY <1>1, <1>13, <1>14
<1> QED  BY <1>6, <1>14, <1>15 DEF t, e, r, d

LEMMA CentsBound ==
  ASSUME NEW d \in Int, d > 0, NEW m \in Int, NEW p \in Nat, d * m <= (d - 1) * p
  PROVE  m <= p
<1> SUFFICES ASSUME m > p PROVE FALSE
  OBVIOUS
<1>1. d * m >= d * (p + 1)  OBVIOUS
<1>2. d * (p + 1) = d * p + d /\ (d - 1) * p = d * p - p /\ d * p \in Int  OBVIOUS
<1> QED  BY <1>1, <1>2

\* The floors leave over no more cents than there are people with a remainder.
LEMMA FewRemainders ==
  ASSUME NEW D, IsFiniteSet(D), NEW w \in Weights(D), NEW amount \in Nat
  PROVE  LeftOver(amount, w) \in 0..Cardinality({k \in D : Rem(amount, w, k) > 0})
<1> DEFINE d == Total(w)
           r == [k \in D |-> Rem(amount, w, k)]
           P == {k \in D : Rem(amount, w, k) > 0}
           m == LeftOver(amount, w)
           p == Cardinality(P)
<1>1. d \in Int /\ d > 0
  <2>1. w \in [D -> Int] /\ Total(w) > 0  BY DEF Weights
  <2> QED  BY <2>1, TotalInt
<1>2. \A k \in D : r[k] \in 0..d - 1  BY FloorRem
<1>3. r \in [D -> Int] /\ P \in SUBSET D  BY <1>1, <1>2
<1>4. Total(r) = d * m /\ m \in Int  BY RemsAddUp
<1>5. Keeps(D, P, r, r)  BY <1>2 DEF Keeps
<1>6. \A k \in P : r[k] <= d - 1  BY <1>1, <1>2
<1>7. \A k \in D : r[k] >= 0  BY <1>1, <1>2
<1>8. p \in Nat  BY <1>3, FS_Subset, FS_CardinalityType
<1>9. d - 1 \in Int  BY <1>1
<1> HIDE DEF d, r, P, m, p
<1>10. Over(r, P) = Total(r)  BY <1>3, <1>5, OverFilter
<1>11. Over(r, P) <= (d - 1) * p  BY <1>3, <1>6, <1>9, OverAtMost DEF p
<1>12. Over(r, D) \in Nat  BY <1>3, <1>7, OverNat
<1>13. Over(r, D) = Total(r)  BY <1>3, OverAll
<1>14. d * m <= (d - 1) * p /\ d * m >= 0  BY <1>4, <1>10, <1>11, <1>12, <1>13
<1>15. m <= p  BY <1>1, <1>4, <1>8, <1>14, CentsBound
<1>16. m >= 0
  <2> SUFFICES ASSUME m < 0 PROVE FALSE  BY <1>4
  <2>1. d * m < 0  BY <1>1, <1>4
  <2> QED  BY <1>14, <2>1, <1>1, <1>4
<1> QED  BY <1>4, <1>8, <1>15, <1>16 DEF m, p, P

LEMMA FewLeftOver ==
  ASSUME NEW D, IsFiniteSet(D), NEW w \in Weights(D), NEW amount \in Nat
  PROVE  LeftOver(amount, w) \in 0..Cardinality(D)
<1> DEFINE P == {k \in D : Rem(amount, w, k) > 0}
<1>1. LeftOver(amount, w) \in 0..Cardinality(P)  BY FewRemainders
<1>2. Cardinality(P) <= Cardinality(D) /\ Cardinality(P) \in Nat /\ Cardinality(D) \in Nat
  BY FS_Subset, FS_CardinalityType
<1> QED  BY <1>1, <1>2

\* The recorded shares of an accepted split add up to the amount of the expense.
THEOREM ApportionAddsUp ==
  ASSUME NEW D \in SUBSET Nat, IsFiniteSet(D), NEW w \in Weights(D), NEW amount \in Nat
  PROVE  Apportion(amount, w) \in [D -> Nat] /\ Total(Apportion(amount, w)) = amount
<1> DEFINE m == LeftOver(amount, w)
           r == [k \in D |-> Rem(amount, w, k)]
           f == [k \in D |-> Floor(amount, w, k)]
           E == {k \in D : Rank(D, r, k) < m}
           c == [k \in D |-> IF k \in E THEN 1 ELSE 0]
           s == Apportion(amount, w)
<1>1. DOMAIN w = D  BY DEF Weights
<1>2. s = [k \in D |-> f[k] + c[k]]
  BY <1>1 DEF Apportion, Rank
<1>3. f \in [D -> Nat] /\ r \in [D -> Int]  BY FloorRem
<1>4. c \in [D -> Nat] /\ E \in SUBSET D  OBVIOUS
<1>5. m \in 0..Cardinality(D)  BY FewLeftOver
<1>6. Cardinality(E) = m
  <2> HIDE DEF r, m
  <2> QED  BY <1>3, <1>5, Ranks
<1>7. Total(c) = Cardinality(E)
  <2> HIDE DEF E
  <2> QED  BY <1>4, OverCount
<1>8. m = amount - Total(f)  BY <1>1 DEF LeftOver
<1> HIDE DEF m, r, f, E, c, s
<1>9. s \in [D -> Nat]  BY <1>2, <1>3, <1>4
<1>10. Combines(D, s, 1, f, c)  BY <1>2, <1>3, <1>4 DEF Combines
<1>11. s \in [D -> Int] /\ f \in [D -> Int] /\ c \in [D -> Int] /\ 1 \in Int /\ IsFiniteSet(D)
  BY <1>3, <1>4, <1>9
<1>12. Total(s) = 1 * Total(f) + Total(c)  BY <1>10, <1>11, TotalPlus
<1>13. Total(f) \in Int  BY <1>11, TotalInt
<1> DEFINE t == Total(f)
<1> HIDE DEF t
<1>14. 1 * t + (amount - t) = amount  BY <1>13 DEF t
<1>15. Total(s) = 1 * t + (amount - t)  BY <1>6, <1>7, <1>8, <1>12 DEF t
<1> QED  BY <1>9, <1>14, <1>15 DEF s

LEMMA EquallyWeighs ==
  ASSUME NEW D, IsFiniteSet(D), D # {}
  PROVE  Equally(D) \in Weights(D)
<1> DEFINE f == [k \in D |-> IF k \in D THEN 1 ELSE 0]
<1>1. f = Equally(D)  BY DEF Equally
<1>2. D \in SUBSET D  OBVIOUS
<1> HIDE DEF f
<1>3. Total([k \in D |-> IF k \in D THEN 1 ELSE 0]) = Cardinality(D)  BY <1>2, OverCount
<1>4. Total(f) = Cardinality(D)  BY <1>3 DEF f
<1>5. Cardinality(D) > 0  BY FS_CardinalityType, FS_EmptySet
<1>6. Equally(D) \in [D -> Nat]  BY DEF Equally
<1> QED  BY <1>1, <1>4, <1>5, <1>6 DEF Weights

\* compute_shares reconciles: whatever the mode, the shares of a split it accepts are
\* cents that add up to the amount of the expense.
THEOREM SharesAddUp ==
  ASSUME NEW D \in SUBSET Nat, IsFiniteSet(D), NEW w \in [D -> Nat], NEW amount \in Nat,
         NEW mode \in {"equal", "weighted", "percent", "exact"}, Valid(amount, mode, w)
  PROVE  Shares(amount, mode, w) \in [D -> Nat] /\ Total(Shares(amount, mode, w)) = amount
<1>0. DOMAIN w = D  OBVIOUS
<1>1. CASE mode = "equal"
  <2>1. Equally(D) \in Weights(D)  BY <1>0, <1>1, EquallyWeighs DEF Valid
  <2>2. Shares(amount, mode, w) = Apportion(amount, Equally(D))  BY <1>0, <1>1 DEF Shares
  <2> QED  BY <2>1, <2>2, ApportionAddsUp
<1>2. CASE mode = "exact"
  BY <1>2 DEF Shares, Valid
<1>3. CASE mode \in {"weighted", "percent"}
  <2>1. Total(w) > 0
    <3>1. CASE mode = "weighted"  BY <3>1 DEF Valid
    <3>2. CASE mode = "percent"
      <4>1. Total(w) = 100  BY <3>2 DEF Valid
      <4> QED  BY <4>1
    <3> QED  BY <1>3, <3>1, <3>2
  <2>2. w \in Weights(D)  BY <2>1 DEF Weights
  <2>3. Shares(amount, mode, w) = Apportion(amount, w)  BY <1>3 DEF Shares
  <2> QED  BY <2>2, <2>3, ApportionAddsUp
<1> QED  BY <1>1, <1>2, <1>3

\* Only somebody with a remainder gets a left-over cent.
LEMMA CentsToRemainders ==
  ASSUME NEW D \in SUBSET Nat, IsFiniteSet(D), NEW w \in Weights(D), NEW amount \in Nat, NEW k \in D,
         Rank(D, [j \in D |-> Rem(amount, w, j)], k) < LeftOver(amount, w)
  PROVE  Rem(amount, w, k) > 0
<1> DEFINE r == [j \in D |-> Rem(amount, w, j)]
           P == {j \in D : Rem(amount, w, j) > 0}
           K == {j \in D : Ahead(r, j, k)}
           d == Total(w)
<1>1. d \in Int
  <2>1. w \in [D -> Int]  BY DEF Weights
  <2> QED  BY <2>1, TotalInt
<1>2. \A j \in D : Rem(amount, w, j) \in 0..d - 1  BY FloorRem
<1>3. LeftOver(amount, w) \in 0..Cardinality(P)  BY FewRemainders
<1>4. SUFFICES ASSUME ~(Rem(amount, w, k) > 0) PROVE FALSE
  OBVIOUS
<1>5. P \subseteq K
  <2>1. ASSUME NEW j \in D, Rem(amount, w, j) > 0 PROVE Ahead(r, j, k)
    <3>1. r[j] = Rem(amount, w, j) /\ r[k] = Rem(amount, w, k)  OBVIOUS
    <3>2. r[j] \in Int /\ r[k] \in Int  BY <1>1, <1>2
    <3> HIDE DEF r
    <3> QED  BY <1>4, <2>1, <3>1, <3>2 DEF Ahead
  <2> HIDE DEF r
  <2> QED  BY <2>1
<1>6. IsFiniteSet(K)  BY FS_Subset
<1>7. Cardinality(P) <= Cardinality(K) /\ Cardinality(P) \in Nat /\ Cardinality(K) \in Nat
  <2> HIDE DEF P, K
  <2> QED  BY <1>5, <1>6, FS_Subset, FS_CardinalityType
<1>8. Cardinality(K) = Rank(D, r, k)  BY DEF Rank
<1> QED  BY <1>3, <1>7, <1>8

\* What somebody pays: the floor, or a cent more.
LEMMA ApportionParts ==
  ASSUME NEW D \in SUBSET Nat, IsFiniteSet(D), NEW w \in Weights(D), NEW amount \in Nat, NEW k \in D
  PROVE  Apportion(amount, w)[k] =
           Floor(amount, w, k)
             + (IF Rank(D, [j \in D |-> Rem(amount, w, j)], k) < LeftOver(amount, w) THEN 1 ELSE 0)
<1>1. DOMAIN w = D  BY DEF Weights
<1> QED  BY <1>1 DEF Apportion, Rank

\* Nobody's share is a whole cent away from the exact proportion.
THEOREM ApportionWithinACent ==
  ASSUME NEW D \in SUBSET Nat, IsFiniteSet(D), NEW w \in Weights(D), NEW amount \in Nat, NEW k \in D
  PROVE  LET error == Apportion(amount, w)[k] * Total(w) - amount * w[k]
         IN  -Total(w) < error /\ error < Total(w)
<1> DEFINE d == Total(w)
           f == Floor(amount, w, k)
           m == Rem(amount, w, k)
           e == Apportion(amount, w)[k]
           a == amount * w[k]
           p == Rank(D, [j \in D |-> Rem(amount, w, j)], k)
<1>1. d \in Int /\ d > 0
  <2>1. w \in [D -> Int] /\ Total(w) > 0  BY DEF Weights
  <2> QED  BY <2>1, TotalInt
<1>2. f \in Nat /\ m \in 0..d - 1 /\ a = d * f + m  BY FloorRem
<1>3. e = f + (IF p < LeftOver(amount, w) THEN 1 ELSE 0)  BY ApportionParts
<1>4. p < LeftOver(amount, w) => m > 0  BY CentsToRemainders
<1> HIDE DEF d, f, m, e, a, p
<1>5. d * f \in Int /\ m \in Int /\ m >= 0 /\ m < d  BY <1>1, <1>2
<1>6. CASE p < LeftOver(amount, w)
  <2>1. e = f + 1 /\ m > 0  BY <1>3, <1>4, <1>6
  <2>2. e * d = d * f + d  BY <1>1, <1>2, <2>1
  <2> QED  BY <1>1, <1>2, <1>5, <2>1, <2>2 DEF d, e, a
<1>7. CASE ~(p < LeftOver(amount, w))
  <2>1. e = f  BY <1>2, <1>3, <1>7
  <2>2. e * d = d * f  BY <1>1, <1>2, <2>1
  <2> QED  BY <1>1, <1>2, <1>5, <2>2 DEF d, e, a
<1> QED  BY <1>6, <1>7

\* A larger quotient, or the same and a larger remainder.
LEMMA FloorMonotone ==
  ASSUME NEW d \in Int, d > 0, NEW x \in Nat, NEW y \in Nat, x >= y,
         NEW f \in Nat, NEW g \in Nat, NEW r \in 0..d - 1, NEW s \in 0..d - 1,
         x = d * f + r, y = d * g + s
  PROVE  f > g \/ (f = g /\ r - s = x - y)
<1>1. f >= g
  <2> SUFFICES ASSUME f + 1 <= g PROVE FALSE
    OBVIOUS
  <2>1. d * (f + 1) <= d * g  OBVIOUS
  <2>2. d * (f + 1) = d * f + d /\ d * f \in Int /\ d * g \in Int  OBVIOUS
  <2> QED  BY <2>1, <2>2
<1>2. f = g => r - s = x - y  OBVIOUS
<1> QED  BY <1>1, <1>2

\* A larger weight never owes less; of equal weights the lower id owes the extra cent.
THEOREM ApportionMonotone ==
  ASSUME NEW D \in SUBSET Nat, IsFiniteSet(D), NEW w \in Weights(D), NEW amount \in Nat \ {0},
         NEW i \in D, NEW j \in D, w[i] > w[j] \/ (w[i] = w[j] /\ i < j)
  PROVE  Apportion(amount, w)[i] >= Apportion(amount, w)[j]
<1> DEFINE d == Total(w)
           f(k) == Floor(amount, w, k)
           m(k) == Rem(amount, w, k)
           x(k) == amount * w[k]
           r == [k \in D |-> Rem(amount, w, k)]
           L == LeftOver(amount, w)
           p(k) == Rank(D, r, k)
           e(k) == Apportion(amount, w)[k]
<1>1. d \in Int /\ d > 0 /\ w[i] \in Nat /\ w[j] \in Nat
  <2>1. w \in [D -> Int] /\ w \in [D -> Nat] /\ Total(w) > 0  BY DEF Weights
  <2> QED  BY <2>1, TotalInt
<1>2. ASSUME NEW k \in D
      PROVE  /\ f(k) \in Nat /\ m(k) \in 0..d - 1 /\ x(k) = d * f(k) + m(k)
             /\ e(k) = f(k) + (IF p(k) < L THEN 1 ELSE 0)
  BY FloorRem, ApportionParts
<1>3. x(i) \in Nat /\ x(j) \in Nat  BY <1>1
<1>4. w[i] > w[j] => x(i) > x(j)
  <2> SUFFICES ASSUME w[i] >= w[j] + 1 PROVE x(i) > x(j)
    BY <1>1
  <2>1. amount * w[i] >= amount * (w[j] + 1)  BY <1>1
  <2>2. amount * (w[j] + 1) = amount * w[j] + amount  BY <1>1
  <2> QED  BY <1>3, <2>1, <2>2
<1>5. r \in [D -> Int]
  <2>1. ASSUME NEW k \in D PROVE Rem(amount, w, k) \in Int
    <3>1. Rem(amount, w, k) \in 0..d - 1  BY <1>2
    <3> HIDE DEF d
    <3> QED  BY <1>1, <3>1
  <2> QED  BY <2>1
<1>6. L \in Int  BY RemsAddUp
<1>7. p(i) \in Int /\ p(j) \in Int
  <2>1. ASSUME NEW k PROVE p(k) \in Int
    <3> DEFINE K == {h \in D : Ahead(r, h, k)}
    <3>1. K \in SUBSET D /\ p(k) = Cardinality(K)  BY DEF Rank
    <3> HIDE DEF K, p
    <3>2. IsFiniteSet(K)  BY <3>1, FS_Subset
    <3> QED  BY <3>1, <3>2, FS_CardinalityType
  <2> HIDE DEF p
  <2> QED  BY <2>1
<1>8. Ahead(r, i, j) => p(i) < p(j)
  <2> HIDE DEF r
  <2> QED  BY <1>5, RanksDiffer
<1>9. r[i] = m(i) /\ r[j] = m(j)  OBVIOUS
<1> DEFINE fi == f(i)  fj == f(j)  mi == m(i)  mj == m(j)  xi == x(i)  xj == x(j)
           pi == p(i)  pj == p(j)  ei == e(i)  ej == e(j)
<1>10. /\ fi \in Nat /\ mi \in 0..d - 1 /\ xi = d * fi + mi /\ ei = fi + (IF pi < L THEN 1 ELSE 0)
       /\ fj \in Nat /\ mj \in 0..d - 1 /\ xj = d * fj + mj /\ ej = fj + (IF pj < L THEN 1 ELSE 0)
  BY <1>2
<1>11. xi \in Nat /\ xj \in Nat /\ pi \in Int /\ pj \in Int /\ (w[i] > w[j] => xi > xj)
       /\ (w[i] = w[j] => xi = xj)
  BY <1>3, <1>4, <1>7
<1>12. r[i] = mi /\ r[j] = mj /\ (Ahead(r, i, j) => pi < pj)  BY <1>8, <1>9
<1>13. SUFFICES ei >= ej  OBVIOUS
<1> HIDE DEF d, r, L, f, m, x, p, e, fi, fj, mi, mj, xi, xj, pi, pj, ei, ej
<1>14. xi >= xj  BY <1>11
<1>15. fi > fj \/ (fi = fj /\ mi - mj = xi - xj)
  BY <1>1, <1>10, <1>11, <1>14, FloorMonotone
<1>16. CASE fi > fj  BY <1>10, <1>16
<1>17. CASE fi = fj /\ mi - mj = xi - xj
  <2>1. mi \in Int /\ mj \in Int  BY <1>1, <1>10
  <2>2. mi > mj \/ (mi = mj /\ i < j)  BY <1>11, <1>17, <2>1
  <2>3. pi < pj  BY <1>12, <2>2 DEF Ahead
  <2> QED  BY <1>6, <1>10, <1>11, <1>17, <2>3
<1> QED  BY <1>15, <1>16, <1>17

-----------------------------------------------------------------------------
(* Suggested transfers: each side's intervals lie end to end, so the overlaps *)
(* of one of them with all of the other side add up to its length.            *)

\* Both modules add a function up the same way.
LEMMA SumIsTotal == \A f : Sum(f) = Total(f)
BY DEF Sum, Total

LEMMA Larger ==
  ASSUME NEW a \in Int, NEW b \in Int
  PROVE  Max({a, b}) \in {a, b} /\ Max({a, b}) >= a /\ Max({a, b}) >= b
<1>1. \E x \in {a, b} : \A y \in {a, b} : x >= y
  OBVIOUS
<1> QED  BY <1>1 DEF Max

LEMMA Smaller ==
  ASSUME NEW a \in Int, NEW b \in Int
  PROVE  Min({a, b}) \in {a, b} /\ Min({a, b}) <= a /\ Min({a, b}) <= b
<1>1. \E x \in {a, b} : \A y \in {a, b} : x <= y
  OBVIOUS
<1> QED  BY <1>1 DEF Min

\* The order of a side is total.
LEMMA BeforeOrder ==
  ASSUME NEW U \in SUBSET Nat, NEW bal \in [U -> Int], NEW simplify, NEW x \in U, NEW y \in U
  PROVE  /\ ~Before(bal, simplify, x, x)
         /\ Before(bal, simplify, x, y) => ~Before(bal, simplify, y, x)
         /\ x # y => Before(bal, simplify, x, y) \/ Before(bal, simplify, y, x)
         /\ \A z \in U : Before(bal, simplify, x, y) /\ Before(bal, simplify, y, z)
                           => Before(bal, simplify, x, z)
<1>1. \A z \in U : Size(bal, z) \in Int /\ z \in Int
  BY DEF Size
<1> QED  BY <1>1 DEF Before

Sizes(bal) == [u \in DOMAIN bal |-> Size(bal, u)]
Front(bal, simplify, side, u) == {v \in side : Before(bal, simplify, v, u)}

LEMMA SizesTyped ==
  ASSUME NEW U, NEW bal \in [U -> Int]
  PROVE  Sizes(bal) \in [U -> Int] /\ \A u \in U : Sizes(bal)[u] >= 0 /\ Sizes(bal)[u] = Size(bal, u)
BY DEF Sizes, Size

\* An interval starts where those before it end.
LEMMA LowerIs ==
  ASSUME NEW U, NEW bal \in [U -> Int], NEW simplify, NEW side \in SUBSET U, NEW u
  PROVE  Lower(bal, simplify, side, u) = Over(Sizes(bal), Front(bal, simplify, side, u))
<1>1. \A v \in side : Sizes(bal)[v] = Size(bal, v)  BY SizesTyped
<1>2. [v \in {w \in side : Before(bal, simplify, w, u)} |-> Size(bal, v)]
        = [v \in {w \in side : Before(bal, simplify, w, u)} |-> Sizes(bal)[v]]
  BY <1>1
<1> QED  BY <1>2, SumIsTotal DEF Lower, Over, Front

\* Some member of a set comes last.
LEMMA LastOne ==
  ASSUME NEW U \in SUBSET Nat, IsFiniteSet(U), NEW bal \in [U -> Int], NEW simplify,
         NEW t \in SUBSET U, t # {}
  PROVE  \E x \in t : \A y \in t \ {x} : Before(bal, simplify, y, x)
<1> DEFINE V == {s \in SUBSET U : s = {} \/ \E x \in s : \A y \in s \ {x} : Before(bal, simplify, y, x)}
<1>1. {} \in V  OBVIOUS
<1>2. ASSUME NEW s \in SUBSET U, s # {}, \A x \in s : s \ {x} \in V
      PROVE  \E x \in s : \A y \in s \ {x} : Before(bal, simplify, y, x)
  <2>1. PICK z \in s : TRUE  BY <1>2
  <2>2. CASE s \ {z} = {}  BY <2>1, <2>2
  <2>3. CASE s \ {z} # {}
    <3>1. PICK x \in s \ {z} : \A y \in (s \ {z}) \ {x} : Before(bal, simplify, y, x)
      BY <1>2, <2>1, <2>3
    <3>2. x \in U /\ z \in U /\ x # z  OBVIOUS
    <3>3. CASE Before(bal, simplify, z, x)  BY <3>1, <3>3
    <3>4. CASE Before(bal, simplify, x, z)
      <4>1. ASSUME NEW y \in s \ {z} PROVE Before(bal, simplify, y, z)
        <5>1. CASE y = x  BY <3>4, <5>1
        <5>2. CASE y # x
          <6>1. y \in U /\ Before(bal, simplify, y, x)  BY <3>1, <5>2
          <6> QED  BY <3>2, <3>4, <6>1, BeforeOrder
        <5> QED  BY <5>1, <5>2
      <4> QED  BY <2>1, <4>1
    <3> QED  BY <3>2, <3>3, <3>4, BeforeOrder
  <2> QED  BY <2>2, <2>3
<1>3. \A s \in SUBSET U : s # {} /\ (\A x \in s : s \ {x} \in V) => s \in V
  BY <1>2
<1> HIDE DEF V
<1>4. SUBSET U \subseteq V  BY <1>1, <1>3, SetInd
<1> QED  BY <1>4 DEF V

\* Sums of what is never negative.
Positive(U, w) == w \in [U -> Int] /\ \A x \in U : w[x] >= 0

LEMMA SizesPositive == ASSUME NEW U, NEW bal \in [U -> Int] PROVE Positive(U, Sizes(bal))
BY SizesTyped DEF Positive

LEMMA PositiveOver ==
  ASSUME NEW U, IsFiniteSet(U), NEW w, Positive(U, w), NEW s \in SUBSET U
  PROVE  Over(w, s) \in Nat
<1>1. w \in [U -> Int] /\ (\A k \in s : w[k] >= 0)  BY DEF Positive
<1> QED  BY <1>1, OverNat

LEMMA PositiveLess ==
  ASSUME NEW U, IsFiniteSet(U), NEW w, Positive(U, w), NEW s \in SUBSET U, NEW t \in SUBSET s
  PROVE  Over(w, t) <= Over(w, s)
<1>1. w \in [U -> Int] /\ (\A k \in s : w[k] >= 0)  BY DEF Positive
<1> QED  BY <1>1, OverLess

LEMMA PositiveTake ==
  ASSUME NEW U, IsFiniteSet(U), NEW w, Positive(U, w), NEW s \in SUBSET U, NEW x \in s
  PROVE  Over(w, s) = w[x] + Over(w, s \ {x}) /\ w[x] \in Nat
<1>1. w \in [U -> Int] /\ x \in U /\ w[x] >= 0  BY DEF Positive
<1> QED  BY <1>1, OverTake

\* A part of a side that no one outside comes before.
Closed(bal, simplify, side, t) ==
  \A x \in t, y \in side : Before(bal, simplify, y, x) => y \in t

\* The part of [lo, hi] that lies in [a, b], and the part of it below x.
Shared(lo, hi, a, b) == Max({0, Min({hi, b}) - Max({lo, a})})
Clip(lo, hi, x) == Min({hi, x}) - Min({lo, x})

\* The part of [lo, hi] in [a, b], and the part below a, make the part below b.
LEMMA SharedClip ==
  ASSUME NEW a, NEW b, NEW lo, NEW hi,
         a \in Int /\ b \in Int /\ lo \in Int /\ hi \in Int /\ a <= b /\ lo <= hi
  PROVE  Shared(lo, hi, a, b) \in Nat /\ Shared(lo, hi, a, b) + Clip(lo, hi, a) = Clip(lo, hi, b)
<1> DEFINE p == Min({hi, b})  q == Max({lo, a})  r == Min({hi, a})  s == Min({lo, a})
           t == Min({lo, b})
<1>0. a \in Int /\ b \in Int /\ lo \in Int /\ hi \in Int /\ a <= b /\ lo <= hi  OBVIOUS
<1>1. /\ p \in {hi, b} /\ p <= hi /\ p <= b  BY <1>0, Smaller
<1>2. /\ q \in {lo, a} /\ q >= lo /\ q >= a  BY <1>0, Larger
<1>3. /\ r \in {hi, a} /\ r <= hi /\ r <= a  BY <1>0, Smaller
<1>4. /\ s \in {lo, a} /\ s <= lo /\ s <= a  BY <1>0, Smaller
<1>5. /\ t \in {lo, b} /\ t <= lo /\ t <= b  BY <1>0, Smaller
<1> HIDE DEF p, q, r, s, t
<1>6. p \in Int /\ q \in Int /\ p - q \in Int /\ 0 \in Int  BY <1>0, <1>1, <1>2
<1> DEFINE d == p - q  m == Max({0, d})
<1> HIDE DEF d
<1>7. m \in {0, d} /\ m >= 0 /\ m >= d  BY <1>6, Larger DEF d
<1> HIDE DEF m
<1>8. m \in Nat /\ m + (r - s) = p - t
  BY <1>0, <1>1, <1>2, <1>3, <1>4, <1>5, <1>6, <1>7 DEF d
<1>9. Shared(lo, hi, a, b) = m /\ Clip(lo, hi, a) = r - s /\ Clip(lo, hi, b) = p - t
  BY DEF Shared, Clip, m, d, p, q, r, s, t
<1> QED  BY <1>8, <1>9

LEMMA ClipEnds ==
  ASSUME NEW lo \in Nat, NEW hi \in Nat
  PROVE  /\ Clip(lo, hi, 0) = 0
         /\ \A x \in Int : hi <= x /\ lo <= hi => Clip(lo, hi, x) = hi - lo
<1>1. lo \in Int /\ hi \in Int /\ 0 \in Int  OBVIOUS
<1>2. Clip(lo, hi, 0) = 0
  <2>1. Min({hi, 0}) \in {hi, 0} /\ Min({hi, 0}) <= 0  BY <1>1, Smaller
  <2>2. Min({lo, 0}) \in {lo, 0} /\ Min({lo, 0}) <= 0  BY <1>1, Smaller
  <2>3. Min({hi, 0}) = 0 /\ Min({lo, 0}) = 0  BY <2>1, <2>2
  <2> QED  BY <2>3 DEF Clip
<1>3. ASSUME NEW x \in Int, hi <= x, lo <= hi PROVE Clip(lo, hi, x) = hi - lo
  <2>1. Min({hi, x}) \in {hi, x} /\ Min({hi, x}) <= hi  BY <1>1, Smaller
  <2>2. Min({lo, x}) \in {lo, x} /\ Min({lo, x}) <= lo  BY <1>1, Smaller
  <2>3. Min({hi, x}) = hi /\ Min({lo, x}) = lo  BY <1>3, <2>1, <2>2
  <2> QED  BY <2>3 DEF Clip
<1> QED  BY <1>2, <1>3

\* How much of each interval of a side lies in [lo, hi].
Within(bal, simplify, side, lo, hi) ==
  [c \in side |-> Shared(lo, hi, Lower(bal, simplify, side, c), Upper(bal, simplify, side, c))]

\* The users of a balance map, and those on one of its sides.
Book(U, bal, side) ==
  U \in SUBSET Nat /\ IsFiniteSet(U) /\ bal \in [U -> Int] /\ side \in SUBSET U

LEMMA BookTyped ==
  ASSUME NEW U, NEW bal, NEW side, Book(U, bal, side)
  PROVE  /\ U \in SUBSET Nat /\ IsFiniteSet(U) /\ bal \in [U -> Int] /\ side \in SUBSET U
         /\ IsFiniteSet(side) /\ side \in SUBSET side
<1>1. U \in SUBSET Nat /\ IsFiniteSet(U) /\ bal \in [U -> Int] /\ side \in SUBSET U  BY DEF Book
<1> QED  BY <1>1, FS_Subset

LEMMA IntervalEnds ==
  ASSUME NEW U, NEW bal, NEW simplify, NEW side, NEW u, Book(U, bal, side), u \in side
  PROVE  /\ Lower(bal, simplify, side, u) \in Nat
         /\ Upper(bal, simplify, side, u) = Lower(bal, simplify, side, u) + Size(bal, u)
         /\ Upper(bal, simplify, side, u) \in Nat /\ Size(bal, u) \in Nat
         /\ Upper(bal, simplify, side, u) <= Over(Sizes(bal), side)
<1>0. U \in SUBSET Nat /\ IsFiniteSet(U) /\ bal \in [U -> Int] /\ side \in SUBSET U  BY BookTyped
<1>1. PICK w : w = Sizes(bal)  OBVIOUS
<1>2. PICK F : F = Front(bal, simplify, side, u)  OBVIOUS
<1>3. Lower(bal, simplify, side, u) = Over(w, F)  
  <2>1. bal \in [U -> Int] /\ side \in SUBSET U  BY <1>0
  <2>2. Lower(bal, simplify, side, u) = Over(Sizes(bal), Front(bal, simplify, side, u))
    BY <2>1, LowerIs
  <2> QED  BY <1>1, <1>2, <2>2
<1>4. Positive(U, w)  BY <1>0, <1>1, SizesPositive
<1>5. u \in U /\ Size(bal, u) \in Nat /\ w[u] = Size(bal, u)
  <2>1. u \in U  BY <1>0
  <2>2. Size(bal, u) >= 0 /\ Size(bal, u) \in Int  BY <1>0, <2>1 DEF Size
  <2>3. bal \in [U -> Int]  BY <1>0
  <2>4. w[u] = Size(bal, u)  BY <1>1, <2>1, <2>3, SizesTyped
  <2> QED  BY <2>1, <2>2, <2>4
<1>6. F \in SUBSET side /\ F \in SUBSET U /\ u \notin F
  <2>1. u \in U /\ ~Before(bal, simplify, u, u)
    BY <1>0, <1>5, BeforeOrder
  <2> QED  BY <1>0, <1>2, <2>1 DEF Front
<1>7. PICK H : H = F \cup {u}  OBVIOUS
<1>8. H \in SUBSET U /\ H \in SUBSET side /\ u \in H /\ H \ {u} = F  BY <1>5, <1>6, <1>7
<1>9. Over(w, F) \in Nat  BY <1>0, <1>4, <1>6, PositiveOver
<1>10. Over(w, H) = w[u] + Over(w, H \ {u})
  <2>1. IsFiniteSet(U) /\ Positive(U, w) /\ H \in SUBSET U /\ u \in H  BY <1>0, <1>4, <1>8
  <2> QED  BY <2>1, PositiveTake
<1>11. Over(w, H) <= Over(w, side)  BY <1>0, <1>4, <1>8, PositiveLess
<1>12. Upper(bal, simplify, side, u) = Lower(bal, simplify, side, u) + Size(bal, u)  BY DEF Upper
<1> QED  BY <1>1, <1>3, <1>5, <1>8, <1>9, <1>10, <1>11, <1>12

LEMMA RowSum ==
  ASSUME NEW U, NEW bal, NEW simplify, NEW side, NEW lo, NEW hi,
         Book(U, bal, side), lo \in Nat /\ hi \in Nat /\ lo <= hi
  PROVE  /\ Within(bal, simplify, side, lo, hi) \in [side -> Nat]
         /\ Over(Sizes(bal), side) \in Nat
         /\ Total(Within(bal, simplify, side, lo, hi)) = Clip(lo, hi, Over(Sizes(bal), side))
<1>0. U \in SUBSET Nat /\ IsFiniteSet(U) /\ bal \in [U -> Int] /\ side \in SUBSET U  BY BookTyped
<1>1. PICK o : o = Within(bal, simplify, side, lo, hi)  OBVIOUS
<1>2. PICK w : w = Sizes(bal)  OBVIOUS
<1>3. IsFiniteSet(side) /\ side \in SUBSET side  BY BookTyped
<1>4. Positive(U, w)  BY <1>0, <1>2, SizesPositive
<1>5. ASSUME NEW t \in SUBSET side PROVE Over(w, t) \in Nat
  <2>1. t \in SUBSET U /\ IsFiniteSet(U)  BY <1>0
  <2> QED  BY <1>4, <2>1, PositiveOver
<1>6. ASSUME NEW c \in side
      PROVE  /\ o[c] = Shared(lo, hi, Lower(bal, simplify, side, c), Upper(bal, simplify, side, c))
             /\ Lower(bal, simplify, side, c) \in Nat /\ Upper(bal, simplify, side, c) \in Nat
             /\ Upper(bal, simplify, side, c) = Lower(bal, simplify, side, c) + w[c]
             /\ Lower(bal, simplify, side, c) <= Upper(bal, simplify, side, c)
             /\ o[c] \in Nat
  <2>1. PICK a : a = Lower(bal, simplify, side, c)  OBVIOUS
  <2>2. PICK b : b = Upper(bal, simplify, side, c)  OBVIOUS
  <2>3. a \in Nat /\ b = a + Size(bal, c) /\ b \in Nat /\ Size(bal, c) \in Nat
    BY <2>1, <2>2, IntervalEnds
  <2>4. w[c] = Size(bal, c)
    <3>1. c \in U /\ bal \in [U -> Int]  BY <1>0
    <3> QED  BY <1>2, <3>1, SizesTyped
  <2>5. o[c] = Shared(lo, hi, a, b)  BY <1>1, <2>1, <2>2 DEF Within
  <2>6. a \in Int /\ b \in Int /\ a <= b /\ lo \in Int /\ hi \in Int  BY <2>3
  <2>7. Shared(lo, hi, a, b) \in Nat  BY <2>6, SharedClip
  <2> QED  BY <2>1, <2>2, <2>3, <2>4, <2>5, <2>6, <2>7
<1>7. o \in [side -> Nat]
  <2>1. o = [c \in side |-> o[c]]  BY <1>1 DEF Within
  <2> QED  BY <1>6, <2>1
<1>8. o \in [side -> Int]  BY <1>7
<1> DEFINE V == {t \in SUBSET side :
                   Closed(bal, simplify, side, t) => Over(o, t) = Clip(lo, hi, Over(w, t))}
<1>9. {} \in V
  <2>1. Over(w, {}) = 0 /\ Over(o, {}) = 0  BY OverEmpty
  <2>2. Clip(lo, hi, 0) = 0  BY ClipEnds
  <2> QED  BY <2>1, <2>2
<1>10. ASSUME NEW t \in SUBSET side, t # {}, \A x \in t : t \ {x} \in V,
              Closed(bal, simplify, side, t)
       PROVE  Over(o, t) = Clip(lo, hi, Over(w, t))
  <2>1. PICK x \in t : \A y \in t \ {x} : Before(bal, simplify, y, x)
    <3>1. t \in SUBSET U  BY <1>0
    <3> QED  BY <1>0, <1>10, <3>1, LastOne
  <2>2. PICK r : r = t \ {x}  OBVIOUS
  <2>3. r \in SUBSET side /\ r \in V /\ x \in side /\ x \in U  BY <1>0, <1>10, <2>1, <2>2
  <2>4. Front(bal, simplify, side, x) = r
    <3>1. ASSUME NEW y \in side, Before(bal, simplify, y, x) PROVE y \in r
      <4>1. y # x  BY <1>0, <2>3, <3>1, BeforeOrder
      <4> QED  BY <1>10, <2>1, <2>2, <3>1, <4>1 DEF Closed
    <3> QED  BY <2>1, <2>2, <2>3, <3>1 DEF Front
  <2>5. Closed(bal, simplify, side, r)
    <3> SUFFICES ASSUME NEW z \in r, NEW y \in side, Before(bal, simplify, y, z) PROVE y \in r
      BY DEF Closed
    <3>1. y \in t  BY <1>10, <2>2 DEF Closed
    <3>2. Before(bal, simplify, z, x)  BY <2>1, <2>2
    <3>3. z \in U /\ y \in U  BY <1>0, <2>3
    <3>4. y # x  BY <1>0, <2>3, <3>2, <3>3, BeforeOrder
    <3> QED  BY <2>2, <3>1, <3>4
  <2>6. Over(o, r) = Clip(lo, hi, Over(w, r))  BY <2>3, <2>5
  <2> HIDE DEF V
  <2>7. t \in SUBSET U /\ IsFiniteSet(U)  BY <1>0
  <2>8. Over(w, t) = w[x] + Over(w, r) /\ w[x] \in Nat
    <3>1. Over(w, t) = w[x] + Over(w, t \ {x}) /\ w[x] \in Nat  BY <1>4, <2>1, <2>7, PositiveTake
    <3> QED  BY <2>2, <3>1
  <2>9. Over(o, t) = o[x] + Over(o, r)
    <3>0. IsFiniteSet(side) /\ o \in [side -> Int] /\ t \in SUBSET side /\ x \in t  BY <1>3, <1>8, <2>1
    <3>1. Over(o, t) = o[x] + Over(o, t \ {x})  BY <3>0, OverTake
    <3> QED  BY <2>2, <3>1
  <2>10. PICK a : a = Over(w, r)  OBVIOUS
  <2>11. PICK b : b = Over(w, t)  OBVIOUS
  <2>12. a \in Nat /\ b = w[x] + a  BY <1>5, <2>3, <2>8, <2>10, <2>11
  <2>13. Lower(bal, simplify, side, x) = a
    <3>1. Lower(bal, simplify, side, x) = Over(Sizes(bal), Front(bal, simplify, side, x))
      <4>1. bal \in [U -> Int] /\ side \in SUBSET U  BY <1>0
      <4> QED  BY <4>1, LowerIs
    <3> QED  BY <1>2, <2>4, <2>10, <3>1
  <2>14. Upper(bal, simplify, side, x) = b  BY <1>6, <2>3, <2>8, <2>12, <2>13
  <2>15. o[x] = Shared(lo, hi, a, b)  BY <1>6, <2>3, <2>13, <2>14
  <2>16. a \in Int /\ b \in Int /\ a <= b /\ lo \in Int /\ hi \in Int  BY <2>8, <2>12
  <2>17. Shared(lo, hi, a, b) + Clip(lo, hi, a) = Clip(lo, hi, b)  BY <2>16, SharedClip
  <2> QED  BY <2>6, <2>9, <2>10, <2>11, <2>15, <2>17
<1>11. \A t \in SUBSET side : t # {} /\ (\A x \in t : t \ {x} \in V) => t \in V
  BY <1>10
<1>12. SUBSET side \subseteq V
  <2> HIDE DEF V
  <2> QED  BY <1>3, <1>9, <1>11, SetInd
<1>13. Closed(bal, simplify, side, side)  BY DEF Closed
<1>14. Over(o, side) = Clip(lo, hi, Over(w, side))  BY <1>3, <1>12, <1>13
<1>15. Over(o, side) = Total(o)  BY <1>8, OverAll
<1>16. Over(w, side) \in Nat  BY <1>3, <1>5
<1> QED  BY <1>1, <1>2, <1>7, <1>14, <1>15, <1>16

\* A balance map of finitely many users.
BalanceMap(U, bal) == U \in SUBSET Nat /\ IsFiniteSet(U) /\ bal \in [U -> Int]

\* What is owed on one side, less what is owed on the other, is the sum of the balances.
LEMMA SidesDiffer ==
  ASSUME NEW U, NEW bal, BalanceMap(U, bal)
  PROVE  /\ Book(U, bal, Debtors(bal)) /\ Book(U, bal, Creditors(bal))
         /\ Over(Sizes(bal), Debtors(bal)) \in Nat /\ Over(Sizes(bal), Creditors(bal)) \in Nat
         /\ Total(bal) = Over(Sizes(bal), Creditors(bal)) - Over(Sizes(bal), Debtors(bal))
<1>0. U \in SUBSET Nat /\ IsFiniteSet(U) /\ bal \in [U -> Int]  BY DEF BalanceMap
<1>1. PICK D : D = Debtors(bal)  OBVIOUS
<1>2. PICK C : C = Creditors(bal)  OBVIOUS
<1>3. D \in SUBSET U /\ C \in SUBSET U  BY <1>0, <1>1, <1>2 DEF Debtors, Creditors
<1>4. Book(U, bal, D) /\ Book(U, bal, C)  BY <1>0, <1>3 DEF Book
<1>5. PICK w : w = Sizes(bal)  OBVIOUS
<1>6. Positive(U, w)  BY <1>0, <1>5, SizesPositive
<1>7. IsFiniteSet(U)  BY <1>0
<1>8. Over(w, D) \in Nat /\ Over(w, C) \in Nat  BY <1>3, <1>6, <1>7, PositiveOver
<1>9. w \in [U -> Int]  BY <1>6 DEF Positive
<1>10. PICK f : f = [k \in U |-> IF k \in D THEN w[k] ELSE 0]  OBVIOUS
<1>11. PICK g : g = [k \in U |-> IF k \in C THEN w[k] ELSE 0]  OBVIOUS
<1>12. f \in [U -> Int] /\ g \in [U -> Int]  BY <1>9, <1>10, <1>11
<1>13. Keeps(U, D, w, f) /\ Keeps(U, C, w, g)  BY <1>10, <1>11 DEF Keeps
<1>14. Over(w, D) = Total(f)
  <2>1. IsFiniteSet(U) /\ w \in [U -> Int] /\ f \in [U -> Int] /\ D \in SUBSET U /\ Keeps(U, D, w, f)
    BY <1>3, <1>7, <1>9, <1>12, <1>13
  <2> QED  BY <2>1, OverFilter
<1>15. Over(w, C) = Total(g)
  <2>1. IsFiniteSet(U) /\ w \in [U -> Int] /\ g \in [U -> Int] /\ C \in SUBSET U /\ Keeps(U, C, w, g)
    BY <1>3, <1>7, <1>9, <1>12, <1>13
  <2> QED  BY <2>1, OverFilter
<1>16. Combines(U, bal, -1, f, g)
  <2>1. ASSUME NEW k \in U PROVE bal[k] = (-1) * f[k] + g[k]
    <3>1. w[k] = (IF bal[k] < 0 THEN -bal[k] ELSE bal[k]) /\ bal[k] \in Int
      BY <1>0, <1>5 DEF Sizes, Size
    <3>2. f[k] = (IF bal[k] < 0 THEN w[k] ELSE 0) /\ g[k] = (IF bal[k] > 0 THEN w[k] ELSE 0)
      BY <1>0, <1>1, <1>2, <1>10, <1>11 DEF Debtors, Creditors
    <3> QED  BY <3>1, <3>2
  <2> QED  BY <2>1 DEF Combines
<1>17. -1 \in Int /\ bal \in [U -> Int]  BY <1>0
<1>18. Total(bal) = (-1) * Total(f) + Total(g)  BY <1>7, <1>12, <1>16, <1>17, TotalPlus
<1> QED  BY <1>1, <1>2, <1>4, <1>5, <1>8, <1>14, <1>15, <1>18

\* Summing under other names: h names each term of f once, and what it leaves
\* unnamed is zero.
Renames(A, B, f, g, h) ==
  /\ IsFiniteSet(A) /\ IsFiniteSet(B) /\ f \in [A -> Int] /\ g \in [B -> Int] /\ h \in [A -> B]
  /\ \A x \in A : f[x] = g[h[x]]
  /\ \A x, y \in A : h[x] = h[y] => x = y
  /\ \A b \in B : (\A x \in A : h[x] # b) => g[b] = 0

LEMMA Reindex ==
  ASSUME NEW A, NEW B, NEW f, NEW g, NEW h, Renames(A, B, f, g, h)
  PROVE  Total(f) = Total(g)
<1>0. /\ IsFiniteSet(A) /\ IsFiniteSet(B) /\ f \in [A -> Int] /\ g \in [B -> Int] /\ h \in [A -> B]
      /\ \A x \in A : f[x] = g[h[x]]
      /\ \A x, y \in A : h[x] = h[y] => x = y
      /\ \A b \in B : (\A x \in A : h[x] # b) => g[b] = 0
  BY DEF Renames
<1> DEFINE Img(s) == {h[x] : x \in s}
           V == {s \in SUBSET A : Over(f, s) = Over(g, Img(s))}
<1>1. {} \in V
  <2>1. Img({}) = {}  OBVIOUS
  <2>2. Over(f, {}) = 0 /\ Over(g, {}) = 0  BY OverEmpty
  <2> QED  BY <2>1, <2>2
<1>2. ASSUME NEW s \in SUBSET A, s # {}, \A x \in s : s \ {x} \in V
      PROVE  Over(f, s) = Over(g, Img(s))
  <2>1. PICK x \in s : s \ {x} \in V  BY <1>2
  <2>2. PICK r : r = s \ {x}  OBVIOUS
  <2>3. PICK I : I = Img(s)  OBVIOUS
  <2>4. PICK J : J = Img(r)  OBVIOUS
  <2>5. Over(f, r) = Over(g, J)  BY <2>1, <2>2, <2>4
  <2>6. x \in A /\ s \in SUBSET A  OBVIOUS
  <2>7. J = I \ {h[x]} /\ h[x] \in I /\ I \in SUBSET B
    BY <1>0, <2>2, <2>3, <2>4, <2>6
  <2> HIDE DEF Img, V
  <2>8. Over(f, s) = f[x] + Over(f, s \ {x})  BY <1>0, <2>6, OverTake
  <2>9. PICK b : b = h[x]  OBVIOUS
  <2>10. b \in I /\ I \in SUBSET B /\ IsFiniteSet(B) /\ g \in [B -> Int]  BY <1>0, <2>7, <2>9
  <2>11. Over(g, I) = g[b] + Over(g, I \ {b})  BY <2>10, OverTake
  <2>12. f[x] = g[b]  BY <1>0, <2>6, <2>9
  <2> QED  BY <2>2, <2>3, <2>5, <2>7, <2>8, <2>9, <2>11, <2>12
<1>3. \A s \in SUBSET A : s # {} /\ (\A x \in s : s \ {x} \in V) => s \in V
  BY <1>2
<1>4. A \in SUBSET A /\ SUBSET A \subseteq V
  <2> HIDE DEF V
  <2> QED  BY <1>0, <1>1, <1>3, SetInd
<1>5. PICK E : E = Img(A)  OBVIOUS
<1>6. Over(f, A) = Over(g, E)  BY <1>4, <1>5
<1>7. E \in SUBSET B  BY <1>0, <1>5
<1>8. Keeps(B, E, g, g)
  <2>1. ASSUME NEW b \in B, b \notin E PROVE g[b] = 0  BY <1>0, <1>5, <2>1
  <2> QED  BY <2>1 DEF Keeps
<1> HIDE DEF Img, V
<1>9. Over(g, E) = Total(g)  BY <1>0, <1>7, <1>8, OverFilter
<1>10. Over(f, A) = Total(f)  BY <1>0, OverAll
<1> QED  BY <1>6, <1>9, <1>10

\* What one debtor owes all of the creditors, and one creditor gets of all the debtors:
\* all of it, unless the other side is the shorter one.
LEMMA DebtorsRow ==
  ASSUME NEW U, NEW bal, NEW simplify, NEW u, BalanceMap(U, bal),
         u \in Debtors(bal)
  PROVE  /\ [c \in Creditors(bal) |-> Owed(bal, simplify, u, c)] \in [Creditors(bal) -> Nat]
         /\ Total(bal) >= 0 =>
              Total([c \in Creditors(bal) |-> Owed(bal, simplify, u, c)]) = -bal[u]
<1>1. PICK D : D = Debtors(bal)  OBVIOUS
<1>2. PICK C : C = Creditors(bal)  OBVIOUS
<1>3. PICK w : w = Sizes(bal)  OBVIOUS
<1>4. PICK o : o = [c \in C |-> Owed(bal, simplify, u, c)]  OBVIOUS
<1>5. /\ Book(U, bal, D) /\ Book(U, bal, C) /\ Over(w, D) \in Nat /\ Over(w, C) \in Nat
      /\ Total(bal) = Over(w, C) - Over(w, D)
  BY <1>1, <1>2, <1>3, SidesDiffer
<1>6. PICK lo : lo = Lower(bal, simplify, D, u)  OBVIOUS
<1>7. PICK hi : hi = Upper(bal, simplify, D, u)  OBVIOUS
<1>8. /\ lo \in Nat /\ hi = lo + Size(bal, u) /\ hi \in Nat /\ Size(bal, u) \in Nat /\ hi <= Over(w, D)
  BY <1>1, <1>3, <1>5, <1>6, <1>7, IntervalEnds
<1>9. o = Within(bal, simplify, C, lo, hi)
  <2>1. ASSUME NEW c \in C
        PROVE  Owed(bal, simplify, u, c)
                 = Shared(lo, hi, Lower(bal, simplify, C, c), Upper(bal, simplify, C, c))
    BY <1>1, <1>2, <1>6, <1>7 DEF Owed, Shared
  <2> QED  BY <1>4, <2>1 DEF Within
<1>10. lo \in Nat /\ hi \in Nat /\ lo <= hi  BY <1>8
<1>11. o \in [C -> Nat] /\ Total(o) = Clip(lo, hi, Over(w, C))
  BY <1>3, <1>5, <1>9, <1>10, RowSum
<1>12. ASSUME Total(bal) >= 0 PROVE Total(o) = -bal[u]
  <2>1. hi <= Over(w, C) /\ Over(w, C) \in Int  BY <1>5, <1>8, <1>12
  <2>2. Clip(lo, hi, Over(w, C)) = hi - lo  BY <1>10, <2>1, ClipEnds
  <2>3. Size(bal, u) = -bal[u]  BY DEF BalanceMap, Debtors, Size
  <2> QED  BY <1>8, <1>11, <2>2, <2>3
<1> QED  BY <1>2, <1>4, <1>11, <1>12

LEMMA CreditorsColumn ==
  ASSUME NEW U, NEW bal, NEW simplify, NEW u, BalanceMap(U, bal),
         u \in Creditors(bal)
  PROVE  /\ [d \in Debtors(bal) |-> Owed(bal, simplify, d, u)] \in [Debtors(bal) -> Nat]
         /\ Total(bal) <= 0 =>
              Total([d \in Debtors(bal) |-> Owed(bal, simplify, d, u)]) = bal[u]
<1>1. PICK D : D = Debtors(bal)  OBVIOUS
<1>2. PICK C : C = Creditors(bal)  OBVIOUS
<1>3. PICK w : w = Sizes(bal)  OBVIOUS
<1>4. PICK o : o = [d \in D |-> Owed(bal, simplify, d, u)]  OBVIOUS
<1>5. /\ Book(U, bal, D) /\ Book(U, bal, C) /\ Over(w, D) \in Nat /\ Over(w, C) \in Nat
      /\ Total(bal) = Over(w, C) - Over(w, D)
  BY <1>1, <1>2, <1>3, SidesDiffer
<1>6. PICK lo : lo = Lower(bal, simplify, C, u)  OBVIOUS
<1>7. PICK hi : hi = Upper(bal, simplify, C, u)  OBVIOUS
<1>8. /\ lo \in Nat /\ hi = lo + Size(bal, u) /\ hi \in Nat /\ Size(bal, u) \in Nat /\ hi <= Over(w, C)
  BY <1>2, <1>3, <1>5, <1>6, <1>7, IntervalEnds
<1>9. o = Within(bal, simplify, D, lo, hi)
  <2>1. ASSUME NEW d \in D
        PROVE  Owed(bal, simplify, d, u)
                 = Shared(lo, hi, Lower(bal, simplify, D, d), Upper(bal, simplify, D, d))
    <3>1. PICK a : a = Lower(bal, simplify, D, d)  OBVIOUS
    <3>2. PICK b : b = Upper(bal, simplify, D, d)  OBVIOUS
    <3>3. Owed(bal, simplify, d, u) = Max({0, Min({b, hi}) - Max({a, lo})})
      BY <1>1, <1>2, <1>6, <1>7, <3>1, <3>2 DEF Owed
    <3>4. {b, hi} = {hi, b} /\ {a, lo} = {lo, a}  OBVIOUS
    <3>5. Shared(lo, hi, a, b) = Max({0, Min({b, hi}) - Max({a, lo})})  BY <3>4 DEF Shared
    <3> QED  BY <3>1, <3>2, <3>3, <3>5
  <2> QED  BY <1>4, <2>1 DEF Within
<1>10. lo \in Nat /\ hi \in Nat /\ lo <= hi  BY <1>8
<1>11. o \in [D -> Nat] /\ Total(o) = Clip(lo, hi, Over(w, D))
  BY <1>3, <1>5, <1>9, <1>10, RowSum
<1>12. ASSUME Total(bal) <= 0 PROVE Total(o) = bal[u]
  <2>1. hi <= Over(w, D) /\ Over(w, D) \in Int  BY <1>5, <1>8, <1>12
  <2>2. Clip(lo, hi, Over(w, D)) = hi - lo  BY <1>10, <2>1, ClipEnds
  <2>3. Size(bal, u) = bal[u]  BY DEF BalanceMap, Creditors, Size
  <2> QED  BY <1>8, <1>11, <2>2, <2>3
<1> QED  BY <1>1, <1>4, <1>11, <1>12

\* A list of the suggested transfers, each of them once.
Enumerates(N, ts, S) ==
  /\ IsFiniteSet(N) /\ ts \in [N -> S]
  /\ \A x, y \in N : ts[x] = ts[y] => x = y
  /\ \A s \in S : \E x \in N : ts[x] = s

Sent(N, ts, u) == Total([x \in {y \in N : ts[y].from = u} |-> ts[x].amount])
Came(N, ts, u) == Total([x \in {y \in N : ts[y].to = u} |-> ts[x].amount])

Transfer(bal, simplify, d, c) ==
  [from |-> d, to |-> c, amount |-> Owed(bal, simplify, d, c)]

LEMMA SuggestedAre ==
  ASSUME NEW bal, NEW simplify
  PROVE  /\ \A s \in Suggested(bal, simplify) :
              /\ s.from \in Debtors(bal) /\ s.to \in Creditors(bal)
              /\ s.amount = Owed(bal, simplify, s.from, s.to) /\ s.amount > 0
              /\ s = Transfer(bal, simplify, s.from, s.to)
         /\ \A d \in Debtors(bal), c \in Creditors(bal) : Owed(bal, simplify, d, c) > 0 =>
              Transfer(bal, simplify, d, c) \in Suggested(bal, simplify)
<1>1. PICK D : D = Debtors(bal)  OBVIOUS
<1>2. PICK C : C = Creditors(bal)  OBVIOUS
<1>3. ASSUME NEW s \in Suggested(bal, simplify)
      PROVE  /\ s.from \in D /\ s.to \in C
             /\ s.amount = Owed(bal, simplify, s.from, s.to) /\ s.amount > 0
             /\ s = Transfer(bal, simplify, s.from, s.to)
  <2>1. PICK p \in {q \in D \X C : Owed(bal, simplify, q[1], q[2]) > 0} :
          s = [from |-> p[1], to |-> p[2], amount |-> Owed(bal, simplify, p[1], p[2])]
    BY <1>1, <1>2, <1>3 DEF Suggested
  <2>2. p \in D \X C /\ Owed(bal, simplify, p[1], p[2]) > 0  BY <2>1
  <2>3. p[1] \in D /\ p[2] \in C  BY <2>2
  <2>4. s.from = p[1] /\ s.to = p[2] /\ s.amount = Owed(bal, simplify, p[1], p[2])  BY <2>1
  <2> QED  BY <2>1, <2>2, <2>3, <2>4 DEF Transfer
<1>4. ASSUME NEW d \in D, NEW c \in C, Owed(bal, simplify, d, c) > 0
      PROVE  Transfer(bal, simplify, d, c) \in Suggested(bal, simplify)
  <2>1. <<d, c>> \in {q \in D \X C : Owed(bal, simplify, q[1], q[2]) > 0}  BY <1>4
  <2> QED  BY <1>1, <1>2, <2>1 DEF Suggested, Transfer
<1> QED  BY <1>1, <1>2, <1>3, <1>4

\* Such a list has everybody pay what they owe, unless the balances say that more is
\* owed than is due, and get what they are due, unless less is.
LEMMA DebtorsPay ==
  ASSUME NEW U, NEW bal, NEW simplify, NEW N, NEW ts, NEW u,
         BalanceMap(U, bal),
         Enumerates(N, ts, Suggested(bal, simplify))
  PROVE  /\ Sent(N, ts, u) \in Nat
         /\ u \in Debtors(bal) /\ Total(bal) >= 0 => Sent(N, ts, u) = -bal[u]
         /\ u \notin Debtors(bal) => Sent(N, ts, u) = 0
<1>1. PICK D : D = Debtors(bal)  OBVIOUS
<1>2. PICK C : C = Creditors(bal)  OBVIOUS
<1>3. PICK S : S = Suggested(bal, simplify)  OBVIOUS
<1>4. /\ IsFiniteSet(N) /\ ts \in [N -> S]
      /\ \A x, y \in N : ts[x] = ts[y] => x = y
      /\ \A s \in S : \E x \in N : ts[x] = s
  BY <1>3 DEF Enumerates
<1>5. \A s \in S : /\ s.from \in D /\ s.to \in C
                   /\ s.amount = Owed(bal, simplify, s.from, s.to) /\ s.amount > 0
                   /\ s = Transfer(bal, simplify, s.from, s.to)
  BY <1>1, <1>2, <1>3, SuggestedAre
<1>6. \A d \in D, c \in C : Owed(bal, simplify, d, c) > 0 => Transfer(bal, simplify, d, c) \in S
  BY <1>1, <1>2, <1>3, SuggestedAre
<1>7. PICK A : A = {y \in N : ts[y].from = u}  OBVIOUS
<1>8. PICK f : f = [x \in A |-> ts[x].amount]  OBVIOUS
<1>9. Sent(N, ts, u) = Total(f)  BY <1>7, <1>8 DEF Sent
<1>10. A \in SUBSET N /\ \A x \in A : ts[x] \in S /\ ts[x].from = u  BY <1>4, <1>7
<1>11. CASE u \in D
  <2>1. PICK g : g = [c \in C |-> Owed(bal, simplify, u, c)]  OBVIOUS
  <2>2. g \in [C -> Nat] /\ (Total(bal) >= 0 => Total(g) = -bal[u])
    <3>1. u \in Debtors(bal)  BY <1>1, <1>11
    <3>2. /\ [c \in Creditors(bal) |-> Owed(bal, simplify, u, c)] \in [Creditors(bal) -> Nat]
          /\ Total(bal) >= 0 =>
               Total([c \in Creditors(bal) |-> Owed(bal, simplify, u, c)]) = -bal[u]
      BY <3>1, DebtorsRow
    <3> QED  BY <1>2, <2>1, <3>2
  <2>3. PICK h : h = [x \in A |-> ts[x].to]  OBVIOUS
  <2>4. IsFiniteSet(A) /\ IsFiniteSet(C)
    <3>1. C \in SUBSET U /\ IsFiniteSet(U)  BY <1>2 DEF Creditors, BalanceMap
    <3> QED  BY <1>4, <1>10, <3>1, FS_Subset
  <2>5. \A x \in A : /\ ts[x].to \in C /\ ts[x].amount = Owed(bal, simplify, u, ts[x].to)
                     /\ ts[x] = Transfer(bal, simplify, u, ts[x].to)
    BY <1>5, <1>10
  <2>6. h \in [A -> C] /\ \A x \in A : f[x] = g[h[x]]  BY <1>8, <2>1, <2>3, <2>5
  <2>7. f \in [A -> Int] /\ g \in [C -> Int]
    <3>1. f = [x \in A |-> g[h[x]]]  BY <1>8, <2>6
    <3> QED  BY <2>2, <2>6, <3>1
  <2>8. ASSUME NEW x \in A, NEW y \in A, h[x] = h[y] PROVE x = y
    <3>1. ts[x] = ts[y]  BY <2>3, <2>5, <2>8
    <3> QED  BY <1>4, <1>10, <3>1
  <2>9. ASSUME NEW c \in C, \A x \in A : h[x] # c PROVE g[c] = 0
    <3> SUFFICES ASSUME g[c] # 0 PROVE FALSE
      OBVIOUS
    <3>1. Owed(bal, simplify, u, c) > 0  BY <2>1, <2>2
    <3>2. Transfer(bal, simplify, u, c) \in S  BY <1>6, <1>11, <3>1
    <3>3. PICK x \in N : ts[x] = Transfer(bal, simplify, u, c)  BY <1>4, <3>2
    <3>4. ts[x].from = u /\ ts[x].to = c  BY <3>3 DEF Transfer
    <3> QED  BY <1>7, <2>3, <2>9, <3>4
  <2>10. Renames(A, C, f, g, h)  BY <2>4, <2>6, <2>7, <2>8, <2>9 DEF Renames
  <2>11. Total(f) = Total(g)  BY <2>10, Reindex
  <2>12. Total(g) \in Nat
    <3>1. C \in SUBSET C /\ (\A k \in C : g[k] >= 0)  BY <2>2
    <3>2. Over(g, C) \in Nat  BY <2>4, <2>7, <3>1, OverNat
    <3> QED  BY <2>7, <3>2, OverAll
  <2> QED  BY <1>1, <1>9, <1>11, <2>2, <2>11, <2>12
<1>12. CASE u \notin D
  <2>1. A = {}  BY <1>5, <1>10, <1>12
  <2>2. DOMAIN f = {}  BY <1>8, <2>1
  <2>3. Total(f) = 0  BY <2>2, TotalEmpty
  <2> QED  BY <1>1, <1>9, <1>12, <2>3
<1> QED  BY <1>11, <1>12

LEMMA CreditorsGet ==
  ASSUME NEW U, NEW bal, NEW simplify, NEW N, NEW ts, NEW u,
         BalanceMap(U, bal),
         Enumerates(N, ts, Suggested(bal, simplify))
  PROVE  /\ Came(N, ts, u) \in Nat
         /\ u \in Creditors(bal) /\ Total(bal) <= 0 => Came(N, ts, u) = bal[u]
         /\ u \notin Creditors(bal) => Came(N, ts, u) = 0
<1>1. PICK D : D = Debtors(bal)  OBVIOUS
<1>2. PICK C : C = Creditors(bal)  OBVIOUS
<1>3. PICK S : S = Suggested(bal, simplify)  OBVIOUS
<1>4. /\ IsFiniteSet(N) /\ ts \in [N -> S]
      /\ \A x, y \in N : ts[x] = ts[y] => x = y
      /\ \A s \in S : \E x \in N : ts[x] = s
  BY <1>3 DEF Enumerates
<1>5. \A s \in S : /\ s.from \in D /\ s.to \in C
                   /\ s.amount = Owed(bal, simplify, s.from, s.to) /\ s.amount > 0
                   /\ s = Transfer(bal, simplify, s.from, s.to)
  BY <1>1, <1>2, <1>3, SuggestedAre
<1>6. \A d \in D, c \in C : Owed(bal, simplify, d, c) > 0 => Transfer(bal, simplify, d, c) \in S
  BY <1>1, <1>2, <1>3, SuggestedAre
<1>7. PICK A : A = {y \in N : ts[y].to = u}  OBVIOUS
<1>8. PICK f : f = [x \in A |-> ts[x].amount]  OBVIOUS
<1>9. Came(N, ts, u) = Total(f)  BY <1>7, <1>8 DEF Came
<1>10. A \in SUBSET N /\ \A x \in A : ts[x] \in S /\ ts[x].to = u  BY <1>4, <1>7
<1>11. CASE u \in C
  <2>1. PICK g : g = [d \in D |-> Owed(bal, simplify, d, u)]  OBVIOUS
  <2>2. g \in [D -> Nat] /\ (Total(bal) <= 0 => Total(g) = bal[u])
    <3>1. u \in Creditors(bal)  BY <1>2, <1>11
    <3>2. /\ [d \in Debtors(bal) |-> Owed(bal, simplify, d, u)] \in [Debtors(bal) -> Nat]
          /\ Total(bal) <= 0 =>
               Total([d \in Debtors(bal) |-> Owed(bal, simplify, d, u)]) = bal[u]
      BY <3>1, CreditorsColumn
    <3> QED  BY <1>1, <2>1, <3>2
  <2>3. PICK h : h = [x \in A |-> ts[x].from]  OBVIOUS
  <2>4. IsFiniteSet(A) /\ IsFiniteSet(D)
    <3>1. D \in SUBSET U /\ IsFiniteSet(U)  BY <1>1 DEF Debtors, BalanceMap
    <3> QED  BY <1>4, <1>10, <3>1, FS_Subset
  <2>5. \A x \in A : /\ ts[x].from \in D /\ ts[x].amount = Owed(bal, simplify, ts[x].from, u)
                     /\ ts[x] = Transfer(bal, simplify, ts[x].from, u)
    BY <1>5, <1>10
  <2>6. h \in [A -> D] /\ \A x \in A : f[x] = g[h[x]]  BY <1>8, <2>1, <2>3, <2>5
  <2>7. f \in [A -> Int] /\ g \in [D -> Int]
    <3>1. f = [x \in A |-> g[h[x]]]  BY <1>8, <2>6
    <3> QED  BY <2>2, <2>6, <3>1
  <2>8. ASSUME NEW x \in A, NEW y \in A, h[x] = h[y] PROVE x = y
    <3>1. ts[x] = ts[y]  BY <2>3, <2>5, <2>8
    <3> QED  BY <1>4, <1>10, <3>1
  <2>9. ASSUME NEW d \in D, \A x \in A : h[x] # d PROVE g[d] = 0
    <3> SUFFICES ASSUME g[d] # 0 PROVE FALSE
      OBVIOUS
    <3>1. Owed(bal, simplify, d, u) > 0  BY <2>1, <2>2
    <3>2. Transfer(bal, simplify, d, u) \in S  BY <1>6, <1>11, <3>1
    <3>3. PICK x \in N : ts[x] = Transfer(bal, simplify, d, u)  BY <1>4, <3>2
    <3>4. ts[x].from = d /\ ts[x].to = u  BY <3>3 DEF Transfer
    <3> QED  BY <1>7, <2>3, <2>9, <3>4
  <2>10. Renames(A, D, f, g, h)  BY <2>4, <2>6, <2>7, <2>8, <2>9 DEF Renames
  <2>11. Total(f) = Total(g)  BY <2>10, Reindex
  <2>12. Total(g) \in Nat
    <3>1. D \in SUBSET D /\ (\A k \in D : g[k] >= 0)  BY <2>2
    <3>2. Over(g, D) \in Nat  BY <2>4, <2>7, <3>1, OverNat
    <3> QED  BY <2>7, <3>2, OverAll
  <2> QED  BY <1>2, <1>9, <1>11, <2>2, <2>11, <2>12
<1>12. CASE u \notin C
  <2>1. A = {}  BY <1>5, <1>10, <1>12
  <2>2. DOMAIN f = {}  BY <1>8, <2>1
  <2>3. Total(f) = 0  BY <2>2, TotalEmpty
  <2> QED  BY <1>2, <1>9, <1>12, <2>3
<1> QED  BY <1>11, <1>12

\* Balances that add up to zero are all settled once the suggested transfers
\* (suggested_transfers in services/balance.py) are paid, each of them once.
THEOREM AllSettled ==
  ASSUME NEW U, NEW bal, NEW simplify, NEW N, NEW ts, NEW u,
         BalanceMap(U, bal),
         Enumerates(N, ts, Suggested(bal, simplify)), u \in U, Total(bal) = 0
  PROVE  /\ Sent(N, ts, u) \in Nat /\ Came(N, ts, u) \in Nat
         /\ bal[u] + Sent(N, ts, u) - Came(N, ts, u) = 0
<1>1. PICK s : s = Sent(N, ts, u)  OBVIOUS
<1>2. PICK c : c = Came(N, ts, u)  OBVIOUS
<1>3. /\ s \in Nat
      /\ u \in Debtors(bal) => s = -bal[u]
      /\ u \notin Debtors(bal) => s = 0
  <2>1. /\ Sent(N, ts, u) \in Nat
        /\ u \in Debtors(bal) /\ Total(bal) >= 0 => Sent(N, ts, u) = -bal[u]
        /\ u \notin Debtors(bal) => Sent(N, ts, u) = 0
    BY DebtorsPay
  <2>2. Total(bal) >= 0  OBVIOUS
  <2> QED  BY <1>1, <2>1, <2>2
<1>4. /\ c \in Nat
      /\ u \in Creditors(bal) => c = bal[u]
      /\ u \notin Creditors(bal) => c = 0
  <2>1. /\ Came(N, ts, u) \in Nat
        /\ u \in Creditors(bal) /\ Total(bal) <= 0 => Came(N, ts, u) = bal[u]
        /\ u \notin Creditors(bal) => Came(N, ts, u) = 0
    BY CreditorsGet
  <2>2. Total(bal) <= 0  OBVIOUS
  <2> QED  BY <1>2, <2>1, <2>2
<1>5. PICK b : b = bal[u]  OBVIOUS
<1>6. b \in Int /\ (u \in Debtors(bal) <=> b < 0) /\ (u \in Creditors(bal) <=> b > 0)
  BY <1>5 DEF BalanceMap, Debtors, Creditors
<1>7. b + s - c = 0  BY <1>3, <1>4, <1>5, <1>6
<1> QED  BY <1>1, <1>2, <1>3, <1>4, <1>5, <1>7

-----------------------------------------------------------------------------

\* A list of a side in its order.
Arranges(bal, simplify, side, s, n) ==
  /\ n \in Nat /\ s \in [1..n -> side]
  /\ \A u \in side : \E x \in 1..n : s[x] = u
  /\ \A x, y \in 1..n : x < y => Before(bal, simplify, s[x], s[y])

\* In the list each interval starts where the one before it ends.
LEMMA EndToEnd ==
  ASSUME NEW U, NEW bal, NEW simplify, NEW side, NEW s, NEW n, Book(U, bal, side),
         Arranges(bal, simplify, side, s, n)
  PROVE  /\ 1 \in 1..n => Lower(bal, simplify, side, s[1]) = 0
         /\ \A x \in 1..n : x + 1 \in 1..n =>
              Lower(bal, simplify, side, s[x + 1]) = Upper(bal, simplify, side, s[x])
         /\ \A x, y \in 1..n : x < y =>
              Upper(bal, simplify, side, s[x]) <= Lower(bal, simplify, side, s[y])
<1>1. U \in SUBSET Nat /\ IsFiniteSet(U) /\ bal \in [U -> Int] /\ side \in SUBSET U  BY BookTyped
<1>2. PICK w : w = Sizes(bal)  OBVIOUS
<1>3. Positive(U, w)  BY <1>1, <1>2, SizesPositive
<1>4. /\ n \in Nat /\ s \in [1..n -> side]
      /\ \A u \in side : \E x \in 1..n : s[x] = u
      /\ \A x, y \in 1..n : x < y => Before(bal, simplify, s[x], s[y])
  BY DEF Arranges
<1>5. ASSUME NEW u
      PROVE  Lower(bal, simplify, side, u) = Over(w, Front(bal, simplify, side, u))
  <2>1. bal \in [U -> Int] /\ side \in SUBSET U  BY <1>1
  <2>2. Lower(bal, simplify, side, u) = Over(Sizes(bal), Front(bal, simplify, side, u))
    BY <2>1, LowerIs
  <2> QED  BY <1>2, <2>2
<1>6. ASSUME NEW x \in 1..n, NEW y \in 1..n, ~(x < y)
      PROVE  ~Before(bal, simplify, s[x], s[y])
  <2>1. s[x] \in U /\ s[y] \in U  BY <1>1, <1>4
  <2>2. CASE x = y  BY <1>1, <2>1, <2>2, BeforeOrder
  <2>3. CASE y < x
    <3>1. Before(bal, simplify, s[y], s[x])  BY <1>4, <2>3
    <3>2. PICK p : p = s[x]  OBVIOUS
    <3>3. PICK q : q = s[y]  OBVIOUS
    <3>4. p \in U /\ q \in U /\ Before(bal, simplify, q, p)  BY <2>1, <3>1, <3>2, <3>3
    <3>5. ~Before(bal, simplify, p, q)  BY <1>1, <3>4, BeforeOrder
    <3> QED  BY <3>2, <3>3, <3>5
  <2> QED  BY <1>4, <1>6, <2>2, <2>3
<1>7. ASSUME NEW y \in 1..n
      PROVE  Front(bal, simplify, side, s[y]) = {s[x] : x \in {z \in 1..n : z < y}}
  <2>1. ASSUME NEW u \in side, Before(bal, simplify, u, s[y])
        PROVE  \E x \in 1..n : x < y /\ s[x] = u
    BY <1>4, <1>6, <2>1
  <2>2. \A x \in 1..n : x < y => s[x] \in side /\ Before(bal, simplify, s[x], s[y])
    BY <1>4
  <2> QED  BY <2>1, <2>2 DEF Front
<1>8. ASSUME 1 \in 1..n PROVE Lower(bal, simplify, side, s[1]) = 0
  <2>1. Front(bal, simplify, side, s[1]) = {}
    <3>1. {z \in 1..n : z < 1} = {}  OBVIOUS
    <3> QED  BY <1>7, <1>8, <3>1
  <2> QED  BY <1>5, <2>1, OverEmpty
<1>9. ASSUME NEW x \in 1..n
      PROVE  \E F : /\ F \in SUBSET U /\ F = {s[z] : z \in {z \in 1..n : z <= x}}
                    /\ Upper(bal, simplify, side, s[x]) = Over(w, F)
  <2>1. PICK F : F = {s[z] : z \in {z \in 1..n : z <= x}}  OBVIOUS
  <2>2. PICK G : G = Front(bal, simplify, side, s[x])  OBVIOUS
  <2>3. G = {s[z] : z \in {z \in 1..n : z < x}}  BY <1>7, <2>2
  <2>4. s[x] \in side /\ s[x] \in U  BY <1>1, <1>4
  <2>5. s[x] \notin G
    <3>1. ~Before(bal, simplify, s[x], s[x])  BY <1>6
    <3> QED  BY <2>2, <3>1 DEF Front
  <2>6. F \in SUBSET U  BY <1>1, <1>4, <2>1
  <2>7. F = G \cup {s[x]}
    <3>1. \A z \in 1..n : z <= x <=> z < x \/ z = x  BY <1>4
    <3> QED  BY <2>1, <2>3, <3>1
  <2>8. F \ {s[x]} = G /\ s[x] \in F  BY <2>5, <2>7
  <2>9. Over(w, F) = w[s[x]] + Over(w, F \ {s[x]})
    <3>1. IsFiniteSet(U) /\ Positive(U, w) /\ F \in SUBSET U /\ s[x] \in F
      BY <1>1, <1>3, <2>6, <2>8
    <3> QED  BY <3>1, PositiveTake
  <2>10. w[s[x]] = Size(bal, s[x])  BY <1>1, <1>2, <2>4, SizesTyped
  <2>11. Over(w, G) \in Nat /\ w[s[x]] \in Int
    <3>1. IsFiniteSet(U) /\ Positive(U, w) /\ G \in SUBSET U  BY <1>1, <1>3, <2>6, <2>8
    <3>2. Over(w, G) \in Nat  BY <3>1, PositiveOver
    <3> QED  BY <1>3, <2>4, <3>2 DEF Positive
  <2>12. Upper(bal, simplify, side, s[x]) = Over(w, G) + w[s[x]]  BY <1>5, <2>2, <2>10 DEF Upper
  <2> QED  BY <2>1, <2>6, <2>8, <2>9, <2>11, <2>12
<1>10. ASSUME NEW x \in 1..n, x + 1 \in 1..n
       PROVE  Lower(bal, simplify, side, s[x + 1]) = Upper(bal, simplify, side, s[x])
  <2>1. PICK F : /\ F = {s[z] : z \in {z \in 1..n : z <= x}}
                 /\ Upper(bal, simplify, side, s[x]) = Over(w, F)
    BY <1>9
  <2>2. \A z \in 1..n : z <= x <=> z < x + 1  BY <1>4
  <2>3. Front(bal, simplify, side, s[x + 1]) = F  BY <1>7, <1>10, <2>1, <2>2
  <2> QED  BY <1>5, <2>1, <2>3
<1>11. ASSUME NEW x \in 1..n, NEW y \in 1..n, x < y
       PROVE  Upper(bal, simplify, side, s[x]) <= Lower(bal, simplify, side, s[y])
  <2>1. PICK F : /\ F \in SUBSET U /\ F = {s[z] : z \in {z \in 1..n : z <= x}}
                 /\ Upper(bal, simplify, side, s[x]) = Over(w, F)
    BY <1>9
  <2>2. PICK G : G = Front(bal, simplify, side, s[y])  OBVIOUS
  <2>3. G = {s[z] : z \in {z \in 1..n : z < y}}  BY <1>7, <2>2
  <2>4. \A z \in 1..n : z <= x => z < y  BY <1>4, <1>11
  <2>5. F \in SUBSET G  BY <2>1, <2>3, <2>4
  <2>6. G \in SUBSET U  BY <1>1, <1>4, <2>3
  <2>7. Over(w, F) <= Over(w, G)
    <3>1. IsFiniteSet(U) /\ Positive(U, w) /\ G \in SUBSET U /\ F \in SUBSET G
      BY <1>1, <1>3, <2>5, <2>6
    <3> QED  BY <3>1, PositiveLess
  <2> QED  BY <1>5, <2>1, <2>2, <2>7
<1> QED  BY <1>8, <1>10, <1>11

\* Intervals that meet at most at an end share nothing; otherwise they share what lies
\* between the later start and the earlier end.
LEMMA SharedIs ==
  ASSUME NEW lo, NEW hi, NEW a, NEW b, lo \in Int /\ hi \in Int /\ a \in Int /\ b \in Int
  PROVE  /\ hi <= a \/ b <= lo => Shared(lo, hi, a, b) = 0
         /\ \A m, p \in Int :
              /\ m >= lo /\ m >= a /\ (m = lo \/ m = a)
              /\ p >= 0 /\ m + p <= hi /\ m + p <= b /\ (m + p = hi \/ m + p = b)
              => Shared(lo, hi, a, b) = p
<1>0. lo \in Int /\ hi \in Int /\ a \in Int /\ b \in Int  OBVIOUS
<1> DEFINE p1 == Min({hi, b})  q1 == Max({lo, a})
<1>1. p1 \in {hi, b} /\ p1 <= hi /\ p1 <= b  BY <1>0, Smaller
<1>2. q1 \in {lo, a} /\ q1 >= lo /\ q1 >= a  BY <1>0, Larger
<1> HIDE DEF p1, q1
<1>3. p1 - q1 \in Int /\ 0 \in Int  BY <1>0, <1>1, <1>2
<1> DEFINE d == p1 - q1  m1 == Max({0, d})
<1> HIDE DEF d
<1>4. m1 \in {0, d} /\ m1 >= 0 /\ m1 >= d  BY <1>3, Larger DEF d
<1> HIDE DEF m1
<1>5. Shared(lo, hi, a, b) = m1  BY DEF Shared, m1, d, p1, q1
<1>6. hi <= a \/ b <= lo => m1 = 0  BY <1>0, <1>1, <1>2, <1>4 DEF d
<1>7. ASSUME NEW m \in Int, NEW p \in Int,
             /\ m >= lo /\ m >= a /\ (m = lo \/ m = a)
             /\ p >= 0 /\ m + p <= hi /\ m + p <= b /\ (m + p = hi \/ m + p = b)
      PROVE  m1 = p
  BY <1>0, <1>1, <1>2, <1>4, <1>7 DEF d
<1> QED  BY <1>5, <1>6, <1>7

LEMMA OwedIs ==
  ASSUME NEW bal, NEW simplify, NEW d, NEW c, d \in Debtors(bal) /\ c \in Creditors(bal)
  PROVE  Owed(bal, simplify, d, c) =
           Shared(Lower(bal, simplify, Debtors(bal), d), Upper(bal, simplify, Debtors(bal), d),
                  Lower(bal, simplify, Creditors(bal), c), Upper(bal, simplify, Creditors(bal), c))
BY DEF Owed, Shared
=============================================================================
