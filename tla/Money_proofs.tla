---------------------------- MODULE Money_proofs ----------------------------
(***************************************************************************)
(* The two loops on cents, for any number of people, any amounts and any   *)
(* parameters: the split of an expense (Apportionment) and the suggested   *)
(* transfers (Greedy) keep their promises and compute their closed forms.  *)
(***************************************************************************)
EXTENDS Apportionment, Greedy, Split_proofs

(***************************************************************************)
(* The split.                                                              *)
(***************************************************************************)

Cents == /\ amount \in Nat \ {0} /\ allocated \in Nat
         /\ n \in Nat \ {0} /\ k \in 0..n
         /\ mode \in {"equal", "weighted", "percent", "exact"}
         /\ phase \in {"call", "sum", "floor", "extra", "done", "rejected"}
         /\ params \in [People -> Nat] /\ weights \in [People -> Nat]
         /\ upto \in [0..n -> Nat]

\* upto holds the partial sums of the weights, as far as they are added up.
Prefixes == /\ upto[0] = 0
            /\ phase = "call" => k = 0
            /\ phase = "sum" => \A m \in 0..n : m < k => upto[m + 1] = upto[m] + weights[m + 1]
            /\ phase = "floor" => \A m \in 0..n : m < n => upto[m + 1] = upto[m] + weights[m + 1]

\* What the first k floors leave over: less than one total each.
Remaining == amount * upto[k] - allocated * total

Floors == phase = "floor" => /\ total > 0
                             /\ 0 <= Remaining
                             /\ Remaining <= k * (total - 1)

\* As long as cents are left over, so are people to take one each.
Extras == phase = "extra" => allocated <= amount /\ amount - allocated <= n - k

Untouched == phase \in {"call", "sum"} => allocated = 0

\* The left-over cents never run out of people to take them.
AllHandedOut == phase = "done" => allocated = amount

SplitInv == Cents /\ Prefixes /\ Floors /\ Extras /\ Untouched /\ AllHandedOut

-----------------------------------------------------------------------------

\* A product of natural numbers is one.
LEMMA Product ==
  ASSUME NEW x \in Nat, NEW y \in Nat
  PROVE  x * y \in Nat
OBVIOUS

\* All floors taken: what is left is less than a cent a head.
LEMMA FewLeft ==
  ASSUME NEW a \in Nat, NEW c \in Nat, NEW m \in Nat \ {0}, NEW d \in Nat, d > 0,
         0 <= a * d - c * d, a * d - c * d <= m * (d - 1)
  PROVE  c <= a /\ a - c <= m
<1>1. (a - c) * d = a * d - c * d
  OBVIOUS
<1>2. c <= a
  <2> SUFFICES ASSUME a - c < 0 PROVE FALSE
    OBVIOUS
  <2>1. (a - c) * d < 0
    OBVIOUS
  <2> QED  BY <1>1, <2>1
<1>3. a - c <= m
  <2> SUFFICES ASSUME a - c > m PROVE FALSE
    OBVIOUS
  <2>1. (a - c) * d > m * d
    OBVIOUS
  <2>2. m * (d - 1) <= m * d
    OBVIOUS
  <2> QED  BY <1>1, <2>1, <2>2
<1> QED  BY <1>2, <1>3

LEMMA SplitInitInv == Init => SplitInv
<1> SUFFICES ASSUME Init PROVE SplitInv
  OBVIOUS
<1> USE AmountAssumption, ParamAssumption, PeopleAssumption
<1>1. PICK m \in 1..MaxPeople : params \in [1..m -> Param]
  BY DEF Init
<1>2. n = m /\ n \in Nat \ {0} /\ People = 1..m
  BY <1>1 DEF n, People
<1>3. params \in [People -> Nat]
  BY <1>1, <1>2
<1>4. Cents
  BY <1>2, <1>3 DEF Init, Cents, Zeros
<1>5. upto[0] = 0
  BY <1>2 DEF Init
<1> QED  BY <1>4, <1>5 DEF Init, SplitInv, Prefixes, Floors, Extras, Untouched, AllHandedOut

LEMMA SplitStepInv == SplitInv /\ [Next]_vars => SplitInv'
<1> SUFFICES ASSUME SplitInv, [Next]_vars PROVE SplitInv'
  OBVIOUS
<1>0. Cents /\ n \in Nat \ {0} /\ total \in Nat /\ upto[k] \in Nat /\ Remaining \in Int
  BY Product DEF SplitInv, Cents, total, Remaining
<1>1. CASE UNCHANGED vars
  BY <1>1 DEF SplitInv, vars, command, Cents, Prefixes, Floors, Extras, Untouched, AllHandedOut,
              Remaining, total, n, People
<1>2. CASE Call
  <2>1. n' = n /\ People' = People  BY <1>2 DEF Call, command, n, People
  <2>2. weights' \in [People -> Nat]  BY <1>0, <1>2 DEF Call, Cents
  <2> QED  BY <1>2, <2>1, <2>2 DEF Call, command, SplitInv, Cents, Prefixes, Floors, Extras,
                                   Untouched, AllHandedOut
<1>3. CASE AddWeight
  <2>1. n' = n /\ People' = People  BY <1>3 DEF AddWeight, command, n, People
  <2>2. k + 1 \in People /\ k + 1 \in 0..n /\ k \in 0..n
    BY <1>0, <1>3 DEF AddWeight, Cents, People
  <2>3. upto[k] + weights[k + 1] \in Nat  BY <1>0, <2>2 DEF Cents
  <2>4. Cents'  BY <1>0, <1>3, <2>1, <2>2, <2>3 DEF AddWeight, command, Cents
  <2>5. Prefixes'
    <3>1. upto'[0] = 0  BY <1>0, <1>3, <2>2 DEF AddWeight, Cents, SplitInv, Prefixes
    <3>2. ASSUME NEW m \in 0..n, m < k + 1
          PROVE  upto'[m + 1] = upto'[m] + weights[m + 1]
      <4>1. upto' = [upto EXCEPT ![k + 1] = upto[k] + weights[k + 1]]
        BY <1>3 DEF AddWeight
      <4>2. CASE m = k  BY <1>0, <2>2, <4>1, <4>2 DEF Cents
      <4>3. CASE m < k
        <5>1. upto[m + 1] = upto[m] + weights[m + 1]
          BY <1>3, <4>3 DEF AddWeight, SplitInv, Prefixes
        <5> QED  BY <1>0, <2>2, <4>1, <4>3, <5>1 DEF Cents
      <4> QED  BY <1>0, <2>2, <3>2, <4>2, <4>3
    <3> QED  BY <1>3, <2>1, <3>1, <3>2 DEF AddWeight, Prefixes
  <2> QED  BY <1>3, <2>4, <2>5 DEF AddWeight, SplitInv, Floors, Extras, Untouched, AllHandedOut
<1>4. CASE Reject
  <2>1. n' = n /\ People' = People  BY <1>4 DEF Reject, command, n, People
  <2> QED  BY <1>4, <2>1 DEF Reject, command, SplitInv, Cents, Prefixes, Floors, Extras, Untouched, AllHandedOut
<1>5. CASE ReturnExact
  <2>1. n' = n /\ People' = People  BY <1>5 DEF ReturnExact, command, n, People
  <2> QED  BY <1>0, <1>5, <2>1 DEF ReturnExact, command, SplitInv, Cents, Prefixes, Floors, Extras,
                                   Untouched, AllHandedOut
<1>6. CASE StartFloors
  <2>1. n' = n /\ People' = People /\ total' = total
    BY <1>6 DEF StartFloors, command, n, People, total
  <2>2. Cents'  BY <1>0, <1>6, <2>1 DEF StartFloors, command, Cents
  <2>3. Prefixes'  BY <1>6, <2>1 DEF StartFloors, Summed, SplitInv, Prefixes
  <2>4. upto'[k'] = 0 /\ allocated' = 0 /\ k' = 0 /\ total > 0
    BY <1>6 DEF StartFloors, Summed, SplitInv, Prefixes, Untouched
  <2>5. Remaining' = 0
    BY <1>0, <1>6, <2>1, <2>4 DEF StartFloors, command, Remaining, Cents
  <2>6. Floors'  BY <1>0, <2>1, <2>4, <2>5 DEF Floors
  <2> QED  BY <1>6, <2>2, <2>3, <2>6 DEF StartFloors, SplitInv, Extras, Untouched, AllHandedOut
<1>7. CASE TakeFloor
  <2> DEFINE w == weights[k + 1]
             f == (amount * w) \div total
             r == (amount * w) % total
  <2>1. n' = n /\ People' = People /\ total' = total
    BY <1>7 DEF TakeFloor, command, n, People, total
  <2>2. k + 1 \in People /\ k + 1 \in 0..n /\ k \in 0..n /\ total > 0
    BY <1>0, <1>7 DEF TakeFloor, Cents, People, SplitInv, Floors
  <2>3. w \in Nat /\ amount * w \in Nat
    BY <1>0, <2>2, Product DEF Cents
  <2>4. f \in Nat /\ r \in 0..total - 1 /\ amount * w = total * f + r
    BY <1>0, <2>2, <2>3, Division
  <2>5. k' = k + 1 /\ allocated' = allocated + f /\ phase' = "floor" /\ phase = "floor"
        /\ amount' = amount /\ upto' = upto
        /\ mode' = mode /\ params' = params /\ weights' = weights
    BY <1>7 DEF TakeFloor, command
  <2>6. upto[k + 1] = upto[k] + w
    BY <1>7, <2>2, <2>5 DEF TakeFloor, SplitInv, Prefixes
  <2> HIDE DEF w, f, r
  <2>7. amount * (upto[k] + w) = amount * upto[k] + amount * w
    BY <1>0, <2>3 DEF Cents
  <2>8. (allocated + f) * total = allocated * total + total * f
    BY <1>0, <2>4 DEF Cents
  <2>9. Remaining' = Remaining + r
    <3>1. Remaining' = amount * upto[k + 1] - (allocated + f) * total
      BY <2>1, <2>5 DEF Remaining
    <3>2. /\ amount * upto[k] \in Int /\ allocated * total \in Int /\ amount * w \in Int
          /\ total * f \in Int
      BY <1>0, <2>3, <2>4, Product DEF Cents
    <3> QED  BY <2>4, <2>6, <2>7, <2>8, <3>1, <3>2 DEF Remaining
  <2>10. (k + 1) * (total - 1) = k * (total - 1) + (total - 1) /\ k * (total - 1) \in Int
    BY <1>0 DEF Cents
  <2>11. 0 <= Remaining /\ Remaining <= k * (total - 1)
    BY <2>5 DEF SplitInv, Floors
  <2>12. Floors'
    <3>1. 0 <= Remaining + r /\ Remaining + r <= (k + 1) * (total - 1)
      BY <1>0, <2>4, <2>10, <2>11
    <3> QED  BY <2>1, <2>2, <2>5, <2>9, <3>1 DEF Floors
  <2>13. Cents'
    <3>1. allocated + f \in Nat  BY <1>0, <2>4 DEF Cents
    <3> QED  BY <1>0, <2>1, <2>2, <2>5, <3>1 DEF Cents
  <2>14. Prefixes'  BY <1>7, <2>1, <2>5 DEF TakeFloor, SplitInv, Prefixes
  <2> QED  BY <2>5, <2>12, <2>13, <2>14 DEF SplitInv, Extras, Untouched, AllHandedOut
<1>8. CASE SortRemainders
  <2>1. n' = n /\ People' = People  BY <1>8 DEF SortRemainders, command, n, People
  <2>2. Cents'  BY <1>0, <1>8, <2>1 DEF SortRemainders, command, Cents
  <2>3. allocated <= amount /\ amount - allocated <= n
    <3>1. /\ total > 0 /\ 0 <= amount * total - allocated * total
          /\ amount * total - allocated * total <= n * (total - 1)
      BY <1>8 DEF SortRemainders, SplitInv, Floors, Remaining, total
    <3> QED  BY <1>0, <3>1, FewLeft DEF Cents
  <2>4. Extras'  BY <1>0, <1>8, <2>1, <2>3 DEF SortRemainders, command, Extras, Cents
  <2> QED  BY <1>8, <2>2, <2>4 DEF SortRemainders, SplitInv, Prefixes, Floors, Untouched, AllHandedOut
<1>9. CASE GiveCent
  <2>1. n' = n /\ People' = People  BY <1>9 DEF GiveCent, command, n, People
  <2>2. k + 1 \in 0..n /\ allocated + 1 \in Nat  BY <1>0, <1>9 DEF GiveCent, Cents
  <2>4. Cents'  BY <1>0, <1>9, <2>1, <2>2 DEF GiveCent, command, Cents
  <2>3. Extras'  BY <1>0, <1>9, <2>1 DEF GiveCent, command, Extras, Cents, SplitInv
  <2> QED  BY <1>9, <2>3, <2>4 DEF GiveCent, SplitInv, Prefixes, Floors, Untouched, AllHandedOut
<1>10. CASE Return
  <2>1. n' = n /\ People' = People  BY <1>10 DEF Return, command, n, People
  <2>2. Cents'  BY <1>0, <1>10, <2>1 DEF Return, command, Cents
  <2>3. allocated = amount  BY <1>0, <1>10 DEF Return, SplitInv, Extras, Cents
  <2> QED  BY <1>10, <2>2, <2>3 DEF Return, command, SplitInv, Prefixes, Floors, Extras, Untouched, AllHandedOut
<1> QED
  BY <1>1, <1>2, <1>3, <1>4, <1>5, <1>6, <1>7, <1>8, <1>9, <1>10 DEF Next

\* The loop never hands out a cent more or less than the expense's amount.
THEOREM AllHandedOutHolds == Spec => []AllHandedOut
<1>1. Init => SplitInv  BY SplitInitInv
<1>2. SplitInv /\ [Next]_vars => SplitInv'  BY SplitStepInv
<1>3. SplitInv => AllHandedOut  BY DEF SplitInv
<1> QED  BY <1>1, <1>2, <1>3, PTL DEF Spec

(***************************************************************************)
(* The loop computes the closed form.                                       *)
(***************************************************************************)

\* Of two people, one stands ahead of the other.
LEMMA OneAhead ==
  ASSUME NEW r, NEW a \in Int, NEW b \in Int, r[a] \in Int, r[b] \in Int, Ahead(r, a, b)
  PROVE  ~Ahead(r, b, a) /\ a # b
BY DEF Ahead

\* p lists 1..m by remainder r, as remainders.sort leaves it.
InLine(m, r, p) == \A x, y \in 1..m : x < y => Ahead(r, p[x], p[y])

\* Each of 1..m stands in the line once, at the place of their rank.
Placed(m, r, p) ==
  /\ \A x, y \in 1..m : p[x] = p[y] => x = y
  /\ \A z \in 1..m : \E x \in 1..m : p[x] = z
  /\ \A x \in 1..m : Rank(1..m, r, p[x]) = x - 1

\* A sorted list puts everybody at the place of their rank.
LEMMA RankOfLine ==
  ASSUME NEW m \in Nat, NEW r \in [1..m -> Int], NEW p \in [1..m -> 1..m],
         InLine(m, r, p)
  PROVE  Placed(m, r, p)
<1> DEFINE D == 1..m
<1>0. IsFiniteSet(D) /\ D \in SUBSET Nat  BY FS_Interval
<1>1. \A x \in D : p[x] \in D /\ p[x] \in Int /\ r[p[x]] \in Int
  <2> SUFFICES ASSUME NEW x \in D PROVE p[x] \in D /\ p[x] \in Int /\ r[p[x]] \in Int
    OBVIOUS
  <2>1. p[x] \in 1..m  OBVIOUS
  <2> QED  BY <2>1
<1>2. \A x, y \in D : p[x] = p[y] => x = y
  <2> SUFFICES ASSUME NEW x \in D, NEW y \in D, p[x] = p[y], x # y PROVE FALSE
    OBVIOUS
  <2>1. x < y \/ y < x  OBVIOUS
  <2>2. Ahead(r, p[x], p[y]) \/ Ahead(r, p[y], p[x])  BY <2>1 DEF InLine
  <2>3. /\ p[x] \in Int /\ p[y] \in Int /\ r[p[x]] \in Int /\ r[p[y]] \in Int  BY <1>1
  <2> QED  BY <2>2, <2>3, OneAhead
<1>3. p \in Injection(D, D)
  <2> HIDE DEF D
  <2> QED  BY <1>2 DEF Injection, IsInjective, D
<1>4. p \in Surjection(D, D)
  <2> HIDE DEF D
  <2> QED  BY <1>0, <1>3, FS_Injection
<1>5. \A z \in D : \E x \in D : p[x] = z
  <2> HIDE DEF D
  <2> QED  BY <1>4 DEF Surjection
<1>6. ASSUME NEW x \in D PROVE Rank(D, r, p[x]) = x - 1
  <2> DEFINE K == {z \in D : Ahead(r, z, p[x])}
             E == 1..x - 1
             q == [y \in E |-> p[y]]
  <2>1. E \subseteq D  OBVIOUS
  <2>2. \A y \in E : p[y] \in K
    <3> SUFFICES ASSUME NEW y \in E PROVE Ahead(r, p[y], p[x]) /\ p[y] \in D
      OBVIOUS
    <3>1. y \in D /\ y < x  OBVIOUS
    <3> QED  BY <3>1 DEF InLine
  <2>3. \A z \in K : \E y \in E : q[y] = z
    <3> SUFFICES ASSUME NEW z \in K PROVE \E y \in E : q[y] = z
      OBVIOUS
    <3>1. PICK y \in D : p[y] = z  BY <1>5
    <3>2. ~(x < y) /\ x # y
      <4>1. r[p[x]] \in Int /\ r[p[y]] \in Int /\ p[x] \in Int /\ p[y] \in Int  BY <1>1
      <4>2. Ahead(r, p[y], p[x])  BY <3>1
      <4>3. ~Ahead(r, p[x], p[y]) /\ p[y] # p[x]  BY <4>1, <4>2, OneAhead
      <4> QED  BY <4>3 DEF InLine
    <3>3. y \in E  BY <3>2
    <3> QED  BY <3>1, <3>3
  <2>4. q \in Bijection(E, K)
    <3>1. q \in [E -> K]  BY <2>2
    <3>2. \A y, z \in E : q[y] = q[z] => y = z  BY <1>2, <2>1
    <3> HIDE DEF q, E, K
    <3> QED  BY <2>3, <3>1, <3>2 DEF Bijection, Injection, Surjection, IsInjective
  <2>5. IsFiniteSet(E)  BY <1>0, <2>1, FS_Subset
  <2>6. Cardinality(E) = Cardinality(K)
    <3> HIDE DEF E, K, q
    <3> QED  BY <2>4, <2>5, FS_Bijection DEF ExistsBijection
  <2>7. Cardinality(E) = x - 1
    <3>1. x - 1 \in Int /\ 1 \in Int  OBVIOUS
    <3>2. Cardinality(E) = IF 1 > x - 1 THEN 0 ELSE (x - 1) - 1 + 1  BY <3>1, FS_Interval
    <3> QED  BY <3>2
  <2> QED  BY <2>6, <2>7 DEF Rank
<1> QED  BY <1>2, <1>5, <1>6 DEF Placed

\* Partial sums grow by a term each.
LEMMA OverNext ==
  ASSUME NEW m \in Nat, NEW f \in [1..m -> Int], NEW x \in 1..m
  PROVE  Over(f, 1..x) = f[x] + Over(f, 1..x - 1) /\ Over(f, 1..x - 1) \in Int /\ f[x] \in Int
<1> DEFINE D == 1..m  s == 1..x
<1>1. IsFiniteSet(D)  BY FS_Interval
<1>2. s \in SUBSET D /\ x \in s /\ s \ {x} = 1..x - 1 /\ 1..x - 1 \in SUBSET D
  OBVIOUS
<1>3. f \in [D -> Int] /\ f[x] \in Int  OBVIOUS
<1> HIDE DEF D, s
<1>4. Over(f, s) = f[x] + Over(f, s \ {x})  BY <1>1, <1>2, <1>3, OverTake
<1>5. Over(f, 1..x - 1) \in Int  BY <1>1, <1>2, <1>3, OverInt
<1> QED  BY <1>2, <1>3, <1>4, <1>5 DEF s

Quotients  == [x \in People |-> Floor(amount, weights, x)]
Remainders == [x \in People |-> Rem(amount, weights, x)]

\* Everything has its type...
Shapes == /\ amount \in Amount
          /\ \E m \in 1..MaxPeople : params \in [1..m -> Param]
          /\ shares \in [People -> Nat] /\ rems \in [People -> Nat]
          /\ line \in {<< >>} \cup [People -> People]

\* ... the weights are the mode's, added up from the first participant on...
Weighed == phase # "call" => weights = IF mode = "equal" THEN Equally(People) ELSE params
Summing == phase # "call" =>
             \A m \in 0..n : (phase = "sum" => m <= k) => upto[m] = Over(weights, 1..m)

\* ... only a valid split gets beyond that...
Judged == /\ phase \in {"floor", "extra", "done"} => Valid(amount, mode, params)
          /\ phase = "rejected" => ~Valid(amount, mode, params)
          /\ phase \in {"floor", "extra"} => mode # "exact" /\ total > 0
          /\ phase = "done" => IF mode = "exact" THEN shares = params ELSE total > 0

\* ... every share is the floor, for the participants reached...
Flooring == phase = "floor" =>
  /\ \A x \in People : x <= k => shares[x] = Quotients[x] /\ rems[x] = Remainders[x]
  /\ allocated = Over(Quotients, 1..k)

\* ... and a cent more for the first k in the line.
Handing == phase = "extra" \/ (phase = "done" /\ mode # "exact") =>
  /\ line \in [People -> People]
  /\ rems = Remainders
  /\ \A x, y \in People : x < y => Ahead(Remainders, line[x], line[y])
  /\ \A x \in People : shares[line[x]] = Quotients[line[x]] + (IF x <= k THEN 1 ELSE 0)
  /\ allocated = (amount - LeftOver(amount, weights)) + k

LoopInv == SplitInv /\ Shapes /\ Weighed /\ Summing /\ Judged /\ Flooring /\ Handing

-----------------------------------------------------------------------------

LEMMA LoopInit == Init => LoopInv
<1> SUFFICES ASSUME Init PROVE LoopInv
  OBVIOUS
<1>1. SplitInv  BY SplitInitInv
<1>2. Shapes
  <2>1. n \in Nat /\ People = 1..n  BY <1>1 DEF SplitInv, Cents, People
  <2> QED  BY <2>1 DEF Init, Shapes, Zeros
<1> QED  BY <1>1, <1>2 DEF Init, LoopInv, Weighed, Summing, Judged, Flooring, Handing

\* Once they are added up, total is the sum of the weights.
LEMMA Totalled ==
  ASSUME LoopInv, phase # "call", phase = "sum" => k = n
  PROVE  /\ total = Total(weights) /\ n \in Nat \ {0} /\ People = 1..n
         /\ IsFiniteSet(People) /\ People \in SUBSET Nat /\ DOMAIN weights = People
         /\ total > 0 => weights \in Weights(People)
<1>1. /\ n \in Nat \ {0} /\ People = 1..n /\ weights \in [People -> Nat] /\ k \in 0..n
  BY DEF LoopInv, SplitInv, Cents, People
<1>2. IsFiniteSet(People) /\ People \in SUBSET Nat  BY <1>1, FS_Interval
<1>3. upto[n] = Over(weights, 1..n)  BY <1>1 DEF LoopInv, Summing
<1>4. Over(weights, People) = Total(weights)
  <2>1. weights \in [People -> Int]  BY <1>1
  <2> QED  BY <2>1, OverAll
<1> QED  BY <1>1, <1>2, <1>3, <1>4 DEF total, Weights

LEMMA LoopStep == LoopInv /\ [Next]_vars => LoopInv'
<1> SUFFICES ASSUME LoopInv, [Next]_vars PROVE LoopInv'
  OBVIOUS
<1>0. SplitInv'  BY SplitStepInv DEF LoopInv
<1>a. /\ n \in Nat \ {0} /\ People = 1..n /\ k \in 0..n /\ amount \in Nat \ {0}
      /\ params \in [People -> Nat] /\ weights \in [People -> Nat] /\ upto \in [0..n -> Nat]
      /\ shares \in [People -> Nat] /\ rems \in [People -> Nat] /\ total \in Nat
      /\ DOMAIN params = People
      /\ mode \in {"equal", "weighted", "percent", "exact"}
  <2>1. /\ n \in Nat \ {0} /\ People = 1..n /\ k \in 0..n /\ amount \in Nat \ {0}
        /\ params \in [People -> Nat] /\ weights \in [People -> Nat] /\ upto \in [0..n -> Nat]
        /\ mode \in {"equal", "weighted", "percent", "exact"}
    BY DEF LoopInv, SplitInv, Cents, People
  <2>2. shares \in [People -> Nat] /\ rems \in [People -> Nat]  BY DEF LoopInv, Shapes
  <2>3. n \in 0..n  BY <2>1
  <2>4. total \in Nat  BY <2>1, <2>3 DEF total
  <2> QED  BY <2>1, <2>2, <2>4
<1>1. CASE UNCHANGED vars
  BY <1>0, <1>1 DEF vars, command, LoopInv, Shapes, Weighed, Summing, Judged, Flooring, Handing,
                    n, People, total, Quotients, Remainders
<1>2. CASE Call
  <2>1. n' = n /\ People' = People  BY <1>2 DEF Call, command, n, People
  <2>2. k = 0 /\ upto[0] = 0  BY <1>2 DEF Call, LoopInv, SplitInv, Prefixes
  <2>3. Weighed'  BY <1>2, <2>1 DEF Call, command, Weighed, Equally
  <2>4. Summing'
    <3>1. 1..0 = {}  OBVIOUS
    <3>2. \A m \in 0..n : m <= k => m = 0  BY <1>a, <2>2
    <3>3. \A f : Over(f, 1..0) = 0  BY <3>1, OverEmpty
    <3> QED  BY <1>2, <2>1, <2>2, <3>2, <3>3 DEF Call, Summing
  <2>5. Shapes'  BY <1>2, <2>1 DEF Call, command, LoopInv, Shapes
  <2> QED  BY <1>0, <1>2, <2>3, <2>4, <2>5 DEF Call, LoopInv, Judged, Flooring, Handing
<1>3. CASE AddWeight
  <2>1. n' = n /\ People' = People  BY <1>3 DEF AddWeight, command, n, People
  <2>2. Shapes'  BY <1>3, <2>1 DEF AddWeight, command, LoopInv, Shapes
  <2>3. Weighed'  BY <1>3, <2>1 DEF AddWeight, command, LoopInv, Weighed
  <2>4. k + 1 \in 1..n  BY <1>a, <1>3 DEF AddWeight
  <2>5. weights \in [1..n -> Int]  BY <1>a
  <2>6. Over(weights, 1..k + 1) = weights[k + 1] + Over(weights, 1..(k + 1) - 1)
    <3>1. PICK c, y, f : c = n /\ y = k + 1 /\ f = weights  OBVIOUS
    <3>2. c \in Nat /\ f \in [1..c -> Int] /\ y \in 1..c  BY <1>a, <2>4, <2>5, <3>1
    <3>3. Over(f, 1..y) = f[y] + Over(f, 1..y - 1)  BY <3>2, OverNext
    <3> QED  BY <3>1, <3>3
  <2>7. (k + 1) - 1 = k  BY <1>a
  <2>8. upto[k] = Over(weights, 1..k)  BY <1>a, <1>3 DEF AddWeight, LoopInv, Summing
  <2>9. Summing'
    <3>1. ASSUME NEW m \in 0..n, m <= k + 1 PROVE upto'[m] = Over(weights, 1..m)
      <4>1. upto' = [upto EXCEPT ![k + 1] = upto[k] + weights[k + 1]]  BY <1>3 DEF AddWeight
      <4>2. CASE m = k + 1
        <5>1. upto'[m] = upto[k] + weights[k + 1]  BY <1>a, <2>4, <4>1, <4>2
        <5>2. upto[k] \in Int /\ weights[k + 1] \in Int  BY <1>a, <2>4
        <5> QED  BY <2>6, <2>7, <2>8, <4>2, <5>1, <5>2
      <4>3. CASE m # k + 1
        <5>1. m <= k /\ upto'[m] = upto[m]  BY <1>a, <3>1, <4>1, <4>3
        <5> QED  BY <1>3, <5>1 DEF AddWeight, LoopInv, Summing
      <4> QED  BY <4>2, <4>3
    <3> QED  BY <1>3, <2>1, <3>1 DEF AddWeight, Summing
  <2> QED  BY <1>0, <1>3, <2>2, <2>3, <2>9 DEF AddWeight, LoopInv, Judged, Flooring, Handing
<1>4. CASE Reject
  <2>1. n' = n /\ People' = People  BY <1>4 DEF Reject, command, n, People
  <2>2. Shapes' /\ Weighed' /\ Summing'
    <3>1. Shapes'  BY <1>4, <2>1 DEF Reject, command, LoopInv, Shapes
    <3>2. Weighed'  BY <1>4, <2>1 DEF Reject, Summed, command, LoopInv, Weighed
    <3>3. Summing'
      <4>1. phase = "sum" /\ k = n /\ upto' = upto /\ weights' = weights /\ phase' # "sum"
        BY <1>4 DEF Reject, Summed
      <4>2. \A m \in 0..n : m <= k  BY <1>a, <4>1
      <4>3. \A m \in 0..n : upto[m] = Over(weights, 1..m)
        BY <4>1, <4>2 DEF LoopInv, Summing
      <4> QED  BY <2>1, <4>1, <4>3 DEF Summing
    <3> QED  BY <3>1, <3>2, <3>3
  <2>3. ~Valid(amount, mode, params)
    <3>1. phase # "call" /\ k = n  BY <1>4 DEF Reject, Summed
    <3>2. total = Total(weights)  BY <3>1, Totalled
    <3>3. mode # "equal" => total = Total(params)  BY <3>1, <3>2 DEF LoopInv, Weighed
    <3>4. CASE mode = "percent" /\ total # 100  BY <3>3, <3>4 DEF Valid
    <3>5. CASE mode = "exact" /\ total # amount  BY <3>3, <3>5 DEF Valid
    <3>6. CASE mode = "weighted" /\ total <= 0
      <4>1. ~(total > 0)  BY <1>a, <3>6
      <4> QED  BY <3>3, <3>6, <4>1 DEF Valid
    <3> QED  BY <1>4, <3>4, <3>5, <3>6 DEF Reject
  <2> QED  BY <1>0, <1>4, <2>2, <2>3 DEF Reject, command, LoopInv, Judged, Flooring, Handing
<1>5. CASE ReturnExact
  <2>1. n' = n /\ People' = People  BY <1>5 DEF ReturnExact, command, n, People
  <2>2. Weighed' /\ Summing'
    BY <1>a, <1>5, <2>1 DEF ReturnExact, Summed, command, LoopInv, Weighed, Summing
  <2>3. Shapes'  BY <1>a, <1>5, <2>1 DEF ReturnExact, command, LoopInv, Shapes
  <2>4. phase # "call" /\ k = n /\ mode = "exact" /\ total = amount  BY <1>5 DEF ReturnExact, Summed
  <2>5. Total(params) = amount  BY <2>4, Totalled DEF LoopInv, Weighed
  <2>6. Valid(amount, mode, params)  BY <2>4, <2>5 DEF Valid
  <2> QED  BY <1>0, <1>5, <2>2, <2>3, <2>6 DEF ReturnExact, command, LoopInv, Judged, Flooring, Handing
<1>6. CASE StartFloors
  <2>1. n' = n /\ People' = People /\ total' = total
    BY <1>6 DEF StartFloors, command, n, People, total
  <2>2. Shapes' /\ Weighed' /\ Summing'
    <3>1. Shapes'  BY <1>6, <2>1 DEF StartFloors, command, LoopInv, Shapes
    <3>2. Weighed'  BY <1>6, <2>1 DEF StartFloors, Summed, command, LoopInv, Weighed
    <3>3. Summing'
      <4>1. phase = "sum" /\ k = n /\ upto' = upto /\ weights' = weights /\ phase' # "sum"
        BY <1>6 DEF StartFloors, Summed
      <4>2. \A m \in 0..n : m <= k  BY <1>a, <4>1
      <4>3. \A m \in 0..n : upto[m] = Over(weights, 1..m)
        BY <4>1, <4>2 DEF LoopInv, Summing
      <4> QED  BY <2>1, <4>1, <4>3 DEF Summing
    <3> QED  BY <3>1, <3>2, <3>3
  <2>3. phase # "call" /\ k = n /\ mode # "exact" /\ total > 0 /\ (mode = "percent" => total = 100)
    BY <1>6 DEF StartFloors, Summed
  <2>4. mode # "equal" => Total(params) = total  BY <2>3, Totalled DEF LoopInv, Weighed
  <2>5. Valid(amount, mode, params)
    <3>1. CASE mode = "equal"  BY <1>a, <3>1 DEF Valid
    <3>2. CASE mode = "weighted"  BY <2>3, <2>4, <3>2 DEF Valid
    <3>3. CASE mode = "percent"  BY <2>3, <2>4, <3>3 DEF Valid
    <3> QED  BY <1>a, <2>3, <3>1, <3>2, <3>3
  <2>6. Judged'  BY <1>6, <2>1, <2>3, <2>5 DEF StartFloors, command, Judged
  <2>7. allocated = 0 /\ k' = 0  BY <1>6 DEF StartFloors, Summed, LoopInv, SplitInv, Untouched
  <2>8. Flooring'
    <3>1. \A x \in People : ~(x <= 0)  BY <1>a
    <3>2. 1..0 = {}  OBVIOUS
    <3>3. \A f : Over(f, 1..0) = 0  BY <3>2, OverEmpty
    <3>4. allocated' = 0  BY <1>6, <2>7 DEF StartFloors
    <3> QED  BY <2>1, <2>7, <3>1, <3>3, <3>4 DEF Flooring
  <2> QED  BY <1>0, <1>6, <2>2, <2>6, <2>8 DEF StartFloors, LoopInv, Handing
<1>7. CASE TakeFloor
  <2> DEFINE e == amount * weights[k + 1]
  <2>1. n' = n /\ People' = People /\ total' = total /\ Quotients' = Quotients /\ Remainders' = Remainders
    BY <1>7 DEF TakeFloor, command, n, People, total, Quotients, Remainders
  <2>2. Weighed' /\ Summing' /\ Judged'
    BY <1>7, <2>1 DEF TakeFloor, command, LoopInv, Weighed, Summing, Judged
  <2>3. phase = "floor" /\ k + 1 \in 1..n  BY <1>a, <1>7 DEF TakeFloor
  <2>4. total = Total(weights) /\ weights \in Weights(People) /\ IsFiniteSet(People)
    BY <2>3, Totalled DEF LoopInv, Judged
  <2>5. /\ e \div total = Quotients[k + 1] /\ e % total = Remainders[k + 1]
    BY <1>a, <2>3, <2>4 DEF Quotients, Remainders, Floor, Rem
  <2>6. \A x \in People : Quotients[x] \in Nat /\ Remainders[x] \in Nat
    <3>1. ASSUME NEW x \in People PROVE Quotients[x] \in Nat /\ Remainders[x] \in Nat
      <4>1. Floor(amount, weights, x) \in Nat /\ Rem(amount, weights, x) \in 0..Total(weights) - 1
        BY <1>a, <2>4, FloorRem
      <4>2. Total(weights) \in Int  BY <1>a, <2>4
      <4> QED  BY <4>1, <4>2 DEF Quotients, Remainders
    <3> QED  BY <3>1
  <2>7. /\ k' = k + 1 /\ allocated' = allocated + Quotients[k + 1]
        /\ shares' = [shares EXCEPT ![k + 1] = Quotients[k + 1]]
        /\ rems'   = [rems EXCEPT ![k + 1] = Remainders[k + 1]]
        /\ phase' = phase
    BY <1>7, <2>5 DEF TakeFloor
  <2>8. Shapes'
    <3>1. shares' \in [People -> Nat] /\ rems' \in [People -> Nat]
      BY <1>a, <2>3, <2>6, <2>7
    <3> QED  BY <1>7, <2>1, <3>1 DEF TakeFloor, command, LoopInv, Shapes
  <2>9. Flooring'
    <3>1. ASSUME NEW x \in People, x <= k + 1
          PROVE  shares'[x] = Quotients[x] /\ rems'[x] = Remainders[x]
      <4>1. CASE x = k + 1  BY <1>a, <2>7, <4>1
      <4>2. CASE x # k + 1
        <5>1. x <= k  BY <1>a, <3>1, <4>2
        <5>2. shares'[x] = shares[x] /\ rems'[x] = rems[x]  BY <1>a, <2>7, <4>2
        <5> QED  BY <2>3, <5>1, <5>2 DEF LoopInv, Flooring
      <4> QED  BY <4>1, <4>2
    <3>2. Over(Quotients, 1..k + 1) = allocated + Quotients[k + 1]
      <4>1. Quotients \in [1..n -> Int]  BY <1>a, <2>6 DEF Quotients
      <4>2. PICK q : q = Quotients  OBVIOUS
      <4>3. q \in [1..n -> Int]  BY <4>1, <4>2
      <4>4. /\ Over(q, 1..k + 1) = q[k + 1] + Over(q, 1..(k + 1) - 1)
            /\ Over(q, 1..(k + 1) - 1) \in Int /\ q[k + 1] \in Int
        <5>1. PICK c, y : c = n /\ y = k + 1  OBVIOUS
        <5>2. c \in Nat /\ q \in [1..c -> Int] /\ y \in 1..c  BY <1>a, <2>3, <4>3, <5>1
        <5>3. Over(q, 1..y) = q[y] + Over(q, 1..y - 1) /\ Over(q, 1..y - 1) \in Int /\ q[y] \in Int
          BY <5>2, OverNext
        <5> QED  BY <5>1, <5>3
      <4>5. (k + 1) - 1 = k  BY <1>a
      <4>6. allocated = Over(q, 1..k)  BY <2>3, <4>2 DEF LoopInv, Flooring
      <4> QED  BY <4>2, <4>4, <4>5, <4>6
    <3> QED  BY <2>1, <2>7, <3>1, <3>2 DEF Flooring
  <2> QED  BY <1>0, <2>2, <2>3, <2>7, <2>8, <2>9 DEF LoopInv, Handing
<1>8. CASE SortRemainders
  <2>1. n' = n /\ People' = People /\ total' = total /\ Quotients' = Quotients /\ Remainders' = Remainders
    BY <1>8 DEF SortRemainders, command, n, People, total, Quotients, Remainders
  <2>2. Weighed' /\ Summing' /\ Judged'
    BY <1>8, <2>1 DEF SortRemainders, command, LoopInv, Weighed, Summing, Judged
  <2>3. phase = "floor" /\ k = n /\ k' = 0 /\ shares' = shares /\ rems' = rems /\ allocated' = allocated
        /\ amount' = amount /\ weights' = weights
    BY <1>8 DEF SortRemainders, command
  <2>4. /\ line' \in [People -> People]
        /\ \A x, y \in People : x < y => Ahead(rems, line'[x], line'[y])
    BY <1>8 DEF SortRemainders, Earlier, Ahead
  <2>5. \A x \in People : shares[x] = Quotients[x] /\ rems[x] = Remainders[x]
    BY <1>a, <2>3 DEF LoopInv, Flooring
  <2>6. rems = Remainders  BY <1>a, <2>5 DEF Remainders
  <2>7. Shapes'  BY <1>8, <2>1, <2>4 DEF SortRemainders, command, LoopInv, Shapes
  <2>8. allocated = (amount - LeftOver(amount, weights)) + 0
    <3>1. DOMAIN weights = People  BY <1>a
    <3>2. LeftOver(amount, weights) = amount - Total(Quotients)
      BY <3>1 DEF LeftOver, Quotients
    <3>3. PICK q : q = Quotients  OBVIOUS
    <3>4. \A x \in People : Quotients[x] \in Int  BY <1>a, <2>5
    <3>5. q \in [People -> Int]  BY <3>3, <3>4 DEF Quotients
    <3>6. Over(q, People) = Total(q)  BY <3>5, OverAll
    <3>7. allocated = Over(q, People)  BY <1>a, <2>3, <3>3 DEF LoopInv, Flooring
    <3>8. IsFiniteSet(People)  BY <1>a, FS_Interval
    <3>9. Total(q) \in Int  BY <3>5, <3>8, TotalInt
    <3> QED  BY <1>a, <3>2, <3>3, <3>6, <3>7, <3>9
  <2>9. \A x \in People : ~(x <= 0)  BY <1>a
  <2>10. \A x \in People : shares[line'[x]] = Quotients[line'[x]] + 0
    <3>1. \A x \in People : shares[x] \in Nat  BY <1>a
    <3> QED  BY <2>4, <2>5, <3>1
  <2>11. Handing'  BY <2>1, <2>3, <2>4, <2>6, <2>8, <2>9, <2>10 DEF Handing
  <2> QED  BY <1>0, <1>8, <2>2, <2>7, <2>11 DEF SortRemainders, LoopInv, Flooring
<1>9. CASE GiveCent
  <2>1. n' = n /\ People' = People /\ total' = total /\ Quotients' = Quotients /\ Remainders' = Remainders
    BY <1>9 DEF GiveCent, command, n, People, total, Quotients, Remainders
  <2>2. Weighed' /\ Summing' /\ Judged'
    BY <1>9, <2>1 DEF GiveCent, command, LoopInv, Weighed, Summing, Judged
  <2>3. /\ phase = "extra" /\ k + 1 \in People /\ k' = k + 1 /\ line' = line /\ rems' = rems
        /\ shares' = [shares EXCEPT ![line[k + 1]] = @ + 1] /\ allocated' = allocated + 1
        /\ amount' = amount /\ weights' = weights
    BY <1>a, <1>9 DEF GiveCent, command
  <2>4. /\ line \in [People -> People] /\ rems = Remainders
        /\ \A x, y \in People : x < y => Ahead(Remainders, line[x], line[y])
        /\ \A x \in People : shares[line[x]] = Quotients[line[x]] + (IF x <= k THEN 1 ELSE 0)
        /\ allocated = (amount - LeftOver(amount, weights)) + k
    BY <2>3 DEF LoopInv, Handing
  <2>5. \A x, y \in People : line[x] = line[y] => x = y
    <3>1. PICK c, r, p : c = n /\ r = Remainders /\ p = line  OBVIOUS
    <3>2. People = 1..c /\ c \in Nat  BY <1>a, <3>1
    <3>3. r \in [People -> Int]
      <4>1. rems \in [People -> Int]  BY <1>a
      <4> QED  BY <2>4, <3>1, <4>1
    <3>4. \A x, y \in People : x < y => Ahead(r, p[x], p[y])  BY <2>4, <3>1
    <3>5. p \in [People -> People]  BY <2>4, <3>1
    <3>6. /\ c \in Nat /\ r \in [1..c -> Int] /\ p \in [1..c -> 1..c]
          /\ InLine(c, r, p)
      BY <3>2, <3>3, <3>4, <3>5 DEF InLine
    <3>7. Placed(c, r, p)  BY <3>6, RankOfLine
    <3> QED  BY <3>1, <3>2, <3>7 DEF Placed
  <2>6. shares' \in [People -> Nat]
    <3>1. line[k + 1] \in People  BY <2>3, <2>4
    <3>2. shares[line[k + 1]] \in Nat  BY <1>a, <3>1
    <3>3. shares[line[k + 1]] + 1 \in Nat  BY <3>2
    <3> QED  BY <1>a, <2>3, <3>1, <3>3
  <2>7. Shapes'  BY <1>9, <2>1, <2>6 DEF GiveCent, command, LoopInv, Shapes
  <2>8. ASSUME NEW x \in People
        PROVE  shares'[line[x]] = Quotients[line[x]] + (IF x <= k + 1 THEN 1 ELSE 0)
    <3>1. line[x] \in People /\ shares[line[x]] \in Nat  BY <1>a, <2>4
    <3>2. CASE x = k + 1
      <4>1. shares'[line[x]] = shares[line[x]] + 1  BY <1>a, <2>3, <3>1, <3>2
      <4>2. ~(x <= k) /\ x <= k + 1  BY <1>a, <3>2
      <4>3. shares[line[x]] = Quotients[line[x]] + 0  BY <2>4, <4>2
      <4>4. Quotients[line[x]] \in Int
        <5>1. weights \in Weights(People) /\ IsFiniteSet(People)
          BY <2>3, Totalled DEF LoopInv, Judged
        <5>2. Floor(amount, weights, line[x]) \in Nat  BY <1>a, <3>1, <5>1, FloorRem
        <5> QED  BY <3>1, <5>2 DEF Quotients
      <4> QED  BY <4>1, <4>2, <4>3, <4>4
    <3>3. CASE x # k + 1
      <4>1. line[x] # line[k + 1]  BY <2>3, <2>5, <3>3
      <4>2. shares'[line[x]] = shares[line[x]]  BY <1>a, <2>3, <3>1, <4>1
      <4>3. x <= k + 1 <=> x <= k  BY <1>a, <3>3
      <4> QED  BY <2>4, <4>2, <4>3
    <3> QED  BY <3>2, <3>3
  <2>9. allocated' = (amount - LeftOver(amount, weights)) + (k + 1)
    <3>1. LeftOver(amount, weights) \in Int
      <4>1. weights \in Weights(People) /\ IsFiniteSet(People)
        BY <2>3, Totalled DEF LoopInv, Judged
      <4> QED  BY <1>a, <4>1, RemsAddUp
    <3>2. PICK c, d, l : c = amount /\ d = LeftOver(amount, weights) /\ l = k  OBVIOUS
    <3>3. c \in Int /\ d \in Int /\ l \in Int  BY <1>a, <3>1, <3>2
    <3>4. allocated = (c - d) + l /\ allocated' = allocated + 1  BY <2>3, <2>4, <3>2
    <3>5. allocated' = (c - d) + (l + 1)  BY <3>3, <3>4
    <3> QED  BY <2>3, <3>2, <3>5
  <2>10. Handing'  BY <2>1, <2>3, <2>4, <2>8, <2>9 DEF Handing
  <2> QED  BY <1>0, <1>9, <2>2, <2>7, <2>10 DEF GiveCent, LoopInv, Flooring
<1>10. CASE Return
  <2>1. n' = n /\ People' = People /\ total' = total /\ Quotients' = Quotients /\ Remainders' = Remainders
    BY <1>10 DEF Return, command, n, People, total, Quotients, Remainders
  <2>2. Weighed' /\ Summing' /\ Judged' /\ Shapes'
    BY <1>10, <2>1 DEF Return, command, LoopInv, Weighed, Summing, Judged, Shapes
  <2>3. Handing'  BY <1>10, <2>1 DEF Return, command, LoopInv, Handing
  <2> QED  BY <1>0, <1>10, <2>2, <2>3 DEF Return, LoopInv, Flooring
<1> QED
  BY <1>1, <1>2, <1>3, <1>4, <1>5, <1>6, <1>7, <1>8, <1>9, <1>10 DEF Next

\* At every iteration the loops of compute_shares have computed the floors, the sum and
\* the left-over cents as far as they got.
THEOREM LoopInvHolds == Spec => []LoopInv
<1> QED  BY LoopInit, LoopStep, PTL DEF Spec

\* The loops of apportion compute the closed form, for every number of participants.
LEMMA LoopComputes == LoopInv => ClosedForm
<1> SUFFICES ASSUME LoopInv PROVE ClosedForm
  OBVIOUS
<1>1. phase = "rejected" => ~Valid(amount, mode, params)  BY DEF LoopInv, Judged
<1>2. ASSUME phase = "done"
      PROVE  Valid(amount, mode, params) /\ shares = Shares(amount, mode, params)
  <2>1. Valid(amount, mode, params)  BY <1>2 DEF LoopInv, Judged
  <2>2. CASE mode = "exact"
    BY <1>2, <2>1, <2>2 DEF LoopInv, Judged, Shares
  <2>3. CASE mode # "exact"
    <3>1. /\ n \in Nat \ {0} /\ k \in 0..n /\ amount \in Nat /\ allocated = amount
          /\ shares \in [People -> Nat] /\ DOMAIN params = People
          /\ mode \in {"equal", "weighted", "percent", "exact"}
      BY <1>2 DEF LoopInv, SplitInv, Cents, AllHandedOut, Shapes
    <3>2. /\ People = 1..n /\ IsFiniteSet(People) /\ People \in SUBSET Nat
          /\ weights \in Weights(People) /\ total = Total(weights)
      BY <1>2, <2>3, Totalled DEF LoopInv, Judged
    <3>3. /\ line \in [People -> People] /\ rems = Remainders
          /\ \A x, y \in People : x < y => Ahead(Remainders, line[x], line[y])
          /\ \A x \in People : shares[line[x]] = Quotients[line[x]] + (IF x <= k THEN 1 ELSE 0)
          /\ allocated = (amount - LeftOver(amount, weights)) + k
      BY <1>2, <2>3 DEF LoopInv, Handing
    <3>4. k = LeftOver(amount, weights)
      <4>1. LeftOver(amount, weights) \in Int  BY <3>1, <3>2, RemsAddUp
      <4> QED  BY <3>1, <3>3, <4>1
    <3>5. PICK r : r = Remainders  OBVIOUS
    <3>6. r \in [1..n -> Int]
      <4>1. rems \in [People -> Nat]  BY DEF LoopInv, Shapes
      <4> QED  BY <3>2, <3>3, <3>5, <4>1
    <3>7. /\ \A z \in 1..n : \E x \in 1..n : line[x] = z
          /\ \A x \in 1..n : Rank(1..n, r, line[x]) = x - 1
      <4>1. PICK c, p : c = n /\ p = line  OBVIOUS
      <4>2. /\ c \in Nat /\ r \in [1..c -> Int] /\ p \in [1..c -> 1..c] /\ InLine(c, r, p)
        BY <3>1, <3>2, <3>3, <3>5, <3>6, <4>1 DEF InLine
      <4>3. Placed(c, r, p)  BY <4>2, RankOfLine
      <4> QED  BY <4>1, <4>3 DEF Placed
    <3>8. ASSUME NEW z \in People PROVE shares[z] = Apportion(amount, weights)[z]
      <4>1. PICK x \in 1..n : line[x] = z  BY <3>2, <3>7
      <4>2. Rank(People, [y \in People |-> Rem(amount, weights, y)], z) = x - 1
        BY <3>2, <3>5, <3>7, <4>1 DEF Remainders
      <4>3. Apportion(amount, weights)[z] =
              Floor(amount, weights, z) + (IF x - 1 < LeftOver(amount, weights) THEN 1 ELSE 0)
        <5>1. PICK D, w, c : D = People /\ w = weights /\ c = amount  OBVIOUS
        <5>2. D \in SUBSET Nat /\ IsFiniteSet(D) /\ w \in Weights(D) /\ c \in Nat /\ z \in D
          BY <3>1, <3>2, <5>1
        <5>3. Apportion(c, w)[z] =
                Floor(c, w, z)
                  + (IF Rank(D, [y \in D |-> Rem(c, w, y)], z) < LeftOver(c, w) THEN 1 ELSE 0)
          BY <5>2, ApportionParts
        <5> QED  BY <4>2, <5>1, <5>3
      <4>4. x <= k <=> x - 1 < k  BY <3>1
      <4>5. shares[z] = Floor(amount, weights, z) + (IF x <= k THEN 1 ELSE 0)
        BY <3>2, <3>3, <4>1 DEF Quotients
      <4> QED  BY <3>4, <4>3, <4>4, <4>5
    <3>9. Apportion(amount, weights) \in [People -> Nat]  BY <3>1, <3>2, ApportionAddsUp
    <3>10. shares = Apportion(amount, weights)  BY <3>1, <3>8, <3>9
    <3>11. weights = IF mode = "equal" THEN Equally(DOMAIN params) ELSE params
      BY <1>2, <3>1 DEF LoopInv, Weighed
    <3>12. Shares(amount, mode, params) = Apportion(amount, weights)
      BY <2>3, <3>1, <3>11 DEF Shares
    <3> QED  BY <2>1, <3>10, <3>12
  <2> QED  BY <2>2, <2>3
<1> QED  BY <1>1, <1>2 DEF ClosedForm

\* What the other properties say of the closed form.
LEMMA LoopFair == LoopInv => Reconciles /\ WithinACent /\ Monotone
<1> SUFFICES ASSUME LoopInv, phase = "done" PROVE Reconciles /\ WithinACent /\ Monotone
  BY DEF Reconciles, WithinACent, Monotone
<1>1. Valid(amount, mode, params) /\ shares = Shares(amount, mode, params)
  BY LoopComputes DEF ClosedForm
<1>2. /\ n \in Nat \ {0} /\ amount \in Nat \ {0} /\ params \in [People -> Nat]
      /\ weights \in [People -> Nat] /\ DOMAIN params = People
      /\ mode \in {"equal", "weighted", "percent", "exact"}
  BY DEF LoopInv, SplitInv, Cents
<1>3. total = Total(weights) /\ IsFiniteSet(People) /\ People \in SUBSET Nat
      /\ (total > 0 => weights \in Weights(People))
  BY Totalled
<1>4. weights = IF mode = "equal" THEN Equally(People) ELSE params
  BY DEF LoopInv, Weighed
<1>5. Reconciles
  <2>1. Total(Shares(amount, mode, params)) = amount  BY <1>1, <1>2, <1>3, SharesAddUp
  <2> QED  BY <1>1, <2>1 DEF Reconciles
<1>6. mode # "exact" => weights \in Weights(People) /\ shares = Apportion(amount, weights)
  <2> SUFFICES ASSUME mode # "exact"
               PROVE  weights \in Weights(People) /\ shares = Apportion(amount, weights)
    OBVIOUS
  <2>1. weights \in Weights(People)  BY <1>3 DEF LoopInv, Judged
  <2>2. shares = Apportion(amount, weights)  BY <1>1, <1>2, <1>4 DEF Shares
  <2> QED  BY <2>1, <2>2
<1>7. WithinACent
  <2> SUFFICES ASSUME mode # "exact", NEW x \in People
               PROVE  LET error == shares[x] * total - amount * weights[x]
                      IN  -total < error /\ error < total
    BY DEF WithinACent
  <2>1. LET error == Apportion(amount, weights)[x] * Total(weights) - amount * weights[x]
        IN  -Total(weights) < error /\ error < Total(weights)
    BY <1>2, <1>3, <1>6, ApportionWithinACent
  <2> QED  BY <1>3, <1>6, <2>1
<1>8. Monotone
  <2> SUFFICES ASSUME NEW x \in People, NEW y \in People,
                      weights[x] > weights[y] \/ (weights[x] = weights[y] /\ x < y)
               PROVE  shares[x] >= shares[y]
    BY DEF Monotone
  <2>1. CASE mode = "exact"
    <3>1. shares = weights  BY <1>1, <1>4, <2>1 DEF Shares
    <3>2. weights[x] \in Nat /\ weights[y] \in Nat  BY <1>2
    <3> QED  BY <3>1, <3>2
  <2>2. CASE mode # "exact"
    <3>1. Apportion(amount, weights)[x] >= Apportion(amount, weights)[y]
      BY <1>2, <1>3, <1>6, <2>2, ApportionMonotone
    <3> QED  BY <1>6, <2>2, <3>1
  <2> QED  BY <2>1, <2>2
<1> QED  BY <1>5, <1>7, <1>8

\* The loops of apportion and compute_shares compute the closed form the ledger model
\* files expenses with, and reject exactly the splits that do not add up, for every
\* number of participants, every amount and every parameter.
THEOREM ClosedFormHolds == Spec => []ClosedForm
<1> QED  BY LoopInvHolds, LoopComputes, PTL

\* Every cent of an expense is somebody's share and none is invented.
THEOREM ReconcilesHolds == Spec => []Reconciles
<1>1. LoopInv => Reconciles  BY LoopFair
<1> QED  BY <1>1, LoopInvHolds, PTL

\* Nobody gains or loses a whole cent against the exact proportion.
THEOREM WithinACentHolds == Spec => []WithinACent
<1>1. LoopInv => WithinACent  BY LoopFair
<1> QED  BY <1>1, LoopInvHolds, PTL

\* A larger weight never owes less, and of equal weights the lower id pays the cent.
THEOREM MonotoneHolds == Spec => []Monotone
<1>1. LoopInv => Monotone  BY LoopFair
<1> QED  BY <1>1, LoopInvHolds, PTL

\* The types of the split's state.
THEOREM TypeOKHolds == Spec => []TypeOK
<1>1. LoopInv => TypeOK  BY DEF LoopInv, SplitInv, Cents, Shapes, TypeOK
<1> QED  BY <1>1, LoopInvHolds, PTL

(***************************************************************************)
(* The suggested transfers.                                                *)
(***************************************************************************)

\* One side's list: distinct parties of that side.
List(s, party) ==
  /\ s \in Seq(party)
  /\ \A a, b \in 1..Len(s) : s[a] = s[b] => a = b

Lists ==
  /\ balances \in [User -> Int]
  /\ List(debtors, Debtors(balances))
  /\ List(creditors, Creditors(balances))

\* What a party has left is at most its balance, and something until it is passed.
Left ==
  /\ owes \in [1..Len(debtors) -> Int] /\ gets \in [1..Len(creditors) -> Int]
  /\ i \in 1..Len(debtors) + 1 /\ j \in 1..Len(creditors) + 1
  /\ \A a \in 1..Len(debtors)   : owes[a] <= -balances[debtors[a]] /\ (a >= i => owes[a] > 0)
  /\ \A b \in 1..Len(creditors) : gets[b] <= balances[creditors[b]] /\ (b >= j => gets[b] > 0)

\* Every transfer so far joins positions the pointers have passed, at least one of
\* them for good.
Passed ==
  /\ transfers \in Seq([from : User, to : User, amount : Int])
  /\ \A x \in 1..Len(transfers) :
       \E a \in 1..Len(debtors), b \in 1..Len(creditors) :
         /\ transfers[x].from = debtors[a] /\ transfers[x].to = creditors[b]
         /\ a <= i /\ b <= j /\ (a < i \/ b < j)

Count ==
  /\ Len(transfers) <= i + j - 2
  /\ transfers # << >> => Len(transfers) < Len(debtors) + Len(creditors)

GreedyInv == Lists /\ Left /\ Passed /\ Count /\ NeverExceeds /\ OnePerPair

-----------------------------------------------------------------------------

\* A list that `sorted` can return holds each party once.
LEMMA OrderedIsList ==
  ASSUME balances \in [User -> Int], NEW party \in SUBSET User, NEW s \in Ordered(party)
  PROVE  List(s, party)
<1> USE UserAssumption
<1>1. Cardinality(party) \in Nat
  <2>1. IsFiniteSet(party)  BY FS_Subset
  <2> QED  BY <2>1, FS_CardinalityType
<1>2. s \in [1..Cardinality(party) -> party]
  BY DEF Ordered
<1>3. s \in Seq(party) /\ Len(s) = Cardinality(party) /\ DOMAIN s = 1..Len(s)
  BY <1>1, <1>2
<1>4. \A a, b \in 1..Len(s) : a < b => s[a] # s[b]
  <2> SUFFICES ASSUME NEW a \in 1..Len(s), NEW b \in 1..Len(s), a < b, s[a] = s[b]
               PROVE  FALSE
    OBVIOUS
  <2>1. Before(balances, byAmount, s[a], s[b])
    BY <1>3 DEF Ordered
  <2>2. s[a] \in Nat
    BY <1>2, <1>3
  <2> QED  BY <2>1, <2>2 DEF Before
<1> QED  BY <1>1, <1>3, <1>4 DEF List

\* What a list's elements are.
LEMMA Elements ==
  ASSUME Lists
  PROVE  /\ \A a \in 1..Len(debtors) : debtors[a] \in User /\ balances[debtors[a]] \in Int
                                          /\ balances[debtors[a]] < 0
         /\ \A b \in 1..Len(creditors) : creditors[b] \in User /\ balances[creditors[b]] \in Int
                                            /\ balances[creditors[b]] > 0
         /\ Len(debtors) \in Nat /\ Len(creditors) \in Nat
         /\ DOMAIN debtors = 1..Len(debtors) /\ DOMAIN creditors = 1..Len(creditors)
<1>1. \A a \in 1..Len(debtors) : debtors[a] \in Debtors(balances)
  BY DEF Lists, List
<1>2. \A b \in 1..Len(creditors) : creditors[b] \in Creditors(balances)
  BY DEF Lists, List
<1>3. DOMAIN balances = User /\ \A u \in User : balances[u] \in Int
  BY DEF Lists
<1>4. /\ Len(debtors) \in Nat /\ Len(creditors) \in Nat
      /\ DOMAIN debtors = 1..Len(debtors) /\ DOMAIN creditors = 1..Len(creditors)
  BY DEF Lists, List
<1> QED  BY <1>1, <1>2, <1>3, <1>4 DEF Debtors, Creditors

LEMMA GreedyInitInv == GreedyInit => GreedyInv
<1> SUFFICES ASSUME GreedyInit PROVE GreedyInv
  OBVIOUS
<1> USE UserAssumption, CentsAssumption
<1>1. balances \in [User -> Int]
  BY DEF GreedyInit
<1>2. Debtors(balances) \in SUBSET User /\ Creditors(balances) \in SUBSET User
  BY <1>1 DEF Debtors, Creditors
<1>3. Lists
  BY <1>1, <1>2, OrderedIsList DEF GreedyInit, Lists
<1>4. /\ owes = [a \in 1..Len(debtors) |-> -balances[debtors[a]]]
      /\ gets = [b \in 1..Len(creditors) |-> balances[creditors[b]]]
      /\ i = 1 /\ j = 1
  BY <1>3, Elements DEF GreedyInit
<1>5. owes \in [1..Len(debtors) -> Int] /\ gets \in [1..Len(creditors) -> Int]
  BY <1>3, <1>4, Elements
<1>6. Left
  BY <1>3, <1>4, <1>5, Elements DEF Left
<1>7. Passed /\ Count /\ NeverExceeds /\ OnePerPair
  BY DEF GreedyInit, Passed, Count, NeverExceeds, OnePerPair
<1> QED  BY <1>3, <1>6, <1>7 DEF GreedyInv

LEMMA GreedyStepInv == GreedyInv /\ [Match]_greedyVars => GreedyInv'
<1> SUFFICES ASSUME GreedyInv, [Match]_greedyVars PROVE GreedyInv'
  OBVIOUS
<1> USE UserAssumption
<1>1. CASE UNCHANGED greedyVars
  BY <1>1 DEF GreedyInv, greedyVars, input, Lists, Left, Passed, Count, NeverExceeds, OnePerPair,
              Debtors, Creditors, List
<1>2. CASE Match
  <2> DEFINE new == [from |-> debtors[i], to |-> creditors[j], amount |-> Pay]
  <2>1. i \in 1..Len(debtors) /\ j \in 1..Len(creditors)
    BY <1>2 DEF Match, Running, GreedyInv, Left, Lists, List
  <2>2. Lists  BY DEF GreedyInv
  <2>3. Pay \in Int /\ 0 < Pay /\ Pay <= owes[i] /\ Pay <= gets[j] /\ (Pay = owes[i] \/ Pay = gets[j])
    BY <2>1 DEF Pay, GreedyInv, Left
  <2>4. Lists'
    BY <1>2 DEF Match, GreedyInv, Lists, List, input, Debtors, Creditors
  <2>5. Left'
    <3>1. /\ owes' = [owes EXCEPT ![i] = @ - Pay] /\ gets' = [gets EXCEPT ![j] = @ - Pay]
          /\ i' = IF owes[i] = Pay THEN i + 1 ELSE i
          /\ j' = IF gets[j] = Pay THEN j + 1 ELSE j
          /\ UNCHANGED <<balances, debtors, creditors>>
      BY <1>2 DEF Match, input
    <3>2. owes' \in [1..Len(debtors') -> Int] /\ gets' \in [1..Len(creditors') -> Int]
      <4>1. owes[i] \in Int /\ gets[j] \in Int  BY <2>1 DEF GreedyInv, Left
      <4>2. owes[i] - Pay \in Int /\ gets[j] - Pay \in Int  BY <2>3, <4>1
      <4> QED  BY <2>1, <3>1, <4>2 DEF GreedyInv, Left
    <3>3. i' \in 1..Len(debtors') + 1 /\ j' \in 1..Len(creditors') + 1
      BY <2>1, <3>1 DEF GreedyInv, Left
    <3>4. ASSUME NEW a \in 1..Len(debtors)
          PROVE  owes'[a] <= -balances[debtors[a]] /\ (a >= i' => owes'[a] > 0)
      <4>1. /\ owes[a] \in Int /\ owes[a] <= -balances[debtors[a]]
            /\ a >= i => owes[a] > 0
        BY DEF GreedyInv, Left
      <4>2. balances[debtors[a]] \in Int  BY <2>2, Elements
      <4>3. owes'[a] = IF a = i THEN owes[i] - Pay ELSE owes[a]
        BY <3>1 DEF GreedyInv, Left
      <4> QED  BY <2>1, <2>3, <3>1, <4>1, <4>2, <4>3
    <3>5. ASSUME NEW b \in 1..Len(creditors)
          PROVE  gets'[b] <= balances[creditors[b]] /\ (b >= j' => gets'[b] > 0)
      <4>1. /\ gets[b] \in Int /\ gets[b] <= balances[creditors[b]]
            /\ b >= j => gets[b] > 0
        BY DEF GreedyInv, Left
      <4>2. balances[creditors[b]] \in Int  BY <2>2, Elements
      <4>3. gets'[b] = IF b = j THEN gets[j] - Pay ELSE gets[b]
        BY <3>1 DEF GreedyInv, Left
      <4> QED  BY <2>1, <2>3, <3>1, <4>1, <4>2, <4>3
    <3> QED  BY <3>1, <3>2, <3>3, <3>4, <3>5 DEF Left
  <2>6. new \in [from : User, to : User, amount : Int]
    BY <2>1, <2>2, <2>3, Elements
  <2>7. /\ transfers' = Append(transfers, new)
        /\ transfers \in Seq([from : User, to : User, amount : Int])
        /\ UNCHANGED <<balances, debtors, creditors>>
    BY <1>2 DEF Match, GreedyInv, Passed, input
  <2> HIDE DEF new
  <2>8. /\ transfers' \in Seq([from : User, to : User, amount : Int])
        /\ Len(transfers') = Len(transfers) + 1
        /\ Len(transfers) \in Nat
        /\ DOMAIN transfers = 1..Len(transfers)
        /\ DOMAIN transfers' = 1..Len(transfers')
        /\ transfers'[Len(transfers')] = new
        /\ \A x \in 1..Len(transfers) : transfers'[x] = transfers[x]
    BY <2>6, <2>7
  <2>9. /\ i' \in {i, i + 1} /\ j' \in {j, j + 1} /\ (i' = i + 1 \/ j' = j + 1)
        /\ i \in Int /\ j \in Int
    BY <1>2, <2>1, <2>3 DEF Match
  <2>10. new.from = debtors[i] /\ new.to = creditors[j] /\ new.amount = Pay
    BY DEF new
  <2>11. Passed'
    <3> SUFFICES ASSUME NEW x \in 1..Len(transfers')
                 PROVE  \E a \in 1..Len(debtors), b \in 1..Len(creditors) :
                          /\ transfers'[x].from = debtors[a] /\ transfers'[x].to = creditors[b]
                          /\ a <= i' /\ b <= j' /\ (a < i' \/ b < j')
      BY <2>7, <2>8 DEF Passed
    <3>1. CASE x = Len(transfers')
      BY <2>1, <2>8, <2>9, <2>10, <3>1
    <3>2. CASE x # Len(transfers')
      <4>1. x \in 1..Len(transfers)  BY <2>8, <3>2
      <4>2. PICK a \in 1..Len(debtors), b \in 1..Len(creditors) :
              /\ transfers[x].from = debtors[a] /\ transfers[x].to = creditors[b]
              /\ a <= i /\ b <= j /\ (a < i \/ b < j)
        BY <4>1 DEF GreedyInv, Passed
      <4>3. a <= i' /\ b <= j' /\ (a < i' \/ b < j')
        BY <2>1, <2>9, <4>2
      <4> QED  BY <2>8, <4>1, <4>2, <4>3
    <3> QED  BY <3>1, <3>2
  <2>12. Count'
    <3>1. Len(transfers') <= i' + j' - 2
      BY <2>8, <2>9 DEF GreedyInv, Count
    <3>2. Len(transfers') < Len(debtors) + Len(creditors)
      BY <2>1, <2>8 DEF GreedyInv, Count, Lists, List
    <3> QED  BY <2>7, <3>1, <3>2 DEF Count
  <2>13. NeverExceeds'
    <3> SUFFICES ASSUME NEW x \in 1..Len(transfers')
                 PROVE  /\ 0 < transfers'[x].amount
                        /\ transfers'[x].amount <= -balances[transfers'[x].from]
                        /\ transfers'[x].amount <= balances[transfers'[x].to]
      BY <2>7, <2>8 DEF NeverExceeds
    <3>1. CASE x = Len(transfers')
      <4>1. owes[i] <= -balances[debtors[i]] /\ gets[j] <= balances[creditors[j]]
        BY <2>1 DEF GreedyInv, Left
      <4>2. owes[i] \in Int /\ gets[j] \in Int
        BY <2>1 DEF GreedyInv, Left
      <4>3. balances[debtors[i]] \in Int /\ balances[creditors[j]] \in Int
        BY <2>1, <2>2, Elements
      <4>4. transfers'[x] = new
        BY <2>8, <3>1
      <4> QED  BY <2>3, <2>10, <4>1, <4>2, <4>3, <4>4
    <3>2. CASE x # Len(transfers')
      <4>1. x \in 1..Len(transfers)  BY <2>8, <3>2
      <4> QED  BY <2>8, <4>1 DEF GreedyInv, NeverExceeds
    <3> QED  BY <3>1, <3>2
  <2>14. OnePerPair'
    <3>1. ASSUME NEW x \in 1..Len(transfers)
          PROVE  ~(transfers[x].from = new.from /\ transfers[x].to = new.to)
      <4>1. PICK a \in 1..Len(debtors), b \in 1..Len(creditors) :
              /\ transfers[x].from = debtors[a] /\ transfers[x].to = creditors[b]
              /\ a <= i /\ b <= j /\ (a < i \/ b < j)
        BY DEF GreedyInv, Passed
      <4>2. a # i \/ b # j  BY <2>1, <4>1
      <4>3. debtors[a] = debtors[i] => a = i
        BY <2>1 DEF GreedyInv, Lists, List
      <4>4. creditors[b] = creditors[j] => b = j
        BY <2>1 DEF GreedyInv, Lists, List
      <4> QED  BY <2>10, <4>1, <4>2, <4>3, <4>4
    <3>2. ASSUME NEW x \in 1..Len(transfers), NEW y \in 1..Len(transfers),
                 transfers[x].from = transfers[y].from, transfers[x].to = transfers[y].to
          PROVE  x = y
      BY <2>8, <3>2 DEF GreedyInv, OnePerPair
    <3> SUFFICES ASSUME NEW x \in 1..Len(transfers'), NEW y \in 1..Len(transfers'),
                        transfers'[x].from = transfers'[y].from,
                        transfers'[x].to = transfers'[y].to
                 PROVE  x = y
      BY <2>8 DEF OnePerPair
    <3>3. CASE x # Len(transfers') /\ y # Len(transfers')
      <4>1. x \in 1..Len(transfers) /\ y \in 1..Len(transfers)  BY <2>8, <3>3
      <4> QED  BY <2>8, <3>2, <4>1
    <3>4. CASE x = Len(transfers') /\ y # Len(transfers')
      <4>1. y \in 1..Len(transfers)  BY <2>8, <3>4
      <4> QED  BY <2>8, <3>1, <3>4, <4>1
    <3>5. CASE x # Len(transfers') /\ y = Len(transfers')
      <4>1. x \in 1..Len(transfers)  BY <2>8, <3>5
      <4> QED  BY <2>8, <3>1, <3>5, <4>1
    <3> QED  BY <3>3, <3>4, <3>5
  <2> QED  BY <2>4, <2>5, <2>11, <2>12, <2>13, <2>14 DEF GreedyInv
<1> QED  BY <1>1, <1>2

\* The loop's inductive invariant.
THEOREM GreedyInvHolds == GreedySpec => []GreedyInv
<1> QED  BY GreedyInitInv, GreedyStepInv, PTL DEF GreedySpec

\* A suggested transfer never exceeds what its debtor owes or its creditor is owed,
\* whatever the balances: settling up to it cannot flip anybody.
THEOREM NeverExceedsHolds == GreedySpec => []NeverExceeds
<1>1. GreedyInv => NeverExceeds  BY DEF GreedyInv
<1> QED  BY <1>1, GreedyInvHolds, PTL

\* No pair is suggested two transfers, so looking one up by pair is unambiguous.
THEOREM OnePerPairHolds == GreedySpec => []OnePerPair
<1>1. GreedyInv => OnePerPair  BY DEF GreedyInv
<1> QED  BY <1>1, GreedyInvHolds, PTL

\* Fewer transfers are suggested than there are parties.
THEOREM FewHolds == GreedySpec => []Few
<1>1. GreedyInv => Few  BY DEF GreedyInv, Count, Few
<1> QED  BY <1>1, GreedyInvHolds, PTL

-----------------------------------------------------------------------------

\* Both lists hold their whole side, in the match order.
InOrder ==
  /\ Arranges(balances, byAmount, Debtors(balances), debtors, Len(debtors))
  /\ Arranges(balances, byAmount, Creditors(balances), creditors, Len(creditors))

\* The intervals of the parties, by position.
DebtFrom(a) == Lower(balances, byAmount, Debtors(balances), debtors[a])
DebtTo(a)   == Upper(balances, byAmount, Debtors(balances), debtors[a])
DueFrom(b)  == Lower(balances, byAmount, Creditors(balances), creditors[b])
DueTo(b)    == Upper(balances, byAmount, Creditors(balances), creditors[b])

\* What a pointer has not reached is untouched, and the two parties pointed at have
\* left what lies beyond one common mark: the later of their two starts.
StillOwed ==
  /\ \A a \in 1..Len(debtors)   : a > i => owes[a] = Size(balances, debtors[a])
  /\ \A b \in 1..Len(creditors) : b > j => gets[b] = Size(balances, creditors[b])
  /\ Running =>
       \E m \in Nat :
         /\ m >= DebtFrom(i) /\ m >= DueFrom(j) /\ (m = DebtFrom(i) \/ m = DueFrom(j))
         /\ owes[i] = DebtTo(i) - m /\ gets[j] = DueTo(j) - m

\* The transfers are the closed form's, and those of every pair passed are there.
Recorded ==
  /\ \A x \in 1..Len(transfers) :
       transfers[x] = Transfer(balances, byAmount, transfers[x].from, transfers[x].to)
  /\ \A a \in 1..Len(debtors), b \in 1..Len(creditors) :
       (a < i \/ b < j) /\ Owed(balances, byAmount, debtors[a], creditors[b]) > 0 =>
         \E x \in 1..Len(transfers) :
           transfers[x] = Transfer(balances, byAmount, debtors[a], creditors[b])

MatchInv == GreedyInv /\ InOrder /\ StillOwed /\ Recorded

LEMMA OrderedIsArranged ==
  ASSUME balances \in [User -> Int], NEW party \in SUBSET User, NEW s \in Ordered(party)
  PROVE  Arranges(balances, byAmount, party, s, Len(s))
<1> USE UserAssumption
<1>1. IsFiniteSet(party)  BY FS_Subset
<1>2. PICK z : z = Cardinality(party)  OBVIOUS
<1>3. z \in Nat  BY <1>1, <1>2, FS_CardinalityType
<1>4. /\ s \in [1..z -> party]
      /\ \A a, b \in 1..z : a < b => Before(balances, byAmount, s[a], s[b])
  BY <1>2 DEF Ordered
<1>5. Len(s) = z  BY <1>3, <1>4
<1>6. \A a, b \in 1..z : s[a] = s[b] => a = b
  <2>1. List(s, party)  BY OrderedIsList
  <2> QED  BY <1>5, <2>1 DEF List
<1>7. s \in Injection(1..z, party)  BY <1>4, <1>6 DEF Injection, IsInjective
<1>8. Cardinality(1..z) = z  BY <1>3, FS_Interval
<1>9. s \in Surjection(1..z, party)  BY <1>1, <1>2, <1>7, <1>8, FS_Injection
<1>10. \A u \in party : \E a \in 1..z : s[a] = u  BY <1>9 DEF Surjection
<1> QED  BY <1>3, <1>4, <1>5, <1>10 DEF Arranges

\* The two sides' intervals, laid end to end from 0.
LEMMA Laid ==
  ASSUME Lists, InOrder
  PROVE  /\ \A a \in 1..Len(debtors) :
              /\ DebtFrom(a) \in Nat /\ DebtTo(a) \in Nat
              /\ DebtTo(a) = DebtFrom(a) + Size(balances, debtors[a])
              /\ Size(balances, debtors[a]) \in Nat
         /\ 1 \in 1..Len(debtors) => DebtFrom(1) = 0
         /\ \A a \in 1..Len(debtors) : a + 1 \in 1..Len(debtors) => DebtFrom(a + 1) = DebtTo(a)
         /\ \A a, c \in 1..Len(debtors) : a < c => DebtTo(a) <= DebtFrom(c)
         /\ \A b \in 1..Len(creditors) :
              /\ DueFrom(b) \in Nat /\ DueTo(b) \in Nat
              /\ DueTo(b) = DueFrom(b) + Size(balances, creditors[b])
              /\ Size(balances, creditors[b]) \in Nat
         /\ 1 \in 1..Len(creditors) => DueFrom(1) = 0
         /\ \A b \in 1..Len(creditors) : b + 1 \in 1..Len(creditors) => DueFrom(b + 1) = DueTo(b)
         /\ \A b, c \in 1..Len(creditors) : b < c => DueTo(b) <= DueFrom(c)
<1>1. PICK D : D = Debtors(balances)  OBVIOUS
<1>2. PICK C : C = Creditors(balances)  OBVIOUS
<1>3. PICK bal : bal = balances  OBVIOUS
<1>4. Book(User, bal, D) /\ Book(User, bal, C)
  BY <1>1, <1>2, <1>3, UserAssumption DEF Book, Lists, Debtors, Creditors
<1>5. PICK ds : ds = debtors  OBVIOUS
<1>6. PICK cs : cs = creditors  OBVIOUS
<1>7. PICK o : o = byAmount  OBVIOUS
<1>8. PICK p : p = Len(debtors)  OBVIOUS
<1>9. PICK q : q = Len(creditors)  OBVIOUS
<1>10. Arranges(bal, o, D, ds, p) /\ Arranges(bal, o, C, cs, q)
  BY <1>1, <1>2, <1>3, <1>5, <1>6, <1>7, <1>8, <1>9 DEF InOrder
<1>11. /\ \A a : DebtFrom(a) = Lower(bal, o, D, ds[a])
       /\ \A a : DebtTo(a) = Upper(bal, o, D, ds[a])
       /\ \A a : DueFrom(a) = Lower(bal, o, C, cs[a])
       /\ \A a : DueTo(a) = Upper(bal, o, C, cs[a])
  BY <1>1, <1>2, <1>3, <1>5, <1>6, <1>7 DEF DebtFrom, DebtTo, DueFrom, DueTo
<1>12. /\ \A a \in 1..p : ds[a] \in D
       /\ \A a \in 1..q : cs[a] \in C
  BY <1>10 DEF Arranges
<1>13. /\ 1 \in 1..p => Lower(bal, o, D, ds[1]) = 0
       /\ \A x \in 1..p : x + 1 \in 1..p => Lower(bal, o, D, ds[x + 1]) = Upper(bal, o, D, ds[x])
       /\ \A x, y \in 1..p : x < y => Upper(bal, o, D, ds[x]) <= Lower(bal, o, D, ds[y])
  BY <1>4, <1>10, EndToEnd
<1>14. /\ 1 \in 1..q => Lower(bal, o, C, cs[1]) = 0
       /\ \A x \in 1..q : x + 1 \in 1..q => Lower(bal, o, C, cs[x + 1]) = Upper(bal, o, C, cs[x])
       /\ \A x, y \in 1..q : x < y => Upper(bal, o, C, cs[x]) <= Lower(bal, o, C, cs[y])
  BY <1>4, <1>10, EndToEnd
<1>15. ASSUME NEW u, u \in D
       PROVE  /\ Lower(bal, o, D, u) \in Nat
              /\ Upper(bal, o, D, u) = Lower(bal, o, D, u) + Size(bal, u)
              /\ Upper(bal, o, D, u) \in Nat /\ Size(bal, u) \in Nat
  BY <1>4, <1>15, IntervalEnds
<1>16. ASSUME NEW u, u \in C
       PROVE  /\ Lower(bal, o, C, u) \in Nat
              /\ Upper(bal, o, C, u) = Lower(bal, o, C, u) + Size(bal, u)
              /\ Upper(bal, o, C, u) \in Nat /\ Size(bal, u) \in Nat
  BY <1>4, <1>16, IntervalEnds
<1>17. \A a \in 1..p : /\ DebtFrom(a) \in Nat /\ DebtTo(a) \in Nat
                       /\ DebtTo(a) = DebtFrom(a) + Size(bal, ds[a])
                       /\ Size(bal, ds[a]) \in Nat
  BY <1>11, <1>12, <1>15
<1>18. \A b \in 1..q : /\ DueFrom(b) \in Nat /\ DueTo(b) \in Nat
                       /\ DueTo(b) = DueFrom(b) + Size(bal, cs[b])
                       /\ Size(bal, cs[b]) \in Nat
  BY <1>11, <1>12, <1>16
<1> QED  BY <1>3, <1>5, <1>6, <1>8, <1>9, <1>11, <1>13, <1>14, <1>17, <1>18

\* What the two parties at a pair of positions are suggested: what their intervals share.
LEMMA Overlaps ==
  ASSUME Lists, NEW a \in 1..Len(debtors), NEW b \in 1..Len(creditors)
  PROVE  Owed(balances, byAmount, debtors[a], creditors[b])
           = Shared(DebtFrom(a), DebtTo(a), DueFrom(b), DueTo(b))
<1>1. PICK d : d = debtors[a]  OBVIOUS
<1>2. PICK c : c = creditors[b]  OBVIOUS
<1>3. d \in Debtors(balances) /\ c \in Creditors(balances)  BY <1>1, <1>2 DEF Lists, List
<1>4. Owed(balances, byAmount, d, c) =
        Shared(Lower(balances, byAmount, Debtors(balances), d),
               Upper(balances, byAmount, Debtors(balances), d),
               Lower(balances, byAmount, Creditors(balances), c),
               Upper(balances, byAmount, Creditors(balances), c))
  BY <1>3, OwedIs
<1> QED  BY <1>1, <1>2, <1>4 DEF DebtFrom, DebtTo, DueFrom, DueTo

LEMMA MatchInitInv == GreedyInit => MatchInv
<1> SUFFICES ASSUME GreedyInit PROVE MatchInv
  OBVIOUS
<1>1. GreedyInv  BY GreedyInitInv
<1>2. Lists  BY <1>1 DEF GreedyInv
<1>3. Debtors(balances) \in SUBSET User /\ Creditors(balances) \in SUBSET User
      /\ balances \in [User -> Int]
  BY <1>2 DEF Lists, Debtors, Creditors
<1>4. InOrder
  <2>1. debtors \in Ordered(Debtors(balances)) /\ creditors \in Ordered(Creditors(balances))
    BY DEF GreedyInit
  <2>2. Arranges(balances, byAmount, Debtors(balances), debtors, Len(debtors))
    BY <1>3, <2>1, OrderedIsArranged
  <2>3. Arranges(balances, byAmount, Creditors(balances), creditors, Len(creditors))
    BY <1>3, <2>1, OrderedIsArranged
  <2> QED  BY <2>2, <2>3 DEF InOrder
<1>5. /\ owes = [a \in 1..Len(debtors) |-> -balances[debtors[a]]]
      /\ gets = [b \in 1..Len(creditors) |-> balances[creditors[b]]]
      /\ i = 1 /\ j = 1 /\ transfers = << >>
  BY <1>2, Elements DEF GreedyInit
<1>6. /\ \A a \in 1..Len(debtors) : owes[a] = Size(balances, debtors[a])
      /\ \A b \in 1..Len(creditors) : gets[b] = Size(balances, creditors[b])
  BY <1>2, <1>5, Elements DEF Size
<1>7. Running => /\ 0 >= DebtFrom(i) /\ 0 >= DueFrom(j) /\ 0 = DebtFrom(i)
                 /\ owes[i] = DebtTo(i) - 0 /\ gets[j] = DueTo(j) - 0
  <2> SUFFICES ASSUME Running
               PROVE  /\ 0 >= DebtFrom(1) /\ 0 >= DueFrom(1) /\ 0 = DebtFrom(1)
                      /\ owes[1] = DebtTo(1) - 0 /\ gets[1] = DueTo(1) - 0
    BY <1>5
  <2>1. 1 \in 1..Len(debtors) /\ 1 \in 1..Len(creditors)
    BY <1>2, <1>5, Elements DEF Running
  <2>2. /\ DebtFrom(1) = 0 /\ DebtTo(1) = DebtFrom(1) + Size(balances, debtors[1])
        /\ DueFrom(1) = 0 /\ DueTo(1) = DueFrom(1) + Size(balances, creditors[1])
        /\ Size(balances, debtors[1]) \in Nat /\ Size(balances, creditors[1]) \in Nat
    BY <1>2, <1>4, <2>1, Laid
  <2> QED  BY <1>6, <2>1, <2>2
<1>8. StillOwed  BY <1>6, <1>7 DEF StillOwed
<1>9. Recorded  BY <1>5 DEF Recorded
<1> QED  BY <1>1, <1>4, <1>8, <1>9 DEF MatchInv

LEMMA MatchStepInv == MatchInv /\ [Match]_greedyVars => MatchInv'
<1> SUFFICES ASSUME MatchInv, [Match]_greedyVars PROVE MatchInv'
  OBVIOUS
<1>1. GreedyInv /\ GreedyInv' /\ InOrder /\ Lists /\ StillOwed /\ Recorded
  BY GreedyStepInv DEF MatchInv, GreedyInv
<1>2. UNCHANGED <<balances, byAmount, debtors, creditors>>
  BY DEF greedyVars, input, Match
<1>3. InOrder'
  BY <1>1, <1>2 DEF InOrder
<1>4. /\ \A a : DebtFrom(a)' = DebtFrom(a) /\ DebtTo(a)' = DebtTo(a)
      /\ \A b : DueFrom(b)' = DueFrom(b) /\ DueTo(b)' = DueTo(b)
  BY <1>2 DEF DebtFrom, DebtTo, DueFrom, DueTo
<1>5. CASE UNCHANGED greedyVars
  <2>1. UNCHANGED <<balances, byAmount, debtors, creditors, owes, gets, i, j, transfers>>
    BY <1>5 DEF greedyVars, input
  <2>2. StillOwed'  BY <1>1, <2>1 DEF StillOwed, Running, DebtFrom, DebtTo, DueFrom, DueTo
  <2>3. Recorded'  BY <1>1, <2>1 DEF Recorded
  <2> QED  BY <1>1, <1>3, <2>2, <2>3 DEF MatchInv
<1>6. CASE Match
  <2>1. /\ i \in 1..Len(debtors) /\ j \in 1..Len(creditors) /\ Running
        /\ Len(debtors) \in Nat /\ Len(creditors) \in Nat
    BY <1>1, <1>6, Elements DEF Match, Running, GreedyInv, Left
  <2>2. PICK m \in Nat : /\ m >= DebtFrom(i) /\ m >= DueFrom(j)
                         /\ (m = DebtFrom(i) \/ m = DueFrom(j))
                         /\ owes[i] = DebtTo(i) - m /\ gets[j] = DueTo(j) - m
    BY <1>1, <2>1 DEF StillOwed
  <2>3. PICK p : p = Pay  OBVIOUS
  <2>4. /\ owes[i] \in Int /\ gets[j] \in Int
        /\ p \in Nat /\ 0 < p /\ p <= owes[i] /\ p <= gets[j] /\ (p = owes[i] \/ p = gets[j])
    <3>1. owes[i] \in Int /\ gets[j] \in Int  BY <1>1, <2>1 DEF GreedyInv, Left
    <3>2. i \in Int /\ j \in Int /\ owes[i] > 0 /\ gets[j] > 0
      BY <1>1, <2>1 DEF GreedyInv, Left
    <3> QED  BY <2>3, <3>1, <3>2 DEF Pay
  <2>5. /\ owes' = [owes EXCEPT ![i] = @ - p] /\ gets' = [gets EXCEPT ![j] = @ - p]
        /\ i' = IF owes[i] = p THEN i + 1 ELSE i
        /\ j' = IF gets[j] = p THEN j + 1 ELSE j
    BY <1>6, <2>3 DEF Match
  <2>6. /\ \A a \in 1..Len(debtors) : owes'[a] = IF a = i THEN owes[i] - p ELSE owes[a]
        /\ \A b \in 1..Len(creditors) : gets'[b] = IF b = j THEN gets[j] - p ELSE gets[b]
    BY <1>1, <2>5 DEF GreedyInv, Left
  <2>7. /\ \A a \in 1..Len(debtors) :
             /\ DebtFrom(a) \in Nat /\ DebtTo(a) \in Nat
             /\ DebtTo(a) = DebtFrom(a) + Size(balances, debtors[a])
             /\ Size(balances, debtors[a]) \in Nat
        /\ \A a \in 1..Len(debtors) : a + 1 \in 1..Len(debtors) => DebtFrom(a + 1) = DebtTo(a)
        /\ \A a, c \in 1..Len(debtors) : a < c => DebtTo(a) <= DebtFrom(c)
    BY <1>1, Laid
  <2>8. /\ \A b \in 1..Len(creditors) :
             /\ DueFrom(b) \in Nat /\ DueTo(b) \in Nat
             /\ DueTo(b) = DueFrom(b) + Size(balances, creditors[b])
             /\ Size(balances, creditors[b]) \in Nat
        /\ \A b \in 1..Len(creditors) : b + 1 \in 1..Len(creditors) => DueFrom(b + 1) = DueTo(b)
        /\ \A b, c \in 1..Len(creditors) : b < c => DueTo(b) <= DueFrom(c)
    BY <1>1, Laid
  <2>9. StillOwed'
    <3>1. ASSUME NEW a \in 1..Len(debtors), a > i'
          PROVE  owes'[a] = Size(balances, debtors[a])
      <4>1. a > i /\ a # i  BY <2>1, <2>5, <3>1
      <4> QED  BY <1>1, <2>6, <4>1 DEF StillOwed
    <3>2. ASSUME NEW b \in 1..Len(creditors), b > j'
          PROVE  gets'[b] = Size(balances, creditors[b])
      <4>1. b > j /\ b # j  BY <2>1, <2>5, <3>2
      <4> QED  BY <1>1, <2>6, <4>1 DEF StillOwed
    <3>3. ASSUME i' <= Len(debtors), j' <= Len(creditors)
          PROVE  /\ m + p \in Nat
                 /\ m + p >= DebtFrom(i') /\ m + p >= DueFrom(j')
                 /\ (m + p = DebtFrom(i') \/ m + p = DueFrom(j'))
                 /\ owes'[i'] = DebtTo(i') - (m + p) /\ gets'[j'] = DueTo(j') - (m + p)
      <4>1. i' \in 1..Len(debtors) /\ j' \in 1..Len(creditors)
        BY <2>1, <2>5, <3>3
      <4>2. CASE owes[i] = p /\ gets[j] # p
        <5>1. i' = i + 1 /\ j' = j  BY <2>5, <4>2
        <5>2. DebtFrom(i + 1) = DebtTo(i)  BY <2>1, <2>7, <4>1, <5>1
        <5>3. owes'[i + 1] = owes[i + 1] /\ gets'[j] = gets[j] - p
          BY <2>1, <2>6, <4>1, <5>1
        <5>4. owes[i + 1] = Size(balances, debtors[i + 1])
          BY <1>1, <2>1, <4>1, <5>1 DEF StillOwed
        <5>5. /\ DebtTo(i + 1) = DebtFrom(i + 1) + Size(balances, debtors[i + 1])
              /\ DebtFrom(i + 1) \in Nat /\ Size(balances, debtors[i + 1]) \in Nat
          BY <2>7, <4>1, <5>1
        <5>6. DebtTo(i) \in Nat /\ DueTo(j) \in Nat /\ DueFrom(j) \in Nat  BY <2>1, <2>7, <2>8
        <5> QED  BY <2>2, <2>4, <4>2, <5>1, <5>2, <5>3, <5>4, <5>5, <5>6
      <4>3. CASE owes[i] # p /\ gets[j] = p
        <5>1. i' = i /\ j' = j + 1  BY <2>5, <4>3
        <5>2. DueFrom(j + 1) = DueTo(j)  BY <2>1, <2>8, <4>1, <5>1
        <5>3. gets'[j + 1] = gets[j + 1] /\ owes'[i] = owes[i] - p
          BY <2>1, <2>6, <4>1, <5>1
        <5>4. gets[j + 1] = Size(balances, creditors[j + 1])
          BY <1>1, <2>1, <4>1, <5>1 DEF StillOwed
        <5>5. /\ DueTo(j + 1) = DueFrom(j + 1) + Size(balances, creditors[j + 1])
              /\ DueFrom(j + 1) \in Nat /\ Size(balances, creditors[j + 1]) \in Nat
          BY <2>8, <4>1, <5>1
        <5>6. DebtTo(i) \in Nat /\ DueTo(j) \in Nat /\ DebtFrom(i) \in Nat  BY <2>1, <2>7, <2>8
        <5> QED  BY <2>2, <2>4, <4>3, <5>1, <5>2, <5>3, <5>4, <5>5, <5>6
      <4>4. CASE owes[i] = p /\ gets[j] = p
        <5>1. i' = i + 1 /\ j' = j + 1  BY <2>5, <4>4
        <5>2. DueFrom(j + 1) = DueTo(j) /\ DebtFrom(i + 1) = DebtTo(i)
          BY <2>1, <2>7, <2>8, <4>1, <5>1
        <5>3. gets'[j + 1] = gets[j + 1] /\ owes'[i + 1] = owes[i + 1]
          BY <2>1, <2>6, <4>1, <5>1
        <5>4. /\ owes[i + 1] = Size(balances, debtors[i + 1])
              /\ gets[j + 1] = Size(balances, creditors[j + 1])
          BY <1>1, <2>1, <4>1, <5>1 DEF StillOwed
        <5>5. /\ DueTo(j + 1) = DueFrom(j + 1) + Size(balances, creditors[j + 1])
              /\ DueFrom(j + 1) \in Nat /\ Size(balances, creditors[j + 1]) \in Nat
          BY <2>8, <4>1, <5>1
        <5>6. /\ DebtTo(i + 1) = DebtFrom(i + 1) + Size(balances, debtors[i + 1])
              /\ DebtFrom(i + 1) \in Nat /\ Size(balances, debtors[i + 1]) \in Nat
          BY <2>7, <4>1, <5>1
        <5>7. DebtTo(i) \in Nat /\ DueTo(j) \in Nat  BY <2>1, <2>7, <2>8
        <5> QED  BY <2>2, <2>4, <4>4, <5>1, <5>2, <5>3, <5>4, <5>5, <5>6, <5>7
      <4> QED  BY <2>4, <4>2, <4>3, <4>4
    <3>4. Running' <=> i' <= Len(debtors) /\ j' <= Len(creditors)
      BY <1>2 DEF Running
    <3>5. /\ \A a \in 1..Len(debtors)   : a > i' => owes'[a] = Size(balances, debtors[a])
          /\ \A b \in 1..Len(creditors) : b > j' => gets'[b] = Size(balances, creditors[b])
          /\ Running' =>
               \E z \in Nat :
                 /\ z >= DebtFrom(i') /\ z >= DueFrom(j') /\ (z = DebtFrom(i') \/ z = DueFrom(j'))
                 /\ owes'[i'] = DebtTo(i') - z /\ gets'[j'] = DueTo(j') - z
      BY <3>1, <3>2, <3>3, <3>4
    <3> QED  BY <1>2, <3>5 DEF StillOwed, DebtFrom, DebtTo, DueFrom, DueTo
  <2>10. Recorded'
    <3>1. PICK t : t = [from |-> debtors[i], to |-> creditors[j], amount |-> p]  OBVIOUS
    <3>2. /\ transfers' = Append(transfers, t)
          /\ transfers \in Seq([from : User, to : User, amount : Int])
      BY <1>1, <1>6, <2>3, <3>1 DEF Match, GreedyInv, Passed
    <3>3. t \in [from : User, to : User, amount : Int]
      BY <1>1, <2>1, <2>4, <3>1, Elements
    <3>4. /\ Len(transfers') = Len(transfers) + 1 /\ Len(transfers) \in Nat
          /\ transfers'[Len(transfers) + 1] = t
          /\ \A x \in 1..Len(transfers) : transfers'[x] = transfers[x]
      BY <3>2, <3>3
    <3>5. Owed(balances, byAmount, debtors[i], creditors[j]) = p
      <4>1. PICK lo : lo = DebtFrom(i)  OBVIOUS
      <4>2. PICK hi : hi = DebtTo(i)  OBVIOUS
      <4>3. PICK a : a = DueFrom(j)  OBVIOUS
      <4>4. PICK b : b = DueTo(j)  OBVIOUS
      <4>5. lo \in Int /\ hi \in Int /\ a \in Int /\ b \in Int
        BY <2>1, <2>7, <2>8, <4>1, <4>2, <4>3, <4>4
      <4>6. /\ m >= lo /\ m >= a /\ (m = lo \/ m = a)
            /\ p >= 0 /\ m + p <= hi /\ m + p <= b /\ (m + p = hi \/ m + p = b)
            /\ m \in Int /\ p \in Int
        BY <2>2, <2>4, <4>1, <4>2, <4>3, <4>4, <4>5
      <4>7. Shared(lo, hi, a, b) = p  BY <4>5, <4>6, SharedIs
      <4> QED  BY <1>1, <2>1, <4>1, <4>2, <4>3, <4>4, <4>7, Overlaps
    <3>6. t = Transfer(balances, byAmount, debtors[i], creditors[j])
      BY <3>1, <3>5 DEF Transfer
    <3>7. t.from = debtors[i] /\ t.to = creditors[j]  BY <3>1
    <3>8. ASSUME NEW x \in 1..Len(transfers')
          PROVE  transfers'[x] =
                   Transfer(balances, byAmount, transfers'[x].from, transfers'[x].to)
      <4>1. CASE x = Len(transfers) + 1  BY <3>4, <3>6, <3>7, <4>1
      <4>2. CASE x # Len(transfers) + 1
        <5>1. x \in 1..Len(transfers)  BY <3>4, <4>2
        <5> QED  BY <1>1, <3>4, <5>1 DEF Recorded
      <4> QED  BY <4>1, <4>2
    <3>9. ASSUME NEW a \in 1..Len(debtors), NEW b \in 1..Len(creditors), a < i' \/ b < j',
                 Owed(balances, byAmount, debtors[a], creditors[b]) > 0
          PROVE  \E x \in 1..Len(transfers') :
                   transfers'[x] = Transfer(balances, byAmount, debtors[a], creditors[b])
      <4>1. CASE a < i \/ b < j
        <5>1. PICK x \in 1..Len(transfers) :
                transfers[x] = Transfer(balances, byAmount, debtors[a], creditors[b])
          BY <1>1, <3>9, <4>1 DEF Recorded
        <5> QED  BY <3>4, <5>1
      <4>2. CASE a = i /\ b = j
        BY <3>4, <3>6, <4>2
      <4>3. CASE ~(a < i \/ b < j) /\ ~(a = i /\ b = j)
        <5>1. DebtTo(a) <= DueFrom(b) \/ DueTo(b) <= DebtFrom(a)
          <6>1. CASE a = i
            <7>1. b > j /\ owes[i] = p  BY <2>1, <2>5, <3>9, <4>3, <6>1
            <7>2. DueTo(j) <= DueFrom(b)  BY <2>1, <2>8, <7>1
            <7>3. DebtTo(i) <= DueTo(j)
              <8>1. DebtTo(i) \in Nat /\ DueTo(j) \in Nat  BY <2>1, <2>7, <2>8
              <8> QED  BY <2>2, <2>4, <7>1, <8>1
            <7>4. DebtTo(i) \in Nat /\ DueTo(j) \in Nat /\ DueFrom(b) \in Nat
              BY <2>1, <2>7, <2>8
            <7> QED  BY <6>1, <7>2, <7>3, <7>4
          <6>2. CASE b = j
            <7>1. a > i /\ gets[j] = p  BY <2>1, <2>5, <3>9, <4>3, <6>2
            <7>2. DebtTo(i) <= DebtFrom(a)  BY <2>1, <2>7, <7>1
            <7>3. DueTo(j) <= DebtTo(i)
              <8>1. DebtTo(i) \in Nat /\ DueTo(j) \in Nat  BY <2>1, <2>7, <2>8
              <8> QED  BY <2>2, <2>4, <7>1, <8>1
            <7>4. DebtTo(i) \in Nat /\ DueTo(j) \in Nat /\ DebtFrom(a) \in Nat
              BY <2>1, <2>7, <2>8
            <7> QED  BY <6>2, <7>2, <7>3, <7>4
          <6>3. a = i \/ b = j
            BY <2>1, <2>5, <3>9, <4>3
          <6> QED  BY <6>1, <6>2, <6>3
        <5>2. PICK lo : lo = DebtFrom(a)  OBVIOUS
        <5>3. PICK hi : hi = DebtTo(a)  OBVIOUS
        <5>4. PICK u : u = DueFrom(b)  OBVIOUS
        <5>5. PICK v : v = DueTo(b)  OBVIOUS
        <5>6. lo \in Int /\ hi \in Int /\ u \in Int /\ v \in Int
          BY <2>7, <2>8, <5>2, <5>3, <5>4, <5>5
        <5>7. hi <= u \/ v <= lo  BY <5>1, <5>2, <5>3, <5>4, <5>5
        <5>8. Shared(lo, hi, u, v) = 0  BY <5>6, <5>7, SharedIs
        <5>9. Owed(balances, byAmount, debtors[a], creditors[b]) = 0
          BY <1>1, <5>2, <5>3, <5>4, <5>5, <5>8, Overlaps
        <5> QED  BY <3>9, <5>9
      <4> QED  BY <4>1, <4>2, <4>3
    <3> QED  BY <1>2, <3>8, <3>9 DEF Recorded
  <2> QED  BY <1>1, <1>3, <2>9, <2>10 DEF MatchInv
<1> QED  BY <1>5, <1>6

\* What every transfer the loop has emitted, and every party it has passed, amounts to.
THEOREM MatchInvHolds == GreedySpec => []MatchInv
<1> QED  BY MatchInitInv, MatchStepInv, PTL DEF GreedySpec

\* Once a side is exhausted the list holds the closed form, each transfer once.
LEMMA Finished ==
  ASSUME MatchInv, ~Running
  PROVE  Enumerates(DOMAIN transfers, transfers, Suggested(balances, byAmount))
<1>1. Lists /\ InOrder /\ Recorded /\ Passed /\ NeverExceeds /\ OnePerPair
  BY DEF MatchInv, GreedyInv
<1>2. PICK S : S = Suggested(balances, byAmount)  OBVIOUS
<1>3. PICK z : z = Len(transfers)  OBVIOUS
<1>4. z \in Nat /\ DOMAIN transfers = 1..z /\ transfers = [x \in 1..z |-> transfers[x]]
  BY <1>1, <1>3 DEF Passed
<1>5. IsFiniteSet(1..z)  BY <1>4, FS_Interval
<1>6. ASSUME NEW x \in 1..z PROVE transfers[x] \in S
  <2>1. PICK a \in 1..Len(debtors), b \in 1..Len(creditors) :
          transfers[x].from = debtors[a] /\ transfers[x].to = creditors[b]
    BY <1>1, <1>3 DEF Passed
  <2>2. transfers[x].from \in Debtors(balances) /\ transfers[x].to \in Creditors(balances)
    BY <1>1, <2>1 DEF Lists, List
  <2>3. /\ transfers[x] = Transfer(balances, byAmount, transfers[x].from, transfers[x].to)
        /\ transfers[x].amount > 0
    BY <1>1, <1>3, <1>4 DEF Recorded, NeverExceeds
  <2>4. PICK d : d = transfers[x].from  OBVIOUS
  <2>5. PICK c : c = transfers[x].to  OBVIOUS
  <2>6. Owed(balances, byAmount, d, c) > 0
    BY <2>3, <2>4, <2>5 DEF Transfer
  <2>7. Transfer(balances, byAmount, d, c) \in Suggested(balances, byAmount)
    BY <2>2, <2>4, <2>5, <2>6, SuggestedAre
  <2> QED  BY <1>2, <2>3, <2>4, <2>5, <2>7
<1>7. \A x, y \in 1..z : transfers[x] = transfers[y] => x = y
  BY <1>1, <1>4 DEF OnePerPair
<1>8. ASSUME NEW s \in S PROVE \E x \in 1..z : transfers[x] = s
  <2>1. /\ s.from \in Debtors(balances) /\ s.to \in Creditors(balances)
        /\ s.amount = Owed(balances, byAmount, s.from, s.to) /\ s.amount > 0
        /\ s = Transfer(balances, byAmount, s.from, s.to)
    BY <1>2, SuggestedAre
  <2>2. PICK a \in 1..Len(debtors) : debtors[a] = s.from
    BY <1>1, <2>1 DEF InOrder, Arranges
  <2>3. PICK b \in 1..Len(creditors) : creditors[b] = s.to
    BY <1>1, <2>1 DEF InOrder, Arranges
  <2>4. a < i \/ b < j
    <3>1. i \in Int /\ j \in Int /\ Len(debtors) \in Nat /\ Len(creditors) \in Nat
      BY <1>1, Elements DEF MatchInv, GreedyInv, Left
    <3> QED  BY <3>1 DEF Running
  <2> QED  BY <1>1, <1>3, <2>1, <2>2, <2>3, <2>4 DEF Recorded
<1> QED  BY <1>2, <1>4, <1>5, <1>6, <1>7, <1>8 DEF Enumerates

LEMMA FinishedMatches == MatchInv => MatchesTransfers
<1> SUFFICES ASSUME MatchInv, ~Running
             PROVE  /\ {transfers[x] : x \in DOMAIN transfers} = Suggested(balances, byAmount)
                    /\ \/ \A u \in Debtors(balances) : Paid(u) = -balances[u]
                       \/ \A u \in Creditors(balances) : Got(u) = balances[u]
                    /\ Sum(balances) = 0 =>
                         \A u \in User : balances[u] + Paid(u) - Got(u) = 0
  BY DEF MatchesTransfers
<1>1. PICK bal : bal = balances  OBVIOUS
<1>2. PICK o : o = byAmount  OBVIOUS
<1>3. PICK N : N = DOMAIN transfers  OBVIOUS
<1>4. PICK ts : ts = transfers  OBVIOUS
<1>5. Enumerates(N, ts, Suggested(bal, o))  BY <1>1, <1>2, <1>3, <1>4, Finished
<1>6. BalanceMap(User, bal)
  BY <1>1, UserAssumption DEF BalanceMap, MatchInv, GreedyInv, Lists
<1>7. {transfers[x] : x \in DOMAIN transfers} = Suggested(balances, byAmount)
  BY <1>1, <1>2, <1>3, <1>4, <1>5 DEF Enumerates
<1>8. \A u : Paid(u) = Sent(N, ts, u) /\ Got(u) = Came(N, ts, u)
  BY <1>3, <1>4, SumIsTotal DEF Paid, Got, Sent, Came
<1>9. Sum(balances) = Total(bal) /\ Total(bal) \in Int
  <2>1. IsFiniteSet(User) /\ bal \in [User -> Int]  BY <1>6 DEF BalanceMap
  <2>2. Total(bal) \in Int  BY <2>1, TotalInt
  <2> QED  BY <1>1, <2>2, SumIsTotal
<1>10. ASSUME Total(bal) >= 0, NEW u \in Debtors(balances) PROVE Paid(u) = -balances[u]
  <2>1. u \in Debtors(bal) /\ Total(bal) >= 0 => Sent(N, ts, u) = -bal[u]
    BY <1>5, <1>6, DebtorsPay
  <2> QED  BY <1>1, <1>8, <1>10, <2>1
<1>11. ASSUME Total(bal) <= 0, NEW u \in Creditors(balances) PROVE Got(u) = balances[u]
  <2>1. u \in Creditors(bal) /\ Total(bal) <= 0 => Came(N, ts, u) = bal[u]
    BY <1>5, <1>6, CreditorsGet
  <2> QED  BY <1>1, <1>8, <1>11, <2>1
<1>12. ASSUME Sum(balances) = 0, NEW u \in User PROVE balances[u] + Paid(u) - Got(u) = 0
  <2>1. u \in User /\ Total(bal) = 0  BY <1>9, <1>12
  <2>2. bal[u] + Sent(N, ts, u) - Came(N, ts, u) = 0
    BY <1>5, <1>6, <2>1, AllSettled
  <2> QED  BY <1>1, <1>8, <2>2
<1>13. Total(bal) >= 0 \/ Total(bal) <= 0  BY <1>9
<1> QED  BY <1>7, <1>10, <1>11, <1>12, <1>13

\* The two-pointer loop ends with exactly the overlaps of the debts and the credits laid
\* end to end; it pays off at least one whole side, and everybody when the balances add
\* up to zero.
THEOREM MatchesTransfersHolds == GreedySpec => []MatchesTransfers
<1> QED  BY FinishedMatches, MatchInvHolds, PTL
=============================================================================
