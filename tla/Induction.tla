----------------------------- MODULE Induction -----------------------------
(***************************************************************************)
(* Induction and recursion over numbers, stated of sets: the provers       *)
(* cannot instantiate the library's induction theorems, whose parameter is *)
(* an operator, but a set of the numbers at which a formula holds says the *)
(* same.  Everything follows from the well-foundedness of < on Nat.        *)
(***************************************************************************)
EXTENDS Integers, FiniteSetTheorems, WellFoundedInduction, TLAPS

(* Every set of numbers that is not empty has a least member.              *)
LEMMA NatLeast ==
    ASSUME NEW S, S \subseteq Nat, S # {}
    PROVE  \E n \in S : \A m \in S : n <= m
<1> DEFINE R == OpToRel(<, Nat)
<1>1. IsWellFoundedOn(R, Nat)
  BY NatLessThanWellFounded
<1>2. \A x \in Nat, y \in Nat : <<y, x>> \in R <=> y < x
  BY DEF OpToRel
<1> HIDE DEF R
<1>3. PICK x \in S : \A y \in S : ~ (<<y, x>> \in R)
  BY <1>1, WFMin
<1>4. \A y \in S : ~ (y < x) /\ x \in Nat /\ y \in Nat
  BY <1>2, <1>3
<1>5. \A y \in S : x <= y
  BY <1>4
<1> QED BY <1>5

(* A set that holds 0 and is closed under successors holds every number.   *)
LEMMA NatInduct ==
    ASSUME NEW S, 0 \in S, \A n \in Nat : n \in S => n + 1 \in S
    PROVE  \A n \in Nat : n \in S
<1> SUFFICES ASSUME Nat \ S # {} PROVE FALSE
  OBVIOUS
<1>1. PICK n \in Nat \ S : \A m \in Nat \ S : n <= m
  BY NatLeast
<1>2. n - 1 \in Nat /\ n - 1 \in S
  BY <1>1
<1> QED BY <1>1, <1>2

(* A number is in S if every smaller one being there puts it there.        *)
LEMMA NatStrongInduct ==
    ASSUME NEW S, \A n \in Nat : (\A m \in 0..(n - 1) : m \in S) => n \in S
    PROVE  \A n \in Nat : n \in S
<1> SUFFICES ASSUME Nat \ S # {} PROVE FALSE
  OBVIOUS
<1>1. PICK n \in Nat \ S : \A m \in Nat \ S : n <= m
  BY NatLeast
<1>2. \A m \in 0..(n - 1) : m \in S
  BY <1>1
<1> QED BY <1>1, <1>2

(* A set of numbers up to n that is not empty has a greatest member.       *)
LEMMA NatGreatest ==
    ASSUME NEW n \in Nat, NEW S, S \subseteq 0..n, S # {}
    PROVE  \E m \in S : \A k \in S : k <= m
<1> DEFINE T == {i \in 0..n : n - i \in S}
<1>1. \A k \in S : k \in Nat /\ k <= n /\ n - k \in 0..n /\ n - (n - k) = k
  OBVIOUS
<1>2. PICK k \in S : TRUE
  OBVIOUS
<1>3. n - k \in T /\ T \subseteq Nat
  BY <1>1, <1>2
<1>4. PICK d \in T : \A i \in T : d <= i
  BY <1>3, NatLeast
<1>5. n - d \in S /\ d \in 0..n
  OBVIOUS
<1>6. ASSUME NEW j \in S PROVE j <= n - d
  <2>1. n - j \in T /\ j \in Nat
    BY <1>1
  <2>2. d <= n - j
    BY <1>4, <2>1
  <2> QED BY <1>5, <2>1, <2>2
<1> QED BY <1>5, <1>6

(* The numbers of a finite set have a bound.                               *)
LEMMA FiniteBounded ==
    ASSUME NEW S, IsFiniteSet(S), S \subseteq Nat
    PROVE  \E m \in Nat : \A x \in S : x <= m
<1>1. PICK n \in Nat : ExistsSurjection(1..n, S)
  BY FS_NatSurjection
<1>2. PICK f \in [1..n -> S] : \A x \in S : \E j \in 1..n : f[j] = x
  BY <1>1 DEF ExistsSurjection, Surjection
<1> DEFINE G == {k \in Nat : k <= n => \E m \in Nat : \A j \in 1..k : f[j] <= m}
<1>3. 0 \in G
  OBVIOUS
<1>4. ASSUME NEW k \in Nat, k \in G PROVE k + 1 \in G
  <2> SUFFICES ASSUME k + 1 <= n PROVE \E m \in Nat : \A j \in 1..(k + 1) : f[j] <= m
    OBVIOUS
  <2>1. PICK m \in Nat : \A j \in 1..k : f[j] <= m
    BY <1>4
  <2>2. f[k + 1] \in Nat /\ \A j \in 1..(k + 1) : f[j] \in Nat /\ (j \in 1..k \/ j = k + 1)
    <3>1. \A j \in 1..n : f[j] \in S
      BY <1>2
    <3>2. \A j \in 1..n : f[j] \in Nat
      BY <3>1
    <3>3. \A j \in 1..(k + 1) : j \in 1..n /\ (j \in 1..k \/ j = k + 1)
      OBVIOUS
    <3> QED BY <3>2, <3>3
  <2>3. \A j \in 1..(k + 1) : f[j] <= m + f[k + 1]
    BY <2>1, <2>2
  <2> QED BY <2>2, <2>3
<1> HIDE DEF G
<1>5. n \in G
  BY <1>3, <1>4, NatInduct
<1>6. PICK m \in Nat : \A j \in 1..n : f[j] <= m
  BY <1>5 DEF G
<1>7. \A x \in S : x <= m
  BY <1>2, <1>6
<1> QED BY <1>7

(* R is a transitive relation that relates any two members of S.           *)
Orders(R, S) ==
    /\ \A x, y \in S : x # y => <<x, y>> \in R \/ <<y, x>> \in R
    /\ \A x, y, z \in S : <<x, y>> \in R /\ <<y, z>> \in R => <<x, z>> \in R

(* A total order has a greatest member in every set of numbers up to n     *)
(* that is not empty.                                                      *)
LEMMA OrderGreatest ==
    ASSUME NEW n \in Nat, NEW S, S \subseteq 1..n, S # {}, NEW R,
           Orders(R, S)
    PROVE  \E m \in S : \A x \in S : x = m \/ <<x, m>> \in R
<1> DEFINE Upto(k) == {x \in S : x <= k}
           G == {k \in Nat : Upto(k) # {} =>
                    \E m \in Upto(k) : \A x \in Upto(k) : x = m \/ <<x, m>> \in R}
<1> USE DEF Orders
<1>0. \A x \in S : x \in Nat /\ 1 <= x /\ x <= n
  OBVIOUS
<1>1. 0 \in G
  <2>1. ASSUME NEW x \in Upto(0) PROVE FALSE
    <3>1. x \in S /\ x <= 0
      OBVIOUS
    <3> QED BY <1>0, <3>1
  <2>2. Upto(0) = {}
    BY <2>1
  <2> QED BY <2>2
<1>2. ASSUME NEW k \in Nat, k \in G PROVE k + 1 \in G
  <2> SUFFICES ASSUME Upto(k + 1) # {}
               PROVE  \E m \in Upto(k + 1) : \A x \in Upto(k + 1) : x = m \/ <<x, m>> \in R
    OBVIOUS
  <2>1. /\ Upto(k + 1) \subseteq Upto(k) \cup {k + 1} /\ Upto(k) \subseteq Upto(k + 1)
        /\ k + 1 \in S => k + 1 \in Upto(k + 1)
    <3>1. \A x \in S : x \in Nat /\ (x <= k + 1 <=> x <= k \/ x = k + 1)
      BY <1>0
    <3> QED BY <3>1
  <2>2. CASE Upto(k) = {}
    <3>1. \A x \in Upto(k + 1) : x = k + 1
      BY <2>1, <2>2
    <3>2. PICK x \in Upto(k + 1) : TRUE
      OBVIOUS
    <3>3. x = k + 1
      BY <3>1, <3>2
    <3> QED BY <3>1, <3>2, <3>3
  <2>3. CASE Upto(k) # {}
    <3>1. PICK m \in Upto(k) : \A x \in Upto(k) : x = m \/ <<x, m>> \in R
      BY <1>2, <2>3
    <3>2. CASE k + 1 \notin S \/ <<k + 1, m>> \in R
      <4>1. \A x \in Upto(k + 1) : x \in Upto(k) \/ (x = k + 1 /\ x \in S)
        BY <2>1
      <4>2. m \in Upto(k + 1)
        BY <2>1, <3>1
      <4> HIDE DEF Upto
      <4> QED BY <3>1, <3>2, <4>1, <4>2
    <3>3. CASE k + 1 \in S /\ <<m, k + 1>> \in R
      <4>1. k + 1 \in Upto(k + 1)
        BY <3>3
      <4>2. \A x \in Upto(k) : <<x, k + 1>> \in R
        BY <3>1, <3>3
      <4>3. \A x \in Upto(k + 1) : x \in Upto(k) \/ x = k + 1
        BY <2>1
      <4> HIDE DEF Upto
      <4> QED BY <4>1, <4>2, <4>3
    <3>4. k + 1 \in S => k + 1 # m
      OBVIOUS
    <3> QED BY <3>2, <3>3, <3>4
  <2> QED BY <2>2, <2>3
<1> HIDE DEF G
<1>3. n \in G
  BY <1>1, <1>2, NatInduct
<1>4. Upto(n) = S
  BY <1>0
<1> QED BY <1>3, <1>4 DEF G

(* The transitive closure of a relation that only leads to smaller numbers *)
(* exists as the function that its recursive definition describes.         *)
LEMMA ClosureExists ==
    ASSUME NEW n \in Nat, NEW P \in [1..n -> SUBSET (1..n)],
           \A y \in 1..n : \A p \in P[y] : p < y
    PROVE  \E f \in [1..n -> SUBSET (1..n)] :
               f = [y \in 1..n |-> P[y] \cup UNION {f[p] : p \in P[y]}]
<1> DEFINE Value(f, y) == P[y] \cup UNION {f[p] : p \in P[y]}
           Good(f, k) == \A y \in 1..n : y <= k => f[y] = Value(f, y)
           G == {k \in Nat : \E f \in [1..n -> SUBSET (1..n)] : Good(f, k)}
<1>1. 0 \in G
  <2>1. [y \in 1..n |-> {}] \in [1..n -> SUBSET (1..n)]
    OBVIOUS
  <2>2. Good([y \in 1..n |-> {}], 0)
    OBVIOUS
  <2> QED BY <2>1, <2>2
<1>2. ASSUME NEW k \in Nat, k \in G PROVE k + 1 \in G
  <2>1. PICK f \in [1..n -> SUBSET (1..n)] : Good(f, k)
    BY <1>2
  <2> DEFINE v == Value(f, k + 1)
             g == [y \in 1..n |-> IF y = k + 1 THEN v ELSE f[y]]
  <2>2. k + 1 \in 1..n => v \in SUBSET (1..n)
    OBVIOUS
  <2> HIDE DEF v
  <2>3. g \in [1..n -> SUBSET (1..n)]
    BY <2>2
  <2>4. ASSUME NEW y \in 1..n, y <= k + 1 PROVE g[y] = Value(g, y)
    <3>1. \A p \in P[y] : p \in 1..n /\ p < y /\ g[p] = f[p]
      BY <2>4
    <3> HIDE DEF g
    <3>2. Value(g, y) = Value(f, y)
      BY <3>1
    <3>3. CASE y = k + 1
      BY <3>2, <3>3 DEF g, v
    <3>4. CASE y # k + 1
      <4>1. y <= k
        BY <2>4, <3>4
      <4>2. f[y] = Value(f, y)
        BY <2>1, <4>1
      <4>3. g[y] = f[y]
        BY <3>4 DEF g
      <4> QED BY <3>2, <4>2, <4>3
    <3> QED BY <3>3, <3>4
  <2> HIDE DEF g
  <2>5. Good(g, k + 1)
    BY <2>4
  <2> QED BY <2>3, <2>5
<1> HIDE DEF G
<1>3. n \in G
  BY <1>1, <1>2, NatInduct
<1>4. PICK f \in [1..n -> SUBSET (1..n)] : Good(f, n)
  BY <1>3 DEF G
<1>5. \A y \in 1..n : f[y] = Value(f, y)
  BY <1>4
<1> QED BY <1>5

(* f goes from base by F, up to n.                                         *)
Recurs(f, base, F, n) == f[0] = base /\ \A k \in 1..n : f[k] = F[<<k, f[k - 1]>>]

(* The function that a recursion over 0..n describes exists.               *)
LEMMA RecursionExists ==
    ASSUME NEW n \in Nat, NEW S, NEW base \in S, NEW F \in [(1..n) \X S -> S]
    PROVE  \E f \in [0..n -> S] : Recurs(f, base, F, n)
<1> DEFINE Good(f, k) == f[0] = base /\ \A j \in 1..n : j <= k => f[j] = F[<<j, f[j - 1]>>]
           G == {k \in Nat : \E f \in [0..n -> S] : Good(f, k)}
<1>1. 0 \in G
  <2>1. PICK f \in [0..n -> S] : f = [j \in 0..n |-> base]
    OBVIOUS
  <2>2. Good(f, 0)
    BY <2>1
  <2> QED BY <2>2
<1>2. ASSUME NEW k \in Nat, k \in G PROVE k + 1 \in G
  <2>1. PICK f \in [0..n -> S] : Good(f, k)
    BY <1>2
  <2>2. CASE k + 1 \in 1..n
    <3>1. PICK v \in S : v = F[<<k + 1, f[k]>>]
      <4>1. f[k] \in S
        BY <2>2
      <4> QED BY <2>2, <4>1
    <3>2. PICK g \in [0..n -> S] : g = [f EXCEPT ![k + 1] = v]
      BY <2>2
    <3>3. g[0] = base
      BY <2>1, <3>2
    <3>4. ASSUME NEW j \in 1..n, j <= k + 1 PROVE g[j] = F[<<j, g[j - 1]>>]
      <4>1. g[j - 1] = f[j - 1]
        BY <3>2, <3>4
      <4>2. CASE j = k + 1
        <5>1. g[j] = v /\ j - 1 = k
          BY <2>2, <3>2, <4>2
        <5> QED BY <3>1, <4>1, <4>2, <5>1
      <4>3. CASE j # k + 1
        <5>1. j <= k /\ g[j] = f[j]
          BY <3>2, <3>4, <4>3
        <5> QED BY <2>1, <4>1, <5>1
      <4> QED BY <4>2, <4>3
    <3> QED BY <3>3, <3>4
  <2>3. CASE k + 1 \notin 1..n
    <3>1. \A j \in 1..n : j <= k + 1 => j <= k
      BY <2>3
    <3> QED BY <2>1, <3>1
  <2> QED BY <2>2, <2>3
<1> HIDE DEF G
<1>3. n \in G
  BY <1>1, <1>2, NatInduct
<1>4. PICK f \in [0..n -> S] : Good(f, n)
  BY <1>3 DEF G
<1>5. Recurs(f, base, F, n)
  BY <1>4 DEF Recurs
<1> QED BY <1>5

(* s lists the members of S in the order of R.                             *)
Lists(s, R, S) ==
    /\ \A i, j \in 1..Cardinality(S) : i < j => <<s[i], s[j]>> \in R
    /\ \A x \in S : \E i \in 1..Cardinality(S) : s[i] = x

(* A finite set of numbers can be listed in the order of a total order.    *)
LEMMA ListingExists ==
    ASSUME NEW n \in Nat, NEW S, S \subseteq 1..n, NEW R,
           Orders(R, S)
    PROVE  /\ Cardinality(S) \in Nat
           /\ \E s \in [1..Cardinality(S) -> S] : Lists(s, R, S)
<1> DEFINE G == {k \in Nat : \A T \in SUBSET S :
                    Cardinality(T) = k => \E s \in [1..k -> T] : Lists(s, R, T)}
<1>1. \A T \in SUBSET S : IsFiniteSet(T)
  <2>1. IsFiniteSet(1..n)
    BY FS_Interval
  <2> QED BY <2>1, FS_Subset
<1>2. 0 \in G
  <2>1. ASSUME NEW T \in SUBSET S, Cardinality(T) = 0
        PROVE  \E s \in [1..0 -> T] : Lists(s, R, T)
    <3>1. T = {}
      BY <1>1, <2>1, FS_EmptySet
    <3>2. [i \in 1..0 |-> 0] \in [1..0 -> T]
      OBVIOUS
    <3>3. Lists([i \in 1..0 |-> 0], R, T)
      BY <2>1, <3>1 DEF Lists
    <3> QED BY <3>2, <3>3
  <2> QED BY <2>1
<1>3. ASSUME NEW k \in Nat, k \in G PROVE k + 1 \in G
  <2>1. ASSUME NEW T \in SUBSET S, Cardinality(T) = k + 1
        PROVE  \E s \in [1..(k + 1) -> T] : Lists(s, R, T)
    <3>1. T # {} /\ T \subseteq 1..n
      BY <2>1, FS_EmptySet
    <3>2. PICK m \in T : \A x \in T : x = m \/ <<x, m>> \in R
      <4>1. Orders(R, T)
        BY DEF Orders
      <4> QED BY <3>1, <4>1, OrderGreatest
    <3>3. Cardinality(T \ {m}) = k
      <4>1. Cardinality(T \ {m}) = (k + 1) - 1
        BY <1>1, <2>1, <3>2, FS_RemoveElement
      <4> QED BY <4>1
    <3>4. PICK s \in [1..k -> T \ {m}] : Lists(s, R, T \ {m})
      BY <1>3, <3>3
    <3> DEFINE g == [i \in 1..(k + 1) |-> IF i = k + 1 THEN m ELSE s[i]]
    <3>5. \A i \in 1..k : s[i] \in T /\ s[i] # m
      BY <3>4
    <3>6. /\ \A i \in 1..k : i \in 1..(k + 1) /\ g[i] = s[i]
          /\ k + 1 \in 1..(k + 1) /\ g[k + 1] = m
          /\ \A i \in 1..(k + 1) : i = k + 1 \/ i \in 1..k
      OBVIOUS
    <3>7. g \in [1..(k + 1) -> T]
      BY <3>2, <3>5, <3>6
    <3> HIDE DEF g
    <3>8. ASSUME NEW i \in 1..(k + 1), NEW j \in 1..(k + 1), i < j PROVE <<g[i], g[j]>> \in R
      <4>1. i \in 1..k /\ g[i] = s[i]
        BY <3>6, <3>8
      <4>2. CASE j = k + 1
        BY <3>2, <3>5, <3>6, <4>1, <4>2
      <4>3. CASE j \in 1..k
        BY <3>3, <3>4, <3>6, <3>8, <4>1, <4>3 DEF Lists
      <4> QED BY <3>6, <4>2, <4>3
    <3>9. ASSUME NEW x \in T PROVE \E i \in 1..(k + 1) : g[i] = x
      <4>1. CASE x = m
        BY <3>6, <4>1
      <4>2. CASE x \in T \ {m}
        BY <3>3, <3>4, <3>6, <4>2 DEF Lists
      <4> QED BY <4>1, <4>2
    <3> QED BY <2>1, <3>7, <3>8, <3>9 DEF Lists
  <2> QED BY <2>1
<1> HIDE DEF G
<1>4. Cardinality(S) \in Nat
  BY <1>1, FS_CardinalityType
<1>5. Cardinality(S) \in G
  BY <1>2, <1>3, <1>4, NatInduct
<1> QED BY <1>4, <1>5 DEF G
=============================================================================
