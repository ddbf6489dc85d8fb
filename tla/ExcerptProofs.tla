---------------------------- MODULE ExcerptProofs ----------------------------
(***************************************************************************)
(* Lemmas about numbers, sequences and their excerpts that the theorems of *)
(* the components rest on: a set of numbers has a least one (which is how  *)
(* an induction is carried out here), what an excerpt holds, and that a    *)
(* recursive function of numbers exists.                                   *)
(***************************************************************************)
EXTENDS Excerpts, FiniteSetTheorems, WellFoundedInduction, TLAPS

-----------------------------------------------------------------------------
(***************************************************************************)
(* Numbers in order.                                                       *)
(***************************************************************************)
(* A set of numbers that is not empty has a least one.                     *)
LEMMA LeastNat ==
    ASSUME NEW T, T \subseteq Nat, T # {}
    PROVE  \E n \in T : \A m \in T : n <= m
<1> DEFINE R == OpToRel(<, Nat)
<1>1. IsWellFoundedOn(R, Nat)
    BY NatLessThanWellFounded
<1>2. \A x, y \in Nat : x < y => <<x, y>> \in R
    BY DEF OpToRel
<1> HIDE DEF R
<1>3. PICK x \in T : \A y \in T : ~ (<<y, x>> \in R)
    BY <1>1, WFMin
<1>4. ASSUME NEW m \in T PROVE x <= m
    <2>1. m \in Nat /\ x \in Nat
        OBVIOUS
    <2>2. ~ (m < x)
        BY <2>1, <1>2, <1>3
    <2> QED
        BY <2>1, <2>2
<1> QED
    BY <1>4

(* ... and, under a bound, a greatest one.                                 *)
LEMMA GreatestNat ==
    ASSUME NEW n \in Nat, NEW T, T \subseteq 0..n, T # {}
    PROVE  \E g \in T : \A m \in T : m <= g
<1> DEFINE U == {n - m : m \in T}
<1>1. U \subseteq Nat /\ U # {}
    <2>1. \A m \in T : n - m \in Nat
        OBVIOUS
    <2> QED
        BY <2>1
<1> HIDE DEF U
<1>2. PICK u \in U : \A v \in U : u <= v
    BY <1>1, LeastNat
<1>3. PICK g \in T : u = n - g
    BY DEF U
<1>4. ASSUME NEW m \in T PROVE m <= g
    <2>1. n - m \in U
        BY DEF U
    <2>2. n - g <= n - m
        BY <2>1, <1>2, <1>3
    <2> QED
        BY <2>2
<1> QED
    BY <1>4

(* Counting the smaller members puts a finite set of numbers in order.     *)
LEMMA Ranks ==
    ASSUME NEW D, D \subseteq Nat, IsFiniteSet(D)
    PROVE  /\ Cardinality(D) \in Nat
           /\ \A n \in 1..Cardinality(D) :
                Nth(D, n) \in D /\ Cardinality({j \in D : j < Nth(D, n)}) = n - 1
           /\ \A d \in D : /\ Cardinality({j \in D : j < d}) + 1 \in 1..Cardinality(D)
                           /\ Nth(D, Cardinality({j \in D : j < d}) + 1) = d
           /\ \A d, e \in D :
                d < e => Cardinality({j \in D : j < d}) < Cardinality({j \in D : j < e})
<1> DEFINE below(d) == {j \in D : j < d}
           c == Cardinality(D)
           rank == [d \in D |-> Cardinality(below(d))]
<1>1. c \in Nat
    BY FS_CardinalityType
<1>2. ASSUME NEW d \in D
      PROVE  IsFiniteSet(below(d)) /\ Cardinality(below(d)) \in 0..(c - 1)
    <2>1. below(d) \in SUBSET D /\ below(d) # D
        OBVIOUS
    <2>2. IsFiniteSet(below(d)) /\ Cardinality(below(d)) <= c /\ Cardinality(below(d)) # c
        BY <2>1, FS_Subset
    <2>3. Cardinality(below(d)) \in Nat
        BY <2>2, FS_CardinalityType
    <2> QED
        BY <1>1, <2>2, <2>3
<1>3. ASSUME NEW d \in D, NEW e \in D, d < e
      PROVE  Cardinality(below(d)) < Cardinality(below(e))
    <2>1. below(d) \in SUBSET below(e) /\ below(d) # below(e)
        <3>1. ASSUME NEW j \in D, j < d PROVE j < e
            <4>1. j \in Nat /\ d \in Nat /\ e \in Nat
                OBVIOUS
            <4> QED
                BY <1>3, <3>1, <4>1
        <3>2. d \in below(e) /\ d \notin below(d)
            <4>1. d \in Nat
                OBVIOUS
            <4> QED
                BY <1>3, <4>1
        <3> QED
            BY <3>1, <3>2
    <2>2. /\ Cardinality(below(d)) <= Cardinality(below(e))
          /\ Cardinality(below(d)) # Cardinality(below(e))
        BY <1>2, <2>1, FS_Subset
    <2> QED
        BY <1>2, <2>2
<1>4. rank \in Injection(D, 0..(c - 1))
    <2>1. rank \in [D -> 0..(c - 1)]
        BY <1>2
    <2>2. ASSUME NEW d \in D, NEW e \in D, d # e PROVE rank[d] # rank[e]
        <3>1. d < e \/ e < d
            <4>1. d \in Nat /\ e \in Nat
                OBVIOUS
            <4> QED
                BY <2>2, <4>1
        <3>2. rank[d] < rank[e] \/ rank[e] < rank[d]
            BY <3>1, <1>3
        <3> QED
            BY <3>2, <1>2
    <2> HIDE DEF rank
    <2> QED
        BY <2>1, <2>2 DEF Injection, IsInjective
<1>5. IsFiniteSet(0..(c - 1)) /\ Cardinality(0..(c - 1)) = c
    <2>1. 0 \in Int /\ c - 1 \in Int
        BY <1>1
    <2>2. /\ IsFiniteSet(0..(c - 1))
          /\ Cardinality(0..(c - 1)) = IF 0 > c - 1 THEN 0 ELSE (c - 1) - 0 + 1
        BY <2>1, FS_Interval
    <2> QED
        BY <1>1, <2>2
<1>6. rank \in Surjection(D, 0..(c - 1))
    BY <1>4, <1>5, FS_Injection
<1>7. ASSUME NEW n \in 1..c PROVE Nth(D, n) \in D /\ Cardinality(below(Nth(D, n))) = n - 1
    <2>1. n - 1 \in 0..(c - 1)
        BY <1>1
    <2>2. PICK d \in D : rank[d] = n - 1
        BY <1>6, <2>1 DEF Surjection
    <2> QED
        BY <2>2 DEF Nth
<1>8. ASSUME NEW d \in D
      PROVE  /\ Cardinality(below(d)) + 1 \in 1..c
             /\ Nth(D, Cardinality(below(d)) + 1) = d
    <2> DEFINE n == Cardinality(below(d)) + 1
    <2>1. n \in 1..c
        BY <1>1, <1>2
    <2>2. Nth(D, n) \in D /\ rank[Nth(D, n)] = rank[d]
        BY <1>2, <1>7, <2>1
    <2> QED
        BY <2>1, <2>2, <1>4 DEF Injection, IsInjective
<1> QED
    BY <1>1, <1>3, <1>7, <1>8

(* What a filter keeps of a list: its elements at the positions kept.      *)
LEMMA ExcerptFacts ==
    ASSUME NEW S, NEW s \in Seq(S), NEW D, D \subseteq DOMAIN s
    PROVE  LET e == Excerpt(s, D) IN
           /\ IsFiniteSet(D) /\ Cardinality(D) \in Nat /\ Cardinality(D) <= Len(s)
           /\ e \in Seq(S) /\ Len(e) = Cardinality(D) /\ DOMAIN e = 1..Cardinality(D)
           /\ \A n \in DOMAIN e : Nth(D, n) \in D /\ e[n] = s[Nth(D, n)]
           /\ \A d \in D : \E n \in DOMAIN e : Nth(D, n) = d
           /\ \A m, n \in DOMAIN e : Nth(D, m) = Nth(D, n) => m = n
<1> DEFINE e == Excerpt(s, D)
           c == Cardinality(D)
<1>1. Len(s) \in Nat /\ DOMAIN s = 1..Len(s) /\ IsFiniteSet(1..Len(s))
      /\ Cardinality(1..Len(s)) = Len(s)
    <2>1. Len(s) \in Nat /\ DOMAIN s = 1..Len(s)
        OBVIOUS
    <2>2. 1 \in Int /\ Len(s) \in Int
        BY <2>1
    <2>3. /\ IsFiniteSet(1..Len(s))
          /\ Cardinality(1..Len(s)) = IF 1 > Len(s) THEN 0 ELSE Len(s) - 1 + 1
        BY <2>2, FS_Interval
    <2> QED
        BY <2>1, <2>3
<1>2. IsFiniteSet(D) /\ c <= Len(s) /\ D \subseteq Nat
    <2>1. D \in SUBSET (1..Len(s))
        BY <1>1
    <2> QED
        BY <1>1, <2>1, FS_Subset
<1>3. /\ c \in Nat
      /\ \A n \in 1..c : Nth(D, n) \in D
      /\ \A d \in D : \E n \in 1..c : Nth(D, n) = d
      /\ \A m, n \in 1..c : Nth(D, m) = Nth(D, n) => m = n
    <2>1. c \in Nat /\ \A n \in 1..c : Cardinality({j \in D : j < Nth(D, n)}) = n - 1
        BY <1>2, Ranks
    <2>2. ASSUME NEW m \in 1..c, NEW n \in 1..c, Nth(D, m) = Nth(D, n) PROVE m = n
        <3>1. m - 1 = n - 1
            BY <2>1, <2>2
        <3> QED
            BY <2>1, <3>1
    <2> QED
        BY <1>2, <2>2, Ranks
<1>4. e = [n \in 1..c |-> s[Nth(D, n)]]
    BY DEF Excerpt
<1>5. e \in [1..c -> S]
    BY <1>1, <1>3, <1>4
<1>6. e \in Seq(S) /\ Len(e) = c /\ DOMAIN e = 1..c
    BY <1>3, <1>4, <1>5
<1> HIDE DEF e, c
<1>7. \A n \in DOMAIN e : Nth(D, n) \in D /\ e[n] = s[Nth(D, n)]
    BY <1>3, <1>4, <1>6
<1>8. \A d \in D : \E n \in DOMAIN e : Nth(D, n) = d
    BY <1>3, <1>6
<1>9. \A m, n \in DOMAIN e : Nth(D, m) = Nth(D, n) => m = n
    BY <1>3, <1>6
<1> QED
    BY <1>2, <1>3, <1>6, <1>7, <1>8, <1>9 DEF e, c

(* The elements of a sequence are elements of its set.                     *)
LEMMA ElementsOf ==
    ASSUME NEW S, NEW q \in Seq(S)
    PROVE  \A i \in DOMAIN q : q[i] \in S
OBVIOUS

-----------------------------------------------------------------------------
(***************************************************************************)
(* Recursive functions.                                                    *)
(***************************************************************************)
(* f starts at c and goes from each number to the next by g.               *)
Recursion(f, S, c, g) ==
    /\ f \in [Nat -> S]
    /\ f = [n \in Nat |-> IF n = 0 THEN c ELSE g[<<n, f[n - 1]>>]]

(* A value at 0 and a step from each number to the next are those of a     *)
(* function on all numbers: of all its beginnings, which agree, put        *)
(* together.                                                               *)
LEMMA RecursiveFunction ==
    ASSUME NEW S, NEW c \in S, NEW g \in [Nat \X S -> S]
    PROVE  \E f : Recursion(f, S, c, g)
<1> DEFINE Good(n, h) == /\ h \in [0..n -> S] /\ h[0] = c
                         /\ \A i \in 1..n : h[i] = g[<<i, h[i - 1]>>]
           H(n) == CHOOSE h : Good(n, h)
           Bad == {n \in Nat : ~ \E h : Good(n, h)}
           Apart == {m \in Nat : \E n \in Nat : m <= n /\ H(n)[m] # H(m)[m]}
           f == [n \in Nat |-> H(n)[n]]
<1>1. Bad = {}
    <2>1. ASSUME Bad # {} PROVE FALSE
        <3>1. PICK n \in Bad : \A m \in Bad : n <= m
            BY <2>1, LeastNat
        <3>2. n \in Nat /\ ~ \E h : Good(n, h)
            BY <3>1
        <3>3. n # 0
            <4>1. Good(0, [i \in 0..0 |-> c])
                OBVIOUS
            <4> QED
                BY <3>2, <4>1
        <3>4. n - 1 \in Nat /\ n - 1 \notin Bad
            BY <3>1, <3>2, <3>3
        <3>5. PICK h : Good(n - 1, h)
            BY <3>4
        <3> DEFINE k == [i \in 0..n |-> IF i = n THEN g[<<n, h[n - 1]>>] ELSE h[i]]
        <3>6. h \in [0..(n - 1) -> S] /\ h[0] = c
              /\ \A i \in 1..(n - 1) : h[i] = g[<<i, h[i - 1]>>]
            BY <3>5
        <3>7. n - 1 \in 0..(n - 1) /\ h[n - 1] \in S /\ g[<<n, h[n - 1]>>] \in S
            BY <3>2, <3>4, <3>6
        <3>8. \A i \in 0..n : i # n => i \in 0..(n - 1) /\ h[i] \in S
            BY <3>2, <3>6
        <3>9. k \in [0..n -> S]
            BY <3>7, <3>8
        <3>10. 0 \in 0..n /\ k[0] = c
            BY <3>2, <3>3, <3>6
        <3>11. \A i \in 1..n : k[i] = g[<<i, k[i - 1]>>]
            <4> TAKE i \in 1..n
            <4>1. i \in 0..n /\ i - 1 \in 0..n /\ i - 1 # n /\ (i # n => i \in 1..(n - 1))
                BY <3>2
            <4>2. k[i - 1] = h[i - 1]
                BY <4>1
            <4> QED
                BY <3>6, <4>1, <4>2
        <3> QED
            BY <3>2, <3>9, <3>10, <3>11
    <2> QED
        BY <2>1
<1>2. \A n \in Nat : Good(n, H(n))
    BY <1>1
<1> HIDE DEF H
<1>3. Apart = {}
    <2>1. ASSUME Apart # {} PROVE FALSE
        <3>1. PICK m \in Apart : \A l \in Apart : m <= l
            BY <2>1, LeastNat
        <3>2. PICK n \in Nat : m <= n /\ H(n)[m] # H(m)[m]
            BY <3>1
        <3>3. m \in Nat /\ Good(m, H(m)) /\ Good(n, H(n))
            BY <1>2, <3>1
        <3>4. m # 0
            BY <3>2, <3>3
        <3>5. m - 1 \in Nat /\ m - 1 \notin Apart
            BY <3>1, <3>3, <3>4
        <3>6. H(n)[m - 1] = H(m - 1)[m - 1] /\ H(m)[m - 1] = H(m - 1)[m - 1]
            BY <3>2, <3>3, <3>5
        <3>7. m \in 1..n /\ m \in 1..m
            BY <3>2, <3>3, <3>4
        <3> QED
            BY <3>2, <3>3, <3>6, <3>7
    <2> QED
        BY <2>1
<1>4. ASSUME NEW n \in Nat
      PROVE  H(n)[n] \in S /\ H(n)[n] = IF n = 0 THEN c ELSE g[<<n, H(n - 1)[n - 1]>>]
    <2>1. Good(n, H(n)) /\ n \in 0..n
        BY <1>2
    <2>2. CASE n = 0
        BY <2>1, <2>2
    <2>3. CASE n # 0
        <3>1. n - 1 \in Nat /\ n - 1 <= n /\ n \in 1..n
            BY <2>3
        <3>2. H(n)[n - 1] = H(n - 1)[n - 1]
            BY <1>3, <3>1
        <3> QED
            BY <2>1, <2>3, <3>1, <3>2
    <2> QED
        BY <2>2, <2>3
<1>5. f \in [Nat -> S]
    BY <1>4
<1>6. ASSUME NEW n \in Nat PROVE f[n] = IF n = 0 THEN c ELSE g[<<n, f[n - 1]>>]
    <2>1. n # 0 => n - 1 \in Nat
        OBVIOUS
    <2> QED
        BY <1>4, <2>1
<1>7. f = [n \in Nat |-> IF n = 0 THEN c ELSE g[<<n, f[n - 1]>>]]
    BY <1>5, <1>6
<1> HIDE DEF f
<1> QED
    BY <1>5, <1>7 DEF Recursion

=============================================================================
