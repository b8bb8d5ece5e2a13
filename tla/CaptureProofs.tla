----------------------------- MODULE CaptureProofs -----------------------------
(* What a capture reports, for every ring, history window, number of captures   *)
(* and clock: the submissions it should (CaptureExact) and an account of their  *)
(* time that adds up (SharesAddUp).                                             *)
EXTENDS Capture, SequenceTheorems, FiniteSetTheorems, WellFoundedInduction, TLAPS

-----------------------------------------------------------------------------
(* Lists in order.                                                         *)

\* q has the n elements of S, by rank.
Lists(q, n, S, rank) ==
  /\ n \in Nat /\ q \in [1 .. n -> S]
  /\ \A x \in S : \E i \in 1 .. n : q[i] = x
  /\ \A i, j \in 1 .. n : i < j => rank[q[i]] < rank[q[j]]

\* What has a rank below k.
RankedBelow(S, rank, k) == {x \in S : rank[x] < k}

\* A set of natural numbers that is not empty has a least element.
LEMMA LeastExists ==
  ASSUME NEW S \in SUBSET Nat, S # {}
  PROVE  \E x \in S : \A y \in S : x <= y
<1> DEFINE Under == OpToRel(<, Nat)
<1>1. \E x \in S : \A y \in S : ~ (<<y, x>> \in Under)
  BY NatLessThanWellFounded, WFMin
<1>2. \A x, y \in Nat : <<y, x>> \in Under <=> y < x
  BY DEF OpToRel
<1> HIDE DEF Under
<1>3. PICK x \in S : \A y \in S : ~ (<<y, x>> \in Under)
  BY <1>1
<1>4. \A y \in S : ~ (y < x)
  BY <1>2, <1>3
<1> QED BY <1>4

\* What has rank k goes to the end of the list of what is below.
LEMMA ListGrows ==
  ASSUME NEW S, NEW K \in Nat, NEW rank \in [S -> 0 .. K], \A a, b \in S : rank[a] = rank[b] => a = b,
         NEW k \in Nat, NEW n, NEW q, Lists(q, n, RankedBelow(S, rank, k), rank)
  PROVE  \E m, p : Lists(p, m, RankedBelow(S, rank, k + 1), rank)
<1>1. CASE \A x \in S : rank[x] # k
  <2>1. RankedBelow(S, rank, k + 1) = RankedBelow(S, rank, k)
    BY <1>1 DEF RankedBelow
  <2> QED BY <2>1
<1>2. ASSUME NEW x \in S, rank[x] = k PROVE \E m, p : Lists(p, m, RankedBelow(S, rank, k + 1), rank)
  <2> DEFINE T == RankedBelow(S, rank, k)
             U == RankedBelow(S, rank, k + 1)
             p == [i \in 1 .. n + 1 |-> IF i = n + 1 THEN x ELSE q[i]]
  <2>1. n \in Nat /\ q \in [1 .. n -> T]
    BY DEF Lists
  <2>2. U = T \cup {x}
    BY <1>2 DEF RankedBelow
  <2>3. \A y \in T : y \in S /\ rank[y] < k
    BY DEF RankedBelow
  <2>4. \A y \in T : \E i \in 1 .. n : q[i] = y
    BY DEF Lists
  <2>5. \A i, j \in 1 .. n : i < j => rank[q[i]] < rank[q[j]]
    BY DEF Lists
  <2> HIDE DEF T, U
  <2>6. \A i \in 1 .. n : p[i] = q[i]
    BY <2>1
  <2>7. p[n + 1] = x /\ n + 1 \in 1 .. n + 1 /\ n + 1 \in Nat
    BY <2>1
  <2>8. p \in [1 .. n + 1 -> U]
    BY <2>1, <2>2
  <2> HIDE DEF p
  <2>9. \A y \in U : \E i \in 1 .. n + 1 : p[i] = y
    <3> SUFFICES ASSUME NEW y \in U PROVE \E i \in 1 .. n + 1 : p[i] = y
      OBVIOUS
    <3>1. CASE y = x
      BY <2>7, <3>1
    <3>2. CASE y \in T
      <4>1. PICK i \in 1 .. n : q[i] = y
        BY <2>4, <3>2
      <4> QED BY <2>1, <2>6, <4>1
    <3> QED BY <2>2, <3>1, <3>2
  <2>10. \A i, j \in 1 .. n + 1 : i < j => rank[p[i]] < rank[p[j]]
    <3> SUFFICES ASSUME NEW i \in 1 .. n + 1, NEW j \in 1 .. n + 1, i < j PROVE rank[p[i]] < rank[p[j]]
      OBVIOUS
    <3>1. i \in 1 .. n /\ p[i] = q[i] /\ q[i] \in T
      BY <2>1, <2>6
    <3>2. CASE j = n + 1
      <4>1. rank[q[i]] < k
        BY <2>3, <3>1
      <4> QED BY <1>2, <2>7, <3>1, <3>2, <4>1
    <3>3. CASE j # n + 1
      <4>1. j \in 1 .. n /\ p[j] = q[j]
        BY <2>1, <2>6, <3>3
      <4> QED BY <2>5, <3>1, <4>1
    <3> QED BY <3>2, <3>3
  <2>11. Lists(p, n + 1, U, rank)
    BY <2>7, <2>8, <2>9, <2>10 DEF Lists
  <2> QED BY <2>11 DEF U
<1> QED BY <1>1, <1>2

\* A set whose ranks are numbers, and different, has a list.
LEMMA ListExists ==
  ASSUME NEW S, NEW K \in Nat, NEW rank \in [S -> 0 .. K], \A a, b \in S : rank[a] = rank[b] => a = b
  PROVE  \E n, q : Lists(q, n, S, rank)
<1> DEFINE listed(k) == \E n, q : Lists(q, n, RankedBelow(S, rank, k), rank)
           without == {k \in Nat : ~listed(k)}
<1>1. listed(0)
  <2> DEFINE e == [i \in 1 .. 0 |-> i]
  <2>1. RankedBelow(S, rank, 0) = {}
    BY DEF RankedBelow
  <2>2. Lists(e, 0, {}, rank)
    BY DEF Lists
  <2> HIDE DEF e
  <2>3. Lists(e, 0, RankedBelow(S, rank, 0), rank)
    BY <2>1, <2>2
  <2> QED BY <2>3
<1>2. \A k \in Nat : listed(k) => listed(k + 1)
  BY ListGrows
<1> HIDE DEF listed
<1>3. without = {}
  <2> SUFFICES ASSUME without # {} PROVE FALSE
    OBVIOUS
  <2>1. PICK k \in without : \A m \in without : k <= m
    BY LeastExists
  <2>2. k # 0 /\ k \in Nat
    BY <1>1, <2>1
  <2>3. k - 1 \in Nat /\ k - 1 \notin without
    BY <2>1, <2>2
  <2>4. listed((k - 1) + 1)
    BY <1>2, <2>3
  <2>5. (k - 1) + 1 = k
    BY <2>2
  <2> QED BY <2>1, <2>4, <2>5
<1>4. listed(K + 1)
  BY <1>3
<1>5. RankedBelow(S, rank, K + 1) = S
  BY DEF RankedBelow
<1> QED BY <1>4, <1>5 DEF listed

\* A list is as long as there are elements.
LEMMA ListCounts ==
  ASSUME NEW S, NEW rank, NEW n, NEW q, Lists(q, n, S, rank), \A x \in S : rank[x] \in Nat
  PROVE  IsFiniteSet(S) /\ Cardinality(S) = n
<1>1. n \in Nat /\ q \in [1 .. n -> S]
  BY DEF Lists
<1>2. \A i, j \in 1 .. n : q[i] = q[j] => i = j
  <2> SUFFICES ASSUME NEW i \in 1 .. n, NEW j \in 1 .. n, q[i] = q[j], i # j PROVE FALSE
    OBVIOUS
  <2>1. i < j \/ j < i
    OBVIOUS
  <2>2. rank[q[i]] < rank[q[j]] \/ rank[q[j]] < rank[q[i]]
    BY <2>1 DEF Lists
  <2>3. rank[q[i]] \in Nat
    BY <1>1
  <2> QED BY <2>2, <2>3
<1>3. q \in Bijection(1 .. n, S)
  BY <1>1, <1>2 DEF Lists, Bijection, Injection, IsInjective, Surjection
<1>4. ExistsBijection(1 .. n, S)
  BY <1>3 DEF ExistsBijection
<1>5. IsFiniteSet(1 .. n) /\ Cardinality(1 .. n) = n
  <2>1. IsFiniteSet(1 .. n) /\ Cardinality(1 .. n) = IF 1 > n THEN 0 ELSE n - 1 + 1
    BY <1>1, FS_Interval
  <2> QED BY <1>1, <2>1
<1> QED BY <1>4, <1>5, FS_Bijection

\* What is below an element.
Under(S, rank, x) == {y \in S : rank[y] < rank[x]}

\* Below the k-th element of a list are the k - 1 before it.
LEMMA ListBelow ==
  ASSUME NEW S, NEW rank, \A x \in S : rank[x] \in Nat, NEW n, NEW q, Lists(q, n, S, rank), NEW k \in 1 .. n
  PROVE  Cardinality(Under(S, rank, q[k])) = k - 1
<1> DEFINE B == Under(S, rank, q[k])
           p == [i \in 1 .. k - 1 |-> q[i]]
<1>1. n \in Nat /\ q \in [1 .. n -> S]
  BY DEF Lists
<1>2. \A i \in 1 .. n : q[i] \in S /\ rank[q[i]] \in Nat
  BY <1>1
<1>3. \A i, j \in 1 .. n : i < j => rank[q[i]] < rank[q[j]]
  BY DEF Lists
<1>4. \A i \in 1 .. k - 1 : i \in 1 .. n /\ q[i] \in B /\ p[i] = q[i]
  BY <1>1, <1>2, <1>3 DEF Under
<1>5. \A y \in B : \E i \in 1 .. k - 1 : q[i] = y
  <2> SUFFICES ASSUME NEW y \in B PROVE \E i \in 1 .. k - 1 : q[i] = y
    OBVIOUS
  <2>0. y \in S
    BY DEF Under
  <2>1. PICK j \in 1 .. n : q[j] = y
    BY <2>0 DEF Lists
  <2>2. ~(k < j) /\ k # j
    <3>1. rank[q[j]] < rank[q[k]]
      BY <2>1 DEF Under
    <3>2. rank[q[j]] \in Nat /\ rank[q[k]] \in Nat
      BY <1>2
    <3> QED BY <1>3, <3>1, <3>2
  <2>3. j \in 1 .. k - 1
    BY <1>1, <2>2
  <2> QED BY <2>1, <2>3
<1> HIDE DEF B
<1>6. p \in [1 .. k - 1 -> B]
  BY <1>4
<1>7. k - 1 \in Nat
  BY <1>1
<1> HIDE DEF p
<1>8. \A i, j \in 1 .. k - 1 : i < j => rank[p[i]] < rank[p[j]]
  BY <1>3, <1>4
<1>9. Lists(p, k - 1, B, rank)
  BY <1>4, <1>5, <1>6, <1>7, <1>8 DEF Lists
<1>10. \A x \in B : rank[x] \in Nat
  BY DEF B, Under
<1> QED BY <1>9, <1>10, ListCounts DEF B

\* InOrder is the list of a set.
LEMMA InOrderIs ==
  ASSUME NEW S, NEW rank, \A x \in S : rank[x] \in Nat, NEW n, NEW q, Lists(q, n, S, rank)
  PROVE  InOrder(S, rank) = q /\ Cardinality(S) = n
<1> DEFINE under(x) == Cardinality(Under(S, rank, x))
<1>1. n \in Nat /\ q \in [1 .. n -> S]
  BY DEF Lists
<1>2. Cardinality(S) = n
  BY ListCounts
<1>3. ASSUME NEW k \in 1 .. n PROVE under(q[k]) = k - 1
  <2>1. Cardinality(Under(S, rank, q[k])) = k - 1
    BY ListBelow
  <2> QED BY <2>1
<1>4. InOrder(S, rank) = [k \in 1 .. n |-> CHOOSE x \in S : under(x) = k - 1]
  BY <1>2 DEF InOrder, Under
<1> HIDE DEF under
<1>5. ASSUME NEW k \in 1 .. n PROVE q[k] = CHOOSE x \in S : under(x) = k - 1
  <2>1. q[k] \in S /\ under(q[k]) = k - 1
    BY <1>1, <1>3
  <2>2. ASSUME NEW x \in S, under(x) = k - 1 PROVE x = q[k]
    <3>1. PICK j \in 1 .. n : q[j] = x
      BY DEF Lists
    <3>2. j - 1 = k - 1
      BY <1>3, <2>2, <3>1
    <3>3. j = k
      BY <1>1, <3>2
    <3> QED BY <3>1, <3>3
  <2> QED BY <2>1, <2>2
<1>6. q = [k \in 1 .. n |-> q[k]]
  BY <1>1
<1>7. InOrder(S, rank) = q
  BY <1>4, <1>5, <1>6
<1> QED BY <1>2, <1>7

-----------------------------------------------------------------------------
(* Lists of numbers.                                                       *)

\* A number is its own rank: a list of numbers that rise.
Itself == [n \in Nat |-> n]
Rising(q, S) == q \in Seq(Nat) /\ Lists(q, Len(q), S, Itself)

\* Two lists, one below the other, make one.
LEMMA JoinRising ==
  ASSUME NEW S, NEW T, NEW p, Rising(p, S), NEW q, Rising(q, T), \A x \in S, y \in T : x < y
  PROVE  Rising(p \o q, S \cup T)
<1> DEFINE m == Len(p)
           n == Len(q)
           r == p \o q
<1>1. p \in Seq(Nat) /\ q \in Seq(Nat) /\ m \in Nat /\ n \in Nat
  BY LenProperties DEF Rising
<1>2. r \in Seq(Nat) /\ Len(r) = m + n
  BY <1>1, ConcatProperties
<1>3. \A i \in 1 .. m + n : r[i] = IF i <= m THEN p[i] ELSE q[i - m]
  BY <1>1, ConcatProperties
<1>4. p \in [1 .. m -> S] /\ p \in [1 .. m -> Nat]
  BY <1>1, LenProperties DEF Rising, Lists
<1>5. q \in [1 .. n -> T] /\ q \in [1 .. n -> Nat]
  BY <1>1, LenProperties DEF Rising, Lists
<1>6. r \in [1 .. m + n -> Nat]
  BY <1>2, LenProperties
<1>7. \A x \in S : \E i \in 1 .. m : p[i] = x
  BY DEF Rising, Lists
<1>8. \A x \in T : \E i \in 1 .. n : q[i] = x
  BY DEF Rising, Lists
<1>9. \A i, j \in 1 .. m : i < j => p[i] < p[j]
  <2>1. \A i, j \in 1 .. m : i < j => Itself[p[i]] < Itself[p[j]]
    BY DEF Rising, Lists
  <2>2. \A i \in 1 .. m : Itself[p[i]] = p[i]
    BY <1>4 DEF Itself
  <2> QED BY <2>1, <2>2
<1>10. \A i, j \in 1 .. n : i < j => q[i] < q[j]
  <2>1. \A i, j \in 1 .. n : i < j => Itself[q[i]] < Itself[q[j]]
    BY DEF Rising, Lists
  <2>2. \A i \in 1 .. n : Itself[q[i]] = q[i]
    BY <1>5 DEF Itself
  <2> QED BY <2>1, <2>2
<1> HIDE DEF r, m, n
<1>11. r \in [1 .. m + n -> S \cup T]
  <2>1. \A i \in 1 .. m + n : r[i] \in S \cup T
    <3> SUFFICES ASSUME NEW i \in 1 .. m + n PROVE r[i] \in S \cup T
      OBVIOUS
    <3>1. CASE i <= m
      BY <1>1, <1>3, <1>4, <3>1
    <3>2. CASE i > m
      <4>1. i - m \in 1 .. n
        BY <1>1, <3>2
      <4> QED BY <1>1, <1>3, <1>5, <3>2, <4>1
    <3> QED BY <1>1, <3>1, <3>2
  <2> QED BY <1>6, <2>1
<1>12. \A x \in S \cup T : \E i \in 1 .. m + n : r[i] = x
  <2>1. ASSUME NEW x \in S PROVE \E i \in 1 .. m + n : r[i] = x
    <3>1. PICK i \in 1 .. m : p[i] = x
      BY <1>7, <2>1
    <3>2. i \in 1 .. m + n /\ i <= m
      BY <1>1
    <3> QED BY <1>3, <3>1, <3>2
  <2>2. ASSUME NEW x \in T PROVE \E i \in 1 .. m + n : r[i] = x
    <3>1. PICK i \in 1 .. n : q[i] = x
      BY <1>8, <2>2
    <3>2. i + m \in 1 .. m + n /\ ~(i + m <= m) /\ (i + m) - m = i
      BY <1>1
    <3> QED BY <1>3, <3>1, <3>2
  <2> QED BY <2>1, <2>2
<1>13. \A i, j \in 1 .. m + n : i < j => r[i] < r[j]
  <2> SUFFICES ASSUME NEW i \in 1 .. m + n, NEW j \in 1 .. m + n, i < j PROVE r[i] < r[j]
    OBVIOUS
  <2>1. CASE j <= m
    <3>1. i \in 1 .. m /\ j \in 1 .. m
      BY <1>1, <2>1
    <3>2. r[i] = p[i] /\ r[j] = p[j]
      BY <1>1, <1>3, <3>1
    <3> QED BY <1>9, <3>1, <3>2
  <2>2. CASE i <= m /\ j > m
    <3>1. i \in 1 .. m /\ j - m \in 1 .. n
      BY <1>1, <2>2
    <3>2. r[i] = p[i] /\ r[j] = q[j - m]
      BY <1>1, <1>3, <2>2
    <3> QED BY <1>4, <1>5, <3>1, <3>2
  <2>3. CASE i > m
    <3>1. i - m \in 1 .. n /\ j - m \in 1 .. n /\ i - m < j - m
      BY <1>1, <2>3
    <3>2. r[i] = q[i - m] /\ r[j] = q[j - m]
      BY <1>1, <1>3, <2>3
    <3> QED BY <1>10, <3>1, <3>2
  <2> QED BY <1>1, <2>1, <2>2, <2>3
<1>14. \A i, j \in 1 .. m + n : i < j => Itself[r[i]] < Itself[r[j]]
  <2>1. \A i \in 1 .. m + n : Itself[r[i]] = r[i]
    BY <1>6 DEF Itself
  <2> QED BY <1>13, <2>1
<1>15. m + n \in Nat
  BY <1>1
<1>16. Lists(r, m + n, S \cup T, Itself)
  BY <1>11, <1>12, <1>14, <1>15 DEF Lists
<1> QED BY <1>2, <1>16 DEF Rising, r

\* What LastOf keeps.
Kept(l, n) == IF l > n THEN n ELSE l

\* LastOf keeps that many, the last ones.
LEMMA LastOfIs ==
  ASSUME NEW s \in Seq(Nat), NEW n \in Nat
  PROVE  /\ LastOf(s, n) \in Seq(Nat) /\ Len(LastOf(s, n)) = Kept(Len(s), n)
         /\ \A i \in 1 .. Kept(Len(s), n) : LastOf(s, n)[i] = s[i + (Len(s) - Kept(Len(s), n))]
<1> DEFINE l == Len(s)
<1>1. l \in Nat /\ s \in [1 .. l -> Nat]
  BY LenProperties
<1>2. CASE l > n
  <2> DEFINE a == l - n + 1
             z == SubSeq(s, a, l)
  <2>1. a \in Int /\ l \in Int /\ \A i \in a .. l : s[i] \in Nat
    BY <1>1, <1>2
  <2>2. z \in Seq(Nat) /\ Len(z) = (IF a <= l THEN l - a + 1 ELSE 0) /\ \A i \in 1 .. l - a + 1 : z[i] = s[a + i - 1]
    <3> HIDE DEF a, l
    <3> QED BY <2>1, SubSeqProperties
  <2> HIDE DEF z
  <2>3. Len(z) = n /\ \A i \in 1 .. n : z[i] = s[i + (l - n)]
    <3>1. l - a + 1 = n
      BY <1>1
    <3>2. Len(z) = n
      BY <1>1, <1>2, <2>2
    <3>3. ASSUME NEW i \in 1 .. n PROVE z[i] = s[i + (l - n)]
      <4>1. a + i - 1 = i + (l - n)
        BY <1>1
      <4>2. z[i] = s[a + i - 1]
        BY <2>2, <3>1
      <4> QED BY <4>1, <4>2
    <3> QED BY <3>2, <3>3
  <2>4. LastOf(s, n) = z /\ Kept(l, n) = n
    BY <1>2 DEF LastOf, Kept, z
  <2> QED BY <2>2, <2>3, <2>4
<1>3. CASE ~(l > n)
  <2>1. LastOf(s, n) = s /\ Kept(l, n) = l
    BY <1>3 DEF LastOf, Kept
  <2>2. \A i \in 1 .. l : i + (l - l) = i
    BY <1>1
  <2> QED BY <2>1, <2>2
<1> QED BY <1>2, <1>3

\* The last of a list that was cut before are the last of all.
LEMMA LastOfJoin ==
  ASSUME NEW s \in Seq(Nat), NEW t \in Seq(Nat), NEW n \in Nat
  PROVE  LastOf(LastOf(s, n) \o t, n) = LastOf(s \o t, n)
<1> DEFINE a == LastOf(s, n)
           l == Len(s)
           u == Len(t)
           k == Kept(l, n)
           b == a \o t
           c == s \o t
           x == LastOf(b, n)
           y == LastOf(c, n)
           e == Kept(k + u, n)
<1>1. l \in Nat /\ u \in Nat
  BY LenProperties
<1>2. a \in Seq(Nat) /\ Len(a) = k /\ \A i \in 1 .. k : a[i] = s[i + (l - k)]
  BY LastOfIs
<1>3. k \in Nat /\ k <= l /\ e \in Nat /\ e <= k + u /\ e = Kept(l + u, n)
  BY <1>1 DEF Kept
<1> HIDE DEF a
<1>4. b \in Seq(Nat) /\ Len(b) = k + u
  BY <1>2, ConcatProperties
<1>5. \A i \in 1 .. k + u : b[i] = IF i <= k THEN a[i] ELSE t[i - k]
  BY <1>2, ConcatProperties
<1>6. c \in Seq(Nat) /\ Len(c) = l + u
  BY ConcatProperties
<1>7. \A i \in 1 .. l + u : c[i] = IF i <= l THEN s[i] ELSE t[i - l]
  BY ConcatProperties
<1> HIDE DEF b, c
<1>8. x \in Seq(Nat) /\ Len(x) = e /\ \A i \in 1 .. e : x[i] = b[i + ((k + u) - e)]
  <2>1. /\ x \in Seq(Nat) /\ Len(x) = Kept(Len(b), n)
        /\ \A i \in 1 .. Kept(Len(b), n) : x[i] = b[i + (Len(b) - Kept(Len(b), n))]
    BY <1>4, LastOfIs
  <2>2. Kept(Len(b), n) = e
    BY <1>4
  <2> HIDE DEF x, e
  <2> QED BY <1>4, <2>1, <2>2
<1>9. y \in Seq(Nat) /\ Len(y) = e /\ \A i \in 1 .. e : y[i] = c[i + ((l + u) - e)]
  <2>1. /\ y \in Seq(Nat) /\ Len(y) = Kept(Len(c), n)
        /\ \A i \in 1 .. Kept(Len(c), n) : y[i] = c[i + (Len(c) - Kept(Len(c), n))]
    BY <1>6, LastOfIs
  <2>2. Kept(Len(c), n) = e
    BY <1>3, <1>6
  <2> HIDE DEF y, e
  <2> QED BY <1>6, <2>1, <2>2
<1> HIDE DEF x, y, k, e, l, u
<1>10. ASSUME NEW i \in 1 .. e PROVE x[i] = y[i]
  <2> DEFINE v == i + ((k + u) - e)
             w == i + ((l + u) - e)
  <2>1. v \in 1 .. k + u /\ w \in 1 .. l + u /\ w = v + (l - k) /\ (v <= k <=> w <= l) /\ v - k = w - l
    BY <1>1, <1>3
  <2>2. x[i] = b[v] /\ y[i] = c[w]
    BY <1>8, <1>9
  <2> HIDE DEF v, w
  <2>3. CASE v <= k
    <3>1. x[i] = a[v] /\ y[i] = s[w]
      BY <1>5, <1>7, <2>1, <2>2, <2>3
    <3>2. v \in 1 .. k
      BY <1>1, <1>3, <2>1, <2>3
    <3> QED BY <1>2, <2>1, <3>1, <3>2
  <2>4. CASE ~(v <= k)
    BY <1>5, <1>7, <2>1, <2>2, <2>4
  <2> QED BY <2>3, <2>4
<1>11. x = y
  BY <1>8, <1>9, <1>10, SeqEqual
<1> QED BY <1>11 DEF x, y, b, c, a

-----------------------------------------------------------------------------
(* The profiler's ring.                                                    *)

\* The types.
Places == 0 .. Slots - 1
SlotTypes == [value : Nat, pending : BOOLEAN, resolved : BOOLEAN]
Windows == [open : {TRUE}, made : Nat, before : SUBSET Nat, profiling : BOOLEAN]

\* Type correctness of the profiler's ring, the timeline and the windows.
CapTyped ==
  /\ profiling \in BOOLEAN /\ limit \in Nat /\ profiled \in Seq(Nat) /\ resolvedCount \in Nat
  /\ ring \in [Places -> SlotTypes] /\ current \in Places
  /\ submitted \in Nat /\ completed \in Nat /\ completed <= submitted
  /\ dispatched \in SUBSET (1 .. submitted)
  /\ recordingOn \in BOOLEAN /\ decided \in SUBSET Nat
  /\ window = Closed \/ window \in Windows

\* A slot whose timestamps are to be read back has some, of a submission of its own.
SlotsTell ==
  /\ \A s \in Places : ring[s].value <= submitted /\ (~ring[s].resolved => ring[s].pending)
  /\ \A s, o \in Places : ~ring[s].resolved /\ ~ring[o].resolved /\ ring[s].value = ring[o].value => s = o

\* The submissions whose timestamps are to be read back, and those of them that
\* the GPU has not reached.
Flying(slots) == {slots[s].value : s \in {s \in Places : ~slots[s].resolved}}
Taken == {ring[s].value : s \in {s \in Places : ~ring[s].resolved /\ ring[s].value <= completed}}
Left == {ring[s].value : s \in {s \in Places : ~ring[s].resolved /\ ring[s].value > completed}}

\* What resolving makes of a slot.
LEMMA SlotResolved ==
  ASSUME CapTyped, SlotsTell, NEW s \in Places
  PROVE  /\ Resolved(s) \in SlotTypes /\ Resolved(s).value = ring[s].value
         /\ Resolved(s).resolved = (~profiling \/ ring[s].resolved \/ ring[s].value <= completed)
         /\ ~Resolved(s).resolved => Resolved(s).pending
<1>1. ring[s] \in SlotTypes /\ DOMAIN ring = Places
  BY DEF CapTyped
<1>2. s \in Ready <=> ~ring[s].resolved /\ ring[s].value <= completed
  BY <1>1 DEF Ready
<1> DEFINE old == ring[s]
           new == [old EXCEPT !.resolved = TRUE, !.pending = FALSE]
<1>3. new \in SlotTypes /\ new.value = old.value /\ new.resolved = TRUE
  BY <1>1 DEF SlotTypes
<1>4. Resolved(s) = IF ~profiling \/ s \in Ready THEN new ELSE old
  BY DEF Resolved
<1>5. old.resolved \in BOOLEAN /\ profiling \in BOOLEAN
  BY <1>1 DEF SlotTypes, CapTyped
<1>6. ~old.resolved => old.pending
  BY DEF SlotsTell
<1> HIDE DEF new
<1>7. CASE ~profiling \/ s \in Ready
  <2>1. Resolved(s) = new
    BY <1>4, <1>7
  <2>2. ~profiling \/ ring[s].resolved \/ ring[s].value <= completed
    BY <1>2, <1>7
  <2> QED BY <1>3, <2>1, <2>2
<1>8. CASE ~(~profiling \/ s \in Ready)
  <2>1. Resolved(s) = old
    BY <1>4, <1>8
  <2>2. profiling /\ (ring[s].resolved \/ ~(ring[s].value <= completed))
    BY <1>2, <1>8
  <2>3. ring[s].resolved = (~profiling \/ ring[s].resolved \/ ring[s].value <= completed)
    BY <1>5, <2>2
  <2> QED BY <1>1, <1>6, <2>1, <2>3
<1> QED BY <1>7, <1>8

\* What the resolution offers is the list of what is ready.
LEMMA OfferedIs ==
  ASSUME CapTyped, SlotsTell, profiling
  PROVE  Rising(Offered, Taken)
<1> DEFINE rank == [s \in Timed |-> ring[s].value]
<1>1. ring \in [Places -> SlotTypes] /\ DOMAIN ring = Places /\ submitted \in Nat
  BY DEF CapTyped
<1>2. Timed = {s \in Places : ~ring[s].resolved /\ ring[s].value <= completed}
  BY <1>1 DEF Timed, Ready, SlotsTell
<1>3. \A s \in Places : ring[s].value \in Nat /\ ring[s].value <= submitted
  BY <1>1 DEF SlotTypes, SlotsTell
<1>4. rank \in [Timed -> 0 .. submitted]
  BY <1>1, <1>2, <1>3
<1>5. \A a, b \in Timed : rank[a] = rank[b] => a = b
  BY <1>2 DEF SlotsTell
<1>6. \A a \in Timed : rank[a] \in Nat /\ rank[a] = ring[a].value /\ a \in Places
  BY <1>2, <1>3
<1>7. OldestFirst(Timed) = InOrder(Timed, rank)
  BY DEF OldestFirst
<1> HIDE DEF rank
<1>8. PICK n, q : Lists(q, n, Timed, rank)
  BY <1>1, <1>4, <1>5, ListExists
<1>9. OldestFirst(Timed) = q /\ Cardinality(Timed) = n
  BY <1>6, <1>7, <1>8, InOrderIs
<1> DEFINE o == [i \in 1 .. n |-> ring[q[i]].value]
<1>10. Offered = o
  BY <1>9 DEF Offered
<1>11. n \in Nat /\ q \in [1 .. n -> Timed]
  BY <1>8 DEF Lists
<1>12. \A i \in 1 .. n : o[i] = ring[q[i]].value /\ q[i] \in Timed
  BY <1>11
<1>13. o \in [1 .. n -> Taken] /\ o \in [1 .. n -> Nat]
  <2>1. \A i \in 1 .. n : ring[q[i]].value \in Taken
    BY <1>2, <1>12 DEF Taken
  <2>2. \A i \in 1 .. n : ring[q[i]].value \in Nat
    BY <1>6, <1>12
  <2> QED BY <2>1, <2>2
<1>14. o \in Seq(Nat) /\ Len(o) = n
  <2> HIDE DEF o
  <2>1. o \in UNION {[1 .. k -> Nat] : k \in Nat}
    BY <1>11, <1>13
  <2>2. o \in Seq(Nat)
    BY <2>1, SeqDef
  <2>3. DOMAIN o = 1 .. Len(o) /\ DOMAIN o = 1 .. n /\ Len(o) \in Nat
    BY <1>13, <2>2, LenProperties
  <2>4. ~(Len(o) > n)
    <3> SUFFICES ASSUME Len(o) > n PROVE FALSE
      OBVIOUS
    <3>1. Len(o) \in 1 .. Len(o) /\ Len(o) \notin 1 .. n
      BY <1>11, <2>3
    <3> QED BY <2>3, <3>1
  <2>5. ~(n > Len(o))
    <3> SUFFICES ASSUME n > Len(o) PROVE FALSE
      OBVIOUS
    <3>1. n \in 1 .. n /\ n \notin 1 .. Len(o)
      BY <1>11, <2>3
    <3> QED BY <2>3, <3>1
  <2>6. n \in Nat /\ Len(o) \in Nat
    BY <1>11, <2>3
  <2>7. Len(o) = n
    BY <2>4, <2>5, <2>6
  <2> QED BY <2>2, <2>7
<1>15. \A v \in Taken : \E i \in 1 .. n : o[i] = v
  <2> SUFFICES ASSUME NEW v \in Taken PROVE \E i \in 1 .. n : o[i] = v
    OBVIOUS
  <2>1. PICK s \in Timed : ring[s].value = v
    BY <1>2 DEF Taken
  <2>2. PICK i \in 1 .. n : q[i] = s
    BY <1>8 DEF Lists
  <2> QED BY <1>12, <2>1, <2>2
<1>16. \A i, j \in 1 .. n : i < j => Itself[o[i]] < Itself[o[j]]
  <2>1. \A i, j \in 1 .. n : i < j => rank[q[i]] < rank[q[j]]
    BY <1>8 DEF Lists
  <2>2. \A i \in 1 .. n : Itself[o[i]] = rank[q[i]]
    <3> SUFFICES ASSUME NEW i \in 1 .. n PROVE Itself[o[i]] = rank[q[i]]
      OBVIOUS
    <3>1. o[i] \in Nat /\ o[i] = rank[q[i]]
      BY <1>6, <1>12
    <3> QED BY <3>1 DEF Itself
  <2> QED BY <2>1, <2>2
<1> HIDE DEF o
<1>17. Lists(o, n, Taken, Itself)
  BY <1>11, <1>13, <1>15, <1>16 DEF Lists
<1> QED BY <1>10, <1>14, <1>17 DEF Rising

\* What is in flight is ready or left.
LEMMA FlightParts ==
  ASSUME CapTyped, SlotsTell
  PROVE  /\ InFlight = Flying(ring) /\ Flying(ring) = Taken \cup Left
         /\ Taken \in SUBSET Nat /\ Left \in SUBSET Nat
         /\ \A v \in Taken : v <= completed
         /\ \A v \in Left : v > completed /\ v <= submitted
<1>1. ring \in [Places -> SlotTypes] /\ DOMAIN ring = Places /\ submitted \in Nat /\ completed \in Nat
  BY DEF CapTyped
<1>2. \A s \in Places : ring[s].value \in Nat /\ ring[s].value <= submitted
  BY <1>1 DEF SlotTypes, SlotsTell
<1>3. InFlight = Flying(ring)
  BY <1>1 DEF InFlight, Flying, SlotsTell
<1>4. \A s \in Places : ring[s].value <= completed \/ ring[s].value > completed
  BY <1>1, <1>2
<1>5. Flying(ring) = Taken \cup Left
  BY <1>4 DEF Flying, Taken, Left
<1> QED BY <1>2, <1>3, <1>5 DEF Taken, Left

\* After a resolution, what the GPU has not reached is left.
LEMMA AllResolved ==
  ASSUME CapTyped, SlotsTell, NEW new, new = [s \in DOMAIN ring |-> Resolved(s)]
  PROVE  /\ new \in [Places -> SlotTypes]
         /\ \A s \in Places : new[s].value <= submitted /\ (~new[s].resolved => new[s].pending)
         /\ \A s, o \in Places : ~new[s].resolved /\ ~new[o].resolved /\ new[s].value = new[o].value => s = o
         /\ profiling => Flying(new) = Left
<1>1. ring \in [Places -> SlotTypes] /\ DOMAIN ring = Places /\ submitted \in Nat /\ completed \in Nat
  BY DEF CapTyped
<1>2. \A s \in Places : new[s] = Resolved(s)
  BY <1>1
<1>3. \A s \in Places : /\ new[s] \in SlotTypes /\ new[s].value = ring[s].value
                        /\ new[s].resolved = (~profiling \/ ring[s].resolved \/ ring[s].value <= completed)
                        /\ ~new[s].resolved => new[s].pending
  BY <1>2, SlotResolved
<1>4. new \in [Places -> SlotTypes]
  BY <1>1, <1>3
<1>5. ASSUME profiling PROVE Flying(new) = Left
  <2>1. \A s \in Places : ring[s].value \in Nat /\ (~(ring[s].value <= completed) <=> ring[s].value > completed)
    BY <1>1 DEF SlotTypes
  <2>2. \A s \in Places : ~new[s].resolved <=> ~ring[s].resolved /\ ring[s].value > completed
    BY <1>3, <1>5, <2>1
  <2>3. {s \in Places : ~new[s].resolved} = {s \in Places : ~ring[s].resolved /\ ring[s].value > completed}
    BY <2>2
  <2> QED BY <1>3, <2>3 DEF Flying, Left
<1> QED BY <1>3, <1>4, <1>5 DEF SlotsTell

\* A recording that is submitted, or aborted, uses a slot the GPU is done with.
LEMMA SlotsAfterWork ==
  ASSUME CapTyped, SlotsTell, CaptureAssumption, NEW d \in BOOLEAN, NEW a \in BOOLEAN, Work(d, a)
  PROVE  /\ ring' \in [Places -> SlotTypes] /\ SlotsTell'
         /\ profiling => Flying(ring') = Left \cup (IF d /\ ~a THEN {submitted + 1} ELSE {})
<1> DEFINE p == NextSlot
           timed == profiling /\ d
           lost == [Resolved(p) EXCEPT !.pending = timed]
           fresh == [value |-> submitted + 1, pending |-> timed, resolved |-> ~timed]
<1>1. /\ ring \in [Places -> SlotTypes] /\ DOMAIN ring = Places /\ submitted \in Nat /\ completed \in Nat
      /\ current \in Places /\ profiling \in BOOLEAN /\ completed <= submitted
  BY DEF CapTyped
<1>2. p \in Places
  BY <1>1 DEF NextSlot, Places, CaptureAssumption
<1>3. /\ ring[p].value <= completed
      /\ ring' = [s \in DOMAIN ring |-> CASE s # p -> Resolved(s) [] s = p /\ a -> lost [] OTHER -> fresh]
      /\ submitted' = IF a THEN submitted ELSE submitted + 1
  BY DEF Work
<1>4. Resolved(p) \in SlotTypes /\ Resolved(p).value = ring[p].value /\ Resolved(p).resolved = TRUE
  BY <1>2, <1>3, SlotResolved
<1>5. lost \in SlotTypes /\ lost.value = ring[p].value /\ lost.resolved = TRUE
  BY <1>1, <1>4 DEF SlotTypes
<1>6. fresh \in SlotTypes /\ fresh.value = submitted + 1 /\ (~fresh.resolved <=> profiling /\ d)
      /\ (~fresh.resolved => fresh.pending)
  <2>1. timed \in BOOLEAN
    BY <1>1
  <2>2. timed <=> profiling /\ d
    OBVIOUS
  <2> HIDE DEF timed
  <2>3. fresh \in SlotTypes /\ fresh.value = submitted + 1
    BY <1>1, <2>1 DEF SlotTypes
  <2>4. fresh.resolved = ~timed /\ fresh.pending = timed
    OBVIOUS
  <2> HIDE DEF fresh
  <2> QED BY <2>2, <2>3, <2>4
<1> HIDE DEF lost, fresh, p
<1>7. \A s \in Places : s # p => ring'[s] = Resolved(s)
  BY <1>1, <1>3
<1>8. ring'[p] = IF a THEN lost ELSE fresh
  BY <1>1, <1>2, <1>3
<1>9. \A s \in Places : s # p =>
        /\ ring'[s] \in SlotTypes /\ ring'[s].value = ring[s].value
        /\ ring'[s].resolved = (~profiling \/ ring[s].resolved \/ ring[s].value <= completed)
        /\ ~ring'[s].resolved => ring'[s].pending
  BY <1>7, SlotResolved
<1>10. /\ ring'[p] \in SlotTypes /\ (~ring'[p].resolved => ring'[p].pending)
       /\ ring'[p].value = IF a THEN ring[p].value ELSE submitted + 1
       /\ ~ring'[p].resolved <=> ~a /\ profiling /\ d
  BY <1>5, <1>6, <1>8
<1>11. \A s \in Places : ring[s].value \in Nat /\ ring[s].value <= submitted
  BY <1>1 DEF SlotTypes, SlotsTell
<1>12. DOMAIN ring' = Places /\ ring' = [s \in Places |-> ring'[s]]
  BY <1>1, <1>3
<1>13. ring' \in [Places -> SlotTypes]
  BY <1>9, <1>10, <1>12
<1>14. SlotsTell'
  <2>1. ASSUME NEW s \in Places PROVE ring'[s].value <= submitted' /\ (~ring'[s].resolved => ring'[s].pending)
    <3>1. submitted' \in Nat /\ submitted' >= submitted /\ (~a => submitted' = submitted + 1)
      BY <1>1, <1>3
    <3>2. CASE s = p
      BY <1>1, <1>2, <1>10, <1>11, <3>1, <3>2
    <3>3. CASE s # p
      BY <1>1, <1>9, <1>11, <3>1, <3>3
    <3> QED BY <3>2, <3>3
  <2>2. ASSUME NEW s \in Places, NEW o \in Places, ~ring'[s].resolved, ~ring'[o].resolved,
               ring'[s].value = ring'[o].value
        PROVE  s = o
    <3>1. \A x \in Places : ~ring'[x].resolved /\ x # p => ring'[x].value <= submitted /\ ~ring[x].resolved
      BY <1>9, <1>11
    <3>2. ~ring'[p].resolved => ring'[p].value = submitted + 1
      BY <1>10
    <3>3. CASE s = p /\ o # p
      BY <1>1, <1>9, <1>11, <2>2, <3>1, <3>2, <3>3
    <3>4. CASE o = p /\ s # p
      BY <1>1, <1>9, <1>11, <2>2, <3>1, <3>2, <3>4
    <3>5. CASE s # p /\ o # p
      <4>1. ~ring[s].resolved /\ ~ring[o].resolved /\ ring[s].value = ring[o].value
        BY <1>9, <2>2, <3>1, <3>5
      <4> QED BY <4>1 DEF SlotsTell
    <3> QED BY <3>3, <3>4, <3>5
  <2> QED BY <2>1, <2>2 DEF SlotsTell
<1>15. ASSUME profiling PROVE Flying(ring') = Left \cup (IF d /\ ~a THEN {submitted + 1} ELSE {})
  <2> DEFINE more == IF d /\ ~a THEN {submitted + 1} ELSE {}
  <2>1. \A s \in Places : s # p => (~ring'[s].resolved <=> ~ring[s].resolved /\ ring[s].value > completed)
    <3> SUFFICES ASSUME NEW s \in Places, s # p
                 PROVE  ~ring'[s].resolved <=> ~ring[s].resolved /\ ring[s].value > completed
      OBVIOUS
    <3>1. ~(ring[s].value <= completed) <=> ring[s].value > completed
      BY <1>1, <1>11
    <3>2. ring'[s].resolved = (~profiling \/ ring[s].resolved \/ ring[s].value <= completed)
      BY <1>9
    <3> QED BY <1>15, <3>1, <3>2
  <2>2. ~(ring[p].value > completed)
    BY <1>1, <1>2, <1>3, <1>11
  <2>3. ASSUME NEW v \in Flying(ring') PROVE v \in Left \cup more
    <3>1. PICK s \in Places : ~ring'[s].resolved /\ ring'[s].value = v
      BY <2>3 DEF Flying
    <3>2. CASE s = p
      <4>1. v = submitted + 1 /\ d /\ ~a
        BY <1>10, <3>1, <3>2
      <4> QED BY <4>1
    <3>3. CASE s # p
      BY <1>9, <2>1, <3>1, <3>3 DEF Left
    <3> QED BY <3>2, <3>3
  <2>4. ASSUME NEW v \in Left PROVE v \in Flying(ring')
    <3>1. PICK s \in Places : ~ring[s].resolved /\ ring[s].value > completed /\ ring[s].value = v
      BY <2>4 DEF Left
    <3>2. s # p
      BY <2>2, <3>1
    <3>3. ~ring'[s].resolved /\ ring'[s].value = v
      BY <1>9, <2>1, <3>1, <3>2
    <3> QED BY <3>3 DEF Flying
  <2>5. ASSUME NEW v \in more PROVE v \in Flying(ring')
    <3>1. v = submitted + 1 /\ d /\ ~a
      BY <2>5
    <3>2. ~ring'[p].resolved /\ ring'[p].value = v
      BY <1>10, <1>15, <3>1
    <3> QED BY <1>2, <3>2 DEF Flying
  <2> HIDE DEF more
  <2>6. Flying(ring') = Left \cup more
    BY <2>3, <2>4, <2>5
  <2> QED BY <2>6 DEF more
<1> QED BY <1>13, <1>14, <1>15

-----------------------------------------------------------------------------
(* A capture.                                                              *)

\* The submissions with a dispatch since the capture began.
Since == {n \in dispatched : n > window.made}

\* What the window holds of what has been resolved: full lists everything that was
\* offered since the capture began, got.
Gathered(full, got) ==
  /\ Rising(full, got) /\ profiled = LastOf(full, limit) /\ resolvedCount = Len(full)
  /\ got \cup Flying(ring) = window.before \cup Since
  /\ \A g \in got, v \in Flying(ring) : g < v
  /\ \A g \in got : g <= submitted

\* An open window has gathered what it should, with what is still in the ring.
WindowCovers ==
  window.open =>
    /\ profiling /\ recordingOn /\ limit # 0 /\ window.made <= submitted
    /\ \A n \in decided : n > window.made
    /\ Since \subseteq decided
    /\ \E full, got : Gathered(full, got)

\* What was captured was made by then.
CapturedMade ==
  captured # NothingCaptured =>
    captured.since \in Nat /\ captured.made \in Nat /\ captured.since + captured.made <= submitted

\* The inductive invariant.
CapInv == CapTyped /\ SlotsTell /\ WindowCovers /\ CapturedMade /\ CaptureExact

\* What CaptureExact says of a capture c when the dispatches have been D.
Due(c, D) == c.before \cup {n \in (c.since + 1) .. (c.since + c.made) : n \in D}
Exactly(c, D) ==
  /\ c.records = LastOf(InOrder(Due(c, D), [n \in Due(c, D) |-> n]), c.limit)
  /\ c.resolved = Cardinality(Due(c, D))
  /\ \A n \in c.decisions : n > c.since
  /\ ((c.since + 1) .. (c.since + c.made)) \cap D \subseteq c.decisions

\* CaptureExact says that of what is captured.
LEMMA ExactlyIs == CaptureExact <=> (captured # NothingCaptured => Exactly(captured, dispatched))
BY DEF CaptureExact, Exactly, Due

\* And of the state after a step.
LEMMA ExactlyNow == CaptureExact' <=> (captured' # NothingCaptured => Exactly(captured', dispatched'))
BY DEF CaptureExact, Exactly, Due

\* Later dispatches are not in an earlier capture.
LEMMA CapturedStays ==
  ASSUME CapTyped, CapturedMade, CaptureExact, captured' = captured,
         submitted' \in Nat, submitted <= submitted', \A n \in 1 .. submitted : n \in dispatched' <=> n \in dispatched
  PROVE  CapturedMade' /\ CaptureExact'
<1> SUFFICES ASSUME captured # NothingCaptured
             PROVE  CapturedMade' /\ Exactly(captured', dispatched')
  BY ExactlyNow DEF CapturedMade
<1> DEFINE c == captured
           made == (c.since + 1) .. (c.since + c.made)
<1>1. c.since \in Nat /\ c.made \in Nat /\ c.since + c.made <= submitted /\ submitted \in Nat
  BY DEF CapturedMade, CapTyped
<1>2. CapturedMade'
  BY <1>1 DEF CapturedMade
<1>3. \A n \in made : n \in 1 .. submitted
  BY <1>1
<1>4. Exactly(c, dispatched)
  BY ExactlyIs
<1>5. Due(c, dispatched') = Due(c, dispatched)
  <2> HIDE DEF made
  <2>1. {n \in made : n \in dispatched'} = {n \in made : n \in dispatched}
    BY <1>3
  <2> QED BY <2>1 DEF Due, made
<1>6. made \cap dispatched' = made \cap dispatched
  <2> HIDE DEF made
  <2> QED BY <1>3
<1>7. Exactly(c, dispatched')
  BY <1>4, <1>5, <1>6 DEF Exactly
<1> QED BY <1>2, <1>7

\* A window that is open is one.
LEMMA OpenWindow ==
  ASSUME CapTyped, window.open
  PROVE  window \in Windows /\ window.made \in Nat /\ window.before \in SUBSET Nat
<1>1. window # Closed
  <2> SUFFICES ASSUME window = Closed PROVE FALSE
    OBVIOUS
  <2>1. window.open = FALSE
    BY DEF Closed
  <2> QED BY <2>1
<1>2. window \in Windows
  BY <1>1 DEF CapTyped
<1> QED BY <1>2 DEF Windows

\* What a resolution adds to the window.
LEMMA ResolutionGathers ==
  ASSUME CapTyped, SlotsTell, profiling, limit # 0, NEW full, NEW got, Gathered(full, got)
  PROVE  \E all, now :
           /\ Rising(all, now) /\ History = LastOf(all, limit) /\ Count = Len(all)
           /\ now \cup Left = window.before \cup Since
           /\ \A g \in now, v \in Left : g < v
           /\ \A g \in now : g <= submitted
<1> DEFINE all == full \o Offered
           now == got \cup Taken
<1>1. Rising(full, got) /\ profiled = LastOf(full, limit) /\ resolvedCount = Len(full)
  BY DEF Gathered
<1>2. Rising(Offered, Taken)
  BY OfferedIs
<1>3. Flying(ring) = Taken \cup Left /\ Taken \in SUBSET Nat /\ Left \in SUBSET Nat
  BY FlightParts
<1>4. \A v \in Taken, w \in Left : v < w
  <2>1. \A v \in Taken : v <= completed
    BY FlightParts
  <2>2. \A v \in Left : v > completed
    BY FlightParts
  <2>3. completed \in Nat
    BY DEF CapTyped
  <2> QED BY <1>3, <2>1, <2>2, <2>3
<1>5. \A g \in got, v \in Taken \cup Left : g < v
  BY <1>3 DEF Gathered
<1>6. Rising(all, got \cup Taken)
  BY <1>1, <1>2, <1>5, JoinRising
<1>7. full \in Seq(Nat) /\ Offered \in Seq(Nat) /\ limit \in Nat
  BY <1>1, <1>2 DEF Rising, CapTyped
<1>8. History = LastOf(all, limit)
  <2>1. History = LastOf(LastOf(full, limit) \o Offered, limit)
    BY <1>1 DEF History
  <2> QED BY <1>7, <2>1, LastOfJoin
<1>9. Count = Len(all)
  BY <1>1, <1>7, ConcatProperties DEF Count
<1>10. (got \cup Taken) \cup Left = window.before \cup Since
  BY <1>3 DEF Gathered
<1> HIDE DEF all
<1>11. \A g \in got \cup Taken, v \in Left : g < v
  BY <1>4, <1>5
<1>12. \A g \in got \cup Taken : g <= submitted
  <2>1. \A v \in Taken : v <= completed
    BY FlightParts
  <2>2. completed \in Nat /\ submitted \in Nat /\ completed <= submitted
    BY DEF CapTyped
  <2>3. \A v \in Taken : v <= submitted
    BY <1>3, <2>1, <2>2
  <2> QED BY <2>3 DEF Gathered
<1> HIDE DEF now
<1>13. /\ Rising(all, now) /\ History = LastOf(all, limit) /\ Count = Len(all)
       /\ now \cup Left = window.before \cup Since
       /\ \A g \in now, v \in Left : g < v
       /\ \A g \in now : g <= submitted
  BY <1>6, <1>8, <1>9, <1>10, <1>11, <1>12 DEF all, now
<1> QED BY <1>13

\* What a resolution leaves of the history has the types of one.
LEMMA HistoryTyped ==
  ASSUME CapTyped, SlotsTell
  PROVE  History \in Seq(Nat) /\ Count \in Nat
<1>1. profiled \in Seq(Nat) /\ limit \in Nat /\ resolvedCount \in Nat /\ profiling \in BOOLEAN
  BY DEF CapTyped
<1>2. Offered \in Seq(Nat)
  <2>1. CASE profiling
    BY <2>1, OfferedIs DEF Rising
  <2>2. CASE ~profiling
    <3>1. Timed = {}
      BY <2>2 DEF Timed
    <3>2. Cardinality(Timed) = 0
      BY <3>1, FS_EmptySet
    <3> DEFINE o == [i \in 1 .. 0 |-> ring[OldestFirst(Timed)[i]].value]
    <3>3. Offered = o
      BY <3>2 DEF Offered
    <3>4. o \in [1 .. 0 -> Nat]
      OBVIOUS
    <3> HIDE DEF o
    <3>5. o \in UNION {[1 .. k -> Nat] : k \in Nat}
      BY <3>4
    <3> QED BY <3>3, <3>5, SeqDef
  <2> QED BY <1>1, <2>1, <2>2
<1>3. Len(Offered) \in Nat
  BY <1>2, LenProperties
<1>4. profiled \o Offered \in Seq(Nat)
  BY <1>1, <1>2, ConcatProperties
<1>5. LastOf(profiled \o Offered, limit) \in Seq(Nat)
  BY <1>1, <1>4, LastOfIs
<1>6. <<>> \in Seq(Nat)
  BY EmptySeq
<1> QED BY <1>1, <1>3, <1>5, <1>6 DEF History, Count

\* A submission or an aborted recording resolves what is ready and keeps the invariant.
LEMMA WorkKeeps ==
  ASSUME CapInv, CaptureAssumption, NEW d \in BOOLEAN, NEW a \in BOOLEAN, Work(d, a)
  PROVE  CapInv'
<1> USE DEF CapInv
<1> DEFINE more == IF d /\ ~a THEN {submitted + 1} ELSE {}
<1>1. /\ submitted \in Nat /\ completed \in Nat /\ completed <= submitted /\ dispatched \in SUBSET (1 .. submitted)
      /\ current \in Places /\ profiling \in BOOLEAN /\ limit \in Nat /\ recordingOn \in BOOLEAN
      /\ decided \in SUBSET Nat /\ (window = Closed \/ window \in Windows)
  BY DEF CapTyped
<1>2. /\ profiled' = History /\ resolvedCount' = Count /\ current' = NextSlot
      /\ submitted' = (IF a THEN submitted ELSE submitted + 1)
      /\ dispatched' = (IF d /\ ~a THEN dispatched \cup {submitted + 1} ELSE dispatched)
      /\ decided' = (IF recordingOn /\ d THEN decided \cup {submitted + 1} ELSE decided)
      /\ profiling' = profiling /\ limit' = limit /\ completed' = completed /\ recordingOn' = recordingOn
      /\ window' = window /\ captured' = captured
  BY DEF Work, Window
<1>3. /\ ring' \in [Places -> SlotTypes] /\ SlotsTell'
      /\ profiling => Flying(ring') = Left \cup more
  BY SlotsAfterWork
<1>4. dispatched' = dispatched \cup more
  BY <1>2
<1>5. submitted' \in Nat /\ submitted <= submitted' /\ (d /\ ~a => submitted' = submitted + 1)
  BY <1>1, <1>2
<1>6. CapTyped'
  <2>1. History \in Seq(Nat) /\ Count \in Nat
    BY HistoryTyped
  <2>2. NextSlot \in Places
    BY <1>1 DEF NextSlot, Places, CaptureAssumption
  <2>3. dispatched' \in SUBSET (1 .. submitted')
    <3>1. 1 .. submitted \subseteq 1 .. submitted'
      BY <1>1, <1>5
    <3>2. more \subseteq 1 .. submitted'
      BY <1>1, <1>5
    <3> HIDE DEF more
    <3> QED BY <1>1, <1>4, <3>1, <3>2
  <2>4. decided' \in SUBSET Nat
    BY <1>1, <1>2
  <2>5. completed' <= submitted'
    BY <1>1, <1>2, <1>5
  <2> QED BY <1>1, <1>2, <1>3, <1>5, <2>1, <2>2, <2>3, <2>4, <2>5 DEF CapTyped
<1>7. WindowCovers'
  <2> SUFFICES ASSUME window.open
               PROVE  /\ profiling' /\ recordingOn' /\ limit' # 0 /\ window'.made <= submitted'
                      /\ \A n \in decided' : n > window'.made
                      /\ Since' \subseteq decided'
                      /\ \E full, got : Gathered(full, got)'
    BY <1>2 DEF WindowCovers
  <2>1. /\ profiling /\ recordingOn /\ limit # 0 /\ window.made <= submitted
        /\ \A n \in decided : n > window.made
        /\ Since \subseteq decided
    BY DEF WindowCovers
  <2>2. window \in Windows /\ window.made \in Nat
    BY OpenWindow
  <2>3. Since' = Since \cup more
    <3>1. Since' = {n \in dispatched' : n > window.made}
      BY <1>2 DEF Since
    <3>2. \A n \in more : n > window.made
      BY <1>1, <2>1, <2>2
    <3> HIDE DEF more
    <3> QED BY <1>4, <3>1, <3>2 DEF Since
  <2>4. PICK full, got : Gathered(full, got)
    BY DEF WindowCovers
  <2>5. PICK all, now :
        /\ Rising(all, now) /\ History = LastOf(all, limit) /\ Count = Len(all)
        /\ now \cup Left = window.before \cup Since
        /\ \A g \in now, v \in Left : g < v
        /\ \A g \in now : g <= submitted
    BY <2>1, <2>4, ResolutionGathers
  <2>6. Flying(ring') = Left \cup more
    BY <1>3, <2>1
  <2>7. \A g \in now : g \in Nat
    BY <2>5, LenProperties DEF Rising, Lists
  <2>8. \A g \in now, v \in Left \cup more : g < v
    BY <1>1, <2>5, <2>7
  <2>9. \A g \in now : g <= submitted'
    BY <1>1, <1>5, <2>5, <2>7
  <2>10. now \cup Flying(ring') = window'.before \cup Since'
    <3> HIDE DEF more
    <3> QED BY <1>2, <2>3, <2>5, <2>6
  <2>11. Gathered(all, now)'
    BY <1>2, <2>5, <2>6, <2>8, <2>9, <2>10 DEF Gathered
  <2>12. \A n \in decided' : n > window'.made
    BY <1>1, <1>2, <2>1, <2>2
  <2>13. Since' \subseteq decided'
    <3>1. more \subseteq decided'
      BY <1>2, <2>1
    <3>2. decided \subseteq decided'
      BY <1>2
    <3> HIDE DEF more
    <3> QED BY <2>1, <2>3, <3>1, <3>2
  <2>14. window'.made <= submitted'
    BY <1>1, <1>2, <1>5, <2>1, <2>2
  <2> QED BY <1>2, <2>1, <2>11, <2>12, <2>13, <2>14
<1>8. CapturedMade' /\ CaptureExact'
  <2>1. \A n \in 1 .. submitted : n \notin more
    BY <1>1
  <2> HIDE DEF more
  <2>2. \A n \in 1 .. submitted : n \in dispatched' <=> n \in dispatched
    BY <1>4, <2>1
  <2> QED BY <1>2, <1>5, <2>2, CapturedStays
<1> QED BY <1>3, <1>6, <1>7, <1>8

\* Reading a result back resolves what is ready and keeps the invariant.
LEMMA ReadBackKeeps ==
  ASSUME CapInv, ReadBack
  PROVE  CapInv'
<1> USE DEF CapInv
<1>1. /\ profiled' = History /\ resolvedCount' = Count /\ ring' = [s \in DOMAIN ring |-> Resolved(s)]
      /\ profiling' = profiling /\ limit' = limit /\ current' = current /\ submitted' = submitted
      /\ completed' = completed /\ dispatched' = dispatched /\ recordingOn' = recordingOn /\ decided' = decided
      /\ window' = window /\ captured' = captured
  BY DEF ReadBack, Window
<1>2. /\ ring' \in [Places -> SlotTypes]
      /\ \A s \in Places : ring'[s].value <= submitted /\ (~ring'[s].resolved => ring'[s].pending)
      /\ \A s, o \in Places : ~ring'[s].resolved /\ ~ring'[o].resolved /\ ring'[s].value = ring'[o].value => s = o
      /\ profiling => Flying(ring') = Left
  BY <1>1, AllResolved
<1>3. SlotsTell'
  BY <1>1, <1>2 DEF SlotsTell
<1>4. CapTyped'
  BY <1>1, <1>2, HistoryTyped DEF CapTyped
<1>5. WindowCovers'
  <2> SUFFICES ASSUME window.open
               PROVE  WindowCovers'
    BY <1>1 DEF WindowCovers
  <2>1. /\ profiling /\ recordingOn /\ limit # 0 /\ window.made <= submitted
        /\ \A n \in decided : n > window.made
        /\ Since \subseteq decided
    BY DEF WindowCovers
  <2>2. PICK full, got : Gathered(full, got)
    BY DEF WindowCovers
  <2>3. PICK all, now :
        /\ Rising(all, now) /\ History = LastOf(all, limit) /\ Count = Len(all)
        /\ now \cup Left = window.before \cup Since
        /\ \A g \in now, v \in Left : g < v
        /\ \A g \in now : g <= submitted
    BY <2>1, <2>2, ResolutionGathers
  <2>4. Flying(ring') = Left
    BY <1>2, <2>1
  <2>5. Since' = Since
    BY <1>1 DEF Since
  <2>6. Gathered(all, now)'
    BY <1>1, <2>3, <2>4, <2>5 DEF Gathered
  <2> QED BY <1>1, <2>1, <2>5, <2>6 DEF WindowCovers
<1>6. CapturedMade' /\ CaptureExact'
  <2>1. submitted' \in Nat /\ submitted <= submitted'
    BY <1>1 DEF CapTyped
  <2> QED BY <1>1, <2>1, CapturedStays
<1> QED BY <1>3, <1>4, <1>5, <1>6

\* A window that opens has gathered nothing: what is in flight is in the ring.
LEMMA EnterKeeps ==
  ASSUME CapInv, CaptureAssumption, NEW n \in HistoryLimits, Enter(n)
  PROVE  CapInv'
<1> USE DEF CapInv
<1> DEFINE w == [open |-> TRUE, made |-> submitted, before |-> InFlight, profiling |-> profiling]
<1>1. /\ profiling' = TRUE /\ limit' = n /\ profiled' = <<>> /\ resolvedCount' = 0
      /\ recordingOn' = TRUE /\ decided' = {} /\ window' = w
      /\ ring' = ring /\ current' = current /\ submitted' = submitted /\ completed' = completed
      /\ dispatched' = dispatched /\ captured' = captured
  BY DEF Enter, Timeline
<1>2. n \in Nat /\ n # 0
  BY DEF CaptureAssumption
<1>3. /\ submitted \in Nat /\ dispatched \in SUBSET (1 .. submitted) /\ profiling \in BOOLEAN
  BY DEF CapTyped
<1>4. InFlight = Flying(ring) /\ InFlight \in SUBSET Nat
  BY FlightParts
<1>5. /\ w \in Windows /\ w.open = TRUE /\ w.made = submitted /\ w.before = InFlight
  BY <1>3, <1>4 DEF Windows
<1> HIDE DEF w
<1>6. SlotsTell'
  BY <1>1 DEF SlotsTell
<1>7. <<>> \in Seq(Nat) /\ Len(<<>>) = 0
  BY EmptySeq
<1>8. CapTyped'
  BY <1>1, <1>2, <1>5, <1>7 DEF CapTyped
<1>9. WindowCovers'
  <2>1. Since' = {}
    <3>1. Since' = {m \in dispatched : m > submitted}
      BY <1>1, <1>5 DEF Since
    <3>2. \A m \in dispatched : ~(m > submitted)
      <4> SUFFICES ASSUME NEW m \in dispatched PROVE ~(m > submitted)
        OBVIOUS
      <4>1. m \in 1 .. submitted
        BY <1>3
      <4> QED BY <1>3, <4>1
    <3> QED BY <3>1, <3>2
  <2>2. Rising(<<>>, {})
    <3> DEFINE e == <<>>
    <3>1. e \in [1 .. 0 -> {}]
      OBVIOUS
    <3>2. e \in Seq(Nat) /\ Len(e) = 0
      BY <1>7
    <3> HIDE DEF e
    <3>3. Lists(e, 0, {}, Itself)
      BY <3>1 DEF Lists
    <3> QED BY <3>2, <3>3 DEF Rising, e
  <2>3. LastOf(<<>>, n) = <<>>
    <3>1. ~(Len(<<>>) > n)
      BY <1>2, <1>7
    <3> QED BY <3>1 DEF LastOf
  <2>4. Flying(ring') = window'.before
    BY <1>1, <1>4, <1>5
  <2>5. Gathered(<<>>, {})'
    BY <1>1, <1>7, <2>1, <2>2, <2>3, <2>4 DEF Gathered
  <2>6. /\ profiling' /\ recordingOn' /\ limit' # 0 /\ window'.made <= submitted' /\ decided' = {}
    BY <1>1, <1>2, <1>3, <1>5
  <2> QED BY <2>1, <2>5, <2>6 DEF WindowCovers
<1>10. CapturedMade' /\ CaptureExact'
  <2>1. submitted' \in Nat /\ submitted <= submitted'
    BY <1>1, <1>3
  <2> QED BY <1>1, <2>1, CapturedStays
<1> QED BY <1>6, <1>8, <1>9, <1>10

\* What the end of a capture takes is what was due.
LEMMA ExitTakesAll ==
  ASSUME CapInv, window.open, Synchronized
  PROVE  LET due == window.before \cup Since
         IN  /\ History = LastOf(InOrder(due, [n \in due |-> n]), limit) /\ Count = Cardinality(due)
<1> USE DEF CapInv
<1> DEFINE due == window.before \cup Since
           id == [n \in due |-> n]
<1>1. PICK full, got : Gathered(full, got)
  BY DEF WindowCovers
<1>2. profiling /\ limit # 0
  BY DEF WindowCovers
<1>3. PICK all, now :
        /\ Rising(all, now) /\ History = LastOf(all, limit) /\ Count = Len(all)
        /\ now \cup Left = due
  BY <1>1, <1>2, ResolutionGathers
<1>4. Left = {}
  <2>1. \A v \in Left : v > completed /\ v <= submitted
    BY FlightParts
  <2>2. Left \in SUBSET Nat
    BY FlightParts
  <2>3. completed = submitted /\ submitted \in Nat
    BY DEF CapTyped, Synchronized
  <2>4. \A v \in Left : FALSE
    BY <2>1, <2>2, <2>3
  <2> QED BY <2>4
<1>5. now = due
  BY <1>3, <1>4
<1> HIDE DEF due
<1>6. Lists(all, Len(all), due, Itself) /\ all \in Seq(Nat)
  BY <1>3, <1>5 DEF Rising
<1>7. Len(all) \in Nat /\ all \in [1 .. Len(all) -> due] /\ all \in [1 .. Len(all) -> Nat]
  BY <1>6, LenProperties DEF Lists
<1>8. \A x \in due : x \in Nat
  BY <1>6, <1>7 DEF Lists
<1>9. \A x \in due : id[x] = x /\ Itself[x] = x /\ id[x] \in Nat
  BY <1>8 DEF Itself
<1> HIDE DEF id
<1>10. Lists(all, Len(all), due, id)
  <2>1. \A i, j \in 1 .. Len(all) : i < j => Itself[all[i]] < Itself[all[j]]
    BY <1>6 DEF Lists
  <2>2. \A i \in 1 .. Len(all) : id[all[i]] = Itself[all[i]]
    BY <1>7, <1>9
  <2>3. \A i, j \in 1 .. Len(all) : i < j => id[all[i]] < id[all[j]]
    BY <2>1, <2>2
  <2> QED BY <1>6, <2>3 DEF Lists
<1>11. \A x \in due : id[x] \in Nat
  BY <1>9
<1>12. InOrder(due, id) = all /\ Cardinality(due) = Len(all)
  BY <1>10, <1>11, InOrderIs
<1>13. History = LastOf(InOrder(due, id), limit) /\ Count = Cardinality(due)
  BY <1>3, <1>12
<1> QED BY <1>13 DEF due, id

\* Closing a window reports what it gathered.
LEMMA ExitKeeps ==
  ASSUME CapInv, Exit
  PROVE  CapInv'
<1> USE DEF CapInv
<1> DEFINE c == [records |-> History, resolved |-> Count, made |-> submitted - window.made, decisions |-> decided,
                 since |-> window.made, before |-> window.before, limit |-> limit]
           due == window.before \cup Since
<1>1. /\ window.open /\ Synchronized /\ captured' = c
      /\ ring' = [s \in DOMAIN ring |-> Resolved(s)] /\ window' = Closed
      /\ limit' = 0 /\ profiled' = <<>> /\ resolvedCount' = 0 /\ recordingOn' = FALSE /\ decided' = {}
      /\ profiling' = profiling /\ current' = current /\ submitted' = submitted
      /\ completed' = completed /\ dispatched' = dispatched
  BY DEF Exit
<1>2. /\ c.records = History /\ c.resolved = Count /\ c.made = submitted - window.made /\ c.decisions = decided
      /\ c.since = window.made /\ c.before = window.before /\ c.limit = limit
  OBVIOUS
<1>3. History = LastOf(InOrder(due, [n \in due |-> n]), limit) /\ Count = Cardinality(due)
  BY <1>1, ExitTakesAll
<1> HIDE DEF c, due
<1>4. /\ submitted \in Nat /\ dispatched \in SUBSET (1 .. submitted) /\ window.made \in Nat
  BY <1>1, OpenWindow DEF CapTyped
<1>5. /\ window.made <= submitted /\ (\A n \in decided : n > window.made) /\ Since \subseteq decided
  BY <1>1 DEF WindowCovers
<1>6. SlotsTell' /\ ring' \in [Places -> SlotTypes]
  <2>1. /\ ring' \in [Places -> SlotTypes]
        /\ \A s \in Places : ring'[s].value <= submitted /\ (~ring'[s].resolved => ring'[s].pending)
        /\ \A s, o \in Places : ~ring'[s].resolved /\ ~ring'[o].resolved /\ ring'[s].value = ring'[o].value => s = o
    BY <1>1, AllResolved
  <2> QED BY <1>1, <2>1 DEF SlotsTell
<1>7. <<>> \in Seq(Nat)
  BY EmptySeq
<1>8. CapTyped'
  BY <1>1, <1>6, <1>7 DEF CapTyped
<1>9. WindowCovers'
  <2>1. Closed.open = FALSE
    BY DEF Closed
  <2> QED BY <1>1, <2>1 DEF WindowCovers
<1> DEFINE made == (c.since + 1) .. (c.since + c.made)
<1>10. c.since \in Nat /\ c.made \in Nat /\ c.since + c.made = submitted
  BY <1>2, <1>4, <1>5
<1>11. CapturedMade'
  BY <1>1, <1>4, <1>10 DEF CapturedMade
<1>12. \A n \in dispatched : n \in made <=> n > window.made
  BY <1>2, <1>4, <1>10
<1> HIDE DEF made
<1>13. {n \in made : n \in dispatched} = Since
  BY <1>12 DEF Since
<1>14. Due(c, dispatched) = due
  BY <1>2, <1>13 DEF Due, due, made
<1>15. made \cap dispatched \subseteq c.decisions
  BY <1>2, <1>5, <1>13
<1>16. Exactly(c, dispatched)
  BY <1>2, <1>3, <1>5, <1>14, <1>15 DEF Exactly, made
<1>17. CaptureExact'
  BY <1>1, <1>16, ExactlyNow
<1> QED BY <1>6, <1>8, <1>9, <1>11, <1>17

\* The other steps of a capture, and the attribution of a report.
LEMMA OthersKeep ==
  ASSUME CapInv, GpuDone \/ ExitRaises \/ (\E on \in BOOLEAN : SetProfiling(on)) \/ (\E ivs : Attribute(ivs))
                 \/ UNCHANGED capVars
  PROVE  CapInv'
<1> USE DEF CapInv
<1>1. /\ ring' = ring /\ current' = current /\ submitted' = submitted /\ dispatched' = dispatched
      /\ limit' = limit /\ profiled' = profiled /\ resolvedCount' = resolvedCount
      /\ recordingOn' = recordingOn /\ decided' = decided /\ captured' = captured
  BY DEF GpuDone, ExitRaises, SetProfiling, Attribute, Profiler, Timeline, Window, capVars
<1>2. /\ completed' = completed \/ (completed < submitted /\ completed' = completed + 1)
      /\ profiling' = profiling \/ (~window.open /\ profiling' \in BOOLEAN)
      /\ window' = window \/ window' = Closed
  BY DEF GpuDone, ExitRaises, SetProfiling, Attribute, Profiler, Timeline, Window, capVars
<1>3. CapTyped'
  <2>1. completed' \in Nat /\ completed' <= submitted
    BY <1>2 DEF CapTyped
  <2>2. profiling' \in BOOLEAN
    BY <1>2 DEF CapTyped
  <2> QED BY <1>1, <1>2, <2>1, <2>2 DEF CapTyped
<1>4. SlotsTell'
  BY <1>1 DEF SlotsTell
<1>5. WindowCovers'
  <2>1. CASE window' = Closed
    <3>1. Closed.open = FALSE
      BY DEF Closed
    <3> QED BY <2>1, <3>1 DEF WindowCovers
  <2>2. CASE window' = window
    <3> SUFFICES ASSUME window.open PROVE WindowCovers'
      BY <2>2 DEF WindowCovers
    <3>1. profiling' = profiling
      BY <1>2
    <3>2. Since' = Since
      BY <1>1, <2>2 DEF Since
    <3>3. PICK full, got : Gathered(full, got)
      BY DEF WindowCovers
    <3>4. Gathered(full, got)'
      BY <1>1, <2>2, <3>2, <3>3 DEF Gathered
    <3>5. /\ profiling /\ recordingOn /\ limit # 0 /\ window.made <= submitted
          /\ (\A n \in decided : n > window.made) /\ Since \subseteq decided
      BY DEF WindowCovers
    <3> QED BY <1>1, <2>2, <3>1, <3>2, <3>4, <3>5 DEF WindowCovers
  <2> QED BY <1>2, <2>1, <2>2
<1>6. CapturedMade' /\ CaptureExact'
  <2>1. submitted' \in Nat /\ submitted <= submitted'
    BY <1>1 DEF CapTyped
  <2> QED BY <1>1, <2>1, CapturedStays
<1> QED BY <1>3, <1>4, <1>5, <1>6

\* The invariant holds at first.
LEMMA CapInitially ==
  ASSUME CapInit, CaptureAssumption
  PROVE  CapInv
<1>1. /\ profiling = FALSE /\ limit = 0 /\ profiled = <<>> /\ resolvedCount = 0
      /\ ring = [s \in Places |-> [value |-> 0, pending |-> FALSE, resolved |-> TRUE]]
      /\ current = 0 /\ submitted = 0 /\ completed = 0 /\ dispatched = {}
      /\ recordingOn = FALSE /\ decided = {} /\ window = Closed /\ captured = NothingCaptured
  BY DEF CapInit, Places
<1>2. \A s \in Places : ring[s] \in SlotTypes /\ ring[s].value = 0 /\ ring[s].resolved = TRUE
  BY <1>1 DEF SlotTypes
<1>3. 0 \in Places
  BY DEF Places, CaptureAssumption
<1>4. <<>> \in Seq(Nat)
  BY EmptySeq
<1>5. ring \in [Places -> SlotTypes]
  BY <1>1, <1>2
<1>6. CapTyped
  <2>1. profiling \in BOOLEAN /\ recordingOn \in BOOLEAN
    BY <1>1
  <2>2. limit \in Nat /\ resolvedCount \in Nat /\ submitted \in Nat /\ completed \in Nat /\ completed <= submitted
    BY <1>1
  <2>3. dispatched \in SUBSET (1 .. submitted) /\ decided \in SUBSET Nat
    BY <1>1
  <2>4. profiled \in Seq(Nat) /\ current \in Places
    BY <1>1, <1>3, <1>4
  <2> QED BY <1>1, <1>5, <2>1, <2>2, <2>3, <2>4 DEF CapTyped
<1>7. SlotsTell
  BY <1>1, <1>2 DEF SlotsTell
<1>8. WindowCovers
  <2>1. Closed.open = FALSE
    BY DEF Closed
  <2> QED BY <1>1, <2>1 DEF WindowCovers
<1>9. CapturedMade /\ CaptureExact
  BY <1>1, ExactlyIs DEF CapturedMade
<1> QED BY <1>6, <1>7, <1>8, <1>9 DEF CapInv

\* capture "Records everything one step publishes": the report of a capture is of
\* the submissions with a dispatch made in its block and of those profiled and in
\* flight when it began, the most recent ones in the order they ran, counted in
\* full, with the decisions of its block alone - for any ring, any history window
\* and any captures, also after aborted recordings and exits that raised.
THEOREM CapturesAreExact == CapSpec => []CaptureExact
<1>1. CapInit => CapInv
  BY CapInitially, CaptureAssumption
<1>2. CapInv /\ [CapNext]_capVars => CapInv'
  <2> SUFFICES ASSUME CapInv, [CapNext]_capVars PROVE CapInv'
    OBVIOUS
  <2>1. CASE \E d, a \in BOOLEAN : Work(d, a)
    BY <2>1, WorkKeeps, CaptureAssumption
  <2>2. CASE ReadBack
    BY <2>2, ReadBackKeeps
  <2>3. CASE \E n \in HistoryLimits : Enter(n)
    BY <2>3, EnterKeeps, CaptureAssumption
  <2>4. CASE Exit
    BY <2>4, ExitKeeps
  <2>5. CASE GpuDone \/ ExitRaises \/ (\E on \in BOOLEAN : SetProfiling(on)) \/ (\E ivs : Attribute(ivs))
             \/ UNCHANGED capVars
    BY <2>5, OthersKeep
  <2> QED BY <2>1, <2>2, <2>3, <2>4, <2>5 DEF CapNext
<1>3. CapInv => CaptureExact
  BY DEF CapInv
<1> QED BY <1>1, <1>2, <1>3, PTL DEF CapSpec

-----------------------------------------------------------------------------
(* The attribution of a report.                                            *)

\* Numbers compare by their first digit.
LEMMA DigitsOrder ==
  ASSUME NEW x \in Nat, NEW y \in Nat, NEW m \in Nat, NEW a \in 0 .. m - 1, NEW b \in Nat, x < y
  PROVE  x * m + a < y * m + b
<1> DEFINE d == y - (x + 1)
<1>1. d \in Nat /\ y = x + 1 + d
  OBVIOUS
<1> HIDE DEF d
<1>2. y * m = x * m + m + d * m
  BY <1>1
<1>3. d * m \in Nat /\ x * m \in Nat
  BY <1>1
<1>4. a < m
  OBVIOUS
<1> QED BY <1>2, <1>3, <1>4

\* What union_ms() and occupancy_share() start from, and one turn of their loops.
Origin(what) ==
  IF what = "union" THEN [total |-> 0, start |-> 0, end |-> 0]
  ELSE [shares |-> [k \in Kernels |-> 0], live |-> [k \in Kernels |-> 0], previous |-> 0]
Turn(what, ivs, x, k) ==
  IF what = "union" THEN Merge(x, ivs[ByStart(ivs)[k]]) ELSE Sweep(x, Events(ivs)[k])
TurnRule(what, ivs, n, f) == [k \in 0 .. n |-> IF k = 0 THEN Origin(what) ELSE Turn(what, ivs, f[k - 1], k)]

\* The recursion of a loop has a solution.
LEMMA TurnsExist ==
  ASSUME NEW what, NEW ivs, NEW n \in Nat
  PROVE  \E f : f = TurnRule(what, ivs, n, f)
<1> DEFINE without == {m \in Nat : ~ \E f : f = TurnRule(what, ivs, m, f)}
<1>1. \E f : f = TurnRule(what, ivs, 0, f)
  <2> DEFINE e == [k \in 0 .. 0 |-> Origin(what)]
  <2>1. e = TurnRule(what, ivs, 0, e)
    BY DEF TurnRule
  <2> QED BY <2>1
<1>2. ASSUME NEW m \in Nat, NEW f, f = TurnRule(what, ivs, m, f) PROVE \E g : g = TurnRule(what, ivs, m + 1, g)
  <2> DEFINE g == [k \in 0 .. m + 1 |-> IF k = m + 1 THEN Turn(what, ivs, f[m], m + 1) ELSE f[k]]
             h == TurnRule(what, ivs, m + 1, g)
  <2>1. \A k \in 0 .. m : g[k] = f[k]
    OBVIOUS
  <2>2. g[m + 1] = Turn(what, ivs, f[m], m + 1)
    OBVIOUS
  <2>3. g = [k \in 0 .. m + 1 |-> g[k]] /\ h = [k \in 0 .. m + 1 |-> h[k]]
    BY DEF TurnRule
  <2>4. \A k \in 0 .. m + 1 : h[k] = IF k = 0 THEN Origin(what) ELSE Turn(what, ivs, g[k - 1], k)
    BY DEF TurnRule
  <2>5. \A k \in 0 .. m : f[k] = IF k = 0 THEN Origin(what) ELSE Turn(what, ivs, f[k - 1], k)
    BY <1>2 DEF TurnRule
  <2> HIDE DEF g, h
  <2>6. ASSUME NEW k \in 0 .. m + 1 PROVE g[k] = h[k]
    <3>1. CASE k = 0
      BY <2>1, <2>4, <2>5, <3>1
    <3>2. CASE k = m + 1
      <4>1. m \in 0 .. m /\ k - 1 = m /\ k # 0
        BY <3>2
      <4> QED BY <2>1, <2>2, <2>4, <3>2, <4>1
    <3>3. CASE k # 0 /\ k # m + 1
      <4>1. k \in 0 .. m /\ k - 1 \in 0 .. m
        BY <3>3
      <4> QED BY <2>1, <2>4, <2>5, <3>3, <4>1
    <3> QED BY <3>1, <3>2, <3>3
  <2>7. g = h
    BY <2>3, <2>6
  <2> QED BY <2>7 DEF h
<1>3. without = {}
  <2> SUFFICES ASSUME without # {} PROVE FALSE
    OBVIOUS
  <2>1. PICK m \in without : \A k \in without : m <= k
    BY LeastExists
  <2>2. m # 0 /\ m \in Nat
    BY <1>1, <2>1
  <2>3. m - 1 \in Nat /\ m - 1 \notin without /\ (m - 1) + 1 = m
    BY <2>1, <2>2
  <2>4. PICK f : f = TurnRule(what, ivs, m - 1, f)
    BY <2>3
  <2>5. \E g : g = TurnRule(what, ivs, (m - 1) + 1, g)
    BY <1>2, <2>3, <2>4
  <2> QED BY <2>1, <2>3, <2>5
<1> QED BY <1>3

\* union_ms() merges one interval after the other.
LEMMA MergedIs ==
  ASSUME NEW ivs, Len(ivs) \in Nat
  PROVE  /\ Merged(ivs)[0] = [total |-> 0, start |-> 0, end |-> 0]
         /\ \A k \in 1 .. Len(ivs) : Merged(ivs)[k] = Merge(Merged(ivs)[k - 1], ivs[ByStart(ivs)[k]])
<1> DEFINE f == Merged(ivs)
           n == Len(ivs)
<1>1. ASSUME NEW acc
      PROVE  TurnRule("union", ivs, n, acc) =
               [k \in 0 .. n |-> IF k = 0 THEN [total |-> 0, start |-> 0, end |-> 0]
                                ELSE Merge(acc[k - 1], ivs[ByStart(ivs)[k]])]
  BY DEF TurnRule, Origin, Turn
<1>2. f = CHOOSE acc : acc = TurnRule("union", ivs, n, acc)
  BY <1>1 DEF Merged
<1>3. f = TurnRule("union", ivs, n, f)
  BY <1>2, TurnsExist
<1> HIDE DEF f
<1>4. \A k \in 0 .. n : f[k] = IF k = 0 THEN Origin("union") ELSE Turn("union", ivs, f[k - 1], k)
  BY <1>3 DEF TurnRule
<1>5. f[0] = Origin("union")
  BY <1>4
<1>6. \A k \in 1 .. n : f[k] = Turn("union", ivs, f[k - 1], k)
  BY <1>4
<1>7. Origin("union") = [total |-> 0, start |-> 0, end |-> 0]
  BY DEF Origin
<1>8. \A x, k : Turn("union", ivs, x, k) = Merge(x, ivs[ByStart(ivs)[k]])
  BY DEF Turn
<1>9. f[0] = [total |-> 0, start |-> 0, end |-> 0] /\ \A k \in 1 .. n : f[k] = Merge(f[k - 1], ivs[ByStart(ivs)[k]])
  BY <1>5, <1>6, <1>7, <1>8
<1> QED BY <1>9 DEF f

\* occupancy_share() takes one event after the other.
LEMMA SweptIs ==
  ASSUME NEW ivs, Len(Events(ivs)) \in Nat
  PROVE  /\ Swept(ivs)[0] = [shares |-> [k \in Kernels |-> 0], live |-> [k \in Kernels |-> 0], previous |-> 0]
         /\ \A k \in 1 .. Len(Events(ivs)) : Swept(ivs)[k] = Sweep(Swept(ivs)[k - 1], Events(ivs)[k])
<1> DEFINE f == Swept(ivs)
           n == Len(Events(ivs))
           o == [shares |-> [k \in Kernels |-> 0], live |-> [k \in Kernels |-> 0], previous |-> 0]
<1>1. ASSUME NEW acc
      PROVE  TurnRule("shares", ivs, n, acc) =
               [k \in 0 .. n |-> IF k = 0 THEN o ELSE Sweep(acc[k - 1], Events(ivs)[k])]
  BY DEF TurnRule, Origin, Turn
<1>2. f = CHOOSE acc : acc = TurnRule("shares", ivs, n, acc)
  BY <1>1 DEF Swept
<1>3. f = TurnRule("shares", ivs, n, f)
  BY <1>2, TurnsExist
<1> HIDE DEF f
<1>4. \A k \in 0 .. n : f[k] = IF k = 0 THEN Origin("shares") ELSE Turn("shares", ivs, f[k - 1], k)
  BY <1>3 DEF TurnRule
<1>5. f[0] = Origin("shares")
  BY <1>4
<1>6. \A k \in 1 .. n : f[k] = Turn("shares", ivs, f[k - 1], k)
  BY <1>4
<1>7. Origin("shares") = o
  BY DEF Origin
<1>8. \A x, k : Turn("shares", ivs, x, k) = Sweep(x, Events(ivs)[k])
  BY DEF Turn
<1> HIDE DEF o
<1>9. f[0] = o /\ \A k \in 1 .. n : f[k] = Sweep(f[k - 1], Events(ivs)[k])
  BY <1>5, <1>6, <1>7, <1>8
<1> QED BY <1>9 DEF f, o

\* The ticks of an interval.
Span(i) == i.start .. (i.end - 1)

\* A run of ticks above a set adds as many as it is long.
LEMMA SpanAdds ==
  ASSUME NEW B \in SUBSET Nat, IsFiniteSet(B), NEW s \in Nat, NEW e \in Nat, s <= e, \A t \in B : t < s
  PROVE  /\ IsFiniteSet(B \cup (s .. (e - 1)))
         /\ Cardinality(B \cup (s .. (e - 1))) = Cardinality(B) + (e - s)
<1> DEFINE R == s .. (e - 1)
<1>1. IsFiniteSet(R) /\ Cardinality(R) = IF s > e - 1 THEN 0 ELSE (e - 1) - s + 1
  BY FS_Interval
<1>2. Cardinality(R) = e - s
  <2> HIDE DEF R
  <2>1. CASE s > e - 1
    BY <1>1, <2>1
  <2>2. CASE ~(s > e - 1)
    BY <1>1, <2>2
  <2> QED BY <2>1, <2>2
<1>3. B \cap R = {}
  OBVIOUS
<1> HIDE DEF R
<1>4. IsFiniteSet(B \cup R) /\ Cardinality(B \cup R) = Cardinality(B) + Cardinality(R) - Cardinality(B \cap R)
  BY <1>1, FS_Union
<1>5. Cardinality(B \cap R) = 0
  BY <1>3, FS_EmptySet
<1>6. Cardinality(B) \in Nat
  BY FS_CardinalityType
<1>7. Cardinality(B \cup R) = Cardinality(B) + (e - s)
  <2> DEFINE c == Cardinality(B)
             r == Cardinality(R)
  <2>1. c \in Nat /\ r = e - s
    BY <1>2, <1>6
  <2>2. Cardinality(B \cup R) = c + r - 0
    BY <1>4, <1>5
  <2> HIDE DEF c, r
  <2>3. Cardinality(B \cup R) = c + (e - s)
    BY <2>1, <2>2
  <2> QED BY <2>3 DEF c
<1> QED BY <1>4, <1>7 DEF R

\* The intervals are those of a report.
LEMMA IntervalIs ==
  ASSUME CaptureAssumption, NEW i \in Intervals
  PROVE  /\ i.start \in Nat /\ i.end \in Nat /\ i.start <= i.end /\ i.end <= Ticks /\ i.key \in Kernels
         /\ Ticks \in Nat
BY DEF Intervals, CaptureAssumption

\* sorted(): every interval, in order of its start.
LEMMA ByStartIs ==
  ASSUME CaptureAssumption, NEW ivs \in Seq(Intervals)
  PROVE  LET q == ByStart(ivs)
             n == Len(ivs)
         IN  /\ q \in [1 .. n -> 1 .. n]
             /\ \A i \in 1 .. n : \E k \in 1 .. n : q[k] = i
             /\ \A j, k \in 1 .. n : j < k => ivs[q[j]].start <= ivs[q[k]].start
<1> DEFINE n == Len(ivs)
           major(i) == ivs[i].start * (Ticks + 1) + ivs[i].end
           rank == [i \in 1 .. n |-> major(i) * (n + 1) + i]
           K == ((Ticks + 1) * (Ticks + 1)) * (n + 1)
<1>1. n \in Nat /\ DOMAIN ivs = 1 .. n /\ \A i \in 1 .. n : ivs[i] \in Intervals
  BY LenProperties, ElementOfSeq
<1>2. Ticks \in Nat
  BY DEF CaptureAssumption
<1>3. \A i \in 1 .. n : /\ ivs[i].start \in Nat /\ ivs[i].end \in Nat
                        /\ ivs[i].start < Ticks + 1 /\ ivs[i].end < Ticks + 1
  <2> HIDE DEF n
  <2> SUFFICES ASSUME NEW i \in 1 .. n
               PROVE  /\ ivs[i].start \in Nat /\ ivs[i].end \in Nat
                      /\ ivs[i].start < Ticks + 1 /\ ivs[i].end < Ticks + 1
    OBVIOUS
  <2> DEFINE v == ivs[i]
  <2>1. v \in Intervals
    BY <1>1
  <2> HIDE DEF v
  <2>2. v.start \in Nat /\ v.end \in Nat /\ v.start <= v.end /\ v.end <= Ticks
    BY <2>1, IntervalIs
  <2>3. v.start < Ticks + 1 /\ v.end < Ticks + 1
    BY <1>2, <2>2
  <2> QED BY <2>2, <2>3 DEF v
<1>4. ASSUME NEW i \in 1 .. n PROVE major(i) \in Nat /\ major(i) < (Ticks + 1) * (Ticks + 1)
  <2> DEFINE s == ivs[i].start
             e == ivs[i].end
  <2>1. s \in Nat /\ e \in Nat /\ s < Ticks + 1 /\ e \in 0 .. (Ticks + 1) - 1 /\ Ticks + 1 \in Nat
    BY <1>2, <1>3
  <2> HIDE DEF s, e
  <2>2. s * (Ticks + 1) + e < (Ticks + 1) * (Ticks + 1) + 0
    BY <2>1, DigitsOrder
  <2>3. s * (Ticks + 1) \in Nat /\ (Ticks + 1) * (Ticks + 1) \in Nat
    BY <2>1
  <2>4. s * (Ticks + 1) + e \in Nat /\ s * (Ticks + 1) + e < (Ticks + 1) * (Ticks + 1)
    BY <2>1, <2>2, <2>3
  <2> QED BY <2>4 DEF s, e
<1>5. ASSUME NEW i \in 1 .. n, NEW j \in 1 .. n, ivs[i].start < ivs[j].start PROVE major(i) < major(j)
  <2> DEFINE s == ivs[i].start
             e == ivs[i].end
             u == ivs[j].start
             v == ivs[j].end
  <2>1. s \in Nat /\ u \in Nat /\ e \in 0 .. (Ticks + 1) - 1 /\ v \in Nat /\ Ticks + 1 \in Nat /\ s < u
    BY <1>2, <1>3, <1>5
  <2> HIDE DEF s, e, u, v
  <2>2. s * (Ticks + 1) + e < u * (Ticks + 1) + v
    BY <2>1, DigitsOrder
  <2> QED BY <2>2 DEF s, e, u, v
<1> HIDE DEF major
<1>6. \A i \in 1 .. n : rank[i] = major(i) * (n + 1) + i
  OBVIOUS
<1>7. (Ticks + 1) * (Ticks + 1) \in Nat
  BY <1>2
<1> DEFINE T == (Ticks + 1) * (Ticks + 1)
<1> HIDE DEF n, rank, T
<1>8. K \in Nat /\ n + 1 \in Nat
  BY <1>1, <1>7 DEF T
<1>9. ASSUME NEW i \in 1 .. n PROVE rank[i] \in Nat /\ rank[i] <= K
  <2>1. major(i) \in Nat /\ major(i) < T /\ T \in Nat /\ i \in 0 .. (n + 1) - 1
    BY <1>1, <1>4, <1>7 DEF T
  <2>2. major(i) * (n + 1) + i < T * (n + 1) + 0
    BY <1>8, <2>1, DigitsOrder
  <2>3. major(i) * (n + 1) \in Nat /\ T * (n + 1) \in Nat
    BY <1>8, <2>1
  <2>4. K = T * (n + 1)
    BY DEF T
  <2> HIDE DEF K
  <2> QED BY <1>6, <2>1, <2>2, <2>3, <2>4
<1>10. ASSUME NEW i \in 1 .. n, NEW j \in 1 .. n, major(i) < major(j) PROVE rank[i] < rank[j]
  <2>1. major(i) \in Nat /\ major(j) \in Nat /\ i \in 0 .. (n + 1) - 1 /\ j \in Nat
    BY <1>1, <1>4
  <2>2. major(i) * (n + 1) + i < major(j) * (n + 1) + j
    BY <1>8, <1>10, <2>1, DigitsOrder
  <2> QED BY <1>6, <2>2
<1>11. ASSUME NEW i \in 1 .. n, NEW j \in 1 .. n, rank[i] = rank[j] PROVE i = j
  <2>1. major(i) \in Nat /\ major(j) \in Nat /\ rank[i] \in Nat /\ rank[j] \in Nat
    BY <1>4, <1>9
  <2>2. major(i) = major(j)
    BY <1>10, <1>11, <2>1
  <2>3. rank[i] = major(i) * (n + 1) + i /\ rank[j] = major(i) * (n + 1) + j /\ major(i) * (n + 1) \in Nat
    BY <1>6, <1>8, <2>1, <2>2
  <2> DEFINE x == major(i) * (n + 1)
  <2>4. rank[i] = x + i /\ rank[j] = x + j /\ x \in Nat
    BY <2>3
  <2> HIDE DEF x
  <2>5. i \in Int /\ j \in Int
    BY <1>1
  <2>6. x + i = x + j
    BY <1>11, <2>4
  <2>7. x \in Int
    BY <2>4
  <2> QED BY <2>5, <2>6, <2>7
<1>12. rank \in [1 .. n -> 0 .. K]
  <2>1. rank = [i \in 1 .. n |-> rank[i]]
    BY DEF rank
  <2>2. \A i \in 1 .. n : rank[i] \in 0 .. K
    BY <1>8, <1>9
  <2> QED BY <2>1, <2>2
<1>13. PICK m, q : Lists(q, m, 1 .. n, rank)
  <2> HIDE DEF K
  <2> QED BY <1>8, <1>11, <1>12, ListExists
<1>14. \A x \in 1 .. n : rank[x] \in Nat
  BY <1>9
<1>15. InOrder(1 .. n, rank) = q /\ Cardinality(1 .. n) = m
  BY <1>13, <1>14, InOrderIs
<1>16. Cardinality(1 .. n) = n
  <2>1. Cardinality(1 .. n) = IF 1 > n THEN 0 ELSE n - 1 + 1
    BY <1>1, FS_Interval
  <2> QED BY <1>1, <2>1
<1>17. ByStart(ivs) = q
  <2>1. rank = [i \in DOMAIN ivs |-> (ivs[i].start * (Ticks + 1) + ivs[i].end) * (Len(ivs) + 1) + i]
    BY <1>1 DEF rank, major, n
  <2> QED BY <1>1, <1>15, <2>1 DEF ByStart
<1>18. /\ q \in [1 .. n -> 1 .. n]
       /\ \A i \in 1 .. n : \E k \in 1 .. n : q[k] = i
       /\ \A j, k \in 1 .. n : j < k => rank[q[j]] < rank[q[k]]
  BY <1>13, <1>15, <1>16 DEF Lists
<1>19. ASSUME NEW j \in 1 .. n, NEW k \in 1 .. n, j < k PROVE ivs[q[j]].start <= ivs[q[k]].start
  <2> DEFINE a == q[j]
             b == q[k]
  <2>1. a \in 1 .. n /\ b \in 1 .. n /\ rank[a] < rank[b]
    BY <1>18, <1>19
  <2> HIDE DEF a, b
  <2>2. ~(rank[b] < rank[a])
    BY <1>9, <2>1
  <2>3. ~(ivs[b].start < ivs[a].start)
    BY <1>5, <1>10, <2>1, <2>2
  <2>4. ivs[a].start <= ivs[b].start
    BY <1>3, <2>1, <2>3
  <2> QED BY <2>4 DEF a, b
<1> QED BY <1>17, <1>18, <1>19 DEF n

\* What union_ms() has merged: a set of ticks before the interval it holds.
Fits(m, C) ==
  /\ m.total \in Nat /\ m.start \in Nat /\ m.end \in Nat /\ m.start <= m.end
  /\ \E B \in SUBSET Nat : /\ IsFiniteSet(B) /\ Cardinality(B) = m.total
                           /\ \A t \in B : t < m.start
                           /\ C = B \cup Span(m)

\* What is merged is as long as its ticks are many.
LEMMA FitsCounts ==
  ASSUME NEW m, NEW C, Fits(m, C)
  PROVE  IsFiniteSet(C) /\ C \in SUBSET Nat /\ Cardinality(C) = m.total + m.end - m.start
<1>1. PICK B \in SUBSET Nat : /\ IsFiniteSet(B) /\ Cardinality(B) = m.total
                              /\ \A t \in B : t < m.start
                              /\ C = B \cup Span(m)
  BY DEF Fits
<1>2. m.total \in Nat /\ m.start \in Nat /\ m.end \in Nat /\ m.start <= m.end
  BY DEF Fits
<1> DEFINE s == m.start
           e == m.end
           R == B \cup (s .. (e - 1))
<1>3. C = R
  BY <1>1 DEF Span
<1>4. s \in Nat /\ e \in Nat /\ s <= e /\ \A t \in B : t < s
  BY <1>1, <1>2
<1>5. (s .. (e - 1)) \in SUBSET Nat
  BY <1>4
<1> HIDE DEF s, e
<1>6. IsFiniteSet(R) /\ Cardinality(R) = Cardinality(B) + (e - s)
  BY <1>1, <1>4, SpanAdds
<1>7. R \in SUBSET Nat
  BY <1>1, <1>5
<1>8. Cardinality(B) = m.total
  BY <1>1
<1> HIDE DEF R
<1>9. Cardinality(C) = m.total + (e - s)
  BY <1>3, <1>6, <1>8
<1>10. m.total \in Nat
  BY <1>2
<1>11. Cardinality(C) = m.total + e - s
  BY <1>4, <1>9, <1>10
<1> QED BY <1>3, <1>6, <1>7, <1>11 DEF s, e

\* Merging the next interval adds its ticks.
LEMMA MergeFits ==
  ASSUME NEW m, NEW C, Fits(m, C), NEW i, i.start \in Nat, i.end \in Nat, i.start <= i.end, m.start <= i.start,
         m = [total |-> m.total, start |-> m.start, end |-> m.end]
  PROVE  LET r == Merge(m, i)
         IN  Fits(r, C \cup Span(i)) /\ r.start <= i.start /\ r = [total |-> r.total, start |-> r.start, end |-> r.end]
<1>1. PICK B \in SUBSET Nat : /\ IsFiniteSet(B) /\ Cardinality(B) = m.total
                              /\ \A t \in B : t < m.start
                              /\ C = B \cup Span(m)
  BY DEF Fits
<1>2. m.total \in Nat /\ m.start \in Nat /\ m.end \in Nat /\ m.start <= m.end
  BY DEF Fits
<1> DEFINE r == Merge(m, i)
<1>3. CASE i.start <= m.end
  <2> DEFINE z == IF i.end > m.end THEN i.end ELSE m.end
  <2>1. r = [total |-> m.total, start |-> m.start, end |-> z]
    <3>1. r = [m EXCEPT !.end = z]
      BY <1>3 DEF Merge
    <3> QED BY <3>1
  <2>2. r.total = m.total /\ r.start = m.start /\ r.end = z
    BY <2>1
  <2>3. z \in Nat /\ z >= m.end /\ z >= i.end /\ (z = m.end \/ z = i.end)
    BY <1>2
  <2>4. Span(m) \cup Span(i) = m.start .. (z - 1)
    BY <1>2, <1>3, <2>3 DEF Span
  <2> HIDE DEF z
  <2>5. Span(r) = m.start .. (z - 1)
    BY <2>2 DEF Span
  <2>6. C \cup Span(i) = B \cup Span(r)
    BY <1>1, <2>4, <2>5
  <2> HIDE DEF r
  <2>7. Fits(r, C \cup Span(i))
    <3>1. r.start <= r.end
      BY <1>2, <2>2, <2>3
    <3>2. r.total \in Nat /\ r.start \in Nat /\ r.end \in Nat
      BY <1>2, <2>2, <2>3
    <3>3. /\ IsFiniteSet(B) /\ Cardinality(B) = r.total
          /\ \A t \in B : t < r.start
          /\ C \cup Span(i) = B \cup Span(r)
      BY <1>1, <2>2, <2>6
    <3> QED BY <3>1, <3>2, <3>3 DEF Fits
  <2>8. r.start <= i.start
    BY <2>2
  <2>9. r = [total |-> r.total, start |-> r.start, end |-> r.end]
    BY <2>1, <2>2
  <2> QED BY <2>7, <2>8, <2>9 DEF r
<1>4. CASE ~(i.start <= m.end)
  <2>1. r = [total |-> m.total + m.end - m.start, start |-> i.start, end |-> i.end]
    BY <1>4 DEF Merge
  <2>2. r.total = m.total + m.end - m.start /\ r.start = i.start /\ r.end = i.end
    BY <2>1
  <2> HIDE DEF r
  <2>3. IsFiniteSet(C) /\ C \in SUBSET Nat /\ Cardinality(C) = r.total
    BY <2>2, FitsCounts
  <2>4. ASSUME NEW t \in C PROVE t < r.start
    <3>1. t \in Nat /\ (t < m.start \/ t \in m.start .. (m.end - 1))
      BY <1>1, <2>3 DEF Span
    <3> QED BY <1>2, <1>4, <2>2, <3>1
  <2>5. Span(r) = Span(i)
    BY <2>2 DEF Span
  <2>6. r.total \in Nat
    <3>1. m.end - m.start \in Nat
      BY <1>2
    <3> QED BY <1>2, <2>2, <3>1
  <2>7. Fits(r, C \cup Span(i))
    <3>1. r.start \in Nat /\ r.end \in Nat /\ r.start <= r.end
      BY <2>2
    <3> QED BY <2>3, <2>4, <2>5, <2>6, <3>1 DEF Fits
  <2>8. r.start <= i.start
    BY <2>2
  <2>9. r = [total |-> r.total, start |-> r.start, end |-> r.end]
    BY <2>1, <2>2
  <2> QED BY <2>7, <2>8, <2>9 DEF r
<1> QED BY <1>3, <1>4

\* The ticks of the first intervals by start.
Reach(ivs, k) == UNION {Span(ivs[ByStart(ivs)[j]]) : j \in 1 .. k}

\* union_ms() after k intervals.
MergedTo(ivs, k) ==
  LET m == Merged(ivs)[k]
  IN  /\ Fits(m, Reach(ivs, k))
      /\ m = [total |-> m.total, start |-> m.start, end |-> m.end]
      /\ \A j \in k + 1 .. Len(ivs) : m.start <= ivs[ByStart(ivs)[j]].start

\* union_ms() counts the ticks of the intervals it has merged.
LEMMA MergedCounts ==
  ASSUME CaptureAssumption, NEW ivs \in Seq(Intervals)
  PROVE  \A k \in 0 .. Len(ivs) : MergedTo(ivs, k)
<1> DEFINE n == Len(ivs)
           q == ByStart(ivs)
           M == Merged(ivs)
<1>1. n \in Nat /\ DOMAIN ivs = 1 .. n /\ \A i \in 1 .. n : ivs[i] \in Intervals
  BY LenProperties, ElementOfSeq
<1>2. /\ q \in [1 .. n -> 1 .. n]
      /\ \A j, k \in 1 .. n : j < k => ivs[q[j]].start <= ivs[q[k]].start
  BY ByStartIs
<1>3. M[0] = [total |-> 0, start |-> 0, end |-> 0] /\ \A k \in 1 .. n : M[k] = Merge(M[k - 1], ivs[q[k]])
  BY <1>1, MergedIs
<1> HIDE DEF n, q, M
<1>4. \A k \in 1 .. n : LET i == ivs[q[k]] IN i.start \in Nat /\ i.end \in Nat /\ i.start <= i.end
  BY <1>1, <1>2, IntervalIs
<1> DEFINE wrong == {k \in 0 .. n : ~MergedTo(ivs, k)}
<1>5. MergedTo(ivs, 0)
  <2> DEFINE m == M[0]
  <2>1. m.total = 0 /\ m.start = 0 /\ m.end = 0 /\ m = [total |-> m.total, start |-> m.start, end |-> m.end]
    BY <1>3
  <2>2. Reach(ivs, 0) = {} /\ Span(m) = {}
    BY <2>1 DEF Reach, Span
  <2>3. IsFiniteSet({}) /\ Cardinality({}) = 0
    BY FS_EmptySet
  <2>4. \A j \in 0 + 1 .. n : 0 <= ivs[q[j]].start
    BY <1>4
  <2> HIDE DEF m
  <2>5. Fits(m, Reach(ivs, 0))
    <3>1. /\ IsFiniteSet({}) /\ Cardinality({}) = m.total
          /\ \A t \in {} : t < m.start
          /\ Reach(ivs, 0) = {} \cup Span(m)
      BY <2>1, <2>2, <2>3
    <3>2. m.total \in Nat /\ m.start \in Nat /\ m.end \in Nat /\ m.start <= m.end
      BY <2>1
    <3>3. {} \in SUBSET Nat
      OBVIOUS
    <3> QED BY <3>1, <3>2, <3>3 DEF Fits
  <2> QED BY <2>1, <2>4, <2>5 DEF MergedTo, m, M, n, q
<1>6. ASSUME NEW k \in 1 .. n, MergedTo(ivs, k - 1) PROVE MergedTo(ivs, k)
  <2> DEFINE m == M[k - 1]
             i == ivs[q[k]]
             r == M[k]
             C == Reach(ivs, k - 1)
  <2>1. /\ Fits(m, C) /\ m = [total |-> m.total, start |-> m.start, end |-> m.end]
        /\ \A j \in (k - 1) + 1 .. n : m.start <= ivs[q[j]].start
    BY <1>6 DEF MergedTo, M, n, q
  <2>2. k \in (k - 1) + 1 .. n
    BY <1>1
  <2>3. m.start <= i.start /\ i.start \in Nat /\ i.end \in Nat /\ i.start <= i.end
    BY <1>4, <2>1, <2>2
  <2>4. r = Merge(m, i)
    BY <1>3
  <2>5. Reach(ivs, k) = C \cup Span(i)
    <3>1. 1 .. k = (1 .. (k - 1)) \cup {k}
      BY <1>1
    <3> QED BY <3>1 DEF Reach, q
  <2> HIDE DEF m, i, r, C
  <2>6. Fits(r, Reach(ivs, k)) /\ r.start <= i.start /\ r = [total |-> r.total, start |-> r.start, end |-> r.end]
    <3> DEFINE z == Merge(m, i)
    <3>1. Fits(m, C)
      BY <2>1
    <3>2. m = [total |-> m.total, start |-> m.start, end |-> m.end]
      BY <2>1
    <3>3. Fits(z, C \cup Span(i)) /\ z.start <= i.start /\ z = [total |-> z.total, start |-> z.start, end |-> z.end]
      BY <2>3, <3>1, <3>2, MergeFits
    <3>4. z = r
      BY <2>4
    <3> HIDE DEF z
    <3> QED BY <2>5, <3>3, <3>4
  <2>7. ASSUME NEW j \in k + 1 .. n PROVE r.start <= ivs[q[j]].start
    <3>1. j \in 1 .. n /\ k < j
      BY <1>1
    <3>2. i.start <= ivs[q[j]].start
      BY <1>2, <3>1 DEF i
    <3>3. ivs[q[j]].start \in Nat
      BY <1>4, <3>1
    <3>4. r.start \in Nat
      BY <2>6 DEF Fits
    <3> QED BY <2>3, <2>6, <3>2, <3>3, <3>4
  <2> QED BY <2>6, <2>7 DEF MergedTo, r, M, n, q
<1>7. wrong = {}
  <2> SUFFICES ASSUME wrong # {} PROVE FALSE
    OBVIOUS
  <2>1. wrong \subseteq Nat
    BY <1>1
  <2>2. PICK k \in wrong : \A j \in wrong : k <= j
    BY <2>1, LeastExists
  <2>3. k # 0 /\ k \in 0 .. n
    BY <1>5, <2>2
  <2>4. k \in 1 .. n /\ k - 1 \in 0 .. n /\ ~(k <= k - 1)
    BY <1>1, <2>3
  <2>5. MergedTo(ivs, k - 1)
    BY <2>2, <2>4
  <2> QED BY <1>6, <2>2, <2>4, <2>5
<1> QED BY <1>7 DEF n

\* The intervals that run at a tick, and the ticks at which one runs.
Running(ivs, at) == {i \in 1 .. Len(ivs) : ivs[i].start <= at /\ at < ivs[i].end}
Busy(ivs) == {at \in 0 .. Ticks : Running(ivs, at) # {}}

\* union_ms() is the number of ticks at which something runs.
LEMMA UnionCounts ==
  ASSUME CaptureAssumption, NEW ivs \in Seq(Intervals)
  PROVE  UnionMs(ivs) = Cardinality(Busy(ivs))
<1> DEFINE n == Len(ivs)
           q == ByStart(ivs)
           m == Merged(ivs)[n]
           C == Reach(ivs, n)
<1>1. n \in Nat /\ DOMAIN ivs = 1 .. n /\ \A i \in 1 .. n : ivs[i] \in Intervals
  BY LenProperties, ElementOfSeq
<1>2. q \in [1 .. n -> 1 .. n] /\ \A i \in 1 .. n : \E k \in 1 .. n : q[k] = i
  BY ByStartIs
<1>3. Fits(m, C)
  <2>1. MergedTo(ivs, n)
    BY <1>1, MergedCounts
  <2> QED BY <2>1 DEF MergedTo
<1>4. Cardinality(C) = m.total + m.end - m.start
  BY <1>3, FitsCounts
<1>5. UnionMs(ivs) = Cardinality(C)
  BY <1>4 DEF UnionMs
<1>6. C = UNION {Span(ivs[q[j]]) : j \in 1 .. n}
  BY DEF Reach
<1> HIDE DEF n, q, m, C
<1>7. \A i \in 1 .. n : /\ ivs[i].start \in Nat /\ ivs[i].end \in Nat /\ ivs[i].end <= Ticks
                        /\ Ticks \in Nat
  BY <1>1, IntervalIs
<1>8. ASSUME NEW t \in C PROVE t \in Busy(ivs)
  <2>1. PICK j \in 1 .. n : t \in Span(ivs[q[j]])
    BY <1>6
  <2> DEFINE i == q[j]
  <2>2. i \in 1 .. n /\ t \in Span(ivs[i])
    BY <1>2, <2>1
  <2> HIDE DEF i
  <2> DEFINE s == ivs[i].start
             e == ivs[i].end
  <2>3. s \in Nat /\ e \in Nat /\ e <= Ticks /\ Ticks \in Nat /\ t \in s .. (e - 1)
    BY <1>7, <2>2 DEF Span
  <2> HIDE DEF s, e
  <2>4. t \in 0 .. Ticks /\ s <= t /\ t < e
    BY <2>3
  <2>5. i \in Running(ivs, t)
    BY <2>2, <2>4 DEF Running, n, s, e
  <2> QED BY <2>4, <2>5 DEF Busy
<1>9. ASSUME NEW t \in Busy(ivs) PROVE t \in C
  <2>1. PICK i \in 1 .. n : ivs[i].start <= t /\ t < ivs[i].end
    BY DEF Busy, Running, n
  <2>2. t \in Int
    BY <1>7, <2>1 DEF Busy
  <2>3. PICK j \in 1 .. n : q[j] = i
    BY <1>2
  <2>4. t \in Span(ivs[i])
    BY <1>7, <2>1, <2>2 DEF Span
  <2> QED BY <1>6, <2>3, <2>4
<1>10. C = Busy(ivs)
  BY <1>8, <1>9
<1> QED BY <1>5, <1>10

\* The two events of an interval that lasts.
StartOf(ivs, i) == [at |-> ivs[i].start, d |-> 1, key |-> ivs[i].key, place |-> 2 * i]
EndOf(ivs, i) == [at |-> ivs[i].end, d |-> -1, key |-> ivs[i].key, place |-> 2 * i + 1]
Lasting(ivs) == {i \in 1 .. Len(ivs) : ivs[i].start < ivs[i].end}

\* The events are those, each once.
LEMMA EventsTell ==
  ASSUME CaptureAssumption, NEW ivs \in Seq(Intervals)
  PROVE  /\ EventsOf(ivs) = {StartOf(ivs, i) : i \in Lasting(ivs)} \cup {EndOf(ivs, i) : i \in Lasting(ivs)}
         /\ \A i \in Lasting(ivs) : /\ i \in 1 .. Len(ivs) /\ ivs[i].key \in Kernels
                                    /\ ivs[i].start \in Nat /\ ivs[i].end \in Nat
                                    /\ ivs[i].start < ivs[i].end /\ ivs[i].end <= Ticks
<1> DEFINE n == Len(ivs)
           L == Lasting(ivs)
<1>1. n \in Nat /\ DOMAIN ivs = 1 .. n /\ \A i \in 1 .. n : ivs[i] \in Intervals
  BY LenProperties, ElementOfSeq
<1> HIDE DEF n
<1>2. \A i \in 1 .. n : ivs[i].start \in Nat /\ ivs[i].end \in Nat /\ ivs[i].end <= Ticks /\ ivs[i].key \in Kernels
  BY <1>1, IntervalIs
<1>3. L = {i \in DOMAIN ivs : ivs[i].end > ivs[i].start}
  BY <1>1, <1>2 DEF Lasting, n
<1>4. EventsOf(ivs) = UNION {{StartOf(ivs, i), EndOf(ivs, i)} : i \in L}
  BY <1>3 DEF EventsOf, StartOf, EndOf
<1>5. \A i \in L : i \in 1 .. n /\ ivs[i].start < ivs[i].end
  BY DEF Lasting, n
<1> HIDE DEF L
<1>6. UNION {{StartOf(ivs, i), EndOf(ivs, i)} : i \in L} = {StartOf(ivs, i) : i \in L} \cup {EndOf(ivs, i) : i \in L}
  OBVIOUS
<1> QED BY <1>2, <1>4, <1>5, <1>6 DEF L, n

\* The fields of an event, and that its place names it.
LEMMA EventIs ==
  ASSUME CaptureAssumption, NEW ivs \in Seq(Intervals), NEW e \in EventsOf(ivs)
  PROVE  /\ e.at \in Nat /\ e.at <= Ticks
         /\ e.place \in 0 .. 2 * Len(ivs) + 1
         /\ \A f \in EventsOf(ivs) : f.place = e.place => f = e
<1> DEFINE n == Len(ivs)
<1>1. n \in Nat
  BY LenProperties
<1> HIDE DEF n
<1>2. \A f \in EventsOf(ivs) : \E i \in Lasting(ivs) : f = StartOf(ivs, i) \/ f = EndOf(ivs, i)
  BY EventsTell
<1>3. \A i \in Lasting(ivs) : /\ i \in 1 .. n
                              /\ ivs[i].start \in Nat /\ ivs[i].end \in Nat
                              /\ ivs[i].start < ivs[i].end /\ ivs[i].end <= Ticks
  BY EventsTell DEF n
<1>4. \A i : StartOf(ivs, i).at = ivs[i].start /\ StartOf(ivs, i).place = 2 * i
  BY DEF StartOf
<1>5. \A i : EndOf(ivs, i).at = ivs[i].end /\ EndOf(ivs, i).place = 2 * i + 1
  BY DEF EndOf
<1>6. PICK i \in Lasting(ivs) : e = StartOf(ivs, i) \/ e = EndOf(ivs, i)
  BY <1>2
<1>7. e.at \in Nat /\ e.at <= Ticks
  <2>1. Ticks \in Nat
    BY DEF CaptureAssumption
  <2>2. ivs[i].start <= Ticks
    BY <1>3, <2>1
  <2> QED BY <1>3, <1>4, <1>5, <1>6, <2>2
<1>8. e.place \in 0 .. 2 * n + 1
  <2>1. i \in 1 .. n /\ (e.place = 2 * i \/ e.place = 2 * i + 1)
    BY <1>3, <1>4, <1>5, <1>6
  <2> HIDE <1>6
  <2> QED BY <1>1, <2>1
<1>9. ASSUME NEW f \in EventsOf(ivs), f.place = e.place PROVE f = e
  <2>1. PICK j \in Lasting(ivs) : f = StartOf(ivs, j) \/ f = EndOf(ivs, j)
    BY <1>2
  <2>2. i \in Int /\ j \in Int
    BY <1>1, <1>3
  <2>3. CASE e = StartOf(ivs, i) /\ f = StartOf(ivs, j)
    <3>1. 2 * i = 2 * j
      BY <1>4, <1>9, <2>3
    <3>2. i = j
      BY <2>2, <3>1
    <3> QED BY <2>3, <3>2
  <2>4. CASE e = EndOf(ivs, i) /\ f = EndOf(ivs, j)
    <3>1. 2 * i + 1 = 2 * j + 1
      BY <1>5, <1>9, <2>4
    <3>2. i = j
      BY <2>2, <3>1
    <3> QED BY <2>4, <3>2
  <2>5. CASE e = StartOf(ivs, i) /\ f = EndOf(ivs, j)
    <3>1. 2 * i = 2 * j + 1
      BY <1>4, <1>5, <1>9, <2>5
    <3> QED BY <2>2, <3>1
  <2>6. CASE e = EndOf(ivs, i) /\ f = StartOf(ivs, j)
    <3>1. 2 * i + 1 = 2 * j
      BY <1>4, <1>5, <1>9, <2>6
    <3> QED BY <2>2, <3>1
  <2> QED BY <1>6, <2>1, <2>3, <2>4, <2>5, <2>6
<1> QED BY <1>7, <1>8, <1>9 DEF n

\* The events one after the other as the clock goes on.
Scheduled(ivs, q) ==
  /\ Len(q) \in Nat
  /\ q \in [1 .. Len(q) -> EventsOf(ivs)]
  /\ \A e \in EventsOf(ivs) : \E k \in 1 .. Len(q) : q[k] = e
  /\ \A j, k \in 1 .. Len(q) : j < k => q[j].at <= q[k].at /\ q[j] # q[k]

\* events.sort(): every event, by its time.
LEMMA EventsScheduled ==
  ASSUME CaptureAssumption, NEW ivs \in Seq(Intervals)
  PROVE  Scheduled(ivs, Events(ivs))
<1> DEFINE n == Len(ivs)
           m == 2 * n + 2
           E == EventsOf(ivs)
           rank == [e \in E |-> e.at * m + e.place]
           K == (Ticks + 1) * m
<1>1. n \in Nat /\ m \in Nat /\ Ticks \in Nat /\ K \in Nat
  BY LenProperties DEF CaptureAssumption
<1>2. \A e \in E : e.at \in Nat /\ e.at <= Ticks /\ e.place \in 0 .. m - 1
  <2> SUFFICES ASSUME NEW e \in E PROVE e.at \in Nat /\ e.at <= Ticks /\ e.place \in 0 .. m - 1
    OBVIOUS
  <2>1. e.at \in Nat /\ e.at <= Ticks /\ e.place \in 0 .. 2 * Len(ivs) + 1
    BY EventIs
  <2>2. 2 * Len(ivs) + 1 = m - 1
    BY <1>1
  <2> QED BY <2>1, <2>2
<1>3. \A e, f \in E : f.place = e.place => f = e
  BY EventIs
<1>4. \A e \in E : rank[e] = e.at * m + e.place
  OBVIOUS
<1>5. Events(ivs) = InOrder(E, rank)
  BY DEF Events
<1>6. rank = [e \in E |-> rank[e]]
  OBVIOUS
<1> HIDE DEF E, rank, m
<1>7. ASSUME NEW e \in E PROVE rank[e] \in Nat /\ rank[e] <= K
  <2> DEFINE a == e.at
             p == e.place
  <2>1. a \in Nat /\ a < Ticks + 1 /\ p \in 0 .. m - 1 /\ m \in Nat /\ Ticks + 1 \in Nat
    BY <1>1, <1>2
  <2> HIDE DEF a, p
  <2>2. a * m + p < (Ticks + 1) * m + 0
    BY <2>1, DigitsOrder
  <2>3. a * m \in Nat
    BY <2>1
  <2>4. rank[e] = a * m + p
    BY <1>4 DEF a, p
  <2> QED BY <1>1, <2>1, <2>2, <2>3, <2>4
<1>8. ASSUME NEW e \in E, NEW f \in E, e.at < f.at PROVE rank[e] < rank[f]
  <2> DEFINE a == e.at
             p == e.place
             b == f.at
             r == f.place
  <2>1. a \in Nat /\ b \in Nat /\ p \in 0 .. m - 1 /\ r \in Nat /\ m \in Nat /\ a < b
    BY <1>1, <1>2, <1>8
  <2>2. rank[e] = a * m + p /\ rank[f] = b * m + r
    BY <1>4
  <2> HIDE DEF a, p, b, r
  <2>3. a * m + p < b * m + r
    BY <2>1, DigitsOrder
  <2> QED BY <2>2, <2>3
<1>9. ASSUME NEW e \in E, NEW f \in E, rank[e] = rank[f] PROVE e = f
  <2> DEFINE a == e.at
             x == a * m
  <2>1. e.at \in Nat /\ f.at \in Nat /\ rank[e] \in Nat /\ rank[f] \in Nat
    BY <1>2, <1>7
  <2>2. f.at = a
    BY <1>8, <1>9, <2>1
  <2>3. rank[e] = x + e.place /\ rank[f] = x + f.place /\ x \in Nat
    BY <1>1, <1>4, <2>1, <2>2
  <2>4. e.place \in Int /\ f.place \in Int
    BY <1>2
  <2> HIDE DEF x, a
  <2>5. x + e.place = x + f.place
    BY <1>9, <2>3
  <2>6. x \in Int
    BY <2>3
  <2>7. e.place = f.place
    BY <2>4, <2>5, <2>6
  <2> QED BY <1>3, <2>7
<1>10. rank \in [E -> 0 .. K]
  <2>1. \A e \in E : rank[e] \in 0 .. K
    BY <1>1, <1>7
  <2> QED BY <1>6, <2>1
<1>11. PICK l, q : Lists(q, l, E, rank)
  <2> HIDE DEF K
  <2> QED BY <1>1, <1>9, <1>10, ListExists
<1>12. InOrder(E, rank) = q /\ Cardinality(E) = l
  BY <1>7, <1>11, InOrderIs
<1>13. l \in Nat /\ q \in [1 .. l -> E] /\ (\A x \in E : \E k \in 1 .. l : q[k] = x)
       /\ \A j, k \in 1 .. l : j < k => rank[q[j]] < rank[q[k]]
  BY <1>11 DEF Lists
<1>14. Len(q) = l
  BY <1>13, LenProperties
<1>15. ASSUME NEW j \in 1 .. l, NEW k \in 1 .. l, j < k PROVE q[j].at <= q[k].at /\ q[j] # q[k]
  <2> DEFINE a == q[j]
             b == q[k]
  <2>1. a \in E /\ b \in E /\ rank[a] < rank[b]
    BY <1>13, <1>15
  <2> HIDE DEF a, b
  <2>2. rank[a] \in Nat /\ rank[b] \in Nat
    BY <1>7, <2>1
  <2>3. ~(b.at < a.at)
    BY <1>8, <2>1, <2>2
  <2>4. a.at \in Nat /\ b.at \in Nat
    BY <1>2, <2>1
  <2>5. a # b
    BY <2>1, <2>2
  <2> QED BY <2>3, <2>4, <2>5 DEF a, b
<1>16. Events(ivs) = q
  BY <1>5, <1>12
<1> QED BY <1>13, <1>14, <1>15, <1>16 DEF Scheduled, E

\* The intervals that have begun and not ended after k events.
Live(ivs, q, k) ==
  {i \in Lasting(ivs) : (\E j \in 1 .. k : q[j] = StartOf(ivs, i)) /\ ~ \E j \in 1 .. k : q[j] = EndOf(ivs, i)}
Clock(q, k) == IF k = 0 THEN 0 ELSE q[k].at

\* The event of an interval that starts is not that of one that ends.
LEMMA EventsDiffer ==
  ASSUME CaptureAssumption, NEW ivs \in Seq(Intervals), NEW i \in Lasting(ivs), NEW j \in Lasting(ivs)
  PROVE  /\ StartOf(ivs, i) # EndOf(ivs, j)
         /\ StartOf(ivs, i) = StartOf(ivs, j) => i = j
         /\ EndOf(ivs, i) = EndOf(ivs, j) => i = j
<1>1. i \in Int /\ j \in Int
  <2>1. i \in 1 .. Len(ivs) /\ j \in 1 .. Len(ivs) /\ Len(ivs) \in Nat
    BY LenProperties, EventsTell
  <2> QED BY <2>1
<1>2. StartOf(ivs, i).place = 2 * i /\ StartOf(ivs, j).place = 2 * j
  BY DEF StartOf
<1>3. EndOf(ivs, i).place = 2 * i + 1 /\ EndOf(ivs, j).place = 2 * j + 1
  BY DEF EndOf
<1>4. 2 * i # 2 * j + 1 /\ (2 * i = 2 * j => i = j) /\ (2 * i + 1 = 2 * j + 1 => i = j)
  BY <1>1
<1> QED BY <1>2, <1>3, <1>4

\* An interval starts before it ends.
LEMMA StartsFirst ==
  ASSUME CaptureAssumption, NEW ivs \in Seq(Intervals), NEW q, Scheduled(ivs, q), NEW i \in Lasting(ivs),
         NEW j \in 1 .. Len(q), NEW k \in 1 .. Len(q), q[j] = StartOf(ivs, i), q[k] = EndOf(ivs, i)
  PROVE  j < k
<1>1. ivs[i].start \in Nat /\ ivs[i].end \in Nat /\ ivs[i].start < ivs[i].end
  BY EventsTell
<1>2. q[j].at = ivs[i].start /\ q[k].at = ivs[i].end
  BY DEF StartOf, EndOf
<1>3. k < j => q[k].at <= q[j].at
  BY DEF Scheduled
<1>4. j # k
  BY <1>1, <1>2
<1>5. j \in Int /\ k \in Int
  BY DEF Scheduled
<1> QED BY <1>1, <1>2, <1>3, <1>4, <1>5

\* Both events of an interval are on the schedule.
LEMMA BothScheduled ==
  ASSUME CaptureAssumption, NEW ivs \in Seq(Intervals), NEW q, Scheduled(ivs, q), NEW i \in Lasting(ivs)
  PROVE  (\E j \in 1 .. Len(q) : q[j] = StartOf(ivs, i)) /\ \E j \in 1 .. Len(q) : q[j] = EndOf(ivs, i)
<1>1. StartOf(ivs, i) \in EventsOf(ivs) /\ EndOf(ivs, i) \in EventsOf(ivs)
  BY EventsTell
<1> QED BY <1>1 DEF Scheduled

\* Nothing runs at first.
LEMMA LiveFirst ==
  ASSUME NEW ivs, NEW q
  PROVE  Live(ivs, q, 0) = {}
BY DEF Live

\* A start makes its interval live.
LEMMA LiveStarts ==
  ASSUME CaptureAssumption, NEW ivs \in Seq(Intervals), NEW q, Scheduled(ivs, q), NEW k \in 1 .. Len(q),
         NEW i \in Lasting(ivs), q[k] = StartOf(ivs, i)
  PROVE  Live(ivs, q, k) = Live(ivs, q, k - 1) \cup {i} /\ i \notin Live(ivs, q, k - 1)
<1>1. Len(q) \in Nat
  BY DEF Scheduled
<1>2. 1 .. k = (1 .. (k - 1)) \cup {k} /\ \A j \in 1 .. (k - 1) : j \in 1 .. Len(q) /\ j < k
  BY <1>1
<1>3. ~ \E j \in 1 .. (k - 1) : q[j] = StartOf(ivs, i)
  BY <1>2 DEF Scheduled
<1>4. ~ \E j \in 1 .. k : q[j] = EndOf(ivs, i)
  <2> SUFFICES ASSUME NEW j \in 1 .. k, q[j] = EndOf(ivs, i) PROVE FALSE
    OBVIOUS
  <2>1. j \in 1 .. Len(q)
    BY <1>1
  <2>2. k < j
    BY <2>1, StartsFirst
  <2> QED BY <1>1, <2>2
<1>5. ASSUME NEW x \in Lasting(ivs), x # i
      PROVE  q[k] # StartOf(ivs, x) /\ q[k] # EndOf(ivs, x)
  BY <1>5, EventsDiffer
<1>6. ASSUME NEW x \in Lasting(ivs) PROVE x \in Live(ivs, q, k) <=> x \in Live(ivs, q, k - 1) \cup {i}
  <2>1. CASE x = i
    BY <1>2, <1>4, <2>1 DEF Live
  <2>2. CASE x # i
    BY <1>2, <1>5, <2>2 DEF Live
  <2> QED BY <2>1, <2>2
<1>7. i \notin Live(ivs, q, k - 1)
  BY <1>3 DEF Live
<1>8. \A x \in Live(ivs, q, k) : x \in Lasting(ivs)
  BY DEF Live
<1>9. \A x \in Live(ivs, q, k - 1) \cup {i} : x \in Lasting(ivs)
  BY DEF Live
<1> QED BY <1>6, <1>7, <1>8, <1>9

\* An end takes its interval off.
LEMMA LiveEnds ==
  ASSUME CaptureAssumption, NEW ivs \in Seq(Intervals), NEW q, Scheduled(ivs, q), NEW k \in 1 .. Len(q),
         NEW i \in Lasting(ivs), q[k] = EndOf(ivs, i)
  PROVE  Live(ivs, q, k) = Live(ivs, q, k - 1) \ {i} /\ i \in Live(ivs, q, k - 1)
<1>1. Len(q) \in Nat
  BY DEF Scheduled
<1>2. 1 .. k = (1 .. (k - 1)) \cup {k} /\ \A j \in 1 .. (k - 1) : j \in 1 .. Len(q) /\ j < k
  BY <1>1
<1>3. ~ \E j \in 1 .. (k - 1) : q[j] = EndOf(ivs, i)
  BY <1>2 DEF Scheduled
<1>4. \E j \in 1 .. (k - 1) : q[j] = StartOf(ivs, i)
  <2>1. PICK j \in 1 .. Len(q) : q[j] = StartOf(ivs, i)
    BY BothScheduled
  <2>2. j < k
    BY <2>1, StartsFirst
  <2>3. j \in 1 .. (k - 1)
    BY <1>1, <2>2
  <2> QED BY <2>1, <2>3
<1>5. ASSUME NEW x \in Lasting(ivs), x # i
      PROVE  q[k] # StartOf(ivs, x) /\ q[k] # EndOf(ivs, x)
  BY <1>5, EventsDiffer
<1>6. ASSUME NEW x \in Lasting(ivs) PROVE x \in Live(ivs, q, k) <=> x \in Live(ivs, q, k - 1) \ {i}
  <2>1. CASE x = i
    BY <1>2, <2>1 DEF Live
  <2>2. CASE x # i
    BY <1>2, <1>5, <2>2 DEF Live
  <2> QED BY <2>1, <2>2
<1>7. i \in Live(ivs, q, k - 1)
  BY <1>3, <1>4 DEF Live
<1>8. \A x \in Live(ivs, q, k) : x \in Lasting(ivs)
  BY DEF Live
<1>9. \A x \in Live(ivs, q, k - 1) \ {i} : x \in Lasting(ivs)
  BY DEF Live
<1> QED BY <1>6, <1>7, <1>8, <1>9

\* The clock is at every event before k, and no event after k is before it.
LEMMA ClockIs ==
  ASSUME CaptureAssumption, NEW ivs \in Seq(Intervals), NEW q, Scheduled(ivs, q), NEW k \in 0 .. Len(q)
  PROVE  /\ Clock(q, k) \in Nat /\ Clock(q, k) <= Ticks
         /\ \A j \in 1 .. Len(q) : q[j].at \in Nat /\ q[j].at <= Ticks
         /\ \A j \in 1 .. k : q[j].at <= Clock(q, k)
         /\ \A j \in k + 1 .. Len(q) : Clock(q, k) <= q[j].at
<1>1. Len(q) \in Nat /\ Ticks \in Nat
  BY DEF Scheduled, CaptureAssumption
<1>2. ASSUME NEW j \in 1 .. Len(q) PROVE q[j].at \in Nat /\ q[j].at <= Ticks
  <2>1. q[j] \in EventsOf(ivs)
    BY DEF Scheduled
  <2> QED BY <2>1, EventIs
<1>3. \A j, l \in 1 .. Len(q) : j < l => q[j].at <= q[l].at
  BY DEF Scheduled
<1>4. CASE k = 0
  <2>1. Clock(q, k) = 0
    BY <1>4 DEF Clock
  <2>2. \A j \in k + 1 .. Len(q) : j \in 1 .. Len(q)
    BY <1>4
  <2>3. \A j \in 1 .. k : FALSE
    BY <1>4
  <2>4. \A j \in k + 1 .. Len(q) : 0 <= q[j].at
    BY <1>2, <2>2
  <2> QED BY <1>1, <1>2, <2>1, <2>3, <2>4
<1>5. CASE k # 0
  <2>1. Clock(q, k) = q[k].at /\ k \in 1 .. Len(q)
    BY <1>1, <1>5 DEF Clock
  <2>2. ASSUME NEW j \in 1 .. k PROVE q[j].at <= q[k].at
    <3>1. j \in 1 .. Len(q) /\ (j < k \/ j = k)
      BY <1>1
    <3>2. q[k].at \in Nat
      BY <1>2, <2>1
    <3> QED BY <1>3, <2>1, <3>1, <3>2
  <2>3. ASSUME NEW j \in k + 1 .. Len(q) PROVE q[k].at <= q[j].at
    <3>1. j \in 1 .. Len(q) /\ k < j
      BY <1>1
    <3> QED BY <1>3, <2>1, <3>1
  <2> QED BY <1>2, <2>1, <2>2, <2>3
<1> QED BY <1>4, <1>5

\* Between two events the live intervals are those that run.
LEMMA RunningIsLive ==
  ASSUME CaptureAssumption, NEW ivs \in Seq(Intervals), NEW q, Scheduled(ivs, q), NEW k \in 0 .. Len(q),
         NEW t \in Nat, Clock(q, k) <= t, k < Len(q) => t < q[k + 1].at
  PROVE  Running(ivs, t) = Live(ivs, q, k)
<1>1. Len(q) \in Nat
  BY DEF Scheduled
<1>2. /\ Clock(q, k) \in Nat
      /\ \A j \in 1 .. Len(q) : q[j].at \in Nat
      /\ \A j \in 1 .. k : q[j].at <= Clock(q, k)
  BY ClockIs
<1>3. ASSUME NEW j \in 1 .. Len(q), ~(j \in 1 .. k) PROVE t < q[j].at
  <2>1. k < Len(q) /\ k + 1 \in 1 .. Len(q) /\ (j = k + 1 \/ k + 1 < j)
    BY <1>1, <1>3
  <2>2. q[k + 1].at <= q[j].at
    BY <1>2, <2>1 DEF Scheduled
  <2>3. q[k + 1].at \in Nat /\ q[j].at \in Nat
    BY <1>2, <2>1
  <2> QED BY <2>1, <2>2, <2>3
<1>4. \A j \in 1 .. k : j \in 1 .. Len(q) /\ q[j].at <= t
  <2> SUFFICES ASSUME NEW j \in 1 .. k PROVE j \in 1 .. Len(q) /\ q[j].at <= t
    OBVIOUS
  <2>1. j \in 1 .. Len(q)
    BY <1>1
  <2>2. q[j].at \in Nat /\ q[j].at <= Clock(q, k) /\ Clock(q, k) \in Nat
    BY <1>2, <2>1
  <2> QED BY <2>1, <2>2
<1>5. \A i : StartOf(ivs, i).at = ivs[i].start /\ EndOf(ivs, i).at = ivs[i].end
  BY DEF StartOf, EndOf
<1>6. ASSUME NEW i \in Running(ivs, t) PROVE i \in Live(ivs, q, k)
  <2>1. i \in 1 .. Len(ivs) /\ ivs[i].start <= t /\ t < ivs[i].end
    BY DEF Running
  <2>2. i \in Lasting(ivs)
    <3>1. ivs[i] \in Intervals
      BY <2>1, LenProperties, ElementOfSeq
    <3>2. ivs[i].start \in Nat /\ ivs[i].end \in Nat
      BY <3>1, IntervalIs
    <3> QED BY <2>1, <3>2 DEF Lasting
  <2>3. PICK j \in 1 .. Len(q) : q[j] = StartOf(ivs, i)
    BY <2>2, BothScheduled
  <2>4. j \in 1 .. k
    <3>1. q[j].at = ivs[i].start /\ q[j].at \in Nat
      BY <1>2, <1>5, <2>3
    <3> QED BY <1>3, <2>1, <3>1
  <2>5. ~ \E l \in 1 .. k : q[l] = EndOf(ivs, i)
    <3> SUFFICES ASSUME NEW l \in 1 .. k, q[l] = EndOf(ivs, i) PROVE FALSE
      OBVIOUS
    <3>1. l \in 1 .. Len(q) /\ q[l].at <= t
      BY <1>4
    <3>2. q[l].at = ivs[i].end /\ q[l].at \in Nat
      BY <1>2, <1>5, <3>1
    <3> QED BY <2>1, <3>1, <3>2
  <2> QED BY <2>2, <2>3, <2>4, <2>5 DEF Live
<1>7. ASSUME NEW i \in Live(ivs, q, k) PROVE i \in Running(ivs, t)
  <2>1. i \in Lasting(ivs) /\ ~ \E j \in 1 .. k : q[j] = EndOf(ivs, i)
    BY DEF Live
  <2>2. PICK j \in 1 .. k : q[j] = StartOf(ivs, i)
    BY DEF Live
  <2>3. PICK l \in 1 .. Len(q) : q[l] = EndOf(ivs, i)
    BY <2>1, BothScheduled
  <2>4. t < q[l].at
    BY <1>3, <2>1, <2>3
  <2>5. q[j].at <= t
    BY <1>4
  <2>6. ivs[i].start <= t /\ t < ivs[i].end
    BY <1>5, <2>2, <2>3, <2>4, <2>5
  <2>7. i \in 1 .. Len(ivs)
    BY <2>1 DEF Lasting
  <2> QED BY <2>6, <2>7 DEF Running
<1> QED BY <1>6, <1>7

\* The live intervals of one kernel.
LiveOf(ivs, q, k, key) == {i \in Live(ivs, q, k) : ivs[i].key = key}

\* There are no more live intervals than intervals.
LEMMA LiveCounts ==
  ASSUME CaptureAssumption, NEW ivs \in Seq(Intervals), Len(ivs) <= 3, NEW q, NEW k
  PROVE  /\ \A key : IsFiniteSet(LiveOf(ivs, q, k, key)) /\ Cardinality(LiveOf(ivs, q, k, key)) \in Nat
         /\ Cardinality(LiveOf(ivs, q, k, "matmul")) + Cardinality(LiveOf(ivs, q, k, "add")) <= 3
         /\ \A key : Cardinality(LiveOf(ivs, q, k, key)) = 0 <=> LiveOf(ivs, q, k, key) = {}
         /\ \A i \in Live(ivs, q, k) : ivs[i].key \in Kernels
<1> DEFINE n == Len(ivs)
           L == Live(ivs, q, k)
           A == LiveOf(ivs, q, k, "matmul")
           B == LiveOf(ivs, q, k, "add")
<1>1. n \in Nat /\ n <= 3
  BY LenProperties
<1>2. L \subseteq 1 .. n
  BY DEF Live, Lasting
<1>3. IsFiniteSet(1 .. n) /\ Cardinality(1 .. n) = n
  <2> HIDE DEF n
  <2>0. 1 \in Int /\ n \in Int
    BY <1>1
  <2>1. IsFiniteSet(1 .. n) /\ Cardinality(1 .. n) = IF 1 > n THEN 0 ELSE n - 1 + 1
    BY <2>0, FS_Interval
  <2> QED BY <1>1, <2>1
<1>4. IsFiniteSet(L) /\ Cardinality(L) <= n /\ Cardinality(L) \in Nat
  BY <1>2, <1>3, FS_Subset, FS_CardinalityType
<1>5. \A key : LiveOf(ivs, q, k, key) \subseteq L
  BY DEF LiveOf
<1>6. \A key : IsFiniteSet(LiveOf(ivs, q, k, key))
  BY <1>4, <1>5, FS_Subset
<1>7. \A key : Cardinality(LiveOf(ivs, q, k, key)) \in Nat
  BY <1>6, FS_CardinalityType
<1>8. \A key : Cardinality(LiveOf(ivs, q, k, key)) = 0 <=> LiveOf(ivs, q, k, key) = {}
  BY <1>6, FS_EmptySet
<1>9. A \cap B = {} /\ A \cup B \subseteq L
  BY DEF LiveOf
<1>10. \A i \in L : ivs[i].key \in Kernels
  <2> SUFFICES ASSUME NEW i \in L PROVE ivs[i].key \in Kernels
    OBVIOUS
  <2>1. i \in Lasting(ivs)
    BY DEF Live
  <2> QED BY <2>1, EventsTell
<1>11. IsFiniteSet(A) /\ IsFiniteSet(B) /\ Cardinality(A) \in Nat /\ Cardinality(B) \in Nat
  BY <1>6, <1>7
<1> HIDE DEF A, B, L, n
<1>12. IsFiniteSet(A \cup B) /\ Cardinality(A \cup B) = Cardinality(A) + Cardinality(B) - Cardinality(A \cap B)
  BY <1>11, FS_Union
<1>13. Cardinality(A \cap B) = 0
  BY <1>9, FS_EmptySet
<1>14. Cardinality(A \cup B) <= Cardinality(L)
  BY <1>4, <1>9, FS_Subset
<1>15. Cardinality(A) + Cardinality(B) <= 3
  BY <1>1, <1>4, <1>11, <1>12, <1>13, <1>14
<1> QED BY <1>6, <1>7, <1>8, <1>10, <1>15 DEF A, B, L

\* One event changes the number of live intervals of its kernel.
LEMMA LiveSteps ==
  ASSUME CaptureAssumption, NEW ivs \in Seq(Intervals), Len(ivs) <= 3, NEW q, Scheduled(ivs, q), NEW k \in 1 .. Len(q)
  PROVE  /\ q[k].key \in Kernels /\ q[k].d \in Int
         /\ Cardinality(LiveOf(ivs, q, k, q[k].key)) = Cardinality(LiveOf(ivs, q, k - 1, q[k].key)) + q[k].d
         /\ \A key : key # q[k].key => LiveOf(ivs, q, k, key) = LiveOf(ivs, q, k - 1, key)
<1> DEFINE e == q[k]
           Old == LiveOf(ivs, q, k - 1, e.key)
           New == LiveOf(ivs, q, k, e.key)
<1>1. IsFiniteSet(Old) /\ IsFiniteSet(New) /\ Cardinality(Old) \in Nat /\ Cardinality(New) \in Nat
  BY LiveCounts
<1>2. PICK i \in Lasting(ivs) : e = StartOf(ivs, i) \/ e = EndOf(ivs, i)
  <2>1. e \in EventsOf(ivs)
    BY DEF Scheduled
  <2> QED BY <2>1, EventsTell
<1>3. e.key = ivs[i].key /\ ivs[i].key \in Kernels
  BY <1>2, EventsTell DEF StartOf, EndOf
<1>4. CASE e = StartOf(ivs, i)
  <2>1. Live(ivs, q, k) = Live(ivs, q, k - 1) \cup {i} /\ i \notin Live(ivs, q, k - 1)
    BY <1>4, LiveStarts
  <2>2. e.d = 1
    BY <1>4 DEF StartOf
  <2>3. New = Old \cup {i} /\ i \notin Old
    BY <1>3, <2>1 DEF LiveOf
  <2>4. \A key : key # e.key => LiveOf(ivs, q, k, key) = LiveOf(ivs, q, k - 1, key)
    BY <1>3, <2>1 DEF LiveOf
  <2> HIDE DEF Old, New, e
  <2>5. Cardinality(New) = Cardinality(Old) + 1
    BY <1>1, <2>3, FS_AddElement
  <2> QED BY <1>3, <2>2, <2>4, <2>5 DEF Old, New, e
<1>5. CASE e = EndOf(ivs, i)
  <2>1. Live(ivs, q, k) = Live(ivs, q, k - 1) \ {i} /\ i \in Live(ivs, q, k - 1)
    BY <1>5, LiveEnds
  <2>2. e.d = -1
    BY <1>5 DEF EndOf
  <2>3. New = Old \ {i} /\ i \in Old
    BY <1>3, <2>1 DEF LiveOf
  <2>4. \A key : key # e.key => LiveOf(ivs, q, k, key) = LiveOf(ivs, q, k - 1, key)
    BY <1>3, <2>1 DEF LiveOf
  <2> HIDE DEF Old, New, e
  <2>5. Cardinality(New) = Cardinality(Old) - 1
    BY <1>1, <2>3, FS_RemoveElement
  <2>6. Cardinality(New) = Cardinality(Old) + (-1)
    BY <1>1, <2>5
  <2> QED BY <1>3, <2>2, <2>4, <2>6 DEF Old, New, e
<1> QED BY <1>2, <1>4, <1>5

\* The busy ticks before a time, and those of one kernel alone.
BusyTo(ivs, T) == {at \in 0 .. Ticks : at < T /\ Running(ivs, at) # {}}
AloneTo(ivs, T, key) == {at \in BusyTo(ivs, T) : \A i \in Running(ivs, at) : ivs[i].key = key}
BusyAfter(ivs, L, T, U) == IF L # {} THEN BusyTo(ivs, T) \cup (T .. (U - 1)) ELSE BusyTo(ivs, T)
AloneAfter(ivs, L, T, U, key) ==
  IF L # {} /\ (\A i \in L : ivs[i].key = key) THEN AloneTo(ivs, T, key) \cup (T .. (U - 1)) ELSE AloneTo(ivs, T, key)

\* The ticks between two events are busy when something is live.
LEMMA SliceAdds ==
  ASSUME CaptureAssumption, NEW ivs \in Seq(Intervals), NEW q, Scheduled(ivs, q), NEW k \in 1 .. Len(q)
  PROVE  LET T == Clock(q, k - 1)
             U == Clock(q, k)
             L == Live(ivs, q, k - 1)
         IN  /\ T \in Nat /\ U \in Nat /\ T <= U /\ U = q[k].at
             /\ BusyTo(ivs, U) = BusyAfter(ivs, L, T, U)
             /\ \A key : AloneTo(ivs, U, key) = AloneAfter(ivs, L, T, U, key)
<1> DEFINE T == Clock(q, k - 1)
           U == Clock(q, k)
           L == Live(ivs, q, k - 1)
<1>1. Len(q) \in Nat /\ k - 1 \in 0 .. Len(q) /\ k \in 0 .. Len(q) /\ k \in (k - 1) + 1 .. Len(q) /\ k - 1 < Len(q)
      /\ (k - 1) + 1 = k
  BY DEF Scheduled
<1>2. U = q[k].at
  BY <1>1 DEF Clock
<1>3. T \in Nat /\ U \in Nat /\ U <= Ticks /\ Ticks \in Nat
  BY <1>1, ClockIs DEF CaptureAssumption
<1>4. T <= U
  BY <1>1, <1>2, ClockIs
<1>5. ASSUME NEW t \in Nat, T <= t, t < U PROVE Running(ivs, t) = L
  BY <1>1, <1>2, <1>5, RunningIsLive
<1> HIDE DEF T, U, L
<1>6. \A t \in 0 .. Ticks : t < U <=> (t < T \/ (T <= t /\ t < U))
  BY <1>3, <1>4
<1>7. \A t \in T .. (U - 1) : t \in Nat /\ t \in 0 .. Ticks /\ T <= t /\ t < U
  BY <1>3
<1>8. \A t \in 0 .. Ticks : T <= t /\ t < U => t \in T .. (U - 1)
  BY <1>3
<1>9. \A t \in T .. (U - 1) : Running(ivs, t) = L
  BY <1>5, <1>7
<1>10. \A t : t \in BusyTo(ivs, U) <=> t \in 0 .. Ticks /\ t < U /\ Running(ivs, t) # {}
  BY DEF BusyTo
<1>11. \A t : t \in BusyTo(ivs, T) <=> t \in 0 .. Ticks /\ t < T /\ Running(ivs, t) # {}
  BY DEF BusyTo
<1>12. \A t : t \in BusyTo(ivs, U) <=> t \in BusyTo(ivs, T) \/ (t \in T .. (U - 1) /\ L # {})
  BY <1>6, <1>7, <1>8, <1>9, <1>10, <1>11
<1>13. L = {} => BusyTo(ivs, U) = BusyTo(ivs, T)
  BY <1>12
<1>14. L # {} => BusyTo(ivs, U) = BusyTo(ivs, T) \cup (T .. (U - 1))
  BY <1>12
<1>15. ASSUME NEW key PROVE AloneTo(ivs, U, key) = AloneAfter(ivs, L, T, U, key)
  <2> DEFINE own == \A i \in L : ivs[i].key = key
             lone(t) == \A i \in Running(ivs, t) : ivs[i].key = key
  <2>1. \A t : t \in AloneTo(ivs, U, key) <=> t \in BusyTo(ivs, U) /\ lone(t)
    BY DEF AloneTo
  <2>2. \A t : t \in AloneTo(ivs, T, key) <=> t \in BusyTo(ivs, T) /\ lone(t)
    BY DEF AloneTo
  <2>3. \A t \in T .. (U - 1) : lone(t) <=> own
    BY <1>9
  <2> HIDE DEF lone, own
  <2>4. \A t : t \in AloneTo(ivs, U, key) <=> t \in AloneTo(ivs, T, key) \/ (t \in T .. (U - 1) /\ L # {} /\ own)
    BY <1>12, <2>1, <2>2, <2>3
  <2>5. L # {} /\ own => AloneTo(ivs, U, key) = AloneTo(ivs, T, key) \cup (T .. (U - 1))
    BY <2>4
  <2>6. ~(L # {} /\ own) => AloneTo(ivs, U, key) = AloneTo(ivs, T, key)
    BY <2>4
  <2> QED BY <2>5, <2>6 DEF own, AloneAfter
<1>16. BusyTo(ivs, U) = BusyAfter(ivs, L, T, U)
  BY <1>13, <1>14 DEF BusyAfter
<1> QED BY <1>2, <1>3, <1>4, <1>15, <1>16 DEF T, U, L

\* The ticks before a time are finitely many, and before it.
LEMMA BusyFinite ==
  ASSUME CaptureAssumption, NEW ivs, NEW T
  PROVE  /\ BusyTo(ivs, T) \in SUBSET Nat /\ IsFiniteSet(BusyTo(ivs, T)) /\ \A t \in BusyTo(ivs, T) : t < T
         /\ \A key : /\ AloneTo(ivs, T, key) \in SUBSET Nat /\ IsFiniteSet(AloneTo(ivs, T, key))
                     /\ \A t \in AloneTo(ivs, T, key) : t < T
<1>1. IsFiniteSet(0 .. Ticks) /\ 0 .. Ticks \subseteq Nat
  <2>1. Ticks \in Nat
    BY DEF CaptureAssumption
  <2> QED BY <2>1, FS_Interval
<1>2. BusyTo(ivs, T) \subseteq 0 .. Ticks /\ \A t \in BusyTo(ivs, T) : t < T
  BY DEF BusyTo
<1>3. \A key : AloneTo(ivs, T, key) \subseteq BusyTo(ivs, T)
  BY DEF AloneTo
<1>4. IsFiniteSet(BusyTo(ivs, T))
  BY <1>1, <1>2, FS_Subset
<1>5. \A key : IsFiniteSet(AloneTo(ivs, T, key))
  BY <1>3, <1>4, FS_Subset
<1> QED BY <1>1, <1>2, <1>3, <1>4, <1>5

\* Sixths divide among three.
LEMMA SplitSums ==
  ASSUME NEW s \in Nat, NEW m \in Nat, NEW a \in Nat, 0 < m + a, m + a <= 3
  PROVE  /\ (6 * s * m) \div (m + a) \in Nat /\ (6 * s * a) \div (m + a) \in Nat
         /\ (6 * s * m) \div (m + a) + (6 * s * a) \div (m + a) = 6 * s
         /\ a = 0 => (6 * s * m) \div (m + a) = 6 * s
         /\ m = 0 => (6 * s * a) \div (m + a) = 6 * s
<1>1. \/ (m = 0 /\ a = 1) \/ (m = 1 /\ a = 0)
      \/ (m = 0 /\ a = 2) \/ (m = 1 /\ a = 1) \/ (m = 2 /\ a = 0)
      \/ (m = 0 /\ a = 3) \/ (m = 1 /\ a = 2) \/ (m = 2 /\ a = 1) \/ (m = 3 /\ a = 0)
  OBVIOUS
<1>2. CASE m = 0 /\ a = 1
  BY <1>2
<1>3. CASE m = 1 /\ a = 0
  BY <1>3
<1>4. CASE m = 0 /\ a = 2
  BY <1>4
<1>5. CASE m = 1 /\ a = 1
  BY <1>5
<1>6. CASE m = 2 /\ a = 0
  BY <1>6
<1>7. CASE m = 0 /\ a = 3
  BY <1>7
<1>8. CASE m = 1 /\ a = 2
  BY <1>8
<1>9. CASE m = 2 /\ a = 1
  BY <1>9
<1>10. CASE m = 3 /\ a = 0
  BY <1>10
<1> QED BY <1>1, <1>2, <1>3, <1>4, <1>5, <1>6, <1>7, <1>8, <1>9, <1>10

\* The live intervals of each kernel, as the sweep has counted them: they are
\* none when nothing is live, and one kernel's alone when all are its own.
LEMMA LiveTells ==
  ASSUME CaptureAssumption, NEW ivs \in Seq(Intervals), Len(ivs) <= 3, NEW q, NEW k,
         NEW m, NEW a, m = Cardinality(LiveOf(ivs, q, k, "matmul")), a = Cardinality(LiveOf(ivs, q, k, "add"))
  PROVE  LET L == Live(ivs, q, k)
         IN  /\ m \in Nat /\ a \in Nat /\ m + a <= 3
             /\ L = {} <=> m + a = 0
             /\ (\A i \in L : ivs[i].key = "matmul") <=> a = 0
             /\ (\A i \in L : ivs[i].key = "add") <=> m = 0
<1> DEFINE L == Live(ivs, q, k)
           A == LiveOf(ivs, q, k, "matmul")
           B == LiveOf(ivs, q, k, "add")
<1>1. m \in Nat /\ a \in Nat /\ m + a <= 3
  BY LiveCounts
<1>2. (m = 0 <=> A = {}) /\ (a = 0 <=> B = {})
  BY LiveCounts
<1>3. \A i \in L : ivs[i].key = "matmul" \/ ivs[i].key = "add"
  BY LiveCounts DEF Kernels
<1>4. A = {i \in L : ivs[i].key = "matmul"} /\ B = {i \in L : ivs[i].key = "add"}
  BY DEF LiveOf
<1> HIDE DEF L, A, B
<1>5. L = {} <=> A = {} /\ B = {}
  BY <1>3, <1>4
<1>6. (\A i \in L : ivs[i].key = "matmul") <=> B = {}
  BY <1>3, <1>4
<1>7. (\A i \in L : ivs[i].key = "add") <=> A = {}
  BY <1>3, <1>4
<1>8. m + a = 0 <=> m = 0 /\ a = 0
  BY <1>1
<1> QED BY <1>1, <1>2, <1>5, <1>6, <1>7, <1>8 DEF L

\* occupancy_share() after k events: the shares are those of the busy ticks so far.
Shared(ivs, shares, T) ==
  /\ shares \in [Kernels -> Nat]
  /\ Total(shares) = 6 * Cardinality(BusyTo(ivs, T))
  /\ \A key \in Kernels : shares[key] >= 6 * Cardinality(AloneTo(ivs, T, key))
SweptTo(ivs, k) ==
  LET s == Swept(ivs)[k]
      q == Events(ivs)
  IN  /\ s.previous = Clock(q, k)
      /\ s.live \in [Kernels -> Int]
      /\ \A key \in Kernels : s.live[key] = Cardinality(LiveOf(ivs, q, k, key))
      /\ Shared(ivs, s.shares, Clock(q, k))

\* Shares of what was and shares of what is new.
LEMMA SharesGrow ==
  ASSUME NEW c \in Nat, NEW s \in Nat
  PROVE  \A h \in Nat : h >= 6 * c => h + 6 * s >= 6 * (c + s)
OBVIOUS

\* Shares of two kernels, what was and what is new.
LEMMA SharesSum ==
  ASSUME NEW c \in Nat, NEW s \in Nat, NEW p \in Nat, NEW r \in Nat, NEW x \in Nat, NEW y \in Nat,
         p + r = 6 * c, x + y = 6 * s
  PROVE  (p + x) + (r + y) = 6 * (c + s)
OBVIOUS

\* A slice is shared in full, and a kernel that is alone gets all of it.
LEMMA SliceShared ==
  ASSUME CaptureAssumption, NEW ivs \in Seq(Intervals), Len(ivs) <= 3, NEW q, Scheduled(ivs, q), NEW k \in 1 .. Len(q),
         NEW shares, Shared(ivs, shares, Clock(q, k - 1)), NEW live \in [Kernels -> Int],
         \A key \in Kernels : live[key] = Cardinality(LiveOf(ivs, q, k - 1, key)),
         Total(live) > 0
  PROVE  Shared(ivs, [key \in Kernels |-> shares[key] + Split(q[k].at - Clock(q, k - 1), live)[key]], Clock(q, k))
<1> DEFINE T == Clock(q, k - 1)
           U == Clock(q, k)
           L == Live(ivs, q, k - 1)
           m == live["matmul"]
           a == live["add"]
<1>1. m = Cardinality(LiveOf(ivs, q, k - 1, "matmul")) /\ a = Cardinality(LiveOf(ivs, q, k - 1, "add"))
  BY DEF Kernels
<1>2. /\ m \in Nat /\ a \in Nat /\ m + a <= 3
      /\ L = {} <=> m + a = 0
      /\ (\A i \in L : ivs[i].key = "matmul") <=> a = 0
      /\ (\A i \in L : ivs[i].key = "add") <=> m = 0
  BY <1>1, LiveTells
<1>3. 0 < m + a
  <2>1. m + a > 0
    BY DEF Total
  <2> QED BY <1>2, <2>1
<1>4. /\ T \in Nat /\ U \in Nat /\ T <= U /\ U = q[k].at
      /\ BusyTo(ivs, U) = BusyAfter(ivs, L, T, U)
      /\ \A key : AloneTo(ivs, U, key) = AloneAfter(ivs, L, T, U, key)
  <2> HIDE DEF m, a
  <2>0. CaptureAssumption /\ ivs \in Seq(Intervals) /\ Scheduled(ivs, q) /\ k \in 1 .. Len(q)
    OBVIOUS
  <2>1. T \in Nat /\ U \in Nat /\ T <= U /\ U = q[k].at
    BY SliceAdds
  <2>2. BusyTo(ivs, U) = BusyAfter(ivs, L, T, U)
    BY ONLY <2>0, SliceAdds
  <2>3. \A key : AloneTo(ivs, U, key) = AloneAfter(ivs, L, T, U, key)
    BY ONLY <2>0, SliceAdds
  <2> QED BY <2>1, <2>2, <2>3
<1> DEFINE s == q[k].at - T
           new == [key \in Kernels |-> shares[key] + Split(s, live)[key]]
           x == (6 * s * m) \div (m + a)
           y == (6 * s * a) \div (m + a)
<1>5. L # {}
  BY <1>2, <1>3
<1>6. s \in Nat /\ s = U - T
  BY <1>4
<1>7. Split(s, live) = [key \in Kernels |-> (6 * s * live[key]) \div (m + a)]
  BY DEF Split, Total
<1>8. Split(s, live)["matmul"] = x /\ Split(s, live)["add"] = y
  BY <1>7 DEF Kernels
<1> HIDE DEF T, U, L, m, a, s
<1>9. /\ x \in Nat /\ y \in Nat /\ x + y = 6 * s
      /\ a = 0 => x = 6 * s
      /\ m = 0 => y = 6 * s
  <2>1. s \in Nat /\ m \in Nat /\ a \in Nat /\ 0 < m + a /\ m + a <= 3
    BY <1>2, <1>3, <1>6
  <2>2. /\ (6 * s * m) \div (m + a) \in Nat /\ (6 * s * a) \div (m + a) \in Nat
        /\ (6 * s * m) \div (m + a) + (6 * s * a) \div (m + a) = 6 * s
        /\ a = 0 => (6 * s * m) \div (m + a) = 6 * s
        /\ m = 0 => (6 * s * a) \div (m + a) = 6 * s
    BY ONLY <2>1, SplitSums
  <2> QED BY <2>2
<1> HIDE DEF x, y
<1> DEFINE p == shares["matmul"]
           r == shares["add"]
<1>10. shares \in [Kernels -> Nat] /\ p \in Nat /\ r \in Nat /\ Total(shares) = p + r
  BY DEF Shared, Kernels, Total, T
<1>11. new["matmul"] = p + x /\ new["add"] = r + y
  BY <1>8 DEF Kernels
<1>12. new = [key \in Kernels |-> new[key]]
  OBVIOUS
<1> HIDE DEF new, p, r
<1>13. new \in [Kernels -> Nat]
  <2>1. new["matmul"] \in Nat /\ new["add"] \in Nat
    BY <1>9, <1>10, <1>11
  <2>2. \A key \in Kernels : new[key] \in Nat
    BY <2>1 DEF Kernels
  <2> QED BY <1>12, <2>2
<1>14. ASSUME NEW B, IsFiniteSet(B), B \in SUBSET Nat, \A t \in B : t < T
       PROVE  Cardinality(B \cup (T .. (U - 1))) = Cardinality(B) + s /\ Cardinality(B) \in Nat
  <2>1. Cardinality(B \cup (T .. (U - 1))) = Cardinality(B) + (U - T)
    BY <1>4, <1>14, SpanAdds
  <2> QED BY <1>6, <1>14, <2>1, FS_CardinalityType
<1>15. Total(new) = 6 * Cardinality(BusyTo(ivs, U))
  <2> DEFINE c == Cardinality(BusyTo(ivs, T))
             d == Cardinality(BusyTo(ivs, U))
  <2>1. d = c + s /\ c \in Nat
    BY <1>4, <1>5, <1>14, BusyFinite DEF BusyAfter
  <2>2. p + r = 6 * c
    BY <1>10 DEF Shared, T
  <2>3. Total(new) = (p + x) + (r + y)
    BY <1>11 DEF Total
  <2> HIDE DEF c, d
  <2>4. (p + x) + (r + y) = 6 * (c + s)
    <3>1. c \in Nat /\ s \in Nat /\ p \in Nat /\ r \in Nat /\ x \in Nat /\ y \in Nat
      BY <1>6, <1>9, <1>10, <2>1
    <3>2. p + r = 6 * c /\ x + y = 6 * s
      BY <1>9, <2>2
    <3> QED BY ONLY <3>1, <3>2, SharesSum
  <2>5. Total(new) = 6 * d
    BY <2>1, <2>3, <2>4
  <2> QED BY <2>5 DEF d
<1>16. ASSUME NEW key \in Kernels, NEW z \in Nat, new[key] = shares[key] + z,
              (\A i \in L : ivs[i].key = key) => z = 6 * s
       PROVE  new[key] >= 6 * Cardinality(AloneTo(ivs, U, key))
  <2> DEFINE c == Cardinality(AloneTo(ivs, T, key))
             d == Cardinality(AloneTo(ivs, U, key))
             h == shares[key]
  <2>1. Cardinality(AloneTo(ivs, T, key) \cup (T .. (U - 1))) = c + s /\ c \in Nat
    BY <1>14, BusyFinite
  <2>2. h >= 6 * c /\ h \in Nat
    BY <1>10 DEF Shared, T
  <2>3. CASE \A i \in L : ivs[i].key = key
    <3>1. d = c + s /\ z = 6 * s
      BY <1>4, <1>5, <1>16, <2>1, <2>3 DEF AloneAfter
    <3>2. new[key] = h + z
      BY <1>16
    <3>3. c \in Nat
      BY <2>1
    <3> HIDE DEF c, d, h
    <3>5. h + 6 * s >= 6 * (c + s)
      BY <1>6, <2>2, <3>3, SharesGrow
    <3>4. new[key] >= 6 * d
      BY <3>1, <3>2, <3>5
    <3> QED BY <3>4 DEF d
  <2>4. CASE ~ \A i \in L : ivs[i].key = key
    <3>1. d = c
      BY <1>4, <2>4 DEF AloneAfter
    <3>2. new[key] = h + z /\ z \in Nat
      BY <1>16
    <3>3. c \in Nat
      BY <2>1
    <3> HIDE DEF c, d, h
    <3>4. new[key] >= 6 * d
      BY <2>2, <3>1, <3>2, <3>3
    <3> QED BY <3>4 DEF d
  <2> QED BY <2>3, <2>4
<1>17. \A key \in Kernels : new[key] >= 6 * Cardinality(AloneTo(ivs, U, key))
  <2>1. new["matmul"] >= 6 * Cardinality(AloneTo(ivs, U, "matmul"))
    BY <1>2, <1>9, <1>11, <1>16 DEF Kernels, p, r
  <2>2. new["add"] >= 6 * Cardinality(AloneTo(ivs, U, "add"))
    BY <1>2, <1>9, <1>11, <1>16 DEF Kernels, p, r
  <2> QED BY <2>1, <2>2 DEF Kernels
<1>18. Shared(ivs, new, U)
  BY <1>13, <1>15, <1>17 DEF Shared
<1> QED BY <1>18 DEF new, s, T, U

\* One turn of the sweep.
LEMMA SweepKeeps ==
  ASSUME CaptureAssumption, NEW ivs \in Seq(Intervals), Len(ivs) <= 3, NEW k \in 1 .. Len(Events(ivs)),
         SweptTo(ivs, k - 1)
  PROVE  SweptTo(ivs, k)
<1> DEFINE q == Events(ivs)
           s == Swept(ivs)[k - 1]
           r == Swept(ivs)[k]
           e == q[k]
           T == Clock(q, k - 1)
           U == Clock(q, k)
           m == s.live["matmul"]
           a == s.live["add"]
<1>1. Scheduled(ivs, q)
  BY EventsScheduled
<1>2. Len(q) \in Nat /\ k \in 1 .. Len(q)
  BY <1>1 DEF Scheduled
<1>3. r = Sweep(s, e)
  BY <1>2, SweptIs
<1>4. /\ s.previous = T
      /\ s.live \in [Kernels -> Int]
      /\ \A key \in Kernels : s.live[key] = Cardinality(LiveOf(ivs, q, k - 1, key))
      /\ Shared(ivs, s.shares, T)
  BY DEF SweptTo
<1>5. r.previous = e.at
  BY <1>3 DEF Sweep
<1>6. r.live = [s.live EXCEPT ![e.key] = @ + e.d]
  BY <1>3 DEF Sweep
<1>7. r.shares = IF Total(s.live) > 0 /\ e.at > s.previous
                 THEN [key \in Kernels |-> s.shares[key] + Split(e.at - s.previous, s.live)[key]]
                 ELSE s.shares
  BY <1>3 DEF Sweep
<1> HIDE DEF q, s, r
<1>8. /\ e.key \in Kernels /\ e.d \in Int
      /\ Cardinality(LiveOf(ivs, q, k, e.key)) = Cardinality(LiveOf(ivs, q, k - 1, e.key)) + e.d
      /\ \A key : key # e.key => LiveOf(ivs, q, k, key) = LiveOf(ivs, q, k - 1, key)
  BY <1>1, <1>2, LiveSteps
<1>9. /\ T \in Nat /\ U \in Nat /\ T <= U /\ U = e.at
      /\ BusyTo(ivs, U) = BusyAfter(ivs, Live(ivs, q, k - 1), T, U)
      /\ \A key : AloneTo(ivs, U, key) = AloneAfter(ivs, Live(ivs, q, k - 1), T, U, key)
  BY <1>1, <1>2, SliceAdds
<1> HIDE DEF e
<1>10. r.live \in [Kernels -> Int] /\ \A key \in Kernels : r.live[key] = Cardinality(LiveOf(ivs, q, k, key))
  <2> SUFFICES /\ r.live \in [Kernels -> Int]
               /\ \A key \in Kernels : r.live[key] = Cardinality(LiveOf(ivs, q, k, key))
    OBVIOUS
  <2>1. \A key \in Kernels : r.live[key] = IF key = e.key THEN s.live[key] + e.d ELSE s.live[key]
    BY <1>4, <1>6, <1>8
  <2>2. r.live \in [Kernels -> Int]
    <3>1. s.live[e.key] + e.d \in Int
      BY <1>4, <1>8
    <3> QED BY <1>4, <1>6, <1>8, <3>1
  <2>3. ASSUME NEW key \in Kernels PROVE r.live[key] = Cardinality(LiveOf(ivs, q, k, key))
    BY <1>4, <1>8, <2>1
  <2> QED BY <2>2, <2>3
<1>11. Shared(ivs, r.shares, U)
  <2>1. CASE Total(s.live) > 0 /\ e.at > s.previous
    <3> DEFINE new == [key \in Kernels |-> s.shares[key] + Split(q[k].at - Clock(q, k - 1), s.live)[key]]
    <3>1. r.shares = new
      BY <1>4, <1>7, <2>1 DEF e
    <3> DEFINE old == s.shares
               live == s.live
    <3>2. Shared(ivs, old, Clock(q, k - 1)) /\ live \in [Kernels -> Int] /\ Total(live) > 0
          /\ \A key \in Kernels : live[key] = Cardinality(LiveOf(ivs, q, k - 1, key))
      BY <1>4, <2>1
    <3>3. new = [key \in Kernels |-> old[key] + Split(q[k].at - Clock(q, k - 1), live)[key]]
      OBVIOUS
    <3> HIDE DEF new, old, live, T, U
    <3>4. Shared(ivs, [key \in Kernels |-> old[key] + Split(q[k].at - Clock(q, k - 1), live)[key]], Clock(q, k))
      BY <1>1, <1>2, <3>2, SliceShared
    <3> QED BY <3>1, <3>3, <3>4 DEF U
  <2>2. CASE ~(Total(s.live) > 0) \/ ~(e.at > s.previous)
    <3>1. r.shares = s.shares
      BY <1>7, <2>2
    <3>2. BusyTo(ivs, U) = BusyTo(ivs, T) /\ \A key : AloneTo(ivs, U, key) = AloneTo(ivs, T, key)
      <4>1. CASE ~(Total(s.live) > 0)
        <5>1. m = Cardinality(LiveOf(ivs, q, k - 1, "matmul")) /\ a = Cardinality(LiveOf(ivs, q, k - 1, "add"))
          BY <1>4 DEF Kernels
        <5>2. ~(m + a > 0)
          BY <4>1 DEF Total
        <5> HIDE DEF m, a
        <5>3. m \in Nat /\ a \in Nat /\ (Live(ivs, q, k - 1) = {} <=> m + a = 0)
          BY <5>1, LiveTells
        <5>4. Live(ivs, q, k - 1) = {}
          BY <5>2, <5>3
        <5> QED BY <1>9, <5>4 DEF AloneAfter, BusyAfter
      <4>2. CASE ~(e.at > s.previous)
        <5>1. T = U
          BY <1>4, <1>9, <4>2
        <5>2. BusyTo(ivs, U) = BusyTo(ivs, T) /\ \A key : AloneTo(ivs, U, key) = AloneTo(ivs, T, key)
          BY <5>1
        <5> QED BY <5>2
      <4> QED BY <2>2, <4>1, <4>2
    <3> QED BY <1>4, <3>1, <3>2 DEF Shared
  <2> QED BY <2>1, <2>2
<1> QED BY <1>5, <1>9, <1>10, <1>11 DEF SweptTo, q, r

\* The sweep starts from nothing.
LEMMA SweepStarts ==
  ASSUME CaptureAssumption, NEW ivs \in Seq(Intervals), Len(ivs) <= 3
  PROVE  SweptTo(ivs, 0)
<1> DEFINE q == Events(ivs)
           s == Swept(ivs)[0]
           none == [key \in Kernels |-> 0]
<1>1. Len(q) \in Nat
  BY EventsScheduled DEF Scheduled
<1>2. s.previous = 0 /\ s.live = none /\ s.shares = none
  BY <1>1, SweptIs
<1>3. \A key \in Kernels : none[key] = 0
  OBVIOUS
<1>4. none \in [Kernels -> Nat] /\ none \in [Kernels -> Int] /\ Total(none) = 0
  BY DEF Total, Kernels
<1>5. Clock(q, 0) = 0
  BY DEF Clock
<1> HIDE DEF q, s, none
<1>6. \A key : LiveOf(ivs, q, 0, key) = {}
  BY LiveFirst DEF LiveOf
<1>7. BusyTo(ivs, 0) = {} /\ \A key : AloneTo(ivs, 0, key) = {}
  <2>1. Ticks \in Nat
    BY DEF CaptureAssumption
  <2>2. BusyTo(ivs, 0) = {}
    BY <2>1 DEF BusyTo
  <2> QED BY <2>2 DEF AloneTo
<1>8. Cardinality({}) = 0
  BY FS_EmptySet
<1>9. Shared(ivs, none, 0)
  <2>1. Total(none) = 6 * Cardinality(BusyTo(ivs, 0))
    <3> DEFINE c == Cardinality(BusyTo(ivs, 0))
    <3>1. c = 0
      BY <1>7, <1>8
    <3>2. Total(none) = 0
      BY <1>4
    <3> HIDE DEF c
    <3>3. Total(none) = 6 * c
      BY <3>1, <3>2
    <3> QED BY <3>3 DEF c
  <2>2. ASSUME NEW key \in Kernels PROVE none[key] >= 6 * Cardinality(AloneTo(ivs, 0, key))
    <3>1. none[key] = 0 /\ Cardinality(AloneTo(ivs, 0, key)) = 0
      BY <1>3, <1>7, <1>8
    <3> QED BY <3>1
  <2> QED BY <1>4, <2>1, <2>2 DEF Shared
<1>10. \A key \in Kernels : s.live[key] = Cardinality(LiveOf(ivs, q, 0, key))
  BY <1>2, <1>3, <1>6, <1>8
<1> QED BY <1>2, <1>4, <1>5, <1>9, <1>10 DEF SweptTo, q, s

\* The sweep keeps its account to the end.
LEMMA SweptCounts ==
  ASSUME CaptureAssumption, NEW ivs \in Seq(Intervals), Len(ivs) <= 3
  PROVE  Len(Events(ivs)) \in Nat /\ \A k \in 0 .. Len(Events(ivs)) : SweptTo(ivs, k)
<1> DEFINE n == Len(Events(ivs))
           wrong == {k \in 0 .. n : ~SweptTo(ivs, k)}
<1>1. n \in Nat
  BY EventsScheduled DEF Scheduled
<1>2. SweptTo(ivs, 0)
  BY SweepStarts
<1>3. \A k \in 1 .. n : SweptTo(ivs, k - 1) => SweptTo(ivs, k)
  BY SweepKeeps
<1> HIDE DEF n
<1>4. wrong = {}
  <2> SUFFICES ASSUME wrong # {} PROVE FALSE
    OBVIOUS
  <2>1. wrong \subseteq Nat
    BY <1>1
  <2>2. PICK k \in wrong : \A j \in wrong : k <= j
    BY <2>1, LeastExists
  <2>3. k # 0 /\ k \in 0 .. n
    BY <1>2, <2>2
  <2>4. k \in 1 .. n /\ k - 1 \in 0 .. n /\ ~(k <= k - 1)
    BY <1>1, <2>3
  <2>5. SweptTo(ivs, k - 1)
    BY <2>2, <2>4
  <2> QED BY <1>3, <2>2, <2>4, <2>5
<1> QED BY <1>1, <1>4 DEF n

\* After the last event nothing runs.
LEMMA LastEvent ==
  ASSUME CaptureAssumption, NEW ivs \in Seq(Intervals), NEW q, Scheduled(ivs, q)
  PROVE  BusyTo(ivs, Clock(q, Len(q))) = Busy(ivs)
<1> DEFINE n == Len(q)
           U == Clock(q, n)
<1>1. n \in Nat /\ n \in 0 .. n /\ Ticks \in Nat
  BY DEF Scheduled, CaptureAssumption
<1>2. U \in Nat
  BY <1>1, ClockIs
<1>3. Live(ivs, q, n) = {}
  <2> SUFFICES ASSUME NEW i \in Live(ivs, q, n) PROVE FALSE
    OBVIOUS
  <2>1. i \in Lasting(ivs) /\ ~ \E j \in 1 .. n : q[j] = EndOf(ivs, i)
    BY DEF Live
  <2> QED BY <2>1, BothScheduled
<1>4. ASSUME NEW t \in Nat, U <= t PROVE Running(ivs, t) = {}
  <2>1. ~(n < n)
    BY <1>1
  <2>2. Running(ivs, t) = Live(ivs, q, n)
    BY <1>1, <1>4, <2>1, RunningIsLive
  <2> QED BY <1>3, <2>2
<1> HIDE DEF U, n
<1>5. \A t \in 0 .. Ticks : Running(ivs, t) # {} => t < U
  BY <1>1, <1>2, <1>4
<1>6. \A t : t \in Busy(ivs) <=> t \in BusyTo(ivs, U)
  BY <1>5 DEF Busy, BusyTo
<1> QED BY <1>6 DEF U, n

\* The ticks at which one kernel runs alone.
Alone(ivs, key) == {at \in Busy(ivs) : \A i \in Running(ivs, at) : ivs[i].key = key}

\* occupancy_share() shares out the busy ticks, and gives a kernel those it runs alone.
LEMMA OccupancyShares ==
  ASSUME CaptureAssumption, NEW ivs \in Seq(Intervals), Len(ivs) <= 3
  PROVE  /\ Total(OccupancyShare(ivs)) = 6 * Cardinality(Busy(ivs))
         /\ \A key \in Kernels : OccupancyShare(ivs)[key] >= 6 * Cardinality(Alone(ivs, key))
<1> DEFINE q == Events(ivs)
           n == Len(q)
           U == Clock(q, n)
<1>1. n \in Nat /\ SweptTo(ivs, n)
  <2>1. n \in Nat
    BY SweptCounts
  <2>2. n \in 0 .. Len(Events(ivs))
    BY <2>1
  <2> QED BY <2>1, <2>2, SweptCounts
<1>2. Shared(ivs, OccupancyShare(ivs), U)
  BY <1>1 DEF SweptTo, OccupancyShare
<1>3. BusyTo(ivs, U) = Busy(ivs)
  BY EventsScheduled, LastEvent
<1> HIDE DEF U
<1>4. \A key : AloneTo(ivs, U, key) = Alone(ivs, key)
  BY <1>3 DEF AloneTo, Alone
<1> QED BY <1>2, <1>3, <1>4 DEF Shared

\* The account of a report's time.
Accounts(ivs, c) ==
  /\ c.union = Cardinality(Busy(ivs))
  /\ Total(c.shares) = 6 * c.union
  /\ \A key \in Kernels : c.shares[key] >= 6 * Cardinality(Alone(ivs, key))

\* That is what a report promises, after a step.
LEMMA AccountsNow == SharesAddUp' <=> (intervals' # <<>> => Accounts(intervals', costs'))
BY DEF SharesAddUp, Accounts, Busy, Alone, Running

\* attribute() leaves an account that adds up.
LEMMA AttributeAddsUp ==
  ASSUME CaptureAssumption, NEW ivs \in SeqOf(Intervals, 3) \ {<<>>}, Attribute(ivs)
  PROVE  SharesAddUp'
<1>1. ivs \in Seq(Intervals) /\ Len(ivs) <= 3
  <2>1. PICK m \in 0 .. 3 : ivs \in [1 .. m -> Intervals]
    BY DEF SeqOf
  <2>2. m \in Nat /\ m <= 3
    OBVIOUS
  <2> QED BY <2>1, <2>2
<1> DEFINE u == UnionMs(ivs)
           s == OccupancyShare(ivs)
<1>2. u = Cardinality(Busy(ivs))
  BY <1>1, UnionCounts
<1>3. Total(s) = 6 * u /\ \A key \in Kernels : s[key] >= 6 * Cardinality(Alone(ivs, key))
  BY <1>1, <1>2, OccupancyShares
<1>4. intervals' = ivs /\ costs' = [union |-> u, shares |-> s]
  BY DEF Attribute
<1> HIDE DEF u, s
<1>5. costs'.union = u /\ costs'.shares = s
  BY <1>4
<1>6. Total(costs'.shares) = 6 * costs'.union /\ costs'.union = Cardinality(Busy(ivs))
  BY <1>2, <1>3, <1>5
<1>7. \A key \in Kernels : costs'.shares[key] >= 6 * Cardinality(Alone(ivs, key))
  BY <1>3, <1>5
<1>8. Accounts(ivs, costs')
  BY <1>6, <1>7 DEF Accounts
<1> QED BY <1>4, <1>8, AccountsNow

\* union_ms() and the shares of a report always account for its time.
THEOREM SharesAlwaysAddUp == CapSpec => []SharesAddUp
<1>1. CapInit => SharesAddUp
  BY DEF CapInit, SharesAddUp
<1>2. SharesAddUp /\ [CapNext]_capVars => SharesAddUp'
  <2> SUFFICES ASSUME SharesAddUp, [CapNext]_capVars PROVE SharesAddUp'
    OBVIOUS
  <2>1. CASE \E ivs \in SeqOf(Intervals, 3) \ {<<>>} : Attribute(ivs)
    BY <2>1, CaptureAssumption, AttributeAddsUp
  <2>2. CASE UNCHANGED Tables
    <3>1. intervals' = intervals /\ costs' = costs
      BY <2>2 DEF Tables
    <3> QED BY <3>1 DEF SharesAddUp
  <2>3. UNCHANGED capVars => UNCHANGED Tables
    BY DEF capVars, Tables
  <2>4. CapNext => (\E ivs \in SeqOf(Intervals, 3) \ {<<>>} : Attribute(ivs)) \/ UNCHANGED Tables
    BY DEF CapNext, Work, GpuDone, ReadBack, SetProfiling, Enter, Exit, ExitRaises, Timeline, Window, Profiler
  <2> QED BY <2>1, <2>2, <2>3, <2>4
<1> QED BY <1>1, <1>2, PTL DEF CapSpec

\* A capture's report is always the submissions it should be, with shares that add up.
THEOREM CapturesAreHonest == CapSpec => []CaptureHonest
<1>1. CaptureExact /\ SharesAddUp => CaptureHonest
  BY DEF CaptureHonest
<1> QED BY <1>1, CapturesAreExact, SharesAlwaysAddUp, PTL
================================================================================
