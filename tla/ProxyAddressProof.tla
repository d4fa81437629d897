-------------------------- MODULE ProxyAddressProof --------------------------
(***************************************************************************)
(* proxyIPBlocked blocks exactly the documented spans, for every address.  *)
(*                                                                         *)
(* An IPv4 address is settled byte by byte: the masks and the spans are    *)
(* both shown to be the condition Covered.  For an IPv6 address the order  *)
(* of addresses is taken apart: between two bounds with a common prefix an *)
(* address has that prefix too (Sandwich), and then only the bytes behind  *)
(* it count (Shift); bounds filled up with 0 and 255 put no condition on   *)
(* the bytes they were filled up with (FillLow, FillHigh).                 *)
(***************************************************************************)
EXTENDS ProxyPolicy, WellFoundedInduction, TLAPS

\* Addresses of n bytes.
Byte == 0..255
Address(n) == {a \in Seq(Byte) : Len(a) = n}

\* The bytes of an address are numbers from 0 to 255.
LEMMA AddressFacts ==
  ASSUME NEW n \in Nat, NEW a \in Address(n)
  PROVE  /\ a \in Seq(Byte) /\ Len(a) = n /\ DOMAIN a = 1..n
         /\ \A i \in 1..n : a[i] \in Int /\ 0 <= a[i] /\ a[i] <= 255
<1>1. a \in Seq(Byte) /\ Len(a) = n
  BY DEF Address
<1>2. a \in [1..n -> Byte]
  BY <1>1
<1>3. \A i \in 1..n : a[i] \in Byte
  BY <1>2
<1>4. \A b \in Byte : b \in Int /\ 0 <= b /\ b <= 255
  BY DEF Byte
<1> QED
  BY <1>1, <1>2, <1>3, <1>4

\* A set of positions has a first one.
LEMMA FirstOf ==
  ASSUME NEW S \in SUBSET Nat, S # {}
  PROVE  \E k \in S : \A i \in S : k <= i
<1> DEFINE R == OpToRel(<, Nat)
<1>1. IsWellFoundedOn(R, Nat)
  BY NatLessThanWellFounded, Zenon
<1> HIDE DEF R
<1>2. PICK k \in S : \A i \in S : ~(<<i, k>> \in R)
  BY <1>1, WFMin
<1>3. \A i \in S : ~(i < k)
  BY <1>2 DEF R, OpToRel
<1> QED
  BY <1>3

\* What lies between two addresses with the same first m bytes has these bytes too.
LEMMA Sandwich ==
  ASSUME NEW n \in Nat, NEW m \in 1..n, NEW x \in Address(n), NEW a \in Address(n),
         NEW y \in Address(n), \A i \in 1..m : x[i] = y[i],
         NotAfter(x, a), NotAfter(a, y)
  PROVE  \A i \in 1..m : a[i] = x[i]
<1>t. \A i \in 1..n : x[i] \in Int /\ a[i] \in Int /\ y[i] \in Int
  BY AddressFacts
<1>d. DOMAIN x = 1..n /\ DOMAIN a = 1..n /\ DOMAIN y = 1..n
  BY DEF Address
<1>1. CASE x = a
  BY <1>1
<1>2. CASE a = y
  BY <1>2
<1>3. CASE x # a /\ a # y
  <2>1. PICK k \in 1..n : x[k] < a[k] /\ \A i \in 1..(k - 1) : x[i] = a[i]
    BY <1>3, <1>d DEF NotAfter
  <2>2. PICK j \in 1..n : a[j] < y[j] /\ \A i \in 1..(j - 1) : a[i] = y[i]
    BY <1>3, <1>d DEF NotAfter
  <2>3. CASE k > m
    BY <2>1, <2>3
  <2>4. CASE k <= m /\ j < k
    BY <2>1, <2>2, <2>4, <1>t
  <2>5. CASE k <= m /\ j = k
    BY <2>1, <2>2, <2>5, <1>t
  <2>6. CASE k <= m /\ j > k
    BY <2>1, <2>2, <2>6, <1>t
  <2> QED
    BY <2>3, <2>4, <2>5, <2>6
<1> QED
  BY <1>1, <1>2, <1>3

\* If the first m bytes are the same, the others decide the order.
LEMMA Shift ==
  ASSUME NEW n \in Nat, NEW m \in 1..n, NEW x \in Address(n), NEW a \in Address(n),
         \A i \in 1..m : x[i] = a[i]
  PROVE  NotAfter(x, a) <=> NotAfter(SubSeq(x, m + 1, n), SubSeq(a, m + 1, n))
<1> DEFINE u == SubSeq(x, m + 1, n)
           b == SubSeq(a, m + 1, n)
<1>t. \A i \in 1..n : x[i] \in Int /\ a[i] \in Int
  BY AddressFacts
<1>d. DOMAIN x = 1..n /\ DOMAIN a = 1..n /\ x \in Seq(Byte) /\ a \in Seq(Byte) /\ Len(x) = n
      /\ Len(a) = n
  BY DEF Address
<1>u. /\ u \in Seq(Byte) /\ b \in Seq(Byte) /\ Len(u) = n - m /\ Len(b) = n - m
      /\ DOMAIN u = 1..(n - m) /\ DOMAIN b = 1..(n - m)
      /\ \A i \in 1..(n - m) : u[i] = x[m + i] /\ b[i] = a[m + i]
  BY <1>d
<1> HIDE DEF u, b
<1>1. ASSUME NotAfter(x, a) PROVE NotAfter(u, b)
  <2>1. CASE x = a
    BY <2>1 DEF NotAfter, u, b
  <2>2. CASE x # a
    <3>1. PICK k \in 1..n : x[k] < a[k] /\ \A i \in 1..(k - 1) : x[i] = a[i]
      BY <1>1, <2>2, <1>d DEF NotAfter
    <3>2. k > m
      BY <3>1, <1>t
    <3>3. k - m \in 1..(n - m) /\ u[k - m] = x[k] /\ b[k - m] = a[k]
      <4>1. k - m \in 1..(n - m) /\ m + (k - m) = k
        BY <3>2
      <4> QED
        BY ONLY <4>1, <1>u
    <3>4. \A i \in 1..(k - m - 1) : u[i] = b[i]
      BY <3>1, <3>2, <1>u
    <3> QED
      BY <3>1, <3>3, <3>4, <1>u DEF NotAfter
  <2> QED
    BY <2>1, <2>2
<1>2. ASSUME NotAfter(u, b) PROVE NotAfter(x, a)
  <2>1. CASE u = b
    <3>1. \A i \in 1..n : x[i] = a[i]
      <4> TAKE i \in 1..n
      <4>1. CASE i <= m
        BY <4>1
      <4>2. CASE i > m
        <5>1. i - m \in 1..(n - m) /\ m + (i - m) = i
          BY <4>2
        <5> QED
          BY <5>1, <2>1, <1>u
      <4> QED
        BY <4>1, <4>2
    <3>2. x = a
      BY <3>1, <1>d
    <3> QED
      BY <3>2 DEF NotAfter
  <2>2. CASE u # b
    <3>1. PICK k \in 1..(n - m) : u[k] < b[k] /\ \A i \in 1..(k - 1) : u[i] = b[i]
      BY <1>2, <2>2, <1>u DEF NotAfter
    <3>2. m + k \in 1..n /\ x[m + k] < a[m + k]
      BY <3>1, <1>u
    <3>3. \A i \in 1..(m + k - 1) : x[i] = a[i]
      <4> TAKE i \in 1..(m + k - 1)
      <4>1. CASE i <= m
        BY <4>1
      <4>2. CASE i > m
        <5>1. i - m \in 1..(k - 1) /\ i - m \in 1..(n - m) /\ m + (i - m) = i
          BY <4>2
        <5> QED
          BY <5>1, <3>1, <1>u
      <4> QED
        BY <4>1, <4>2
    <3> QED
      BY <3>2, <3>3, <1>d DEF NotAfter
  <2> QED
    BY <2>1, <2>2
<1> QED
  BY <1>1, <1>2 DEF u, b

\* The first m bytes of an address.
LEMMA Leading ==
  ASSUME NEW n \in Nat, NEW m \in 1..n, NEW a \in Address(n)
  PROVE  /\ SubSeq(a, 1, m) \in Address(m)
         /\ \A i \in 1..m : SubSeq(a, 1, m)[i] = a[i]
<1>0. n \in Nat /\ m \in 1..n
  OBVIOUS
<1>1. a \in Seq(Byte) /\ Len(a) = n /\ m \in 1..Len(a)
  BY AddressFacts
<1>2. SubSeq(a, 1, m) \in Seq(Byte) /\ Len(SubSeq(a, 1, m)) = m
  BY ONLY <1>0, <1>1
<1>3. \A i \in 1..m : SubSeq(a, 1, m)[i] = a[i]
  BY ONLY <1>0, <1>1
<1> QED
  BY <1>2, <1>3 DEF Address

\* An address filled up with one byte.
LEMMA FillFacts ==
  ASSUME NEW m \in 1..15, NEW p \in Address(m), NEW byte \in Byte
  PROVE  /\ Fill(p, byte) \in Address(16)
         /\ \A i \in 1..m : Fill(p, byte)[i] = p[i]
         /\ \A i \in (m + 1)..16 : Fill(p, byte)[i] = byte
<1> DEFINE z == [i \in 1..(16 - m) |-> byte]
           x == Fill(p, byte)
<1>d. p \in Seq(Byte) /\ Len(p) = m
  BY AddressFacts
<1>1. \A i \in 1..(16 - m) : z[i] = byte
  OBVIOUS
<1>2. z \in Seq(Byte) /\ Len(z) = 16 - m
  OBVIOUS
<1>3. x = p \o z
  BY <1>d DEF Fill
<1> HIDE DEF x, z
<1>4. m + (16 - m) = 16
  OBVIOUS
<1>5. x \in Seq(Byte) /\ Len(x) = 16
  BY <1>d, <1>2, <1>3, <1>4
<1>6. \A i \in 1..16 : x[i] = IF i <= m THEN p[i] ELSE z[i - m]
  BY <1>d, <1>2, <1>3, <1>4
<1>7. \A i \in (m + 1)..16 : i \in 1..16 /\ ~(i <= m) /\ i - m \in 1..(16 - m)
  OBVIOUS
<1>8. \A i \in 1..m : i \in 1..16 /\ i <= m
  OBVIOUS
<1>9. \A i \in 1..m : x[i] = p[i]
  BY ONLY <1>6, <1>8
<1>10. \A i \in (m + 1)..16 : x[i] = byte
  BY ONLY <1>1, <1>6, <1>7
<1> QED
  BY <1>5, <1>9, <1>10 DEF Address, x

\* Zeros behind a lower bound leave the bytes there free.
LEMMA FillLow ==
  ASSUME NEW m \in 1..15, NEW p \in Address(m), NEW a \in Address(16)
  PROVE  NotAfter(Fill(p, 0), a) <=> NotAfter(p, SubSeq(a, 1, m))
<1> DEFINE x == Fill(p, 0)
           b == SubSeq(a, 1, m)
<1>n. m \in Nat /\ 16 \in Nat /\ m \in 1..16
  OBVIOUS
<1>d. /\ a \in Seq(Byte) /\ Len(a) = 16 /\ p \in Seq(Byte) /\ Len(p) = m
      /\ DOMAIN a = 1..16 /\ DOMAIN p = 1..m
  BY <1>n, AddressFacts
<1>x. /\ x \in Seq(Byte) /\ Len(x) = 16 /\ DOMAIN x = 1..16
      /\ \A i \in 1..m : x[i] = p[i]
      /\ \A i \in (m + 1)..16 : x[i] = 0
  <2>1. 0 \in Byte
    BY DEF Byte
  <2>2. /\ x \in Address(16) /\ \A i \in 1..m : x[i] = p[i]
        /\ \A i \in (m + 1)..16 : x[i] = 0
    BY <2>1, FillFacts
  <2> HIDE DEF x
  <2>3. x \in Seq(Byte) /\ Len(x) = 16 /\ DOMAIN x = 1..16
    BY <2>2 DEF Address
  <2> QED
    BY ONLY <2>2, <2>3
<1>b. b \in Seq(Byte) /\ Len(b) = m /\ DOMAIN b = 1..m /\ \A i \in 1..m : b[i] = a[i]
  <2>1. b \in Address(m) /\ \A i \in 1..m : b[i] = a[i]
    BY <1>n, Leading
  <2> QED
    BY <1>n, <2>1, AddressFacts
<1>t. \A i \in 1..16 : a[i] \in Int /\ a[i] >= 0
  BY AddressFacts
<1>p. \A i \in 1..m : p[i] \in Int
  BY AddressFacts
<1>m. \A k \in 1..m : k \in 1..16 /\ \A i \in 1..(k - 1) : i \in 1..m
  OBVIOUS
<1> HIDE DEF x, b
<1>1. ASSUME NotAfter(x, a) PROVE NotAfter(p, b)
  <2>1. ASSUME \A i \in 1..m : x[i] = a[i] PROVE p = b
    BY <2>1, <1>x, <1>b, <1>d
  <2>2. CASE x = a
    BY <2>1, <2>2 DEF NotAfter
  <2>3. CASE x # a
    <3>1. PICK k \in 1..16 : x[k] < a[k] /\ \A i \in 1..(k - 1) : x[i] = a[i]
      BY <1>1, <2>3, <1>x DEF NotAfter
    <3>2. CASE k > m
      BY <3>1, <3>2, <2>1 DEF NotAfter
    <3>3. CASE k <= m
      <4>1. k \in 1..m
        BY <3>3
      <4>2. p[k] < b[k] /\ \A i \in 1..(k - 1) : p[i] = b[i]
        BY ONLY <4>1, <3>1, <1>x, <1>b, <1>m
      <4> QED
        BY <4>1, <4>2, <1>d DEF NotAfter
    <3> QED
      BY <3>2, <3>3
  <2> QED
    BY <2>2, <2>3
<1>2. ASSUME NotAfter(p, b) PROVE NotAfter(x, a)
  <2>1. CASE p = b
    <3> DEFINE S == {i \in 1..16 : a[i] # x[i]}
    <3>1. CASE S = {}
      <4>1. x = a
        BY <3>1, <1>x, <1>d
      <4> QED
        BY <4>1 DEF NotAfter
    <3>2. CASE S # {}
      <4>1. S \in SUBSET Nat
        OBVIOUS
      <4>2. PICK k \in S : \A i \in S : k <= i
        <5> HIDE DEF S
        <5> QED BY <3>2, <4>1, FirstOf
      <4>3. k \in 1..16 /\ a[k] # x[k] /\ \A i \in 1..(k - 1) : x[i] = a[i]
        BY <4>2
      <4>4. k > m
        BY <4>3, <2>1, <1>x, <1>b
      <4>5. x[k] < a[k]
        <5>1. x[k] = 0
          BY <4>3, <4>4, <1>x
        <5>2. a[k] \in Int /\ a[k] >= 0 /\ a[k] # 0
          BY <5>1, <4>3, <1>t
        <5> QED
          BY <5>1, <5>2
      <4> QED
        BY <4>3, <4>5, <1>x DEF NotAfter
    <3> QED
      BY <3>1, <3>2
  <2>2. CASE p # b
    <3>1. PICK k \in 1..m : p[k] < b[k] /\ \A i \in 1..(k - 1) : p[i] = b[i]
      BY <1>2, <2>2, <1>d DEF NotAfter
    <3>2. k \in 1..16 /\ x[k] < a[k] /\ \A i \in 1..(k - 1) : x[i] = a[i]
      BY ONLY <3>1, <1>x, <1>b, <1>m
    <3> QED
      BY <3>2, <1>x DEF NotAfter
  <2> QED
    BY <2>1, <2>2
<1> QED
  BY <1>1, <1>2 DEF x, b
\* And so do bytes of 255 behind an upper bound.
LEMMA FillHigh ==
  ASSUME NEW m \in 1..15, NEW p \in Address(m), NEW a \in Address(16)
  PROVE  NotAfter(a, Fill(p, 255)) <=> NotAfter(SubSeq(a, 1, m), p)
<1> DEFINE x == Fill(p, 255)
           b == SubSeq(a, 1, m)
<1>n. m \in Nat /\ 16 \in Nat /\ m \in 1..16
  OBVIOUS
<1>d. /\ a \in Seq(Byte) /\ Len(a) = 16 /\ p \in Seq(Byte) /\ Len(p) = m
      /\ DOMAIN a = 1..16 /\ DOMAIN p = 1..m
  BY <1>n, AddressFacts
<1>x. /\ x \in Seq(Byte) /\ Len(x) = 16 /\ DOMAIN x = 1..16
      /\ \A i \in 1..m : x[i] = p[i]
      /\ \A i \in (m + 1)..16 : x[i] = 255
  <2>1. 255 \in Byte
    BY DEF Byte
  <2>2. /\ x \in Address(16) /\ \A i \in 1..m : x[i] = p[i]
        /\ \A i \in (m + 1)..16 : x[i] = 255
    BY <2>1, FillFacts
  <2> HIDE DEF x
  <2>3. x \in Seq(Byte) /\ Len(x) = 16 /\ DOMAIN x = 1..16
    BY <2>2 DEF Address
  <2> QED
    BY ONLY <2>2, <2>3
<1>b. b \in Seq(Byte) /\ Len(b) = m /\ DOMAIN b = 1..m /\ \A i \in 1..m : b[i] = a[i]
  <2>1. b \in Address(m) /\ \A i \in 1..m : b[i] = a[i]
    BY <1>n, Leading
  <2> QED
    BY <1>n, <2>1, AddressFacts
<1>t. \A i \in 1..16 : a[i] \in Int /\ a[i] <= 255
  BY AddressFacts
<1>p. \A i \in 1..m : p[i] \in Int
  BY AddressFacts
<1>m. \A k \in 1..m : k \in 1..16 /\ \A i \in 1..(k - 1) : i \in 1..m
  OBVIOUS
<1> HIDE DEF x, b
<1>1. ASSUME NotAfter(a, x) PROVE NotAfter(b, p)
  <2>1. ASSUME \A i \in 1..m : x[i] = a[i] PROVE p = b
    BY <2>1, <1>x, <1>b, <1>d
  <2>2. CASE x = a
    BY <2>1, <2>2 DEF NotAfter
  <2>3. CASE x # a
    <3>1. PICK k \in 1..16 : a[k] < x[k] /\ \A i \in 1..(k - 1) : x[i] = a[i]
      BY <1>1, <2>3, <1>d DEF NotAfter
    <3>2. CASE k > m
      BY <3>1, <3>2, <2>1 DEF NotAfter
    <3>3. CASE k <= m
      <4>1. k \in 1..m
        BY <3>3
      <4>2. b[k] < p[k] /\ \A i \in 1..(k - 1) : p[i] = b[i]
        BY ONLY <4>1, <3>1, <1>x, <1>b, <1>m
      <4> QED
        BY <4>1, <4>2, <1>b DEF NotAfter
    <3> QED
      BY <3>2, <3>3
  <2> QED
    BY <2>2, <2>3
<1>2. ASSUME NotAfter(b, p) PROVE NotAfter(a, x)
  <2>1. CASE p = b
    <3> DEFINE S == {i \in 1..16 : a[i] # x[i]}
    <3>1. CASE S = {}
      <4>1. x = a
        BY <3>1, <1>x, <1>d
      <4> QED
        BY <4>1 DEF NotAfter
    <3>2. CASE S # {}
      <4>1. S \in SUBSET Nat
        OBVIOUS
      <4>2. PICK k \in S : \A i \in S : k <= i
        <5> HIDE DEF S
        <5> QED BY <3>2, <4>1, FirstOf
      <4>3. k \in 1..16 /\ a[k] # x[k] /\ \A i \in 1..(k - 1) : x[i] = a[i]
        BY <4>2
      <4>4. k > m
        BY <4>3, <2>1, <1>x, <1>b
      <4>5. a[k] < x[k]
        <5>1. x[k] = 255
          BY <4>3, <4>4, <1>x
        <5>2. a[k] \in Int /\ a[k] <= 255 /\ a[k] # 255
          BY <5>1, <4>3, <1>t
        <5> QED
          BY <5>1, <5>2
      <4> QED
        BY <4>3, <4>5, <1>d DEF NotAfter
    <3> QED
      BY <3>1, <3>2
  <2>2. CASE p # b
    <3>1. PICK k \in 1..m : b[k] < p[k] /\ \A i \in 1..(k - 1) : p[i] = b[i]
      BY <1>2, <2>2, <1>b DEF NotAfter
    <3>2. k \in 1..16 /\ a[k] < x[k] /\ \A i \in 1..(k - 1) : x[i] = a[i]
      BY ONLY <3>1, <1>x, <1>b, <1>m
    <3> QED
      BY <3>2, <1>d DEF NotAfter
  <2> QED
    BY <2>1, <2>2
<1> QED
  BY <1>1, <1>2 DEF x, b

\* The bytes of an address behind the first m.
LEMMA Behind ==
  ASSUME NEW n \in Nat, NEW m \in 1..(n - 1), NEW a \in Address(n)
  PROVE  /\ SubSeq(a, m + 1, n) \in Address(n - m)
         /\ \A i \in 1..(n - m) : SubSeq(a, m + 1, n)[i] = a[m + i]
<1>0. n \in Nat /\ m \in 1..(n - 1)
  OBVIOUS
<1>1. a \in Seq(Byte) /\ Len(a) = n
  BY AddressFacts
<1>2. SubSeq(a, m + 1, n) \in Seq(Byte) /\ Len(SubSeq(a, m + 1, n)) = n - m
  BY ONLY <1>0, <1>1
<1>3. \A i \in 1..(n - m) : SubSeq(a, m + 1, n)[i] = a[m + i]
  BY ONLY <1>0, <1>1
<1> QED
  BY <1>2, <1>3 DEF Address

\* Two parts of an address put together.
LEMMA Joined ==
  ASSUME NEW m \in Nat, NEW k \in Nat, NEW p \in Address(m), NEW q \in Address(k)
  PROVE  /\ p \o q \in Address(m + k)
         /\ \A i \in 1..m : (p \o q)[i] = p[i]
         /\ m > 0 /\ k > 0 => SubSeq(p \o q, m + 1, m + k) = q
<1>0. m \in Nat /\ k \in Nat
  OBVIOUS
<1>1. p \in Seq(Byte) /\ Len(p) = m /\ q \in Seq(Byte) /\ Len(q) = k
  BY AddressFacts
<1>2. p \o q \in Seq(Byte) /\ Len(p \o q) = m + k
  BY ONLY <1>0, <1>1
<1>3. \A i \in 1..m : (p \o q)[i] = p[i]
  BY ONLY <1>0, <1>1
<1>4. m > 0 /\ k > 0 => SubSeq(p \o q, m + 1, m + k) = q
  BY ONLY <1>0, <1>1
<1> QED
  BY <1>2, <1>3, <1>4 DEF Address

\* The bytes of the second part.
LEMMA JoinedBehind ==
  ASSUME NEW m \in Nat, NEW k \in Nat, NEW p \in Address(m), NEW q \in Address(k), NEW i \in 1..k
  PROVE  (p \o q)[m + i] = q[i]
<1>0. m \in Nat /\ k \in Nat /\ i \in 1..k
  OBVIOUS
<1>1. p \in Seq(Byte) /\ Len(p) = m /\ q \in Seq(Byte) /\ Len(q) = k
  BY AddressFacts
<1> QED
  BY ONLY <1>0, <1>1

\* The four bytes at which a 6to4 address holds its IPv4 address.
LEMMA Middle ==
  ASSUME NEW a \in Address(16)
  PROVE  SubSeq(a, 3, 6) \in Address(4) /\ SubSeq(SubSeq(a, 1, 6), 3, 6) = SubSeq(a, 3, 6)
         /\ SubSeq(SubSeq(a, 1, 6), 1, 2) = SubSeq(a, 1, 2)
<1> DEFINE b == SubSeq(a, 1, 6)
<1>0. /\ 2 + 1 = 3 /\ 16 \in Nat /\ 6 \in 1..16 /\ 6 \in Nat /\ 2 \in 1..(6 - 1) /\ 6 - 2 = 4
  OBVIOUS
<1>b. b \in Address(6)
  BY <1>0, Leading
<1>s. SubSeq(b, 1, 2) = SubSeq(a, 1, 2) /\ SubSeq(b, 3, 6) = SubSeq(a, 3, 6)
  <2>1. a \in Seq(Byte) /\ Len(a) = 16
    BY DEF Address
  <2> QED
    BY ONLY <2>1
<1>t. SubSeq(b, 3, 6) \in Address(4)
  <2>1. SubSeq(b, 2 + 1, 6) \in Address(6 - 2)
    <3> HIDE DEF b
    <3> QED
      BY <1>0, <1>b, Behind
  <2> QED
    BY <1>0, <2>1
<1> QED
  BY <1>s, <1>t

\* Addresses with the same bytes are the same.
LEMMA SameBytes ==
  ASSUME NEW n \in Nat, NEW a \in Address(n), NEW b \in Address(n), \A i \in 1..n : a[i] = b[i]
  PROVE  a = b
  BY DEF Address

\* A span of embedded IPv4 addresses is its prefix and a span of the last four bytes.
LEMMA Prefixed ==
  ASSUME NEW m \in 1..12, NEW p \in Address(m), NEW lo \in Address(4), NEW hi \in Address(4),
         NEW a \in Address(m + 4)
  PROVE  (NotAfter(p \o lo, a) /\ NotAfter(a, p \o hi))
           <=> /\ SubSeq(a, 1, m) = p
               /\ NotAfter(lo, SubSeq(a, m + 1, m + 4))
               /\ NotAfter(SubSeq(a, m + 1, m + 4), hi)
<1> DEFINE n == m + 4
           x == p \o lo
           y == p \o hi
           b == SubSeq(a, 1, m)
<1>n. m \in Nat /\ 4 \in Nat /\ n \in Nat /\ m \in 1..n /\ m > 0 /\ 4 > 0
  OBVIOUS
<1>x. /\ x \in Address(n) /\ \A i \in 1..m : x[i] = p[i]
      /\ SubSeq(x, m + 1, n) = lo
  <2>1. p \o lo \in Address(m + 4)
    BY <1>n, Joined
  <2>2. \A i \in 1..m : (p \o lo)[i] = p[i]
    BY <1>n, Joined
  <2>3. SubSeq(p \o lo, m + 1, m + 4) = lo
    BY <1>n, Joined
  <2> QED
    BY <2>1, <2>2, <2>3
<1>y. /\ y \in Address(n) /\ \A i \in 1..m : y[i] = p[i]
      /\ SubSeq(y, m + 1, n) = hi
  <2>1. p \o hi \in Address(m + 4)
    BY <1>n, Joined
  <2>2. \A i \in 1..m : (p \o hi)[i] = p[i]
    BY <1>n, Joined
  <2>3. SubSeq(p \o hi, m + 1, m + 4) = hi
    BY <1>n, Joined
  <2> QED
    BY <2>1, <2>2, <2>3
<1>b. b \in Address(m) /\ \A i \in 1..m : b[i] = a[i]
  BY <1>n, Leading
<1>p. DOMAIN p = 1..m /\ DOMAIN b = 1..m /\ p \in Seq(Byte) /\ b \in Seq(Byte) /\ Len(p) = m
      /\ Len(b) = m
  BY <1>n, <1>b, AddressFacts
<1>a. a \in Address(n)
  OBVIOUS
<1> HIDE DEF n, x, y, b
<1>1. ASSUME NotAfter(x, a), NotAfter(a, y) PROVE b = p
  <2>1. \A i \in 1..m : a[i] = x[i]
    <3>1. \A i \in 1..m : x[i] = y[i]
      BY <1>x, <1>y
    <3> QED
      BY <1>1, <1>n, <1>x, <1>y, <1>a, <3>1, Sandwich
  <2>2. \A i \in 1..m : b[i] = p[i]
    BY <2>1, <1>x, <1>b
  <2> QED
    BY <2>2, <1>p
<1>2. ASSUME b = p
      PROVE  /\ NotAfter(x, a) <=> NotAfter(lo, SubSeq(a, m + 1, n))
             /\ NotAfter(a, y) <=> NotAfter(SubSeq(a, m + 1, n), hi)
  <2>1. \A i \in 1..m : x[i] = a[i] /\ a[i] = y[i]
    BY <1>2, <1>x, <1>y, <1>b
  <2>2. NotAfter(x, a) <=> NotAfter(SubSeq(x, m + 1, n), SubSeq(a, m + 1, n))
    BY <2>1, <1>n, <1>x, <1>a, Shift
  <2>3. NotAfter(a, y) <=> NotAfter(SubSeq(a, m + 1, n), SubSeq(y, m + 1, n))
    BY <2>1, <1>n, <1>y, <1>a, Shift
  <2> QED
    BY <2>2, <2>3, <1>x, <1>y
<1> QED
  BY <1>1, <1>2 DEF n, x, y, b

\* The documented IPv4 space, byte by byte.
Covered(a) ==
  \/ a[1] \in {0, 10, 127}
  \/ a[1] = 100 /\ 64 <= a[2] /\ a[2] <= 127
  \/ a[1] = 169 /\ a[2] = 254
  \/ a[1] = 172 /\ 16 <= a[2] /\ a[2] <= 31
  \/ a[1] = 192 /\ a[2] = 0 /\ a[3] \in {0, 2}
  \/ a[1] = 192 /\ a[2] = 168
  \/ a[1] = 198 /\ a[2] \in {18, 19}
  \/ a[1] = 198 /\ a[2] = 51 /\ a[3] = 100
  \/ a[1] = 203 /\ a[2] = 0 /\ a[3] = 113
  \/ a[1] >= 224

\* address & mask == network, as ipv4Blocked compares it.
Matches(a, net, bits) ==
  \A k \in 1..4 : LET unit == 2^(8 - KeptBits(bits, k)) IN a[k] \div unit = net[k] \div unit

\* What the units of the masks make of a byte.
LEMMA Units ==
  ASSUME NEW x \in Int, 0 <= x, x <= 255, NEW y \in Int, 0 <= y, y <= 255
  PROVE  /\ x \div 1 = y \div 1 <=> x = y
         /\ x \div 256 = y \div 256
         /\ x \div 64 = 64 \div 64 <=> 64 <= x /\ x <= 127
         /\ x \div 16 = 16 \div 16 <=> 16 <= x /\ x <= 31
         /\ x \div 2 = 18 \div 2 <=> x \in {18, 19}
         /\ x \div 16 = 224 \div 16 <=> 224 <= x /\ x <= 239
         /\ x \div 16 = 240 \div 16 <=> 240 <= x
  OBVIOUS

\* The unit of each byte, for the lengths of the masks that ipv4Blocked uses.
LEMMA MaskUnits ==
  /\ \A k \in 1..4 : 2^(8 - KeptBits(8, k)) = (IF k = 1 THEN 1 ELSE 256)
  /\ \A k \in 1..4 : 2^(8 - KeptBits(16, k)) = (IF k <= 2 THEN 1 ELSE 256)
  /\ \A k \in 1..4 : 2^(8 - KeptBits(24, k)) = (IF k <= 3 THEN 1 ELSE 256)
  /\ \A k \in 1..4 : 2^(8 - KeptBits(4, k)) = (IF k = 1 THEN 16 ELSE 256)
  /\ \A k \in 1..4 : 2^(8 - KeptBits(10, k)) = (IF k = 1 THEN 1 ELSE IF k = 2 THEN 64 ELSE 256)
  /\ \A k \in 1..4 : 2^(8 - KeptBits(12, k)) = (IF k = 1 THEN 1 ELSE IF k = 2 THEN 16 ELSE 256)
  /\ \A k \in 1..4 : 2^(8 - KeptBits(15, k)) = (IF k = 1 THEN 1 ELSE IF k = 2 THEN 2 ELSE 256)
<1>1. /\ 2^(8 - 8) = 1 /\ 2^(8 - 0) = 256 /\ 2^(8 - 4) = 16 /\ 2^(8 - 2) = 64 /\ 2^(8 - 7) = 2
  OBVIOUS
<1> DEFINE unit(n) == 2^(8 - n)
<1>2. unit(8) = 1 /\ unit(0) = 256 /\ unit(4) = 16 /\ unit(2) = 64 /\ unit(7) = 2
  BY <1>1
<1> HIDE DEF unit
<1>3. \A k \in 1..4 : unit(KeptBits(8, k)) = (IF k = 1 THEN 1 ELSE 256)
  <2>1. \A k \in 1..4 : KeptBits(8, k) = IF k = 1 THEN 8 ELSE 0
    BY DEF KeptBits
  <2> QED
    BY <1>2, <2>1
<1>4. \A k \in 1..4 : unit(KeptBits(16, k)) = (IF k <= 2 THEN 1 ELSE 256)
  <2>1. \A k \in 1..4 : KeptBits(16, k) = IF k <= 2 THEN 8 ELSE 0
    BY DEF KeptBits
  <2> QED
    BY <1>2, <2>1
<1>5. \A k \in 1..4 : unit(KeptBits(24, k)) = (IF k <= 3 THEN 1 ELSE 256)
  <2>1. \A k \in 1..4 : KeptBits(24, k) = IF k <= 3 THEN 8 ELSE 0
    BY DEF KeptBits
  <2> QED
    BY <1>2, <2>1
<1>6. \A k \in 1..4 : unit(KeptBits(4, k)) = (IF k = 1 THEN 16 ELSE 256)
  <2>1. \A k \in 1..4 : KeptBits(4, k) = IF k = 1 THEN 4 ELSE 0
    BY DEF KeptBits
  <2> QED
    BY <1>2, <2>1
<1>7. \A k \in 1..4 : unit(KeptBits(10, k)) = (IF k = 1 THEN 1 ELSE IF k = 2 THEN 64 ELSE 256)
  <2>1. \A k \in 1..4 : KeptBits(10, k) = IF k = 1 THEN 8 ELSE IF k = 2 THEN 2 ELSE 0
    BY DEF KeptBits
  <2> QED
    BY <1>2, <2>1
<1>8. \A k \in 1..4 : unit(KeptBits(12, k)) = (IF k = 1 THEN 1 ELSE IF k = 2 THEN 16 ELSE 256)
  <2>1. \A k \in 1..4 : KeptBits(12, k) = IF k = 1 THEN 8 ELSE IF k = 2 THEN 4 ELSE 0
    BY DEF KeptBits
  <2> QED
    BY <1>2, <2>1
<1>9. \A k \in 1..4 : unit(KeptBits(15, k)) = (IF k = 1 THEN 1 ELSE IF k = 2 THEN 2 ELSE 256)
  <2>1. \A k \in 1..4 : KeptBits(15, k) = IF k = 1 THEN 8 ELSE IF k = 2 THEN 7 ELSE 0
    BY DEF KeptBits
  <2> QED
    BY <1>2, <2>1
<1> QED
  BY <1>3, <1>4, <1>5, <1>6, <1>7, <1>8, <1>9 DEF unit

\* Which bytes a mask compares.
LEMMA Masked ==
  ASSUME NEW a \in Address(4), NEW n1 \in Byte, NEW n2 \in Byte, NEW n3 \in Byte, NEW n4 \in Byte
  PROVE  LET net == <<n1, n2, n3, n4>> IN
         /\ Matches(a, net, 8) <=> a[1] = n1
         /\ Matches(a, net, 16) <=> a[1] = n1 /\ a[2] = n2
         /\ Matches(a, net, 24) <=> a[1] = n1 /\ a[2] = n2 /\ a[3] = n3
         /\ Matches(a, net, 4) <=> a[1] \div 16 = n1 \div 16
         /\ Matches(a, net, 10) <=> a[1] = n1 /\ a[2] \div 64 = n2 \div 64
         /\ Matches(a, net, 12) <=> a[1] = n1 /\ a[2] \div 16 = n2 \div 16
         /\ Matches(a, net, 15) <=> a[1] = n1 /\ a[2] \div 2 = n2 \div 2
<1> DEFINE net == <<n1, n2, n3, n4>>
           same(k, u) == a[k] \div u = net[k] \div u
<1>1. \A k \in 1..4 : /\ a[k] \in Int /\ 0 <= a[k] /\ a[k] <= 255
                      /\ net[k] \in Int /\ 0 <= net[k] /\ net[k] <= 255
  <2>1. \A k \in 1..4 : a[k] \in Int /\ 0 <= a[k] /\ a[k] <= 255
    BY AddressFacts
  <2>2. net[1] = n1 /\ net[2] = n2 /\ net[3] = n3 /\ net[4] = n4
    OBVIOUS
  <2>3. \A k \in 1..4 : net[k] \in Byte
    BY <2>2
  <2> QED
    BY <2>1, <2>3 DEF Byte
<1>2. \A k \in 1..4 : (same(k, 1) <=> a[k] = net[k]) /\ same(k, 256)
  BY <1>1, Units
<1>3. net[1] = n1 /\ net[2] = n2
  OBVIOUS
<1>4. net[3] = n3
  OBVIOUS
<1> HIDE DEF net
<1>5. 1..4 = {1, 2, 3, 4}
  OBVIOUS
<1>6. Matches(a, net, 8) <=> same(1, 1)
  <2>1. \A k \in 1..4 : 2^(8 - KeptBits(8, k)) = (IF k = 1 THEN 1 ELSE 256)
    BY MaskUnits
  <2>2. Matches(a, net, 8) <=> \A k \in 1..4 : same(k, IF k = 1 THEN 1 ELSE 256)
    BY ONLY <2>1 DEF Matches
  <2> HIDE DEF same
  <2> QED
    BY ONLY <2>2, <1>2, <1>5
<1>7. Matches(a, net, 16) <=> same(1, 1) /\ same(2, 1)
  <2>1. \A k \in 1..4 : 2^(8 - KeptBits(16, k)) = (IF k <= 2 THEN 1 ELSE 256)
    BY MaskUnits
  <2>2. Matches(a, net, 16) <=> \A k \in 1..4 : same(k, IF k <= 2 THEN 1 ELSE 256)
    BY ONLY <2>1 DEF Matches
  <2> HIDE DEF same
  <2> QED
    BY ONLY <2>2, <1>2, <1>5
<1>8. Matches(a, net, 24) <=> same(1, 1) /\ same(2, 1) /\ same(3, 1)
  <2>1. \A k \in 1..4 : 2^(8 - KeptBits(24, k)) = (IF k <= 3 THEN 1 ELSE 256)
    BY MaskUnits
  <2>2. Matches(a, net, 24) <=> \A k \in 1..4 : same(k, IF k <= 3 THEN 1 ELSE 256)
    BY ONLY <2>1 DEF Matches
  <2> HIDE DEF same
  <2> QED
    BY ONLY <2>2, <1>2, <1>5
<1>9. Matches(a, net, 4) <=> same(1, 16)
  <2>1. \A k \in 1..4 : 2^(8 - KeptBits(4, k)) = (IF k = 1 THEN 16 ELSE 256)
    BY MaskUnits
  <2>2. Matches(a, net, 4) <=> \A k \in 1..4 : same(k, IF k = 1 THEN 16 ELSE 256)
    BY ONLY <2>1 DEF Matches
  <2> HIDE DEF same
  <2> QED
    BY ONLY <2>2, <1>2, <1>5
<1>10. Matches(a, net, 10) <=> same(1, 1) /\ same(2, 64)
  <2>1. \A k \in 1..4 : 2^(8 - KeptBits(10, k)) = (IF k = 1 THEN 1 ELSE IF k = 2 THEN 64 ELSE 256)
    BY MaskUnits
  <2>2. Matches(a, net, 10) <=> \A k \in 1..4 : same(k, IF k = 1 THEN 1 ELSE IF k = 2 THEN 64 ELSE 256)
    BY ONLY <2>1 DEF Matches
  <2> HIDE DEF same
  <2> QED
    BY ONLY <2>2, <1>2, <1>5
<1>11. Matches(a, net, 12) <=> same(1, 1) /\ same(2, 16)
  <2>1. \A k \in 1..4 : 2^(8 - KeptBits(12, k)) = (IF k = 1 THEN 1 ELSE IF k = 2 THEN 16 ELSE 256)
    BY MaskUnits
  <2>2. Matches(a, net, 12) <=> \A k \in 1..4 : same(k, IF k = 1 THEN 1 ELSE IF k = 2 THEN 16 ELSE 256)
    BY ONLY <2>1 DEF Matches
  <2> HIDE DEF same
  <2> QED
    BY ONLY <2>2, <1>2, <1>5
<1>12. Matches(a, net, 15) <=> same(1, 1) /\ same(2, 2)
  <2>1. \A k \in 1..4 : 2^(8 - KeptBits(15, k)) = (IF k = 1 THEN 1 ELSE IF k = 2 THEN 2 ELSE 256)
    BY MaskUnits
  <2>2. Matches(a, net, 15) <=> \A k \in 1..4 : same(k, IF k = 1 THEN 1 ELSE IF k = 2 THEN 2 ELSE 256)
    BY ONLY <2>1 DEF Matches
  <2> HIDE DEF same
  <2> QED
    BY ONLY <2>2, <1>2, <1>5
<1> QED
  BY ONLY <1>2, <1>3, <1>4, <1>6, <1>7, <1>8, <1>9, <1>10, <1>11, <1>12 DEF net

\* The ranges of ipv4Blocked are the condition Covered.
LEMMA Masks ==
  ASSUME NEW a \in Address(4)
  PROVE  ipv4Blocked(a) <=> Covered(a)
<1>a. \A k \in 1..4 : a[k] \in Int /\ 0 <= a[k] /\ a[k] <= 255
  BY AddressFacts
<1>b. \A n \in {0, 2, 10, 16, 18, 51, 64, 100, 113, 127, 168, 169, 172, 192, 198, 203, 224, 240, 254} : n \in Byte
  BY DEF Byte
<1>u. \A k \in 1..4 :
         /\ a[k] \div 64 = 64 \div 64 <=> 64 <= a[k] /\ a[k] <= 127
         /\ a[k] \div 16 = 16 \div 16 <=> 16 <= a[k] /\ a[k] <= 31
         /\ a[k] \div 2 = 18 \div 2 <=> a[k] \in {18, 19}
         /\ a[k] \div 16 = 224 \div 16 <=> 224 <= a[k] /\ a[k] <= 239
         /\ a[k] \div 16 = 240 \div 16 <=> 240 <= a[k]
  BY <1>a, Units
<1>1. Matches(a, <<0, 0, 0, 0>>, 8) <=> a[1] = 0
  BY <1>b, <1>u, Masked
<1>2. Matches(a, <<10, 0, 0, 0>>, 8) <=> a[1] = 10
  BY <1>b, <1>u, Masked
<1>3. Matches(a, <<100, 64, 0, 0>>, 10) <=> a[1] = 100 /\ 64 <= a[2] /\ a[2] <= 127
  BY <1>b, <1>u, Masked
<1>4. Matches(a, <<127, 0, 0, 0>>, 8) <=> a[1] = 127
  BY <1>b, <1>u, Masked
<1>5. Matches(a, <<169, 254, 0, 0>>, 16) <=> a[1] = 169 /\ a[2] = 254
  BY <1>b, <1>u, Masked
<1>6. Matches(a, <<172, 16, 0, 0>>, 12) <=> a[1] = 172 /\ 16 <= a[2] /\ a[2] <= 31
  BY <1>b, <1>u, Masked
<1>7. Matches(a, <<192, 0, 0, 0>>, 24) <=> a[1] = 192 /\ a[2] = 0 /\ a[3] = 0
  BY <1>b, <1>u, Masked
<1>8. Matches(a, <<192, 0, 2, 0>>, 24) <=> a[1] = 192 /\ a[2] = 0 /\ a[3] = 2
  BY <1>b, <1>u, Masked
<1>9. Matches(a, <<192, 168, 0, 0>>, 16) <=> a[1] = 192 /\ a[2] = 168
  BY <1>b, <1>u, Masked
<1>10. Matches(a, <<198, 18, 0, 0>>, 15) <=> a[1] = 198 /\ a[2] \in {18, 19}
  BY <1>b, <1>u, Masked
<1>11. Matches(a, <<198, 51, 100, 0>>, 24) <=> a[1] = 198 /\ a[2] = 51 /\ a[3] = 100
  BY <1>b, <1>u, Masked
<1>12. Matches(a, <<203, 0, 113, 0>>, 24) <=> a[1] = 203 /\ a[2] = 0 /\ a[3] = 113
  BY <1>b, <1>u, Masked
<1>13. Matches(a, <<224, 0, 0, 0>>, 4) <=> 224 <= a[1] /\ a[1] <= 239
  BY <1>b, <1>u, Masked
<1>14. Matches(a, <<240, 0, 0, 0>>, 4) <=> 240 <= a[1]
  BY <1>b, <1>u, Masked
<1> DEFINE m(net, bits) == Matches(a, net, bits)
<1>r. ipv4Blocked(a) <=> \E r \in Ranges : m(r[1], r[2])
  BY DEF ipv4Blocked, Matches
<1> HIDE DEF m
<1>s. ipv4Blocked(a) <=>
         \/ m(<<0, 0, 0, 0>>, 8)
         \/ m(<<10, 0, 0, 0>>, 8)
         \/ m(<<100, 64, 0, 0>>, 10)
         \/ m(<<127, 0, 0, 0>>, 8)
         \/ m(<<169, 254, 0, 0>>, 16)
         \/ m(<<172, 16, 0, 0>>, 12)
         \/ m(<<192, 0, 0, 0>>, 24)
         \/ m(<<192, 0, 2, 0>>, 24)
         \/ m(<<192, 168, 0, 0>>, 16)
         \/ m(<<198, 18, 0, 0>>, 15)
         \/ m(<<198, 51, 100, 0>>, 24)
         \/ m(<<203, 0, 113, 0>>, 24)
         \/ m(<<224, 0, 0, 0>>, 4)
         \/ m(<<240, 0, 0, 0>>, 4)
  BY <1>r DEF Ranges
<1>t. ipv4Blocked(a) <=>
         \/ a[1] = 0
         \/ a[1] = 10
         \/ a[1] = 100 /\ 64 <= a[2] /\ a[2] <= 127
         \/ a[1] = 127
         \/ a[1] = 169 /\ a[2] = 254
         \/ a[1] = 172 /\ 16 <= a[2] /\ a[2] <= 31
         \/ a[1] = 192 /\ a[2] = 0 /\ a[3] = 0
         \/ a[1] = 192 /\ a[2] = 0 /\ a[3] = 2
         \/ a[1] = 192 /\ a[2] = 168
         \/ a[1] = 198 /\ a[2] \in {18, 19}
         \/ a[1] = 198 /\ a[2] = 51 /\ a[3] = 100
         \/ a[1] = 203 /\ a[2] = 0 /\ a[3] = 113
         \/ 224 <= a[1] /\ a[1] <= 239
         \/ 240 <= a[1]
  BY ONLY <1>s, <1>1, <1>2, <1>3, <1>4, <1>5, <1>6, <1>7, <1>8, <1>9, <1>10, <1>11, <1>12, <1>13, <1>14 DEF m
<1> QED
  BY ONLY <1>a, <1>t DEF Covered

\* The order of IPv4 addresses.
LEMMA Order4 ==
  ASSUME NEW a \in Address(4), NEW b \in Address(4)
  PROVE  NotAfter(a, b) <=>
           \/ a[1] < b[1]
           \/ a[1] = b[1] /\ a[2] < b[2]
           \/ a[1] = b[1] /\ a[2] = b[2] /\ a[3] < b[3]
           \/ a[1] = b[1] /\ a[2] = b[2] /\ a[3] = b[3] /\ a[4] <= b[4]
<1>a. /\ DOMAIN a = 1..4 /\ DOMAIN b = 1..4
      /\ \A k \in 1..4 : a[k] \in Int /\ b[k] \in Int
  BY AddressFacts
<1>1. a = b <=> a[1] = b[1] /\ a[2] = b[2] /\ a[3] = b[3] /\ a[4] = b[4]
  <2>1. ASSUME \A k \in 1..4 : a[k] = b[k] PROVE a = b
    BY <2>1 DEF Address
  <2>2. (a[1] = b[1] /\ a[2] = b[2] /\ a[3] = b[3] /\ a[4] = b[4]) => \A k \in 1..4 : a[k] = b[k]
    OBVIOUS
  <2> QED
    BY <2>1, <2>2
<1> DEFINE first(k) == a[k] < b[k] /\ \A i \in 1..(k - 1) : a[i] = b[i]
<1>2. NotAfter(a, b) <=> a = b \/ first(1) \/ first(2) \/ first(3) \/ first(4)
  <2>1. NotAfter(a, b) <=> a = b \/ \E k \in 1..4 : first(k)
    BY <1>a DEF NotAfter
  <2> HIDE DEF first
  <2> QED
    BY <2>1
<1>3. /\ first(1) <=> a[1] < b[1]
      /\ first(2) <=> a[2] < b[2] /\ a[1] = b[1]
      /\ first(3) <=> a[3] < b[3] /\ a[1] = b[1] /\ a[2] = b[2]
      /\ first(4) <=> a[4] < b[4] /\ a[1] = b[1] /\ a[2] = b[2] /\ a[3] = b[3]
  <2>1. 1..(1 - 1) = {} /\ 1..(2 - 1) = {1} /\ 1..(3 - 1) = {1, 2} /\ 1..(4 - 1) = {1, 2, 3}
    OBVIOUS
  <2> QED
    BY ONLY <2>1
<1>4. /\ a[1] \in Int /\ a[2] \in Int /\ a[3] \in Int /\ a[4] \in Int
      /\ b[1] \in Int /\ b[2] \in Int /\ b[3] \in Int /\ b[4] \in Int
  BY <1>a
<1> HIDE DEF first
<1> QED
  BY ONLY <1>1, <1>2, <1>3, <1>4

\* a is in the span from lo to hi.
Within(a, lo, hi) == NotAfter(lo, a) /\ NotAfter(a, hi)

\* The order against given bytes.
AtLeast(a, n1, n2, n3, n4) ==
  \/ n1 < a[1]
  \/ n1 = a[1] /\ n2 < a[2]
  \/ n1 = a[1] /\ n2 = a[2] /\ n3 < a[3]
  \/ n1 = a[1] /\ n2 = a[2] /\ n3 = a[3] /\ n4 <= a[4]

AtMost(a, n1, n2, n3, n4) ==
  \/ a[1] < n1
  \/ a[1] = n1 /\ a[2] < n2
  \/ a[1] = n1 /\ a[2] = n2 /\ a[3] < n3
  \/ a[1] = n1 /\ a[2] = n2 /\ a[3] = n3 /\ a[4] <= n4

\* To lie in a span, as conditions on the four bytes.
LEMMA Bounds ==
  ASSUME NEW a \in Address(4), NEW l1 \in Byte, NEW l2 \in Byte, NEW l3 \in Byte, NEW l4 \in Byte,
         NEW h1 \in Byte, NEW h2 \in Byte, NEW h3 \in Byte, NEW h4 \in Byte
  PROVE  Within(a, <<l1, l2, l3, l4>>, <<h1, h2, h3, h4>>)
           <=> AtLeast(a, l1, l2, l3, l4) /\ AtMost(a, h1, h2, h3, h4)
<1> DEFINE lo == <<l1, l2, l3, l4>>
           hi == <<h1, h2, h3, h4>>
<1>1. lo \in Address(4) /\ lo[1] = l1 /\ lo[2] = l2 /\ lo[3] = l3 /\ lo[4] = l4
  BY DEF Address
<1>2. hi \in Address(4) /\ hi[1] = h1 /\ hi[2] = h2 /\ hi[3] = h3 /\ hi[4] = h4
  BY DEF Address
<1> HIDE DEF lo, hi
<1>3. NotAfter(lo, a) <=> AtLeast(a, lo[1], lo[2], lo[3], lo[4])
  BY <1>1, Order4 DEF AtLeast
<1>4. NotAfter(a, hi) <=> AtMost(a, hi[1], hi[2], hi[3], hi[4])
  BY <1>2, Order4 DEF AtMost
<1> QED
  BY <1>1, <1>2, <1>3, <1>4 DEF Within, lo, hi

\* The spans of IPv4 addresses are the condition Covered.
LEMMA Spans ==
  ASSUME NEW a \in Address(4)
  PROVE  (\E s \in Spans4 : Within(a, s[1], s[2])) <=> Covered(a)
<1>a. /\ a[1] \in Int /\ a[2] \in Int /\ a[3] \in Int /\ a[4] \in Int
      /\ 0 <= a[1] /\ a[1] <= 255 /\ 0 <= a[2] /\ a[2] <= 255
      /\ 0 <= a[3] /\ a[3] <= 255 /\ 0 <= a[4] /\ a[4] <= 255
  BY AddressFacts
<1>0. a \in Address(4)
  OBVIOUS
<1>1. Within(a, <<0, 0, 0, 0>>, <<0, 255, 255, 255>>) <=> a[1] = 0
  <2>1. 0 \in Byte /\ 255 \in Byte
    BY DEF Byte
  <2>2. Within(a, <<0, 0, 0, 0>>, <<0, 255, 255, 255>>) <=>
          AtLeast(a, 0, 0, 0, 0) /\ AtMost(a, 0, 255, 255, 255)
    BY ONLY <2>1, <1>0, Bounds
  <2> QED
    BY ONLY <2>2, <1>a DEF AtLeast, AtMost
<1>2. Within(a, <<10, 0, 0, 0>>, <<10, 255, 255, 255>>) <=> a[1] = 10
  <2>1. 0 \in Byte /\ 10 \in Byte /\ 255 \in Byte
    BY DEF Byte
  <2>2. Within(a, <<10, 0, 0, 0>>, <<10, 255, 255, 255>>) <=>
          AtLeast(a, 10, 0, 0, 0) /\ AtMost(a, 10, 255, 255, 255)
    BY ONLY <2>1, <1>0, Bounds
  <2> QED
    BY ONLY <2>2, <1>a DEF AtLeast, AtMost
<1>3. Within(a, <<100, 64, 0, 0>>, <<100, 127, 255, 255>>) <=> a[1] = 100 /\ 64 <= a[2] /\ a[2] <= 127
  <2>1. 0 \in Byte /\ 64 \in Byte /\ 100 \in Byte /\ 127 \in Byte /\ 255 \in Byte
    BY DEF Byte
  <2>2. Within(a, <<100, 64, 0, 0>>, <<100, 127, 255, 255>>) <=>
          AtLeast(a, 100, 64, 0, 0) /\ AtMost(a, 100, 127, 255, 255)
    BY ONLY <2>1, <1>0, Bounds
  <2> QED
    BY ONLY <2>2, <1>a DEF AtLeast, AtMost
<1>4. Within(a, <<127, 0, 0, 0>>, <<127, 255, 255, 255>>) <=> a[1] = 127
  <2>1. 0 \in Byte /\ 127 \in Byte /\ 255 \in Byte
    BY DEF Byte
  <2>2. Within(a, <<127, 0, 0, 0>>, <<127, 255, 255, 255>>) <=>
          AtLeast(a, 127, 0, 0, 0) /\ AtMost(a, 127, 255, 255, 255)
    BY ONLY <2>1, <1>0, Bounds
  <2> QED
    BY ONLY <2>2, <1>a DEF AtLeast, AtMost
<1>5. Within(a, <<169, 254, 0, 0>>, <<169, 254, 255, 255>>) <=> a[1] = 169 /\ a[2] = 254
  <2>1. 0 \in Byte /\ 169 \in Byte /\ 254 \in Byte /\ 255 \in Byte
    BY DEF Byte
  <2>2. Within(a, <<169, 254, 0, 0>>, <<169, 254, 255, 255>>) <=>
          AtLeast(a, 169, 254, 0, 0) /\ AtMost(a, 169, 254, 255, 255)
    BY ONLY <2>1, <1>0, Bounds
  <2> QED
    BY ONLY <2>2, <1>a DEF AtLeast, AtMost
<1>6. Within(a, <<172, 16, 0, 0>>, <<172, 31, 255, 255>>) <=> a[1] = 172 /\ 16 <= a[2] /\ a[2] <= 31
  <2>1. 0 \in Byte /\ 16 \in Byte /\ 31 \in Byte /\ 172 \in Byte /\ 255 \in Byte
    BY DEF Byte
  <2>2. Within(a, <<172, 16, 0, 0>>, <<172, 31, 255, 255>>) <=>
          AtLeast(a, 172, 16, 0, 0) /\ AtMost(a, 172, 31, 255, 255)
    BY ONLY <2>1, <1>0, Bounds
  <2> QED
    BY ONLY <2>2, <1>a DEF AtLeast, AtMost
<1>7. Within(a, <<192, 0, 0, 0>>, <<192, 0, 0, 255>>) <=> a[1] = 192 /\ a[2] = 0 /\ a[3] = 0
  <2>1. 0 \in Byte /\ 192 \in Byte /\ 255 \in Byte
    BY DEF Byte
  <2>2. Within(a, <<192, 0, 0, 0>>, <<192, 0, 0, 255>>) <=>
          AtLeast(a, 192, 0, 0, 0) /\ AtMost(a, 192, 0, 0, 255)
    BY ONLY <2>1, <1>0, Bounds
  <2> QED
    BY ONLY <2>2, <1>a DEF AtLeast, AtMost
<1>8. Within(a, <<192, 0, 2, 0>>, <<192, 0, 2, 255>>) <=> a[1] = 192 /\ a[2] = 0 /\ a[3] = 2
  <2>1. 0 \in Byte /\ 2 \in Byte /\ 192 \in Byte /\ 255 \in Byte
    BY DEF Byte
  <2>2. Within(a, <<192, 0, 2, 0>>, <<192, 0, 2, 255>>) <=>
          AtLeast(a, 192, 0, 2, 0) /\ AtMost(a, 192, 0, 2, 255)
    BY ONLY <2>1, <1>0, Bounds
  <2> QED
    BY ONLY <2>2, <1>a DEF AtLeast, AtMost
<1>9. Within(a, <<192, 168, 0, 0>>, <<192, 168, 255, 255>>) <=> a[1] = 192 /\ a[2] = 168
  <2>1. 0 \in Byte /\ 168 \in Byte /\ 192 \in Byte /\ 255 \in Byte
    BY DEF Byte
  <2>2. Within(a, <<192, 168, 0, 0>>, <<192, 168, 255, 255>>) <=>
          AtLeast(a, 192, 168, 0, 0) /\ AtMost(a, 192, 168, 255, 255)
    BY ONLY <2>1, <1>0, Bounds
  <2> QED
    BY ONLY <2>2, <1>a DEF AtLeast, AtMost
<1>10. Within(a, <<198, 18, 0, 0>>, <<198, 19, 255, 255>>) <=> a[1] = 198 /\ a[2] \in {18, 19}
  <2>1. 0 \in Byte /\ 18 \in Byte /\ 19 \in Byte /\ 198 \in Byte /\ 255 \in Byte
    BY DEF Byte
  <2>2. Within(a, <<198, 18, 0, 0>>, <<198, 19, 255, 255>>) <=>
          AtLeast(a, 198, 18, 0, 0) /\ AtMost(a, 198, 19, 255, 255)
    BY ONLY <2>1, <1>0, Bounds
  <2> QED
    BY ONLY <2>2, <1>a DEF AtLeast, AtMost
<1>11. Within(a, <<198, 51, 100, 0>>, <<198, 51, 100, 255>>) <=> a[1] = 198 /\ a[2] = 51 /\ a[3] = 100
  <2>1. 0 \in Byte /\ 51 \in Byte /\ 100 \in Byte /\ 198 \in Byte /\ 255 \in Byte
    BY DEF Byte
  <2>2. Within(a, <<198, 51, 100, 0>>, <<198, 51, 100, 255>>) <=>
          AtLeast(a, 198, 51, 100, 0) /\ AtMost(a, 198, 51, 100, 255)
    BY ONLY <2>1, <1>0, Bounds
  <2> QED
    BY ONLY <2>2, <1>a DEF AtLeast, AtMost
<1>12. Within(a, <<203, 0, 113, 0>>, <<203, 0, 113, 255>>) <=> a[1] = 203 /\ a[2] = 0 /\ a[3] = 113
  <2>1. 0 \in Byte /\ 113 \in Byte /\ 203 \in Byte /\ 255 \in Byte
    BY DEF Byte
  <2>2. Within(a, <<203, 0, 113, 0>>, <<203, 0, 113, 255>>) <=>
          AtLeast(a, 203, 0, 113, 0) /\ AtMost(a, 203, 0, 113, 255)
    BY ONLY <2>1, <1>0, Bounds
  <2> QED
    BY ONLY <2>2, <1>a DEF AtLeast, AtMost
<1>13. Within(a, <<224, 0, 0, 0>>, <<255, 255, 255, 255>>) <=> 224 <= a[1]
  <2>1. 0 \in Byte /\ 224 \in Byte /\ 255 \in Byte
    BY DEF Byte
  <2>2. Within(a, <<224, 0, 0, 0>>, <<255, 255, 255, 255>>) <=>
          AtLeast(a, 224, 0, 0, 0) /\ AtMost(a, 255, 255, 255, 255)
    BY ONLY <2>1, <1>0, Bounds
  <2> QED
    BY ONLY <2>2, <1>a DEF AtLeast, AtMost
<1>s. (\E s \in Spans4 : Within(a, s[1], s[2])) <=>
         \/ Within(a, <<0, 0, 0, 0>>, <<0, 255, 255, 255>>)
         \/ Within(a, <<10, 0, 0, 0>>, <<10, 255, 255, 255>>)
         \/ Within(a, <<100, 64, 0, 0>>, <<100, 127, 255, 255>>)
         \/ Within(a, <<127, 0, 0, 0>>, <<127, 255, 255, 255>>)
         \/ Within(a, <<169, 254, 0, 0>>, <<169, 254, 255, 255>>)
         \/ Within(a, <<172, 16, 0, 0>>, <<172, 31, 255, 255>>)
         \/ Within(a, <<192, 0, 0, 0>>, <<192, 0, 0, 255>>)
         \/ Within(a, <<192, 0, 2, 0>>, <<192, 0, 2, 255>>)
         \/ Within(a, <<192, 168, 0, 0>>, <<192, 168, 255, 255>>)
         \/ Within(a, <<198, 18, 0, 0>>, <<198, 19, 255, 255>>)
         \/ Within(a, <<198, 51, 100, 0>>, <<198, 51, 100, 255>>)
         \/ Within(a, <<203, 0, 113, 0>>, <<203, 0, 113, 255>>)
         \/ Within(a, <<224, 0, 0, 0>>, <<255, 255, 255, 255>>)
  BY DEF Spans4
<1>t. (\E s \in Spans4 : Within(a, s[1], s[2])) <=>
         \/ a[1] = 0
         \/ a[1] = 10
         \/ a[1] = 100 /\ 64 <= a[2] /\ a[2] <= 127
         \/ a[1] = 127
         \/ a[1] = 169 /\ a[2] = 254
         \/ a[1] = 172 /\ 16 <= a[2] /\ a[2] <= 31
         \/ a[1] = 192 /\ a[2] = 0 /\ a[3] = 0
         \/ a[1] = 192 /\ a[2] = 0 /\ a[3] = 2
         \/ a[1] = 192 /\ a[2] = 168
         \/ a[1] = 198 /\ a[2] \in {18, 19}
         \/ a[1] = 198 /\ a[2] = 51 /\ a[3] = 100
         \/ a[1] = 203 /\ a[2] = 0 /\ a[3] = 113
         \/ 224 <= a[1]
  BY ONLY <1>s, <1>1, <1>2, <1>3, <1>4, <1>5, <1>6, <1>7, <1>8, <1>9, <1>10, <1>11, <1>12, <1>13
<1> QED
  BY ONLY <1>a, <1>t DEF Covered

\* A sequence of zeros is an address.
LEMMA ZerosFacts ==
  ASSUME NEW n \in Nat
  PROVE  Zeros(n) \in Address(n) /\ \A i \in 1..n : Zeros(n)[i] = 0
<1>1. 0 \in Byte
  BY DEF Byte
<1> QED
  BY <1>1 DEF Zeros, Address

\* The prefixes of the encodings: all begin with 0, and no two are the same.
LEMMA Encodings ==
  /\ Zeros(12) \in Address(12) /\ Zeros(12)[1] = 0
  /\ Mapped \in Address(12) /\ Mapped[1] = 0
  /\ Nat64 \in Address(12) /\ Nat64[1] = 0
  /\ Mapped # Zeros(12) /\ Mapped # Nat64 /\ Nat64 # Zeros(12)
<1>1. Zeros(12) \in Address(12) /\ \A i \in 1..12 : Zeros(12)[i] = 0
  BY ZerosFacts
<1>2. Mapped \in Address(12) /\ Mapped[1] = 0 /\ Mapped[2] = 0 /\ Mapped[11] = 255
  <2> DEFINE p == Zeros(10)
             q == <<255, 255>>
  <2>0. 10 + 2 = 12 /\ 10 + 1 = 11 /\ 10 \in Nat /\ 2 \in Nat /\ 1 \in 1..10 /\ 2 \in 1..10 /\ 1 \in 1..2
    OBVIOUS
  <2>1. p \in Address(10) /\ p[1] = 0 /\ p[2] = 0
    BY <2>0, ZerosFacts
  <2>2. q \in Address(2) /\ q[1] = 255
    BY DEF Address, Byte
  <2> HIDE DEF p, q
  <2>3. p \o q \in Address(10 + 2)
    BY <2>0, <2>1, <2>2, Joined
  <2>4. (p \o q)[1] = p[1] /\ (p \o q)[2] = p[2]
    BY <2>0, <2>1, <2>2, Joined
  <2>6. (p \o q)[11] = 255
    <3> DEFINE m == 10
               k == 2
    <3>1. m \in Nat /\ k \in Nat /\ p \in Address(m) /\ q \in Address(k) /\ 1 \in 1..k
      BY <2>1, <2>2
    <3>2. m + 1 = 11
      OBVIOUS
    <3> HIDE DEF m, k
    <3>3. (p \o q)[m + 1] = q[1]
      BY ONLY <3>1, JoinedBehind
    <3> QED
      BY ONLY <2>2, <3>2, <3>3
  <2>7. p \o q \in Address(12)
    BY <2>0, <2>3
  <2> QED
    BY <2>1, <2>4, <2>6, <2>7 DEF Mapped, p, q
<1>3. Nat64 \in Address(12) /\ Nat64[1] = 0 /\ Nat64[2] = 100
  <2> DEFINE p == <<0, 100, 255, 155>>
             q == Zeros(8)
  <2>0. 4 + 8 = 12 /\ 4 \in Nat /\ 8 \in Nat /\ 1 \in 1..4 /\ 2 \in 1..4
    OBVIOUS
  <2>1. p \in Address(4) /\ p[1] = 0 /\ p[2] = 100
    BY DEF Address, Byte
  <2>2. q \in Address(8)
    BY <2>0, ZerosFacts
  <2> HIDE DEF p, q
  <2>3. p \o q \in Address(4 + 8)
    BY <2>0, <2>1, <2>2, Joined
  <2>4. (p \o q)[1] = p[1] /\ (p \o q)[2] = p[2]
    BY <2>0, <2>1, <2>2, Joined
  <2> QED
    BY <2>0, <2>1, <2>3, <2>4 DEF Nat64, p, q
<1>4. Zeros(12)[1] = 0 /\ Zeros(12)[2] = 0 /\ Zeros(12)[11] = 0
  BY <1>1
<1>5. Mapped # Zeros(12) /\ Mapped # Nat64 /\ Nat64 # Zeros(12)
  BY <1>2, <1>3, <1>4
<1> QED
  BY <1>1, <1>2, <1>3, <1>4, <1>5

\* The bounds of the spans are addresses.
LEMMA SpanBounds == \A s \in Spans4 : s[1] \in Address(4) /\ s[2] \in Address(4)
<1>1. \A n1, n2, n3, n4 \in Byte : <<n1, n2, n3, n4>> \in Address(4)
  BY DEF Address
<1>2. \A n \in {0, 2, 10, 16, 18, 19, 31, 51, 64, 100, 113, 127, 168, 169, 172, 192, 198, 203,
                224, 254, 255} : n \in Byte
  BY DEF Byte
<1> QED
  BY <1>1, <1>2 DEF Spans4

\* The spans of an encoding that holds the IPv4 address in its last four bytes.
LEMMA EmbeddedTail ==
  ASSUME NEW a \in Address(16), NEW p \in Address(12)
  PROVE  (\E s \in Spans4 : Within(a, p \o s[1], p \o s[2]))
           <=> SubSeq(a, 1, 12) = p /\ Covered(SubSeq(a, 13, 16))
<1> DEFINE h == SubSeq(a, 1, 12)
           t == SubSeq(a, 13, 16)
<1>0. 12 \in 1..12 /\ 12 + 4 = 16 /\ 12 + 1 = 13
  OBVIOUS
<1>1. ASSUME NEW s \in Spans4
      PROVE  Within(a, p \o s[1], p \o s[2]) <=> h = p /\ Within(t, s[1], s[2])
  <2>1. s[1] \in Address(4) /\ s[2] \in Address(4)
    BY SpanBounds
  <2>2. (NotAfter(p \o s[1], a) /\ NotAfter(a, p \o s[2]))
           <=> /\ SubSeq(a, 1, 12) = p
               /\ NotAfter(s[1], SubSeq(a, 12 + 1, 12 + 4))
               /\ NotAfter(SubSeq(a, 12 + 1, 12 + 4), s[2])
    BY <1>0, <2>1, Prefixed
  <2> QED
    BY <1>0, <2>2 DEF Within
<1>2. t \in Address(4)
  <2>1. 16 \in Nat /\ 12 \in 1..(16 - 1) /\ 16 - 12 = 4
    OBVIOUS
  <2>2. SubSeq(a, 12 + 1, 16) \in Address(16 - 12)
    BY <2>1, Behind
  <2> QED
    BY <1>0, <2>1, <2>2
<1> HIDE DEF h, t
<1>3. (\E s \in Spans4 : Within(a, p \o s[1], p \o s[2])) <=> h = p /\ \E s \in Spans4 : Within(t, s[1], s[2])
  BY <1>1
<1> QED
  BY <1>2, <1>3, Spans DEF h, t

\* The spans of 6to4, with the IPv4 address behind the first two bytes.
LEMMA Embedded6to4 ==
  ASSUME NEW a \in Address(16)
  PROVE  (\E s \in Spans4 : Within(a, Fill(<<32, 2>> \o s[1], 0), Fill(<<32, 2>> \o s[2], 255)))
           <=> SubSeq(a, 1, 2) = <<32, 2>> /\ Covered(SubSeq(a, 3, 6))
<1> DEFINE p == <<32, 2>>
           b == SubSeq(a, 1, 6)
           t == SubSeq(a, 3, 6)
<1>0. /\ 2 \in 1..12 /\ 2 + 4 = 6 /\ 2 + 1 = 3 /\ 6 \in 1..15 /\ 16 \in Nat /\ 6 \in 1..16
      /\ 6 \in Nat /\ 2 \in 1..(6 - 1) /\ 6 - 2 = 4 /\ 2 \in Nat /\ 4 \in Nat
  OBVIOUS
<1>p. p \in Address(2)
  BY DEF Address, Byte
<1>b. b \in Address(6)
  BY <1>0, Leading
<1>s. SubSeq(b, 1, 2) = SubSeq(a, 1, 2) /\ SubSeq(b, 3, 6) = t
  BY Middle
<1>t. t \in Address(4)
  BY Middle
<1> HIDE DEF p, b, t
<1>1. ASSUME NEW s \in Spans4
      PROVE  Within(a, Fill(p \o s[1], 0), Fill(p \o s[2], 255))
               <=> SubSeq(a, 1, 2) = p /\ Within(t, s[1], s[2])
  <2>1. s[1] \in Address(4) /\ s[2] \in Address(4)
    BY SpanBounds
  <2>2. p \o s[1] \in Address(6) /\ p \o s[2] \in Address(6)
    <3>1. p \o s[1] \in Address(2 + 4)
      BY <1>0, <1>p, <2>1, Joined
    <3>2. p \o s[2] \in Address(2 + 4)
      BY <1>0, <1>p, <2>1, Joined
    <3> QED
      BY <1>0, <3>1, <3>2
  <2>3. NotAfter(Fill(p \o s[1], 0), a) <=> NotAfter(p \o s[1], b)
    BY <1>0, <2>2, FillLow DEF b
  <2>4. NotAfter(a, Fill(p \o s[2], 255)) <=> NotAfter(b, p \o s[2])
    BY <1>0, <2>2, FillHigh DEF b
  <2>5. b \in Address(2 + 4)
    BY <1>0, <1>b
  <2>6. (NotAfter(p \o s[1], b) /\ NotAfter(b, p \o s[2]))
           <=> /\ SubSeq(b, 1, 2) = p
               /\ NotAfter(s[1], SubSeq(b, 2 + 1, 2 + 4))
               /\ NotAfter(SubSeq(b, 2 + 1, 2 + 4), s[2])
    BY <1>0, <1>p, <2>1, <2>5, Prefixed
  <2> QED
    BY <1>0, <1>s, <2>3, <2>4, <2>6 DEF Within
<1>3. (\E s \in Spans4 : Within(a, Fill(p \o s[1], 0), Fill(p \o s[2], 255)))
         <=> SubSeq(a, 1, 2) = p /\ \E s \in Spans4 : Within(t, s[1], s[2])
  BY <1>1
<1> QED
  BY <1>t, <1>3, Spans DEF p, t

\* The spans that are IPv6 of their own: unique-local, link-local and multicast.
LEMMA Native6 ==
  ASSUME NEW a \in Address(16)
  PROVE  /\ Within(a, Fill(<<252>>, 0), Fill(<<253>>, 255)) <=> a[1] \in {252, 253}
         /\ Within(a, Fill(<<254, 128>>, 0), Fill(<<254, 191>>, 255))
              <=> a[1] = 254 /\ 128 <= a[2] /\ a[2] <= 191
         /\ Within(a, Fill(<<255>>, 0), Fill(<<255>>, 255)) <=> a[1] = 255
<1>0. 1 \in 1..15 /\ 2 \in 1..15 /\ 16 \in Nat /\ 1 \in 1..16 /\ 2 \in 1..16 /\ 1 \in Nat /\ 2 \in Nat
  OBVIOUS
<1>a. a[1] \in Int /\ a[1] <= 255 /\ a[2] \in Int
  BY <1>0, AddressFacts
<1>1. ASSUME NEW l \in Byte, NEW h \in Byte
      PROVE  Within(a, Fill(<<l>>, 0), Fill(<<h>>, 255)) <=> l <= a[1] /\ a[1] <= h
  <2> DEFINE b == SubSeq(a, 1, 1)
  <2>1. <<l>> \in Address(1) /\ <<h>> \in Address(1)
    BY DEF Address
  <2>2. Within(a, Fill(<<l>>, 0), Fill(<<h>>, 255)) <=> NotAfter(<<l>>, b) /\ NotAfter(b, <<h>>)
    BY <1>0, <2>1, FillLow, FillHigh DEF Within
  <2>3. b \in Address(1) /\ b[1] = a[1]
    BY <1>0, Leading
  <2> HIDE DEF b
  <2>4. ASSUME NEW x \in Address(1), NEW y \in Address(1) PROVE NotAfter(x, y) <=> x[1] <= y[1]
    <3>1. DOMAIN x = 1..1 /\ x \in Seq(Byte) /\ y \in Seq(Byte) /\ Len(x) = 1 /\ Len(y) = 1
      BY DEF Address
    <3>2. x[1] \in Int /\ y[1] \in Int
      BY <1>0, AddressFacts
    <3>3. x = y <=> x[1] = y[1]
      BY ONLY <3>1
    <3>4. NotAfter(x, y) <=> x = y \/ x[1] < y[1]
      BY ONLY <3>1 DEF NotAfter
    <3> QED
      BY ONLY <3>2, <3>3, <3>4
  <2>5. NotAfter(<<l>>, b) <=> <<l>>[1] <= b[1]
    BY <2>1, <2>3, <2>4
  <2>6. NotAfter(b, <<h>>) <=> b[1] <= <<h>>[1]
    BY <2>1, <2>3, <2>4
  <2> QED
    BY <2>2, <2>3, <2>5, <2>6
<1>2. ASSUME NEW l \in Byte, NEW h \in Byte, NEW n \in Byte
      PROVE  Within(a, Fill(<<n, l>>, 0), Fill(<<n, h>>, 255)) <=> a[1] = n /\ l <= a[2] /\ a[2] <= h
  <2> DEFINE b == SubSeq(a, 1, 2)
             x == <<n, l>>
             y == <<n, h>>
  <2>1. x \in Address(2) /\ y \in Address(2) /\ x[1] = n /\ x[2] = l /\ y[1] = n /\ y[2] = h
    BY DEF Address
  <2>i. n \in Int /\ l \in Int /\ h \in Int
    BY DEF Byte
  <2> HIDE DEF x, y
  <2>2. Within(a, Fill(x, 0), Fill(y, 255)) <=> NotAfter(x, b) /\ NotAfter(b, y)
    BY <1>0, <2>1, FillLow, FillHigh DEF Within
  <2>3. b \in Address(2) /\ b[1] = a[1] /\ b[2] = a[2]
    BY <1>0, Leading
  <2> HIDE DEF b
  <2>4. ASSUME NEW u \in Address(2), NEW v \in Address(2)
        PROVE  NotAfter(u, v) <=> u[1] < v[1] \/ (u[1] = v[1] /\ u[2] <= v[2])
    <3>1. DOMAIN u = 1..2 /\ u \in Seq(Byte) /\ v \in Seq(Byte) /\ Len(u) = 2 /\ Len(v) = 2
      BY DEF Address
    <3>2. u[1] \in Int /\ v[1] \in Int /\ u[2] \in Int /\ v[2] \in Int
      BY <1>0, AddressFacts
    <3>3. u = v <=> u[1] = v[1] /\ u[2] = v[2]
      BY ONLY <3>1
    <3>4. NotAfter(u, v) <=> u = v \/ u[1] < v[1] \/ (u[2] < v[2] /\ u[1] = v[1])
      <4>1. 1..(1 - 1) = {} /\ 1..(2 - 1) = {1} /\ 1..2 = {1, 2}
        OBVIOUS
      <4> QED
        BY ONLY <3>1, <4>1 DEF NotAfter
    <3> QED
      BY ONLY <3>2, <3>3, <3>4
  <2>5. NotAfter(x, b) <=> n < a[1] \/ (n = a[1] /\ l <= a[2])
    BY <2>1, <2>3, <2>4
  <2>6. NotAfter(b, y) <=> a[1] < n \/ (a[1] = n /\ a[2] <= h)
    BY <2>1, <2>3, <2>4
  <2>7. Within(a, Fill(x, 0), Fill(y, 255)) <=> a[1] = n /\ l <= a[2] /\ a[2] <= h
    BY ONLY <1>a, <2>i, <2>2, <2>5, <2>6
  <2> QED
    BY <2>7 DEF x, y
<1>3. \A n \in {128, 191, 252, 253, 254, 255} : n \in Byte
  BY DEF Byte
<1>4. Within(a, Fill(<<252>>, 0), Fill(<<253>>, 255)) <=> 252 <= a[1] /\ a[1] <= 253
  BY <1>1, <1>3
<1>5. Within(a, Fill(<<255>>, 0), Fill(<<255>>, 255)) <=> 255 <= a[1] /\ a[1] <= 255
  BY <1>1, <1>3
<1>6. Within(a, Fill(<<254, 128>>, 0), Fill(<<254, 191>>, 255))
        <=> a[1] = 254 /\ 128 <= a[2] /\ a[2] <= 191
  BY <1>2, <1>3
<1> QED
  BY ONLY <1>a, <1>4, <1>5, <1>6

\* The unspecified and the loopback address are compatible ones of the span 0.0.0.0/8.
LEMMA Loopback ==
  ASSUME NEW a \in Address(16)
  PROVE  Within(a, Zeros(16), Zeros(15) \o <<1>>)
           => SubSeq(a, 1, 12) = Zeros(12) /\ Covered(SubSeq(a, 13, 16))
<1> HAVE Within(a, Zeros(16), Zeros(15) \o <<1>>)
<1> DEFINE lo == <<0, 0, 0, 0>>
           hi == <<0, 0, 0, 1>>
           t == SubSeq(a, 13, 16)
<1>0. /\ 12 \in 1..12 /\ 12 + 4 = 16 /\ 12 + 1 = 13 /\ 16 \in Nat /\ 15 \in Nat /\ 12 \in Nat
      /\ 12 \in 1..(16 - 1) /\ 16 - 12 = 4 /\ 0 \in Byte /\ 1 \in Byte
  BY DEF Byte
<1>1. lo \in Address(4) /\ hi \in Address(4)
  BY <1>0 DEF Address
<1>z. ASSUME NEW q \in Address(4)
      PROVE  /\ Zeros(12) \o q \in Address(16)
             /\ \A i \in 1..12 : (Zeros(12) \o q)[i] = 0
             /\ \A i \in 13..16 : (Zeros(12) \o q)[i] = q[i - 12]
  <2>1. 4 \in Nat /\ Zeros(12) \in Address(12) /\ \A i \in 1..12 : Zeros(12)[i] = 0
    BY <1>0, ZerosFacts
  <2>2. Zeros(12) \o q \in Address(12 + 4)
    BY <1>0, <2>1, Joined
  <2>3. \A i \in 1..12 : (Zeros(12) \o q)[i] = Zeros(12)[i]
    BY <1>0, <2>1, Joined
  <2>4. \A i \in 1..4 : (Zeros(12) \o q)[12 + i] = q[i]
    BY <1>0, <2>1, JoinedBehind
  <2>5. \A i \in 13..16 : i - 12 \in 1..4 /\ 12 + (i - 12) = i
    OBVIOUS
  <2>6. \A i \in 13..16 : (Zeros(12) \o q)[i] = q[i - 12]
    BY <2>4, <2>5
  <2> QED
    BY <1>0, <2>1, <2>2, <2>3, <2>6
<1>2. Zeros(16) = Zeros(12) \o lo
  <2>1. Zeros(16) \in Address(16) /\ \A i \in 1..16 : Zeros(16)[i] = 0
    BY <1>0, ZerosFacts
  <2>2. \A i \in 13..16 : lo[i - 12] = 0
    OBVIOUS
  <2> HIDE DEF lo
  <2> DEFINE x == Zeros(12) \o lo
  <2>z. /\ x \in Address(16) /\ \A i \in 1..12 : x[i] = 0
        /\ \A i \in 13..16 : x[i] = lo[i - 12]
    BY <1>1, <1>z
  <2> HIDE DEF x
  <2>3. \A i \in 1..16 : x[i] = 0
    <3>1. \A i \in 1..16 : i \in 1..12 \/ i \in 13..16
      OBVIOUS
    <3> QED
      BY ONLY <2>z, <2>2, <3>1
  <2>4. \A i \in 1..16 : Zeros(16)[i] = x[i]
    BY ONLY <2>1, <2>3
  <2>5. Zeros(16) = x
    BY <1>0, <2>z, <2>1, <2>4, SameBytes
  <2> QED
    BY <2>5 DEF x
<1>3. Zeros(15) \o <<1>> = Zeros(12) \o hi
  <2> DEFINE one == <<1>>
             y == Zeros(15) \o one
  <2>1. 15 + 1 = 16 /\ 1 \in Nat /\ 1 \in 1..1
    OBVIOUS
  <2>2. Zeros(15) \in Address(15) /\ \A i \in 1..15 : Zeros(15)[i] = 0
    BY <1>0, ZerosFacts
  <2>3. one \in Address(1) /\ one[1] = 1
    BY <1>0 DEF Address
  <2>4. \A i \in 13..16 : hi[i - 12] = IF i = 16 THEN 1 ELSE 0
    OBVIOUS
  <2> HIDE DEF hi, one
  <2>5. y \in Address(15 + 1)
    BY <1>0, <2>1, <2>2, <2>3, Joined
  <2>6. \A i \in 1..15 : y[i] = Zeros(15)[i]
    BY <1>0, <2>1, <2>2, <2>3, Joined
  <2>7. y[15 + 1] = one[1]
    BY <1>0, <2>1, <2>2, <2>3, JoinedBehind
  <2> HIDE DEF y
  <2>8. \A i \in 1..16 : y[i] = IF i = 16 THEN 1 ELSE 0
    BY <2>1, <2>2, <2>3, <2>6, <2>7
  <2> DEFINE x == Zeros(12) \o hi
  <2>z. /\ x \in Address(16) /\ \A i \in 1..12 : x[i] = 0
        /\ \A i \in 13..16 : x[i] = hi[i - 12]
    BY <1>1, <1>z
  <2> HIDE DEF x
  <2>9. \A i \in 1..16 : x[i] = IF i = 16 THEN 1 ELSE 0
    <3>1. \A i \in 1..16 : (i \in 1..12 /\ i # 16) \/ i \in 13..16
      OBVIOUS
    <3> QED
      BY ONLY <2>z, <2>4, <3>1
  <2>10. \A i \in 1..16 : y[i] = x[i]
    BY ONLY <2>8, <2>9
  <2>11. y \in Address(16)
    BY <2>1, <2>5
  <2>12. y = x
    BY <1>0, <2>z, <2>10, <2>11, SameBytes
  <2> QED
    BY <2>12 DEF x, y, one
<1>4. Zeros(12) \in Address(12)
  BY Encodings
<1> HIDE DEF lo, hi
<1>5. /\ SubSeq(a, 1, 12) = Zeros(12)
      /\ NotAfter(lo, SubSeq(a, 12 + 1, 12 + 4))
      /\ NotAfter(SubSeq(a, 12 + 1, 12 + 4), hi)
  <2>1. NotAfter(Zeros(12) \o lo, a) /\ NotAfter(a, Zeros(12) \o hi)
    BY <1>2, <1>3 DEF Within
  <2> QED
    BY <2>1, <1>0, <1>1, <1>4, Prefixed
<1>6. t \in Address(4)
  <2>1. SubSeq(a, 12 + 1, 16) \in Address(16 - 12)
    BY <1>0, Behind
  <2> QED
    BY <1>0, <2>1
<1>7. NotAfter(t, hi)
  BY <1>0, <1>5
<1> HIDE DEF t
<1>8. Covered(t)
  <2>1. t[1] < hi[1] \/ t[1] = hi[1]
    BY <1>1, <1>6, <1>7, Order4
  <2>2. hi[1] = 0
    BY DEF hi
  <2>3. t[1] \in Int /\ 0 <= t[1]
    BY <1>6, AddressFacts
  <2>4. t[1] = 0
    BY ONLY <2>1, <2>2, <2>3
  <2> QED
    BY <2>4 DEF Covered
<1> QED
  BY <1>5, <1>8 DEF t

\* An IPv4 address is blocked iff it lies in a span.
LEMMA Blocked4 ==
  ASSUME NEW a \in Address(4), a # NoAddress
  PROVE  proxyIPBlocked(a) <=> \E s \in Spans4 : Within(a, s[1], s[2])
<1>1. Len(a) = 4
  BY DEF Address
<1>2. proxyIPBlocked(a) <=> ipv4Blocked(a)
  BY <1>1 DEF proxyIPBlocked, To4
<1> QED
  BY <1>2, Masks, Spans

\* The spans of IPv6 addresses, as conditions on the bytes.
LEMMA Spans6Cases ==
  ASSUME NEW a \in Address(16)
  PROVE  (\E s \in Spans6 : Within(a, s[1], s[2])) <=>
           \/ SubSeq(a, 1, 12) \in {Zeros(12), Mapped, Nat64} /\ Covered(SubSeq(a, 13, 16))
           \/ SubSeq(a, 1, 2) = <<32, 2>> /\ Covered(SubSeq(a, 3, 6))
           \/ a[1] \in {252, 253}
           \/ a[1] = 254 /\ 128 <= a[2] /\ a[2] <= 191
           \/ a[1] = 255
<1> DEFINE w(lo, hi) == Within(a, lo, hi)
<1>1. (\E s \in Spans6 : w(s[1], s[2])) <=>
        \/ w(Zeros(16), Zeros(15) \o <<1>>)
        \/ w(Fill(<<252>>, 0), Fill(<<253>>, 255))
        \/ w(Fill(<<254, 128>>, 0), Fill(<<254, 191>>, 255))
        \/ w(Fill(<<255>>, 0), Fill(<<255>>, 255))
        \/ \E p \in {Zeros(12), Mapped, Nat64}, s \in Spans4 : w(p \o s[1], p \o s[2])
        \/ \E s \in Spans4 : w(Fill(<<32, 2>> \o s[1], 0), Fill(<<32, 2>> \o s[2], 255))
  <2> DEFINE A == {<<Zeros(16), Zeros(15) \o <<1>>>>, <<Fill(<<252>>, 0), Fill(<<253>>, 255)>>,
                  <<Fill(<<254, 128>>, 0), Fill(<<254, 191>>, 255)>>,
                  <<Fill(<<255>>, 0), Fill(<<255>>, 255)>>}
             B == Embedded(Zeros(12)) \cup Embedded(Mapped) \cup Embedded(Nat64)
             C == {<<Fill(<<32, 2>> \o s[1], 0), Fill(<<32, 2>> \o s[2], 255)>> : s \in Spans4}
  <2>0. Spans6 = A \cup B \cup C
    BY DEF Spans6
  <2> HIDE DEF w
  <2>1. (\E s \in A : w(s[1], s[2])) <=>
          \/ w(Zeros(16), Zeros(15) \o <<1>>)
          \/ w(Fill(<<252>>, 0), Fill(<<253>>, 255))
          \/ w(Fill(<<254, 128>>, 0), Fill(<<254, 191>>, 255))
          \/ w(Fill(<<255>>, 0), Fill(<<255>>, 255))
    OBVIOUS
  <2>2. (\E s \in B : w(s[1], s[2])) <=>
          \E p \in {Zeros(12), Mapped, Nat64}, s \in Spans4 : w(p \o s[1], p \o s[2])
    <3>0. \A p : Embedded(p) = {<<p \o s[1], p \o s[2]>> : s \in Spans4}
      BY DEF Embedded
    <3>1. ASSUME NEW x \in B, w(x[1], x[2])
          PROVE  \E p \in {Zeros(12), Mapped, Nat64}, s \in Spans4 : w(p \o s[1], p \o s[2])
      <4>1. PICK p \in {Zeros(12), Mapped, Nat64} : x \in Embedded(p)
        OBVIOUS
      <4>2. PICK s \in Spans4 : x = <<p \o s[1], p \o s[2]>>
        BY <4>1, <3>0
      <4>3. x[1] = p \o s[1] /\ x[2] = p \o s[2]
        BY ONLY <4>2
      <4> QED
        BY <3>1, <4>3
    <3>2. ASSUME NEW p \in {Zeros(12), Mapped, Nat64}, NEW s \in Spans4, w(p \o s[1], p \o s[2])
          PROVE  \E x \in B : w(x[1], x[2])
      <4> DEFINE x == <<p \o s[1], p \o s[2]>>
      <4>1. x \in B
        <5>1. x \in Embedded(p)
          BY <3>0
        <5> HIDE DEF x
        <5> QED
          BY <5>1
      <4>2. x[1] = p \o s[1] /\ x[2] = p \o s[2]
        OBVIOUS
      <4> HIDE DEF x, B
      <4> QED
        BY <3>2, <4>1, <4>2
    <3> HIDE DEF B
    <3> QED
      BY <3>1, <3>2
  <2>3. (\E s \in C : w(s[1], s[2])) <=>
          \E s \in Spans4 : w(Fill(<<32, 2>> \o s[1], 0), Fill(<<32, 2>> \o s[2], 255))
    <3> DEFINE lo(s) == Fill(<<32, 2>> \o s[1], 0)
               hi(s) == Fill(<<32, 2>> \o s[2], 255)
    <3>0. C = {<<lo(s), hi(s)>> : s \in Spans4}
      OBVIOUS
    <3> HIDE DEF C, lo, hi
    <3>1. ASSUME NEW x \in C, w(x[1], x[2]) PROVE \E s \in Spans4 : w(lo(s), hi(s))
      <4>1. PICK s \in Spans4 : x = <<lo(s), hi(s)>>
        BY <3>0
      <4>2. x[1] = lo(s) /\ x[2] = hi(s)
        BY ONLY <4>1
      <4> QED
        BY <3>1, <4>2
    <3>2. ASSUME NEW s \in Spans4, w(lo(s), hi(s)) PROVE \E x \in C : w(x[1], x[2])
      <4> DEFINE x == <<lo(s), hi(s)>>
      <4>1. x \in C
        BY <3>0
      <4>2. x[1] = lo(s) /\ x[2] = hi(s)
        OBVIOUS
      <4> HIDE DEF x
      <4> QED
        BY <3>2, <4>1, <4>2
    <3>3. (\E s \in C : w(s[1], s[2])) <=> \E s \in Spans4 : w(lo(s), hi(s))
      BY <3>1, <3>2
    <3> QED
      BY <3>3 DEF lo, hi
  <2> HIDE DEF A, B, C
  <2>4. (\E s \in Spans6 : w(s[1], s[2])) <=>
          \/ \E s \in A : w(s[1], s[2])
          \/ \E s \in B : w(s[1], s[2])
          \/ \E s \in C : w(s[1], s[2])
    BY ONLY <2>0
  <2> QED
    BY ONLY <2>1, <2>2, <2>3, <2>4
<1>2. (\E p \in {Zeros(12), Mapped, Nat64}, s \in Spans4 : w(p \o s[1], p \o s[2])) <=>
        SubSeq(a, 1, 12) \in {Zeros(12), Mapped, Nat64} /\ Covered(SubSeq(a, 13, 16))
  <2>1. \A p \in {Zeros(12), Mapped, Nat64} : p \in Address(12)
    BY Encodings
  <2>2. \A p \in {Zeros(12), Mapped, Nat64} :
          (\E s \in Spans4 : w(p \o s[1], p \o s[2]))
             <=> SubSeq(a, 1, 12) = p /\ Covered(SubSeq(a, 13, 16))
    BY <2>1, EmbeddedTail
  <2> HIDE DEF w
  <2> QED
    BY <2>2
<1>3. (\E s \in Spans4 : w(Fill(<<32, 2>> \o s[1], 0), Fill(<<32, 2>> \o s[2], 255))) <=>
        SubSeq(a, 1, 2) = <<32, 2>> /\ Covered(SubSeq(a, 3, 6))
  BY Embedded6to4
<1>4. w(Zeros(16), Zeros(15) \o <<1>>) =>
        SubSeq(a, 1, 12) \in {Zeros(12), Mapped, Nat64} /\ Covered(SubSeq(a, 13, 16))
  BY Loopback
<1>5. /\ w(Fill(<<252>>, 0), Fill(<<253>>, 255)) <=> a[1] \in {252, 253}
      /\ w(Fill(<<254, 128>>, 0), Fill(<<254, 191>>, 255))
           <=> a[1] = 254 /\ 128 <= a[2] /\ a[2] <= 191
      /\ w(Fill(<<255>>, 0), Fill(<<255>>, 255)) <=> a[1] = 255
  BY Native6
<1> HIDE DEF w
<1>6. (\E s \in Spans6 : w(s[1], s[2])) <=>
           \/ SubSeq(a, 1, 12) \in {Zeros(12), Mapped, Nat64} /\ Covered(SubSeq(a, 13, 16))
           \/ SubSeq(a, 1, 2) = <<32, 2>> /\ Covered(SubSeq(a, 3, 6))
           \/ a[1] \in {252, 253}
           \/ a[1] = 254 /\ 128 <= a[2] /\ a[2] <= 191
           \/ a[1] = 255
  BY ONLY <1>1, <1>2, <1>3, <1>4, <1>5
<1> QED
  BY <1>6 DEF w

\* An IPv6 address is blocked iff it lies in a span, whatever it encodes.
LEMMA Blocked6 ==
  ASSUME NEW a \in Address(16), a # NoAddress
  PROVE  proxyIPBlocked(a) <=> \E s \in Spans6 : Within(a, s[1], s[2])
<1> DEFINE h == SubSeq(a, 1, 12)
           t == SubSeq(a, 13, 16)
           two == SubSeq(a, 1, 2)
           six == SubSeq(a, 3, 6)
           low == SubSeq(a, 1, 15)
<1>a. a \in Seq(Byte) /\ Len(a) = 16
  BY DEF Address
<1>i. a[1] \in Int /\ a[2] \in Int /\ a[16] \in Int
  BY AddressFacts
<1>t. t \in Address(4) /\ Len(t) = 4 /\ t[1] = a[13] /\ t[2] = a[14] /\ t[3] = a[15] /\ t[4] = a[16]
  <2>1. 16 \in Nat /\ 12 \in 1..(16 - 1) /\ 16 - 12 = 4 /\ 12 + 1 = 13
        /\ 12 + 2 = 14 /\ 12 + 3 = 15 /\ 12 + 4 = 16 /\ 1 \in 1..4 /\ 2 \in 1..4 /\ 3 \in 1..4 /\ 4 \in 1..4
    OBVIOUS
  <2>2. SubSeq(a, 12 + 1, 16) \in Address(16 - 12)
    BY <2>1, Behind
  <2>3. \A i \in 1..4 : SubSeq(a, 12 + 1, 16)[i] = a[12 + i]
    BY <2>1, Behind
  <2>4. t \in Address(4)
    BY <2>1, <2>2
  <2> QED
    BY <2>1, <2>3, <2>4 DEF Address
<1>s. six \in Address(4)
  BY Middle
<1>h. h \in Address(12) /\ h[1] = a[1] /\ two[1] = a[1] /\ two \in Address(2)
  BY Leading
<1>l. low = Zeros(15) <=> h = Zeros(12)
              /\ a[13] = 0 /\ a[14] = 0 /\ a[15] = 0
  <2>1. low \in Address(15) /\ \A i \in 1..15 : low[i] = a[i]
    BY Leading
  <2>2. h \in Address(12) /\ \A i \in 1..12 : h[i] = a[i]
    BY Leading
  <2>3. Zeros(15) \in Address(15) /\ \A i \in 1..15 : Zeros(15)[i] = 0
    BY ZerosFacts
  <2>4. Zeros(12) \in Address(12) /\ \A i \in 1..12 : Zeros(12)[i] = 0
    BY ZerosFacts
  <2> HIDE DEF h, low
  <2>5. low = Zeros(15) <=> \A i \in 1..15 : a[i] = 0
    <3>1. ASSUME \A i \in 1..15 : a[i] = 0 PROVE low = Zeros(15)
      BY <3>1, <2>1, <2>3, SameBytes
    <3> QED
      BY <3>1, <2>1, <2>3
  <2>6. h = Zeros(12) <=> \A i \in 1..12 : a[i] = 0
    <3>1. ASSUME \A i \in 1..12 : a[i] = 0 PROVE h = Zeros(12)
      BY <3>1, <2>2, <2>4, SameBytes
    <3> QED
      BY <3>1, <2>2, <2>4
  <2>7. (\A i \in 1..15 : a[i] = 0)
          <=> (\A i \in 1..12 : a[i] = 0) /\ a[13] = 0 /\ a[14] = 0 /\ a[15] = 0
    <3>1. \A i \in 1..15 : i \in 1..12 \/ i \in {13, 14, 15}
      OBVIOUS
    <3>2. \A i \in 1..12 : i \in 1..15
      OBVIOUS
    <3>3. 13 \in 1..15 /\ 14 \in 1..15 /\ 15 \in 1..15
      OBVIOUS
    <3> QED
      BY ONLY <3>1, <3>2, <3>3
  <2> QED
    BY ONLY <2>5, <2>6, <2>7
<1> HIDE DEF h, t, two, six, low
<1>m. ipv4Blocked(t) <=> Covered(t)
  BY <1>t, Masks
<1>n. ipv4Blocked(six) <=> Covered(six)
  BY <1>s, Masks
<1>d. two = <<32, 2>> => a[1] = 32
  BY <1>h
<1>e. h \in {Zeros(12), Mapped, Nat64} => a[1] = 0
  BY <1>h, Encodings
<1>r. ipv6Reserved(a) <=>
        \/ low = Zeros(15) /\ a[16] \in {0, 1}
        \/ a[1] \in {252, 253}
        \/ a[1] = 254 /\ 128 <= a[2] /\ a[2] <= 191
        \/ a[1] = 255
  <2>1. a[2] \div 64 = 2 <=> 128 <= a[2] /\ a[2] <= 191
    BY <1>i
  <2> QED
    BY <2>1 DEF ipv6Reserved, low
<1>0. (\E s \in Spans6 : Within(a, s[1], s[2])) <=>
           \/ h \in {Zeros(12), Mapped, Nat64} /\ Covered(t)
           \/ two = <<32, 2>> /\ Covered(six)
           \/ a[1] \in {252, 253}
           \/ a[1] = 254 /\ 128 <= a[2] /\ a[2] <= 191
           \/ a[1] = 255
  BY Spans6Cases DEF h, t, two, six
<1>1. CASE h = Mapped
  <2>1. To4(a) = t
    BY <1>1, <1>a DEF To4, h, t
  <2>2. proxyIPBlocked(a) <=> ipv4Blocked(t)
    BY <2>1, <1>t DEF proxyIPBlocked
  <2> QED
    BY ONLY <1>0, <1>1, <1>d, <1>e, <1>m, <2>2
<1>2. CASE h # Mapped
  <2>1. To4(a) = a
    BY <1>2, <1>a DEF To4, h
  <2>2. proxyIPBlocked(a) <=>
          IF (h = Zeros(12) /\ t # Zeros(4)) \/ h = Nat64 THEN ipv4Blocked(t)
          ELSE IF two = <<32, 2>> THEN ipv4Blocked(six) ELSE ipv6Reserved(a)
    BY <2>1, <1>a DEF proxyIPBlocked, h, t, two, six
  <2>3. CASE (h = Zeros(12) /\ t # Zeros(4)) \/ h = Nat64
    BY ONLY <1>0, <2>3, <1>d, <1>e, <1>m, <2>2
  <2>4. CASE h # Zeros(12) /\ h # Nat64
    <3>1. h \notin {Zeros(12), Mapped, Nat64}
      BY <1>2, <2>4
    <3>2. CASE two = <<32, 2>>
      <4>1. proxyIPBlocked(a) <=> ipv4Blocked(six)
        BY <2>2, <2>4, <3>2
      <4>2. a[1] = 32
        BY <1>d, <3>2
      <4> QED
        BY ONLY <1>0, <1>n, <3>1, <3>2, <4>1, <4>2
    <3>3. CASE two # <<32, 2>>
      <4>1. proxyIPBlocked(a) <=> ipv6Reserved(a)
        BY <2>2, <2>4, <3>3
      <4>2. low # Zeros(15)
        BY <1>l, <2>4
      <4> QED
        BY <1>0, <1>r, <3>1, <3>3, <4>1, <4>2, Zenon
    <3> QED
      BY <3>2, <3>3
  <2>5. CASE h = Zeros(12) /\ t = Zeros(4)
    <3>1. t[1] = 0 /\ t[2] = 0 /\ t[3] = 0 /\ t[4] = 0
      BY <2>5, ZerosFacts
    <3>2. Covered(t)
      BY <3>1 DEF Covered
    <3>3. two # <<32, 2>> /\ h # Nat64
      BY <2>5, <1>d, <1>e, Encodings
    <3>4. ipv6Reserved(a)
      <4>1. a[13] = 0 /\ a[14] = 0 /\ a[15] = 0 /\ a[16] = 0
        BY <3>1, <1>t
      <4>2. low = Zeros(15)
        BY <4>1, <1>l, <2>5
      <4> QED
        BY <4>1, <4>2, <1>r
    <3> QED
      BY <1>0, <2>2, <2>5, <3>2, <3>3, <3>4
  <2> QED
    BY <2>3, <2>4, <2>5
<1> QED
  BY <1>1, <1>2

\* proxyIPBlocked on every address that can be asked about.
LEMMA BlockedIsSpan ==
  ASSUME NEW a \in Addresses
  PROVE  proxyIPBlocked(a) <=>
           \E s \in (IF Len(a) = 4 THEN Spans4 ELSE Spans6) : NotAfter(s[1], a) /\ NotAfter(a, s[2])
<1>1. a \in Seq(Byte) /\ Len(a) \in {4, 16} /\ a # NoAddress
  BY PolicyAssumption DEF Byte
<1>2. CASE Len(a) = 4
  BY <1>1, <1>2, Blocked4 DEF Address, Within
<1>3. CASE Len(a) = 16
  BY <1>1, <1>3, Blocked6 DEF Address, Within
<1> QED
  BY <1>1, <1>2, <1>3

=============================================================================
