----------------------------- MODULE HashProofs -----------------------------
(***************************************************************************)
(* Theorems about module Hash, for digits of any size and digests of any   *)
(* length: calc_hash writes the signed number of a digest, no two digests  *)
(* read the same, and the digests that overflow are those with a last byte *)
(* of zero.  A recursive function is the CHOOSE of what satisfies its      *)
(* equation; that something does, and what it is, follows by induction on  *)
(* the position, with the induction stated for a set of numbers.           *)
(***************************************************************************)
EXTENDS Hash, FiniteSetTheorems, SequenceTheorems, WellFoundedInduction, TLAPS

-----------------------------------------------------------------------------
(* Induction.                                                              *)

Less == {p \in Nat \X Nat : p[1] < p[2]}

LEMMA LeastElement ==
    ASSUME NEW S, S \subseteq Nat, S # {}
    PROVE  \E m \in S : \A n \in S : m <= n
<1>1. IsWellFoundedOn(Less, Nat)
    <2>1. Less = OpToRel(<, Nat)
        BY DEF OpToRel, Less
    <2>2. QED
        BY <2>1, NatLessThanWellFounded
<1>2. PICK m \in S : \A n \in S : <<n, m>> \notin Less
    BY <1>1, WFMin
<1>3. ASSUME NEW n \in S
      PROVE  m <= n
    <2>1. m \in Nat /\ n \in Nat /\ <<n, m>> \in Nat \X Nat
        OBVIOUS
    <2>2. ~(n < m)
        BY <1>2, <2>1 DEF Less
    <2>3. QED
        BY <2>1, <2>2
<1>4. QED
    BY <1>3

LEMMA UpwardInduction ==
    ASSUME NEW S, NEW n \in Nat,
           0 \in S, \A i \in 1..n : i - 1 \in S => i \in S
    PROVE  0..n \subseteq S
<1> DEFINE T == {i \in 0..n : i \notin S}
<1> SUFFICES ASSUME T # {} PROVE FALSE
    OBVIOUS
<1>1. T \subseteq Nat
    OBVIOUS
<1>2. PICK m \in T : \A i \in T : m <= i
    <2> HIDE DEF T
    <2>1. QED
        BY <1>1, LeastElement
<1>3. m \in 1..n /\ m - 1 \in 0..n /\ m - 1 \notin T
    BY <1>2
<1>4. QED
    BY <1>2, <1>3

LEMMA DownwardInduction ==
    ASSUME NEW S, NEW n \in Nat,
           n \in S, \A i \in 1..n : i \in S => i - 1 \in S
    PROVE  0..n \subseteq S
<1> DEFINE U == {i \in 0..n : n - i \in S}
<1>1. 0 \in U
    OBVIOUS
<1>2. ASSUME NEW i \in 1..n, i - 1 \in U
      PROVE  i \in U
    <2>1. n - (i - 1) \in 1..n /\ n - (i - 1) \in S /\ (n - (i - 1)) - 1 = n - i
        BY <1>2
    <2>2. QED
        BY <2>1
<1>3. 0..n \subseteq U
    <2> HIDE DEF U
    <2>1. QED
        BY <1>1, <1>2, UpwardInduction
<1>4. ASSUME NEW i \in 0..n
      PROVE  i \in S
    <2>1. n - i \in U /\ n - (n - i) = i
        BY <1>3
    <2>2. QED
        BY <2>1
<1>5. QED
    BY <1>4

-----------------------------------------------------------------------------
(* The number of a sequence of digits.                                     *)

\* The numbers of the prefixes of s, from the empty one on.
Prefixes(s, base) ==
    CHOOSE upTo : upTo = [i \in 0..Len(s) |-> IF i = 0 THEN 0 ELSE upTo[i - 1] * base + s[i]]

\* The same, said of each position.
Sums(f, s, base) ==
    /\ f[0] = 0
    /\ \A i \in 1..Len(s) : f[i] = f[i - 1] * base + s[i]

LEMMA NumberOfPrefixes ==
    ASSUME NEW s, NEW base
    PROVE  Number(s, base) = Prefixes(s, base)[Len(s)]
BY DEF Number, Prefixes

LEMMA SumsExist ==
    ASSUME NEW s \in Seq(Int), NEW base \in Int
    PROVE  \E f \in [0..Len(s) -> Int] : Sums(f, s, base)
<1> DEFINE Upto(n) == \E f \in [0..n -> Int] :
                /\ f[0] = 0
                /\ \A i \in 1..n : f[i] = f[i - 1] * base + s[i]
           S == {n \in 0..Len(s) : Upto(n)}
<1>1. Len(s) \in Nat
    OBVIOUS
<1>2. Upto(0)
    <2> DEFINE f == [i \in 0..0 |-> 0]
    <2>1. f \in [0..0 -> Int] /\ f[0] = 0 /\ 1..0 = {}
        OBVIOUS
    <2> HIDE DEF f
    <2>2. QED
        BY <2>1
<1>3. ASSUME NEW n \in 1..Len(s), Upto(n - 1)
      PROVE  Upto(n)
    <2>1. PICK f \in [0..n - 1 -> Int] :
                f[0] = 0 /\ \A i \in 1..n - 1 : f[i] = f[i - 1] * base + s[i]
        BY <1>3
    <2>2. s[n] \in Int /\ f[n - 1] \in Int /\ n \in Nat \ {0}
        BY <1>1
    <2>3. f[n - 1] * base + s[n] \in Int
        BY <2>2
    <2> DEFINE g == [i \in 0..n |-> IF i = n THEN f[n - 1] * base + s[n] ELSE f[i]]
    <2>4. g \in [0..n -> Int]
        BY <2>2, <2>3
    <2>5. g[0] = 0
        BY <2>1, <2>2
    <2>6. ASSUME NEW i \in 1..n
          PROVE  g[i] = g[i - 1] * base + s[i]
        <3>1. i - 1 \in 0..n /\ i - 1 # n /\ g[i - 1] = f[i - 1]
            BY <2>2
        <3>2. CASE i = n
            BY <2>2, <3>1, <3>2
        <3>3. CASE i # n
            <4>1. i \in 1..n - 1 /\ g[i] = f[i]
                BY <2>2, <3>3
            <4>2. QED
                BY <2>1, <3>1, <4>1
        <3>4. QED
            BY <3>2, <3>3
    <2> HIDE DEF g
    <2>7. QED
        BY <2>4, <2>5, <2>6
<1> HIDE DEF Upto
<1>4. 0..Len(s) \subseteq S
    <2>1. 0 \in S
        BY <1>1, <1>2
    <2>2. \A i \in 1..Len(s) : i - 1 \in S => i \in S
        BY <1>1, <1>3
    <2> HIDE DEF S
    <2>3. QED
        BY <1>1, <2>1, <2>2, UpwardInduction
<1>5. Upto(Len(s))
    BY <1>1, <1>4
<1>6. QED
    BY <1>5 DEF Sums, Upto

LEMMA PrefixesSum ==
    ASSUME NEW s \in Seq(Int), NEW base \in Int
    PROVE  Prefixes(s, base) \in [0..Len(s) -> Int] /\ Sums(Prefixes(s, base), s, base)
<1> DEFINE Fits(f) == f = [i \in 0..Len(s) |-> IF i = 0 THEN 0 ELSE f[i - 1] * base + s[i]]
<1>1. Len(s) \in Nat
    OBVIOUS
<1>2. PICK f \in [0..Len(s) -> Int] : Sums(f, s, base)
    BY SumsExist
<1>3. f = [i \in 0..Len(s) |-> f[i]]
    BY <1>2
<1>4. \A i \in 0..Len(s) : f[i] = IF i = 0 THEN 0 ELSE f[i - 1] * base + s[i]
    BY <1>1, <1>2 DEF Sums
<1>5. Fits(f)
    BY <1>3, <1>4
<1>6. Fits(Prefixes(s, base))
    BY <1>5 DEF Prefixes
<1> DEFINE p == Prefixes(s, base)
<1>7. DOMAIN p = 0..Len(s) /\ p[0] = 0
      /\ \A i \in 1..Len(s) : p[i] = p[i - 1] * base + s[i]
    BY <1>1, <1>6
<1> HIDE DEF p
<1>8. \A i \in 0..Len(s) : p[i] \in Int
    <2> DEFINE S == {i \in 0..Len(s) : p[i] \in Int}
    <2>1. 0 \in S
        BY <1>1, <1>7
    <2>2. ASSUME NEW i \in 1..Len(s), i - 1 \in S
          PROVE  i \in S
        <3>1. s[i] \in Int /\ p[i - 1] \in Int
            BY <2>2
        <3>2. p[i - 1] * base + s[i] \in Int
            BY <3>1
        <3>3. QED
            BY <1>1, <1>7, <3>2
    <2>3. 0..Len(s) \subseteq S
        <3> HIDE DEF S
        <3>1. QED
            BY <1>1, <2>1, <2>2, UpwardInduction
    <2>4. QED
        BY <2>3
<1>9. p \in [0..Len(s) -> Int]
    <2>1. p = [i \in 0..Len(s) |-> p[i]]
        BY <1>6 DEF p
    <2>2. QED
        BY <1>8, <2>1
<1>10. QED
    BY <1>7, <1>9 DEF Sums, p

\* The numbers of the prefixes are the only ones that add up.
LEMMA NumberIs ==
    ASSUME NEW s \in Seq(Int), NEW base \in Int, NEW f, Sums(f, s, base)
    PROVE  Number(s, base) = f[Len(s)]
<1> DEFINE p == Prefixes(s, base)
           S == {i \in 0..Len(s) : p[i] = f[i]}
<1>1. Len(s) \in Nat /\ Sums(p, s, base)
    BY PrefixesSum
<1>2. 0 \in S /\ \A i \in 1..Len(s) : i - 1 \in S => i \in S
    <2> HIDE DEF p
    <2>1. QED
        BY <1>1 DEF Sums
<1>3. 0..Len(s) \subseteq S
    <2> HIDE DEF S
    <2>1. QED
        BY <1>1, <1>2, UpwardInduction
<1>4. p[Len(s)] = f[Len(s)]
    BY <1>1, <1>3
<1>5. QED
    BY <1>4, NumberOfPrefixes

LEMMA SumsOf ==
    ASSUME NEW s \in Seq(Int), NEW base \in Int
    PROVE  \E f \in [0..Len(s) -> Int] : Sums(f, s, base) /\ f[Len(s)] = Number(s, base)
BY PrefixesSum, NumberOfPrefixes

-----------------------------------------------------------------------------
(* What each part of calc_hash does to that number.                        *)

LEMMA Sizes ==
    /\ Half \in Nat \ {0} /\ Width \in Nat \ {0} /\ 2 * Width \in Nat
    /\ Byte \in Nat \ {0} /\ Half * Half = Byte
<1>1. Half \in Nat \ {0} /\ Width \in Nat \ {0}
    BY HashAssumption
<1>2. \A h \in Nat \ {0} : h * h \in Nat \ {0}
    OBVIOUS
<1>3. QED
    BY <1>1, <1>2 DEF Byte

LEMMA IsSequence ==
    ASSUME NEW S, NEW n \in Nat, NEW s \in [1..n -> S]
    PROVE  s \in Seq(S) /\ Len(s) = n
OBVIOUS

\* The two digits of a byte.
High(a) == a \div Half
Low(a)  == a % Half

LEMMA HighAndLow ==
    ASSUME NEW a \in Nat
    PROVE  High(a) \in Nat /\ Low(a) \in Nat /\ a = High(a) * Half + Low(a)
<1>1. Half \in Int /\ Half > 0 /\ a \in Int
    BY Sizes
<1>2. High(a) \in Nat /\ Low(a) \in Nat
    BY <1>1 DEF High, Low
<1>3. Low(a) = a - Half * High(a)
    BY <1>1 DEF High, Low
<1>4. \A q \in Nat, r \in Nat : r = a - Half * q => a = q * Half + r
    BY <1>1
<1>5. QED
    BY <1>2, <1>3, <1>4

LEMMA EncodeKeeps ==
    ASSUME NEW d \in [1..Width -> Nat]
    PROVE  /\ Encode(d) \in Seq(Nat) /\ Len(Encode(d)) = 2 * Width
           /\ Number(Encode(d), Half) = Number(d, Byte)
<1> DEFINE e == Encode(d)
<1>1. d \in Seq(Int) /\ Len(d) = Width
    BY Sizes, IsSequence
<1>2. e = [i \in 1..2 * Width |->
                IF i % 2 = 1 THEN High(d[(i + 1) \div 2]) ELSE Low(d[i \div 2])]
    BY DEF Encode, High, Low
<1> HIDE DEF e
<1>3. e \in [1..2 * Width -> Nat]
    <2>1. ASSUME NEW i \in 1..2 * Width
          PROVE  (IF i % 2 = 1 THEN High(d[(i + 1) \div 2]) ELSE Low(d[i \div 2])) \in Nat
        <3>1. i \in Nat /\ (i % 2 = 1 \/ i % 2 = 0)
            BY Sizes
        <3>2. CASE i % 2 = 1
            <4>1. (i + 1) \div 2 \in 1..Width
                BY Sizes, <3>1, <3>2
            <4>2. QED
                BY <3>2, <4>1, HighAndLow
        <3>3. CASE i % 2 = 0
            <4>1. i \div 2 \in 1..Width
                BY Sizes, <3>1, <3>3
            <4>2. ~(i % 2 = 1)
                BY <3>3
            <4>3. d[i \div 2] \in Nat
                BY <4>1
            <4>4. QED
                BY <4>2, <4>3, HighAndLow
        <3>4. QED
            BY <3>1, <3>2, <3>3
    <2>2. QED
        BY <1>2, <2>1
<1>4. e \in Seq(Nat) /\ e \in Seq(Int) /\ Len(e) = 2 * Width
    BY <1>3, Sizes, IsSequence
<1>5. ASSUME NEW i \in 1..Width
      PROVE  /\ 2 * i - 1 \in 1..Len(e) /\ 2 * i \in 1..Len(e)
             /\ e[2 * i - 1] = High(d[i]) /\ e[2 * i] = Low(d[i])
    <2>1. /\ 2 * i - 1 \in 1..2 * Width /\ (2 * i - 1) % 2 = 1 /\ ((2 * i - 1) + 1) \div 2 = i
          /\ 2 * i \in 1..2 * Width /\ (2 * i) % 2 = 0 /\ (2 * i) \div 2 = i
        BY Sizes
    <2>2. e[2 * i - 1] = High(d[((2 * i - 1) + 1) \div 2])
        BY <1>2, <2>1
    <2>3. e[2 * i] = Low(d[(2 * i) \div 2])
        BY <1>2, <2>1
    <2>4. QED
        BY <1>4, <2>1, <2>2, <2>3
<1>6. PICK f \in [0..Len(e) -> Int] : Sums(f, e, Half) /\ f[Len(e)] = Number(e, Half)
    <2>1. Half \in Int
        BY Sizes
    <2>2. QED
        BY <1>4, <2>1, SumsOf
<1> DEFINE g == [i \in 0..Width |-> f[2 * i]]
<1>7. Sums(g, d, Byte)
    <2>1. g[0] = 0
        BY <1>6, Sizes DEF Sums
    <2>2. ASSUME NEW i \in 1..Width
          PROVE  g[i] = g[i - 1] * Byte + d[i]
        <3>1. g[i] = f[2 * i] /\ g[i - 1] = f[2 * i - 2]
            BY Sizes
        <3>2. f[2 * i - 1] = f[2 * i - 2] * Half + High(d[i])
            <4>1. (2 * i - 1) - 1 = 2 * i - 2
                OBVIOUS
            <4>2. QED
                BY <1>5, <1>6, <4>1 DEF Sums
        <3>3. f[2 * i] = f[2 * i - 1] * Half + Low(d[i])
            BY <1>5, <1>6 DEF Sums
        <3>4. f[2 * i - 2] \in Int
            <4>1. 2 * i - 2 \in 0..Len(e)
                BY <1>4, Sizes
            <4>2. QED
                BY <1>6, <4>1
        <3>5. High(d[i]) \in Int /\ Low(d[i]) \in Int /\ d[i] = High(d[i]) * Half + Low(d[i])
            <4>1. d[i] \in Nat
                OBVIOUS
            <4>2. \A n \in Nat : n \in Int
                OBVIOUS
            <4>3. QED
                BY <4>1, <4>2, HighAndLow
        <3>6. \A x, q, r \in Int : (x * Half + q) * Half + r = x * (Half * Half) + (q * Half + r)
            BY Sizes
        <3>7. f[2 * i] = f[2 * i - 2] * (Half * Half) + d[i]
            BY <3>2, <3>3, <3>4, <3>5, <3>6
        <3>8. QED
            BY <3>1, <3>7, Sizes
    <2>3. QED
        BY <1>1, <2>1, <2>2 DEF Sums
<1>8. Number(d, Byte) = f[2 * Width]
    <2>1. Byte \in Int /\ Width \in 0..Width
        BY Sizes
    <2>2. Number(d, Byte) = g[Width]
        <3> HIDE DEF g
        <3>1. QED
            BY <1>1, <1>7, <2>1, NumberIs
    <2>3. QED
        BY <2>1, <2>2
<1>9. QED
    BY <1>4, <1>6, <1>8 DEF e

LEMMA RemoveZerosKeeps ==
    ASSUME NEW s \in Seq(Nat), NEW base \in Int
    PROVE  /\ Number(RemoveZeros(s), base) = Number(s, base)
           /\ RemoveZeros(s) # <<>> => RemoveZeros(s)[1] # 0
<1> DEFINE zeros == {i \in 1..Len(s) : \A j \in 1..i : s[j] = 0}
           fresh == {i \in Nat : i + 1 \notin zeros}
<1>1. Len(s) \in Nat /\ s \in Seq(Int)
    OBVIOUS
<1>2. Len(s) \in fresh
    BY <1>1
<1>3. PICK k \in fresh : \A i \in fresh : k <= i
    <2> HIDE DEF zeros
    <2>1. fresh \subseteq Nat /\ fresh # {}
        BY <1>2
    <2> HIDE DEF fresh
    <2>2. QED
        BY <2>1, LeastElement
<1>4. k \in 0..Len(s) /\ k \in Nat
    BY <1>1, <1>2, <1>3
<1>5. zeros = 1..k
    <2>1. ASSUME NEW i \in 1..k
          PROVE  i \in zeros
        <3>1. i - 1 \in Nat /\ ~(k <= i - 1) /\ (i - 1) + 1 = i
            BY <1>4
        <3>2. QED
            BY <1>3, <3>1
    <2>2. ASSUME NEW i \in zeros
          PROVE  i \in 1..k
        <3>1. CASE i > k
            <4>1. k + 1 \in 1..Len(s) /\ \A j \in 1..k + 1 : j \in 1..i
                BY <1>1, <1>4, <3>1
            <4>2. k + 1 \in zeros
                BY <4>1
            <4>3. QED
                BY <1>3, <4>2
        <3>2. QED
            BY <1>1, <1>4, <3>1
    <2>3. QED
        BY <2>1, <2>2
<1>6. Cardinality(zeros) = k
    <2>1. Cardinality(1..k) = IF 1 > k THEN 0 ELSE k - 1 + 1
        BY <1>4, FS_Interval
    <2>2. Cardinality(1..k) = k
        BY <1>4, <2>1
    <2> HIDE DEF zeros
    <2>3. QED
        BY <1>5, <2>2
<1> DEFINE r == SubSeq(s, k + 1, Len(s))
<1>7. RemoveZeros(s) = r
    BY <1>6 DEF RemoveZeros
<1>8. \A i \in 1..k : s[i] = 0
    BY <1>1, <1>5
<1>9. k + 1 \notin zeros
    BY <1>3
<1>10. k # Len(s) => s[k + 1] # 0
    <2> SUFFICES ASSUME k # Len(s), s[k + 1] = 0 PROVE FALSE
        OBVIOUS
    <2>1. k + 1 \in 1..Len(s) /\ \A j \in 1..k + 1 : j \in 1..k \/ j = k + 1
        BY <1>1, <1>4
    <2>2. \A j \in 1..k + 1 : s[j] = 0
        BY <1>8, <2>1
    <2>3. QED
        BY <1>9, <2>1, <2>2
<1> HIDE DEF zeros, fresh
<1>11. r \in Seq(Int) /\ Len(r) = Len(s) - k /\ \A i \in 1..Len(r) : r[i] = s[k + i]
    <2>1. \A i \in k + 1..Len(s) : s[i] \in Int
        BY <1>1, <1>4
    <2>2. /\ r \in Seq(Int) /\ Len(r) = IF k + 1 <= Len(s) THEN Len(s) - (k + 1) + 1 ELSE 0
          /\ \A i \in 1..Len(s) - (k + 1) + 1 : r[i] = s[(k + 1) + i - 1]
        <3>1. k + 1 \in Int /\ Len(s) \in Int
            BY <1>1, <1>4
        <3>2. QED
            BY <2>1, <3>1, SubSeqProperties
    <2>3. Len(r) = Len(s) - k
        BY <1>1, <1>4, <2>2
    <2>4. \A i \in 1..Len(r) : (k + 1) + i - 1 = k + i
        BY <1>1, <1>4, <2>3
    <2>5. QED
        BY <1>1, <1>4, <2>2, <2>3, <2>4
<1> HIDE DEF r
<1>12. PICK f \in [0..Len(s) -> Int] : Sums(f, s, base) /\ f[Len(s)] = Number(s, base)
    BY <1>1, SumsOf
<1>13. f[k] = 0
    <2> DEFINE S == {i \in 0..k : f[i] = 0}
    <2>1. 0 \in S
        BY <1>4, <1>12 DEF Sums
    <2>2. ASSUME NEW i \in 1..k, i - 1 \in S
          PROVE  i \in S
        <3>1. f[i] = f[i - 1] * base + s[i] /\ s[i] = 0 /\ f[i - 1] = 0
            BY <1>1, <1>4, <1>8, <1>12, <2>2 DEF Sums
        <3>2. 0 * base + 0 = 0
            OBVIOUS
        <3>3. QED
            BY <3>1, <3>2
    <2>3. 0..k \subseteq S
        <3> HIDE DEF S
        <3>1. QED
            BY <1>4, <2>1, <2>2, UpwardInduction
    <2>4. QED
        BY <1>4, <2>3
<1> DEFINE g == [i \in 0..Len(r) |-> f[k + i]]
<1>14. Sums(g, r, base)
    <2>1. g[0] = 0
        BY <1>1, <1>4, <1>11, <1>13
    <2>2. ASSUME NEW i \in 1..Len(r)
          PROVE  g[i] = g[i - 1] * base + r[i]
        <3>1. k + i \in 1..Len(s) /\ k + (i - 1) = (k + i) - 1 /\ i - 1 \in 0..Len(r) /\ i \in 0..Len(r)
            BY <1>1, <1>4, <1>11
        <3>2. f[k + i] = f[(k + i) - 1] * base + s[k + i]
            BY <1>12, <3>1 DEF Sums
        <3>3. QED
            BY <1>11, <3>1, <3>2
    <2>3. QED
        BY <2>1, <2>2 DEF Sums
<1>15. Number(r, base) = f[Len(s)]
    <2>1. Number(r, base) = g[Len(r)]
        <3> HIDE DEF g
        <3>1. QED
            BY <1>11, <1>14, NumberIs
    <2>2. g[Len(r)] = f[Len(s)]
        BY <1>1, <1>4, <1>11
    <2>3. QED
        BY <2>1, <2>2
<1>16. r # <<>> => r[1] # 0
    <2> SUFFICES ASSUME r # <<>> PROVE r[1] # 0
        OBVIOUS
    <2>1. Len(r) # 0
        BY <1>11
    <2>2. 1 \in 1..Len(r) /\ k # Len(s)
        BY <1>1, <1>4, <1>11, <2>1
    <2>3. QED
        BY <1>10, <1>11, <2>2
<1>17. QED
    BY <1>7, <1>12, <1>15, <1>16

-----------------------------------------------------------------------------
(* The two's complement.                                                   *)

Flipped(d, i) == Byte - 1 - d[i]
FullFrom(d, i) == \A j \in i..Width : d[j] = 0
Carry(d) ==
    CHOOSE carry : carry = [i \in 1..Width |->
                        i = Width \/ (carry[i + 1] /\ Flipped(d, i + 1) = Byte - 1)]

\* There is a carry where every later byte is zero.
LEMMA CarryIs ==
    ASSUME NEW d \in Digests
    PROVE  \A i \in 1..Width : Carry(d)[i] <=> FullFrom(d, i + 1)
<1> DEFINE Fits(c) == c = [i \in 1..Width |->
                            i = Width \/ (c[i + 1] /\ Flipped(d, i + 1) = Byte - 1)]
           full == [i \in 1..Width |-> FullFrom(d, i + 1)]
<1>1. \A i \in 1..Width : d[i] \in Nat /\ (Flipped(d, i) = Byte - 1 <=> d[i] = 0)
    BY Sizes DEF Digests, Flipped
<1>2. FullFrom(d, Width + 1)
    BY Sizes DEF FullFrom
<1>3. ASSUME NEW i \in 1..Width, i # Width
      PROVE  i + 1 \in 1..Width /\ (FullFrom(d, i + 1) <=> FullFrom(d, i + 2) /\ d[i + 1] = 0)
    <2>1. i + 1 \in 1..Width
        BY <1>3, Sizes
    <2>2. \A j \in i + 1..Width : j = i + 1 \/ j \in i + 2..Width
        BY <2>1
    <2>3. \A j \in i + 2..Width : j \in i + 1..Width
        BY <2>1
    <2>4. i + 1 \in i + 1..Width
        BY <2>1
    <2>5. QED
        BY <2>1, <2>2, <2>3, <2>4 DEF FullFrom
<1>4. Fits(full)
    <2>1. ASSUME NEW i \in 1..Width
          PROVE  FullFrom(d, i + 1)
                    = (i = Width \/ (full[i + 1] /\ Flipped(d, i + 1) = Byte - 1))
        <3>1. CASE i = Width
            BY <1>2, <3>1
        <3>2. CASE i # Width
            <4>1. i + 1 \in 1..Width /\ full[i + 1] = FullFrom(d, i + 2)
                <5>1. (i + 1) + 1 = i + 2
                    OBVIOUS
                <5>2. QED
                    BY <1>3, <3>2, <5>1
            <4>2. FullFrom(d, i + 1) \in BOOLEAN
                BY DEF FullFrom
            <4> HIDE DEF full
            <4>3. QED
                BY <1>1, <1>3, <3>2, <4>1, <4>2
        <3>3. QED
            BY <3>1, <3>2
    <2>2. QED
        BY <2>1
<1>5. Fits(Carry(d))
    <2> HIDE DEF full
    <2>1. QED
        BY <1>4 DEF Carry
<1> DEFINE c == Carry(d)
           S == {i \in 0..Width : i # 0 => (c[i] <=> FullFrom(d, i + 1))}
<1>6. \A i \in 1..Width : c[i] <=> (i = Width \/ (c[i + 1] /\ Flipped(d, i + 1) = Byte - 1))
    BY <1>5
<1> HIDE DEF c
<1>7. Width \in S
    BY <1>2, <1>6, Sizes
<1>8. ASSUME NEW i \in 1..Width, i \in S
      PROVE  i - 1 \in S
    <2>1. CASE i = 1
        BY <2>1, Sizes
    <2>2. CASE i # 1
        <3> DEFINE k == i - 1
        <3>1. k \in 1..Width /\ k # Width /\ k + 1 = i /\ k + 2 = i + 1 /\ k \in 0..Width
            BY <2>2, Sizes
        <3> HIDE DEF k
        <3>2. c[k] <=> (c[i] /\ Flipped(d, i) = Byte - 1)
            BY <1>6, <3>1
        <3>3. c[k] <=> FullFrom(d, k + 1)
            BY <1>1, <1>3, <1>8, <3>1, <3>2
        <3>4. k \in S
            BY <3>1, <3>3
        <3>5. QED
            BY <3>4 DEF k
    <2>3. QED
        BY <2>1, <2>2
<1>9. 0..Width \subseteq S
    <2> HIDE DEF S
    <2>1. QED
        BY <1>7, <1>8, Sizes, DownwardInduction
<1>10. QED
    BY <1>9, Sizes DEF c

LEMMA TwoComplementIs ==
    ASSUME NEW d
    PROVE  /\ TwoComplement(d).bytes = [i \in 1..Width |->
                    (Flipped(d, i) + (IF Carry(d)[i] THEN 1 ELSE 0)) % Byte]
           /\ TwoComplement(d).overflow
                <=> \E i \in 1..Width : Carry(d)[i] /\ Flipped(d, i) = Byte - 1
BY DEF TwoComplement, Carry, Flipped

\* One for a carry into byte i, which is from the later ones.
Unit(d, i) == IF FullFrom(d, i + 1) THEN 1 ELSE 0

\* A byte and its complement.
LEMMA BytesAddUp ==
    ASSUME NEW d \in Digests, NEW i \in 1..Width
    PROVE  LET t == TwoComplement(d).bytes
           IN  t[i] \in Nat /\ t[i] + d[i] = (Byte - 1) + Unit(d, i) - Byte * Unit(d, i - 1)
<1> DEFINE t == TwoComplement(d).bytes
           x == Flipped(d, i) + Unit(d, i)
<1>1. t[i] = x % Byte
    <2>1. t[i] = (Flipped(d, i) + (IF Carry(d)[i] THEN 1 ELSE 0)) % Byte
        BY TwoComplementIs
    <2>2. (IF Carry(d)[i] THEN 1 ELSE 0) = Unit(d, i)
        BY CarryIs DEF Unit
    <2>3. QED
        BY <2>1, <2>2
<1>2. /\ d[i] \in 0..Byte - 1 /\ Unit(d, i) \in {0, 1}
      /\ Flipped(d, i) = Byte - 1 - d[i] /\ Flipped(d, i) \in 0..Byte - 1
    BY Sizes DEF Digests, Unit, Flipped
<1>3. Unit(d, i - 1) = IF Unit(d, i) = 1 /\ d[i] = 0 THEN 1 ELSE 0
    <2>1. (i - 1) + 1 = i /\ Width \in Nat
        BY Sizes
    <2>2. FullFrom(d, i) <=> FullFrom(d, i + 1) /\ d[i] = 0
        <3>1. \A j \in i..Width : j = i \/ j \in i + 1..Width
            BY <2>1
        <3>2. \A j \in i + 1..Width : j \in i..Width
            BY <2>1
        <3>3. i \in i..Width
            BY <2>1
        <3>4. QED
            BY <3>1, <3>2, <3>3 DEF FullFrom
    <2>3. QED
        BY <2>1, <2>2 DEF Unit
<1> HIDE DEF t
<1>4. CASE Unit(d, i) = 1 /\ d[i] = 0
    <2>1. x = Byte
        BY <1>2, <1>4, Sizes
    <2>2. Byte % Byte = 0
        BY Sizes
    <2>3. t[i] = 0
        BY <1>1, <2>1, <2>2
    <2>4. QED
        BY <1>2, <1>3, <1>4, <2>3, Sizes DEF t
<1>5. CASE ~(Unit(d, i) = 1 /\ d[i] = 0)
    <2>1. x \in 0..Byte - 1
        BY <1>2, <1>5, Sizes
    <2>2. x % Byte = x
        <3>1. \A n \in 0..Byte - 1 : n % Byte = n
            BY Sizes
        <3>2. QED
            BY <2>1, <3>1
    <2>3. QED
        BY <1>1, <1>2, <1>3, <1>5, <2>1, <2>2, Sizes DEF t
<1>6. QED
    BY <1>4, <1>5

\* The numbers of the prefixes of a sequence of bytes.
LEMMA BytesSum ==
    ASSUME NEW s \in [1..Width -> Int]
    PROVE  \E f :
              /\ f[0] = 0 /\ f[Width] = Number(s, Byte)
              /\ \A i \in 0..Width : f[i] \in Int
              /\ \A i \in 1..Width : f[i] = f[i - 1] * Byte + s[i]
<1>1. s \in Seq(Int) /\ Len(s) = Width /\ Byte \in Int
    BY Sizes, IsSequence
<1>2. PICK f \in [0..Len(s) -> Int] : Sums(f, s, Byte) /\ f[Len(s)] = Number(s, Byte)
    BY <1>1, SumsOf
<1>3. \A i \in 0..Width : f[i] \in Int
    BY <1>1, <1>2
<1>4. \A i \in 1..Width : f[i] = f[i - 1] * Byte + s[i]
    BY <1>1, <1>2 DEF Sums
<1>5. QED
    BY <1>1, <1>2, <1>3, <1>4 DEF Sums

LEMMA BytesInt ==
    ASSUME NEW s \in [1..Width -> Int]
    PROVE  Number(s, Byte) \in Int
<1>1. Width \in 0..Width
    BY Sizes
<1>2. QED
    BY <1>1, BytesSum

LEMMA Signs ==
    ASSUME NEW d \in Digests
    PROVE  /\ d \in [1..Width -> Nat] /\ d[1] \in 0..Byte - 1 /\ 1 \in 1..Width
           /\ Negative(d) => d[1] # 0
           /\ Negative(d) \in BOOLEAN
<1>1. Byte \div 2 \in Nat \ {0}
    <2>1. Half >= 2
        <3>1. Half \in Nat \ {0} /\ Half % 2 = 0
            BY HashAssumption
        <3>2. QED
            BY <3>1
    <2>2. \A h \in Nat : h >= 2 => h * h >= 2
        OBVIOUS
    <2>3. Byte >= 2
        BY <2>1, <2>2, Sizes
    <2>4. QED
        BY <2>3, Sizes
<1>2. QED
    BY <1>1, Sizes DEF Digests, Negative

Signed(d) == [d EXCEPT ![1] = @ - Byte]

LEMMA ComplementNegates ==
    ASSUME NEW d \in Digests, Negative(d)
    PROVE  LET t == TwoComplement(d).bytes
           IN  t \in [1..Width -> Nat] /\ Number(t, Byte) = -Number(Signed(d), Byte)
<1> DEFINE t == TwoComplement(d).bytes
           s == Signed(d)
<1>1. t \in [1..Width -> Nat]
    <2>1. DOMAIN t = 1..Width /\ t = [i \in 1..Width |-> t[i]]
        BY TwoComplementIs
    <2>2. \A i \in 1..Width : t[i] \in Nat
        BY BytesAddUp
    <2> HIDE DEF t
    <2>3. QED
        BY <2>1, <2>2
<1>2. /\ s \in [1..Width -> Int] /\ s[1] = d[1] - Byte
      /\ \A i \in 1..Width : d[i] \in Nat /\ (i # 1 => s[i] = d[i])
    BY Signs, Sizes DEF Signed
<1>3. \A i \in 1..Width : /\ t[i] \in Int
                          /\ t[i] + d[i] = (Byte - 1) + Unit(d, i) - Byte * Unit(d, i - 1)
    BY <1>1, BytesAddUp
<1> HIDE DEF t, s
<1>4. t \in [1..Width -> Int]
    BY <1>1
<1>5. PICK f : /\ f[0] = 0 /\ f[Width] = Number(t, Byte)
               /\ \A i \in 0..Width : f[i] \in Int
               /\ \A i \in 1..Width : f[i] = f[i - 1] * Byte + t[i]
    BY <1>4, BytesSum
<1>6. PICK g : /\ g[0] = 0 /\ g[Width] = Number(s, Byte)
               /\ \A i \in 0..Width : g[i] \in Int
               /\ \A i \in 1..Width : g[i] = g[i - 1] * Byte + s[i]
    BY <1>2, BytesSum
<1>7. \A i \in 0..Width : Unit(d, i) \in {0, 1}
    BY DEF Unit
<1>8. Unit(d, 0) = 0
    <2>1. 0 + 1 = 1 /\ 1 \in 1..Width /\ d[1] # 0
        BY Signs
    <2>2. QED
        BY <2>1 DEF Unit, FullFrom
<1>9. Unit(d, Width) = 1
    BY Sizes DEF Unit, FullFrom
<1> DEFINE S == {i \in 0..Width : i # 0 => f[i] + g[i] = Unit(d, i) - 1}
<1>10. ASSUME NEW i \in 1..Width, i - 1 \in S
       PROVE  i \in S
    <2> i \in 0..Width /\ i - 1 \in 0..Width
        BY Sizes
    <2>1. /\ f[i] = f[i - 1] * Byte + t[i] /\ g[i] = g[i - 1] * Byte + s[i]
          /\ f[i - 1] \in Int /\ g[i - 1] \in Int
        BY <1>5, <1>6
    <2>2. t[i] \in Int /\ d[i] \in Int /\ s[i] \in Int /\ Unit(d, i) \in Int /\ Unit(d, i - 1) \in Int
        BY <1>2, <1>3, <1>7, <2>1
    <2>3. f[i] + g[i] = (f[i - 1] + g[i - 1]) * Byte + (t[i] + s[i])
        <3> DEFINE x == f[i - 1]
                   y == g[i - 1]
                   a == t[i]
                   b == s[i]
        <3>1. f[i] = x * Byte + a /\ g[i] = y * Byte + b
            BY <2>1
        <3>2. x \in Int /\ y \in Int /\ a \in Int /\ b \in Int
            BY <2>1, <2>2
        <3> HIDE DEF x, y, a, b
        <3>3. (x * Byte + a) + (y * Byte + b) = (x + y) * Byte + (a + b)
            BY <3>2, Sizes
        <3>4. f[i] + g[i] = (x + y) * Byte + (a + b)
            BY <3>1, <3>3
        <3>5. QED
            BY <3>4 DEF x, y, a, b
    <2>4. CASE i = 1
        <3>1. f[0] = 0 /\ g[0] = 0 /\ i - 1 = 0
            BY <1>5, <1>6, <2>4
        <3>2. t[1] + d[1] = (Byte - 1) + Unit(d, 1) - Byte * 0
            BY <1>3, <1>8, <2>4, <3>1
        <3>3. f[1] + g[1] = (0 + 0) * Byte + (t[1] + s[1])
            BY <2>3, <2>4, <3>1
        <3>4. \A a, b, u \in Int :
                a + b = (Byte - 1) + u - Byte * 0 => (0 + 0) * Byte + (a + (b - Byte)) = u - 1
            BY Sizes
        <3>5. f[1] + g[1] = Unit(d, 1) - 1
            BY <1>2, <2>2, <2>4, <3>2, <3>3, <3>4
        <3>6. QED
            BY <2>4, <3>5
    <2>5. CASE i # 1
        <3>1. f[i - 1] + g[i - 1] = Unit(d, i - 1) - 1 /\ s[i] = d[i]
            BY <1>2, <1>10, <2>1, <2>5
        <3>2. f[i] + g[i] = (Unit(d, i - 1) - 1) * Byte
                                + ((Byte - 1) + Unit(d, i) - Byte * Unit(d, i - 1))
            BY <1>3, <2>3, <3>1
        <3>3. \A u, v \in Int : (u - 1) * Byte + ((Byte - 1) + v - Byte * u) = v - 1
            BY Sizes
        <3>4. f[i] + g[i] = Unit(d, i) - 1
            BY <2>2, <3>2, <3>3
        <3>5. QED
            BY <3>4
    <2>6. QED
        BY <2>4, <2>5
<1>11. 0 \in S
    BY Sizes
<1>12. 0..Width \subseteq S
    <2> HIDE DEF S
    <2>1. QED
        BY <1>10, <1>11, Sizes, UpwardInduction
<1>13. f[Width] + g[Width] = 0
    BY <1>9, <1>12, Sizes
<1>14. f[Width] = -g[Width]
    BY <1>5, <1>6, <1>13, Sizes
<1>15. QED
    BY <1>1, <1>5, <1>6, <1>14 DEF t, s

-----------------------------------------------------------------------------
(* What calc_hash writes.                                                  *)

\* The two's complement, its carry and the removal of zeros keep the number.
LEMMA HashKeeps ==
    ASSUME NEW d \in Digests
    PROVE  LET t == CalcHash(d)
           IN  /\ t.minus = Negative(d)
               /\ Number(t.digits, Half) = SignedNumber(d) * (IF Negative(d) THEN -1 ELSE 1)
               /\ t.digits # <<>> => t.digits[1] # 0
<1> DEFINE b == IF Negative(d) THEN TwoComplement(d).bytes ELSE d
<1>1. b \in [1..Width -> Nat]
    BY Signs, ComplementNegates
<1>2. CalcHash(d) = [minus |-> Negative(d), digits |-> RemoveZeros(Encode(b))]
    BY DEF CalcHash
<1>3. Number(b, Byte) = SignedNumber(d) * (IF Negative(d) THEN -1 ELSE 1)
    <2>1. CASE Negative(d)
        <3>1. Number(b, Byte) = -SignedNumber(d)
            BY <2>1, ComplementNegates DEF SignedNumber, Signed
        <3>2. SignedNumber(d) \in Int
            <4>1. Signed(d) \in [1..Width -> Int]
                BY Signs, Sizes DEF Signed
            <4>2. QED
                BY <2>1, <4>1, BytesInt DEF SignedNumber, Signed
        <3>3. \A n \in Int : -n = n * (-1)
            OBVIOUS
        <3>4. QED
            BY <2>1, <3>1, <3>2, <3>3
    <2>2. CASE ~Negative(d)
        <3>1. Number(b, Byte) = SignedNumber(d)
            BY <2>2 DEF SignedNumber
        <3>2. SignedNumber(d) \in Int
            <4>1. d \in [1..Width -> Int]
                BY Signs
            <4>2. QED
                BY <2>2, <4>1, BytesInt DEF SignedNumber
        <3>3. \A n \in Int : n = n * 1
            OBVIOUS
        <3>4. QED
            BY <2>2, <3>1, <3>2, <3>3
    <2>3. QED
        BY <2>1, <2>2
<1> HIDE DEF b
<1>4. /\ Encode(b) \in Seq(Nat)
      /\ Number(Encode(b), Half) = Number(b, Byte)
    BY <1>1, EncodeKeeps
<1>5. /\ Number(RemoveZeros(Encode(b)), Half) = Number(Encode(b), Half)
      /\ RemoveZeros(Encode(b)) # <<>> => RemoveZeros(Encode(b))[1] # 0
    BY <1>4, Sizes, RemoveZerosKeeps
<1>6. CalcHash(d).minus = Negative(d) /\ CalcHash(d).digits = RemoveZeros(Encode(b))
    BY <1>2
<1>7. QED
    BY <1>3, <1>4, <1>5, <1>6

\* Of two numbers that are the same, every digit after the first is the same,
\* and then the first too.
LEMMA DigitsAreUnique ==
    ASSUME NEW c \in [1..Width -> Int], NEW d \in [1..Width -> Int],
           \A i \in 2..Width : c[i] \in 0..Byte - 1 /\ d[i] \in 0..Byte - 1,
           Number(c, Byte) = Number(d, Byte)
    PROVE  c = d
<1>1. PICK f : /\ f[0] = 0 /\ f[Width] = Number(c, Byte)
               /\ \A i \in 0..Width : f[i] \in Int
               /\ \A i \in 1..Width : f[i] = f[i - 1] * Byte + c[i]
    BY BytesSum
<1>2. PICK g : /\ g[0] = 0 /\ g[Width] = Number(d, Byte)
               /\ \A i \in 0..Width : g[i] \in Int
               /\ \A i \in 1..Width : g[i] = g[i - 1] * Byte + d[i]
    BY BytesSum
<1>3. ASSUME NEW x \in Int, NEW y \in Int, NEW a \in 0..Byte - 1, NEW b \in 0..Byte - 1,
             x * Byte + a = y * Byte + b
      PROVE  x = y
    <2>1. \A z \in Int : z >= 1 => z * Byte >= Byte
        BY Sizes
    <2>2. (x - y) * Byte = b - a /\ (y - x) * Byte = a - b
        BY <1>3, Sizes
    <2>3. b - a < Byte /\ a - b < Byte
        BY Sizes
    <2>4. x - y \in Int /\ y - x \in Int
        OBVIOUS
    <2> DEFINE m == x - y
               n == y - x
    <2>5. ~(m >= 1) /\ ~(n >= 1)
        <3>1. m * Byte < Byte /\ n * Byte < Byte /\ m \in Int /\ n \in Int
            BY <2>2, <2>3, <2>4
        <3> HIDE DEF m, n
        <3>2. QED
            BY <2>1, <3>1, Sizes
    <2>6. QED
        BY <2>5
<1> DEFINE S == {i \in 0..Width : f[i] = g[i]}
<1>5. Width \in S
    <2>1. f[Width] = g[Width]
        BY <1>1, <1>2
    <2>2. QED
        BY <2>1, Sizes
<1>6. ASSUME NEW i \in 1..Width
      PROVE  /\ f[i] = f[i - 1] * Byte + c[i] /\ g[i] = g[i - 1] * Byte + d[i]
             /\ f[i - 1] \in Int /\ g[i - 1] \in Int /\ c[i] \in Int /\ d[i] \in Int
    <2>1. i - 1 \in 0..Width
        BY Sizes
    <2>2. QED
        BY <1>1, <1>2, <2>1
<1>7. ASSUME NEW i \in 1..Width, i \in S
      PROVE  i - 1 \in S
    <2>1. CASE i = 1
        <3>1. f[0] = g[0] /\ 0 \in 0..Width
            BY <1>1, <1>2, Sizes
        <3>2. QED
            BY <2>1, <3>1
    <2>2. CASE i # 1
        <3>1. i \in 2..Width /\ i - 1 \in 0..Width
            BY <2>2, Sizes
        <3>2. f[i - 1] * Byte + c[i] = g[i - 1] * Byte + d[i]
            BY <1>6, <1>7
        <3>3. f[i - 1] = g[i - 1]
            BY <1>3, <1>6, <3>1, <3>2
        <3>4. QED
            BY <3>1, <3>3
    <2>3. QED
        BY <2>1, <2>2
<1>8. 0..Width \subseteq S
    <2> HIDE DEF S
    <2>1. QED
        BY <1>5, <1>7, Sizes, DownwardInduction
<1>9. ASSUME NEW i \in 1..Width
      PROVE  c[i] = d[i]
    <2>1. f[i] = g[i] /\ f[i - 1] = g[i - 1]
        BY <1>8, Sizes
    <2>2. f[i - 1] * Byte \in Int
        <3> HIDE DEF S
        <3>1. f[i - 1] \in Int
            BY <1>6
        <3>2. \A x, y \in Int : x * y \in Int
            OBVIOUS
        <3>3. Byte \in Int
            BY Sizes
        <3>4. QED
            BY <3>1, <3>2, <3>3
    <2>3. f[i - 1] * Byte + c[i] = f[i - 1] * Byte + d[i]
        BY <1>6, <2>1
    <2>4. \A x, a, b \in Int : x + a = x + b => a = b
        OBVIOUS
    <2>5. QED
        BY <1>6, <2>2, <2>3, <2>4
<1>10. QED
    <2>1. c = [i \in 1..Width |-> c[i]] /\ d = [i \in 1..Width |-> d[i]]
        OBVIOUS
    <2>2. QED
        BY <1>9, <2>1

\* No two digests read the same: an account that answers one login with a
\* text has answered no other with it (hash.rs:6).
THEOREM TextsDiffer ==
    ASSUME NEW c \in Digests, NEW d \in Digests, CalcHash(c) = CalcHash(d)
    PROVE  c = d
<1> DEFINE sc == IF Negative(c) THEN Signed(c) ELSE c
           sd == IF Negative(d) THEN Signed(d) ELSE d
<1>1. Negative(c) = Negative(d) /\ CalcHash(c).digits = CalcHash(d).digits
    BY DEF CalcHash
<1>2. SignedNumber(c) = Number(sc, Byte) /\ SignedNumber(d) = Number(sd, Byte)
    BY DEF SignedNumber, Signed
<1>3. /\ sc \in [1..Width -> Int] /\ sd \in [1..Width -> Int]
      /\ \A i \in 2..Width : sc[i] = c[i] /\ sd[i] = d[i]
      /\ Negative(c) => sc[1] = c[1] - Byte /\ sd[1] = d[1] - Byte
      /\ ~Negative(c) => sc[1] = c[1] /\ sd[1] = d[1]
    BY <1>1, Signs, Sizes DEF Signed
<1>4. \A i \in 1..Width : c[i] \in 0..Byte - 1 /\ d[i] \in 0..Byte - 1
    BY DEF Digests
<1>5. CalcHash(c).minus = Negative(c) /\ CalcHash(d).minus = Negative(d)
    BY DEF CalcHash
<1>6. LET sign == IF Negative(c) THEN -1 ELSE 1
      IN  SignedNumber(c) * sign = SignedNumber(d) * sign
    BY <1>1, <1>5, HashKeeps
<1> HIDE DEF sc, sd
<1>7. SignedNumber(c) \in Int /\ SignedNumber(d) \in Int
    <2>1. Number(sc, Byte) \in Int /\ Number(sd, Byte) \in Int
        BY <1>3, BytesInt
    <2>2. QED
        BY <1>2, <2>1
<1>8. SignedNumber(c) = SignedNumber(d)
    <2>1. \A m, n \in Int : (m * 1 = n * 1 => m = n) /\ (m * (-1) = n * (-1) => m = n)
        OBVIOUS
    <2>2. QED
        BY <1>6, <1>7, <2>1
<1>9. sc = sd
    <2>1. \A i \in 2..Width : i \in 1..Width
        BY Sizes
    <2>2. QED
        BY <1>2, <1>3, <1>4, <1>8, <2>1, DigitsAreUnique
<1>10. ASSUME NEW i \in 1..Width
       PROVE  c[i] = d[i]
    <2>1. CASE i = 1
        BY <1>3, <1>4, <1>9, <2>1, Sizes
    <2>2. CASE i # 1
        BY <1>3, <1>9, <2>2, Sizes
    <2>3. QED
        BY <2>1, <2>2
<1>11. QED
    <2>1. c = [i \in 1..Width |-> c[i]] /\ d = [i \in 1..Width |-> d[i]]
        BY DEF Digests
    <2>2. QED
        BY <1>10, <2>1

\* Nothing is left of zero, and of zero only.
LEMMA EmptyIsZero ==
    ASSUME NEW d \in Digests, CalcHash(d).digits = <<>>
    PROVE  d = ZeroDigest
<1> DEFINE sd == IF Negative(d) THEN Signed(d) ELSE d
           f == [i \in 0..Width |-> 0]
<1>1. Number(<<>>, Half) = 0
    <2>1. <<>> \in Seq(Int) /\ Len(<<>>) = 0 /\ Half \in Int
        BY Sizes
    <2>2. QED
        BY <2>1, SumsOf DEF Sums
<1>2. /\ sd \in [1..Width -> Int]
      /\ \A i \in 2..Width : sd[i] = d[i]
      /\ Negative(d) => sd[1] = d[1] - Byte
    BY Signs, Sizes DEF Signed
<1>3. SignedNumber(d) = Number(sd, Byte)
    BY DEF SignedNumber, Signed
<1> HIDE DEF sd
<1>4. Number(sd, Byte) = 0
    <2>1. Number(sd, Byte) \in Int
        BY <1>2, BytesInt
    <2>2. 0 = Number(sd, Byte) * (IF Negative(d) THEN -1 ELSE 1)
        BY <1>1, <1>3, HashKeeps
    <2>3. \A n \in Int : (0 = n * 1 => n = 0) /\ (0 = n * (-1) => n = 0)
        OBVIOUS
    <2>4. QED
        BY <2>1, <2>2, <2>3
<1>5. ZeroDigest \in [1..Width -> Int] /\ ZeroDigest \in Seq(Int) /\ Len(ZeroDigest) = Width
    BY Sizes, IsSequence DEF ZeroDigest
<1>6. Number(ZeroDigest, Byte) = 0
    <2>1. Sums(f, ZeroDigest, Byte)
        <3>1. \A i \in 1..Width : f[i] = 0 /\ f[i - 1] = 0 /\ ZeroDigest[i] = 0
            BY Sizes DEF ZeroDigest
        <3>2. 0 * Byte + 0 = 0 /\ f[0] = 0
            BY Sizes
        <3>3. QED
            BY <1>5, <3>1, <3>2 DEF Sums
    <2>2. f[Width] = 0
        BY Sizes
    <2> HIDE DEF f
    <2>3. QED
        BY <1>5, <2>1, <2>2, Sizes, NumberIs
<1>7. sd = ZeroDigest
    <2>1. \A i \in 2..Width : sd[i] \in 0..Byte - 1 /\ ZeroDigest[i] \in 0..Byte - 1
        <3>1. \A i \in 2..Width : i \in 1..Width
            BY Sizes
        <3>2. QED
            BY <1>2, <3>1, Sizes DEF ZeroDigest, Digests
    <2>2. QED
        BY <1>2, <1>4, <1>5, <1>6, <2>1, DigitsAreUnique
<1>8. ~Negative(d)
    <2>1. sd[1] = 0 /\ d[1] \in 0..Byte - 1
        BY <1>7, Signs DEF ZeroDigest
    <2>2. QED
        BY <1>2, <2>1, Sizes
<1>9. QED
    BY <1>7, <1>8 DEF sd

\* calc_hash writes the signed number of a digest in hexadecimal, without
\* leading zeros, as BigInteger.toString(16) of the Java client does, for every
\* digest but zero: the two's complement, its carry and the removal of zeros
\* never go wrong (hash.rs:23, hash.rs:31).
THEOREM HashIsHex == \A d \in Digests \ {ZeroDigest} : IsSignedHex(CalcHash(d), d)
BY HashKeeps, EmptyIsZero DEF IsSignedHex

\* The digests whose hash ends in a panic, in a build that checks for overflow,
\* are the negative ones with a last byte of zero (hash.rs:37).
THEOREM PanicsAtZero ==
    \A d \in Digests : HashPanics(d) <=> OverflowChecks /\ Negative(d) /\ d[Width] = 0
<1> SUFFICES ASSUME NEW d \in Digests
             PROVE  TwoComplement(d).overflow <=> d[Width] = 0
    BY DEF HashPanics
<1>1. \A i \in 1..Width : Flipped(d, i) = Byte - 1 <=> d[i] = 0
    BY Sizes DEF Digests, Flipped
<1>2. TwoComplement(d).overflow <=> \E i \in 1..Width : FullFrom(d, i + 1) /\ d[i] = 0
    BY <1>1, CarryIs, TwoComplementIs
<1>3. Width \in 1..Width /\ FullFrom(d, Width + 1)
    BY Sizes DEF FullFrom
<1>4. ASSUME NEW i \in 1..Width, FullFrom(d, i + 1), d[i] = 0
      PROVE  d[Width] = 0
    <2>1. i = Width \/ Width \in i + 1..Width
        BY Sizes
    <2>2. QED
        BY <1>4, <2>1 DEF FullFrom
<1>5. QED
    BY <1>2, <1>3, <1>4

=============================================================================
