------------------------ MODULE CanonicalHashProofs ------------------------
(***************************************************************************)
(* Theorems about CanonicalHash, for strings, lists of tags and integers   *)
(* of any size, and bytes of any number of values.                         *)
(***************************************************************************)
EXTENDS CanonicalHash, SequenceTheorems, WellFoundedInduction, TLAPS

-----------------------------------------------------------------------------
(* Induction and recursion up to a number *)

\* The least-number principle, for sets of naturals.
LEMMA LeastNumber ==
    ASSUME NEW S \in SUBSET Nat, S # {}
    PROVE  \E m \in S : \A k \in S : m <= k
  <1> DEFINE Less == {p \in Nat \X Nat : p[1] < p[2]}
  <1>1. Less = OpToRel(<, Nat)
    BY DEF OpToRel
  <1>2. IsWellFoundedOn(Less, Nat)
    BY <1>1, NatLessThanWellFounded
  <1>3. PICK m \in S : \A k \in S : <<k, m>> \notin Less
    BY <1>2, WFMin
  <1>4. ASSUME NEW k \in S
        PROVE  m <= k
    <2>1. m \in Nat /\ k \in Nat /\ ~(k < m)
      BY <1>3
    <2>2. QED
      BY <2>1
  <1>5. QED
    BY <1>4

\* A set that contains 0, and below n the successors of its members, contains
\* what is up to n.  P stands for the numbers with some property.
LEMMA UpTo ==
    ASSUME NEW n \in Nat, NEW P, 0 \in P,
           \A i \in 0..n : i # n /\ i \in P => i + 1 \in P
    PROVE  \A i \in 0..n : i \in P
  <1> DEFINE Bad == {i \in 0..n : i \notin P}
  <1> SUFFICES ASSUME Bad # {} PROVE FALSE
    OBVIOUS
  <1>1. PICK m \in Bad : \A k \in Bad : m <= k
    <2>1. Bad \in SUBSET Nat
      OBVIOUS
    <2>2. QED
      BY <2>1, LeastNumber
  <1>2. m \in 0..n /\ m # 0
    OBVIOUS
  <1>3. PICK l \in Nat : l + 1 = m
    <2>1. m - 1 \in Nat /\ (m - 1) + 1 = m
      BY <1>2
    <2>2. QED
      BY <2>1
  <1>4. l \in 0..n /\ l # n /\ l \notin Bad
    BY <1>1, <1>2, <1>3
  <1>5. QED
    BY <1>3, <1>4

\* f takes the first n of some steps from b.
Iterated(n, S, b, step, f) ==
    /\ f \in [0..n -> S]
    /\ f[0] = b
    /\ \A i \in 0..n : i # n => f[i + 1] = step[i][f[i]]

\* A step for each number below n can be iterated from a start b.
LEMMA Iteration ==
    ASSUME NEW n \in Nat, NEW S, NEW b \in S, NEW step \in [0..n -> [S -> S]]
    PROVE  \E f : Iterated(n, S, b, step, f)
  <1> USE DEF Iterated
  <1> DEFINE Upto(k, f) == Iterated(k, S, b, step, f)
             P == {k \in 0..n : \E f : Upto(k, f)}
  <1>1. 0 \in P
    <2>1. Upto(0, [i \in 0..0 |-> b])
      OBVIOUS
    <2> HIDE DEF Upto
    <2>2. QED
      BY <2>1
  <1>2. ASSUME NEW k \in 0..n, k # n, k \in P
        PROVE  k + 1 \in P
    <2>1. PICK f : Upto(k, f)
      BY <1>2
    <2> DEFINE g == [i \in 0..(k + 1) |-> IF i = k + 1 THEN step[k][f[k]] ELSE f[i]]
    <2>2. f[k] \in S /\ step[k][f[k]] \in S
      BY <2>1
    <2>3. g \in [0..(k + 1) -> S] /\ g[0] = b
      BY <2>1, <2>2
    <2>4. ASSUME NEW i \in 0..(k + 1), i # k + 1
          PROVE  g[i + 1] = step[i][g[i]]
      <3>1. i \in 0..k /\ g[i] = f[i]
        BY <2>4
      <3>2. CASE i = k
        BY <3>1, <3>2
      <3>3. CASE i # k
        <4>1. i + 1 \in 0..(k + 1) /\ i + 1 # k + 1
          BY <3>1, <3>3
        <4>2. g[i + 1] = f[i + 1]
          BY <4>1
        <4>3. QED
          BY <2>1, <3>1, <3>3, <4>2
      <3>4. QED
        BY <3>2, <3>3
    <2>5. Upto(k + 1, g)
      BY <2>3, <2>4
    <2>6. k + 1 \in 0..n
      BY <1>2
    <2> HIDE DEF Upto, g
    <2>7. QED
      BY <2>5, <2>6
  <1>3. n \in P
    <2> HIDE DEF P
    <2>1. \A k \in 0..n : k # n /\ k \in P => k + 1 \in P
      BY <1>2
    <2>2. \A k \in 0..n : k \in P
      BY <1>1, <2>1, UpTo, Zenon
    <2>3. QED
      BY <2>2
  <1>4. QED
    BY <1>3

-----------------------------------------------------------------------------
(* Integers *)

\* Power is what its recursion says: the lists of the first powers agree where
\* they both have one.
LEMMA Powers ==
    /\ Power \in [Nat -> Nat \ {0}]
    /\ Power[0] = 1
    /\ \A n \in Nat : Power[n + 1] = Base * Power[n]
  <1> DEFINE Pos == Nat \ {0}
             First(n, f) == /\ f \in [0..n -> Pos]
                            /\ f[0] = 1
                            /\ \A i \in 0..n : i # n => f[i + 1] = Base * f[i]
             Def(f) == f = [n \in Nat |-> IF n = 0 THEN 1 ELSE Base * f[n - 1]]
             D == [n \in Nat |-> (CHOOSE f : First(n, f))[n]]
  <1>1. Base \in Nat \ {0} /\ 1 \in Pos
    BY HashAssumption
  <1>2. \A x \in Pos : Base * x \in Pos
    BY <1>1
  <1>3. ASSUME NEW n \in Nat
        PROVE  \E f : First(n, f)
    <2> DEFINE step == [i \in 0..n |-> [x \in Pos |-> Base * x]]
    <2>1. step \in [0..n -> [Pos -> Pos]]
      BY <1>2
    <2>2. PICK f : Iterated(n, Pos, 1, step, f)
      <3>1. 1 \in Pos
        BY <1>1
      <3> HIDE DEF step, Pos
      <3>2. QED
        BY <3>1, <2>1, Iteration
    <2>3. \A i \in 0..n : step[i][f[i]] = Base * f[i]
      BY <2>2 DEF Iterated
    <2>4. First(n, f)
      BY <2>2, <2>3 DEF Iterated
    <2>5. QED
      BY <2>4
  <1>4. \A n \in Nat : First(n, CHOOSE f : First(n, f))
    BY <1>3
  <1>5. ASSUME NEW n \in Nat, NEW f, NEW g, First(n, f), First(n + 1, g)
        PROVE  f[n] = g[n]
    <2> DEFINE P == {i \in 0..n : f[i] = g[i]}
    <2>1. 0 \in P
      BY <1>5
    <2>2. ASSUME NEW i \in 0..n, i # n, i \in P
          PROVE  i + 1 \in P
      <3>1. i + 1 \in 0..n /\ i \in 0..(n + 1) /\ i # n + 1
        BY <2>2
      <3>2. f[i + 1] = Base * f[i] /\ g[i + 1] = Base * g[i]
        BY <1>5, <2>2, <3>1
      <3>3. QED
        BY <2>2, <3>1, <3>2
    <2>3. n \in P
      <3> HIDE DEF P
      <3>1. \A i \in 0..n : i # n /\ i \in P => i + 1 \in P
        BY <2>2
      <3>2. \A i \in 0..n : i \in P
        BY <2>1, <3>1, UpTo, Zenon
      <3>3. QED
        BY <3>2
    <2>4. QED
      BY <2>3
  <1>6. /\ D \in [Nat -> Pos]
        /\ D[0] = 1
        /\ \A n \in Nat : D[n + 1] = Base * D[n]
    <2> DEFINE U(n) == CHOOSE f : First(n, f)
    <2>1. ASSUME NEW n \in Nat
          PROVE  U(n)[n] \in Pos /\ U(n)[0] = 1
      <3>1. First(n, U(n))
        <4> HIDE DEF First
        <4>1. QED
          BY <1>4
      <3> HIDE DEF U, Pos
      <3>2. QED
        BY <3>1
    <2>2. ASSUME NEW n \in Nat
          PROVE  U(n + 1)[n + 1] = Base * U(n)[n]
      <3>1. First(n, U(n)) /\ First(n + 1, U(n + 1))
        <4>1. n + 1 \in Nat
          OBVIOUS
        <4> HIDE DEF First
        <4>2. QED
          BY <1>4, <4>1
      <3>2. U(n)[n] = U(n + 1)[n]
        <4> HIDE DEF U, First
        <4>1. QED
          BY <1>5, <3>1
      <3>3. U(n + 1)[n + 1] = Base * U(n + 1)[n]
        <4> HIDE DEF U, Pos
        <4>1. QED
          BY <3>1
      <3>4. QED
        BY <3>2, <3>3
    <2> HIDE DEF U, Pos
    <2>3. D = [n \in Nat |-> U(n)[n]]
      BY DEF U
    <2> HIDE DEF D
    <2>4. QED
      BY <2>1, <2>2, <2>3
  <1>7. Def(D)
    <2> HIDE DEF D
    <2>1. ASSUME NEW n \in Nat, n # 0
          PROVE  D[n] = Base * D[n - 1]
      <3>1. n - 1 \in Nat /\ (n - 1) + 1 = n
        BY <2>1
      <3>2. QED
        BY <1>6, <3>1
    <2>2. QED
      BY <1>6, <2>1
  <1>8. Def(Power)
    <2>1. Power = CHOOSE f : Def(f)
      BY DEF Power
    <2> HIDE DEF Def
    <2>2. QED
      BY <1>7, <2>1
  <1>9. Power[0] = 1
    BY <1>8
  <1>10. ASSUME NEW n \in Nat
         PROVE  Power[n + 1] = Base * Power[n]
    <2>1. n + 1 \in Nat /\ n + 1 # 0 /\ (n + 1) - 1 = n
      OBVIOUS
    <2>2. QED
      BY <1>8, <2>1
  <1>11. ASSUME NEW n \in Nat
         PROVE  Power[n] \in Pos
    <2> DEFINE P == {i \in 0..n : Power[i] \in Pos}
    <2>1. 0 \in P
      BY <1>9
    <2>2. ASSUME NEW i \in 0..n, i # n, i \in P
          PROVE  i + 1 \in P
      <3>1. i + 1 \in 0..n /\ Power[i] \in Pos
        BY <2>2
      <3>2. Power[i + 1] = Base * Power[i]
        BY <1>10
      <3>3. QED
        BY <1>2, <3>1, <3>2
    <2>3. n \in P
      <3> HIDE DEF P
      <3>1. \A i \in 0..n : i # n /\ i \in P => i + 1 \in P
        BY <2>2
      <3>2. \A i \in 0..n : i \in P
        BY <2>1, <3>1, UpTo, Zenon
      <3>3. QED
        BY <3>2
    <2>4. QED
      BY <2>3
  <1>12. Power = [n \in Nat |-> Power[n]]
    <2>1. DOMAIN Power = Nat /\ Power = [n \in Nat |-> IF n = 0 THEN 1 ELSE Base * Power[n - 1]]
      BY <1>8
    <2>2. QED
      BY <2>1
  <1>13. QED
    BY <1>9, <1>10, <1>11, <1>12

\* There is one way to write a number as a multiple of d and a rest below d.
LEMMA DivisionUnique ==
    ASSUME NEW d \in Nat \ {0}, NEW q \in Nat, NEW r \in 0..(d - 1)
    PROVE  (d * q + r) % d = r
  OBVIOUS

\* Division leaves a remainder below the divisor.
LEMMA Division ==
    ASSUME NEW v \in Nat, NEW d \in Nat \ {0}
    PROVE  /\ v \div d \in Nat /\ v % d \in 0..(d - 1)
           /\ v = d * (v \div d) + (v % d)
  <1> DEFINE q == v \div d
             r == v - d * q
  <1>1. v \div d \in Nat /\ v - d * (v \div d) \in Nat /\ v < d * (v \div d) + d
    OBVIOUS
  <1>2. q \in Nat /\ r \in 0..(d - 1) /\ v = d * q + r
    BY <1>1
  <1>3. v % d = r
    <2> HIDE DEF q, r
    <2>1. QED
      BY <1>2, DivisionUnique
  <1> HIDE DEF r
  <1>4. QED
    BY <1>2, <1>3

\* One more digit: what is left of v after a has been divided out, modulo b, is
\* the digit that makes v modulo a into v modulo a * b.
LEMMA OneMoreDigit ==
    ASSUME NEW v \in Nat, NEW a \in Nat \ {0}, NEW b \in Nat \ {0}
    PROVE  (v % a) + ((v \div a) % b) * a = v % (b * a)
  <1> DEFINE q == v \div a
             r == v % a
             q2 == q \div b
             r2 == q % b
  <1>1. q \in Nat /\ r \in 0..(a - 1) /\ v = a * q + r
    BY Division
  <1>2. q2 \in Nat /\ r2 \in 0..(b - 1) /\ q = b * q2 + r2
    <2> HIDE DEF q
    <2>1. QED
      BY <1>1, Division
  <1> HIDE DEF q, r, q2, r2
  <1>3. v = (b * a) * q2 + (r2 * a + r)
    <2>1. v = a * (b * q2 + r2) + r
      BY <1>1, <1>2
    <2>2. QED
      BY <1>1, <1>2, <2>1
  <1>4. b * a \in Nat \ {0} /\ r2 * a + r \in 0..(b * a - 1)
    <2>1. PICK c \in Nat : b = r2 + 1 + c
      <3>1. b - r2 - 1 \in Nat
        BY <1>2
      <3>2. QED
        BY <1>2, <3>1
    <2>2. b * a = r2 * a + a + c * a /\ r2 * a \in Nat /\ c * a \in Nat
      BY <1>2, <2>1
    <2>3. QED
      BY <1>1, <2>2
  <1>5. v % (b * a) = r2 * a + r
    BY <1>2, <1>3, <1>4, DivisionUnique
  <1>6. r + r2 * a = r2 * a + r
    BY <1>1, <1>2
  <1>7. QED
    BY <1>5, <1>6 DEF q, r, r2

\* One more byte of v, where a is the power reached.
LEMMA OneMoreByte ==
    ASSUME NEW v \in Nat, NEW n \in Nat
    PROVE  (v % Power[n]) + ((v \div Power[n]) % Base) * Power[n] = v % Power[n + 1]
  <1>1. Power[n] \in Nat \ {0} /\ Base \in Nat \ {0} /\ Power[n + 1] = Base * Power[n]
    BY Powers, HashAssumption
  <1>2. (v % Power[n]) + ((v \div Power[n]) % Base) * Power[n] = v % (Base * Power[n])
    BY <1>1, OneMoreDigit, Zenon
  <1>3. QED
    BY <1>1, <1>2, Zenon

\* An integer of w bytes is written as w bytes ...
LEMMA LittleEndianType ==
    ASSUME NEW v \in Nat, NEW w \in Nat
    PROVE  LittleEndian(v, w) \in Seq(Byte) /\ Len(LittleEndian(v, w)) = w
  <1>1. ASSUME NEW i \in 1..w
        PROVE  (v \div Power[i - 1]) % Base \in Byte
    <2>1. Power[i - 1] \in Nat \ {0} /\ Base \in Nat \ {0}
      <3>1. i - 1 \in Nat
        OBVIOUS
      <3>2. QED
        BY <3>1, Powers, HashAssumption
    <2>2. v \div Power[i - 1] \in Nat
      BY <2>1, Division
    <2>3. QED
      BY <2>1, <2>2, Division DEF Byte
  <1>2. LittleEndian(v, w) \in [1..w -> Byte]
    BY <1>1 DEF LittleEndian
  <1>3. QED
    BY <1>2

\* ... and is read back from them.
LEMMA ReadNumber ==
    ASSUME NEW w \in Nat, NEW v \in 0..(Power[w] - 1)
    PROVE  Value(LittleEndian(v, w)) = v
  <1> DEFINE digits == LittleEndian(v, w)
             Def(f) == f = [n \in 0..Len(digits) |->
                               IF n = 0 THEN 0 ELSE f[n - 1] + digits[n] * Power[n - 1]]
             u == CHOOSE f : Def(f)
             g == [n \in 0..w |-> v % Power[n]]
  <1>1. v \in Nat /\ Len(digits) = w /\ DOMAIN Power = Nat /\ Power[w] \in Nat \ {0}
    BY Powers, LittleEndianType
  <1>2. v % Power[0] = 0
    BY <1>1, Powers
  <1>3. ASSUME NEW n \in 1..w
        PROVE  /\ (v % Power[n - 1]) + digits[n] * Power[n - 1] = v % Power[n]
               /\ n - 1 \in 0..w /\ n # 0
    <2>1. n - 1 \in Nat /\ (n - 1) + 1 = n
      OBVIOUS
    <2>2. digits[n] = (v \div Power[n - 1]) % Base
      BY DEF LittleEndian
    <2>3. QED
      BY <1>1, <2>1, <2>2, OneMoreByte
  <1>4. Def(g)
    <2> HIDE DEF digits
    <2>1. QED
      BY <1>1, <1>2, <1>3
  <1>5. Def(u)
    <2> HIDE DEF Def, g
    <2>1. QED
      BY <1>4
  <1>6. Value(digits) = u[w]
    BY <1>1 DEF Value
  <1>7. \A n \in 0..w : u[n] = v % Power[n]
    <2> DEFINE P == {n \in 0..w : u[n] = v % Power[n]}
    <2> HIDE DEF u, digits
    <2>1. 0 \in P
      BY <1>1, <1>2, <1>5
    <2>2. ASSUME NEW n \in 0..w, n # w, n \in P
          PROVE  n + 1 \in P
      <3>1. n + 1 \in 1..w /\ (n + 1) - 1 = n
        BY <2>2
      <3>2. u[n + 1] = u[n] + digits[n + 1] * Power[n]
        BY <1>1, <1>5, <3>1
      <3>3. QED
        BY <1>3, <2>2, <3>1, <3>2
    <2>3. \A n \in 0..w : n # w /\ n \in P => n + 1 \in P
      BY <2>2
    <2> HIDE DEF P
    <2>4. \A n \in 0..w : n \in P
      BY <2>1, <2>3, UpTo, Zenon
    <2>5. QED
      BY <2>4 DEF P
  <1>8. v % Power[w] = v
    <2> DEFINE d == Power[w]
    <2>1. d \in Nat \ {0} /\ v \in 0..(d - 1)
      BY <1>1
    <2> HIDE DEF d
    <2>2. (d * 0 + v) % d = v
      BY <2>1, DivisionUnique
    <2>3. d * 0 + v = v
      BY <2>1
    <2>4. v % d = v
      BY <2>2, <2>3
    <2>5. QED
      BY <2>4 DEF d
  <1>9. QED
    BY <1>1, <1>6, <1>7, <1>8

-----------------------------------------------------------------------------
(* Reading back *)

\* Strings are sequences of bytes whose length a u32 holds.
LEMMA Strings ==
    ASSUME NEW s \in String
    PROVE  s \in Seq(Byte) /\ Len(s) \in Nat /\ Len(s) \in 0..(Power[W32] - 1)
  <1>1. W32 \in Nat /\ Power[W32] \in Nat
    BY HashAssumption, Powers
  <1>2. QED
    BY <1>1 DEF String

\* What was put first is taken off again.
LEMMA TakeDrop ==
    ASSUME NEW a \in Seq(Byte), NEW b \in Seq(Byte)
    PROVE  /\ a \o b \in Seq(Byte) /\ Len(a \o b) = Len(a) + Len(b)
           /\ Take(a \o b, Len(a)) = a
           /\ Drop(a \o b, Len(a)) = b
  <1>1. a \o b \in Seq(Byte) /\ Len(a \o b) = Len(a) + Len(b)
    OBVIOUS
  <1>2. SubSeq(a \o b, 1, Len(a)) = a
    OBVIOUS
  <1>3. SubSeq(a \o b, Len(a) + 1, Len(a) + Len(b)) = b
    OBVIOUS
  <1>4. Take(a \o b, Len(a)) = SubSeq(a \o b, 1, Len(a))
    BY <1>1 DEF Take
  <1>5. Drop(a \o b, Len(a)) = SubSeq(a \o b, Len(a) + 1, Len(a) + Len(b))
    BY <1>1 DEF Drop
  <1>6. QED
    BY <1>1, <1>2, <1>3, <1>4, <1>5, Zenon

\* ... and what was put second after it.
LEMMA DropTwo ==
    ASSUME NEW a \in Seq(Byte), NEW b \in Seq(Byte), NEW c \in Seq(Byte)
    PROVE  Drop(a \o (b \o c), Len(a) + Len(b)) = c
  <1>1. a \o b \in Seq(Byte) /\ Len(a \o b) = Len(a) + Len(b)
    BY TakeDrop
  <1>2. (a \o b) \o c = a \o (b \o c)
    BY ConcatAssociative
  <1>3. Drop((a \o b) \o c, Len(a \o b)) = c
    BY <1>1, TakeDrop
  <1>4. QED
    BY <1>1, <1>2, <1>3, Zenon

LEMMA PutLpType ==
    ASSUME NEW s \in String
    PROVE  put_lp(s) \in Seq(Byte)
  <1>1. LittleEndian(Len(s), W32) \in Seq(Byte)
    BY Strings, LittleEndianType, HashAssumption
  <1>2. QED
    BY <1>1, Strings DEF put_lp

\* A string is read back from the bytes that its prefix starts.
LEMMA ReadOne ==
    ASSUME NEW s \in String, NEW rest \in Seq(Byte)
    PROVE  ReadString(put_lp(s) \o rest) = <<s, rest>>
  <1> DEFINE n == LittleEndian(Len(s), W32)
             all == n \o (s \o rest)
  <1>1. /\ n \in Seq(Byte) /\ Len(n) = W32 /\ Value(n) = Len(s)
        /\ s \in Seq(Byte)
    BY Strings, LittleEndianType, ReadNumber, HashAssumption
  <1> HIDE DEF n
  <1>2. put_lp(s) \o rest = all
    BY <1>1, ConcatAssociative DEF put_lp, n
  <1>3. Take(all, W32) = n /\ Drop(all, W32) = s \o rest
    BY <1>1, TakeDrop
  <1>4. Drop(all, W32 + Len(s)) = rest
    BY <1>1, DropTwo
  <1>5. Take(s \o rest, Len(s)) = s
    BY <1>1, TakeDrop
  <1> HIDE DEF all
  <1>6. QED
    BY <1>1, <1>2, <1>3, <1>4, <1>5, Zenon DEF ReadString

\* The strings of a list are read back one after the other, when rest[i] is what
\* remains after the first i of them.
LEMMA ReadMany ==
    ASSUME NEW ss \in Seq(String), NEW rest \in [0..Len(ss) -> Seq(Byte)],
           \A i \in 1..Len(ss) : rest[i - 1] = put_lp(ss[i]) \o rest[i]
    PROVE  ReadStrings(rest[0], Len(ss)) = <<ss, rest[Len(ss)]>>
  <1> DEFINE w == Len(ss)
             Def(f) == f = [i \in 0..w |->
                               IF i = 0 THEN << <<>>, rest[0]>>
                               ELSE LET r == ReadString(f[i - 1][2])
                                    IN  <<Append(f[i - 1][1], r[1]), r[2]>>]
             u == CHOOSE f : Def(f)
             g == [i \in 0..w |-> <<SubSeq(ss, 1, i), rest[i]>>]
  <1>1. w \in Nat
    OBVIOUS
  <1>2. ASSUME NEW i \in 1..w
        PROVE  /\ ReadString(rest[i - 1]) = <<ss[i], rest[i]>>
               /\ Append(SubSeq(ss, 1, i - 1), ss[i]) = SubSeq(ss, 1, i)
               /\ i - 1 \in 0..w
    <2>1. ss[i] \in String /\ rest[i] \in Seq(Byte)
      OBVIOUS
    <2>2. ReadString(rest[i - 1]) = <<ss[i], rest[i]>>
      BY <2>1, ReadOne
    <2>3. Append(SubSeq(ss, 1, i - 1), ss[i]) = SubSeq(ss, 1, i)
      OBVIOUS
    <2>4. QED
      BY <2>2, <2>3
  <1>3. SubSeq(ss, 1, 0) = <<>> /\ SubSeq(ss, 1, w) = ss
    OBVIOUS
  <1>4. Def(g)
    <2>1. ASSUME NEW i \in 0..w, i # 0
          PROVE  g[i] = <<Append(g[i - 1][1], ReadString(g[i - 1][2])[1]),
                          ReadString(g[i - 1][2])[2]>>
      <3>1. i \in 1..w /\ i - 1 \in 0..w
        BY <2>1
      <3>2. g[i - 1] = <<SubSeq(ss, 1, i - 1), rest[i - 1]>> /\ g[i] = <<SubSeq(ss, 1, i), rest[i]>>
        BY <3>1
      <3> HIDE DEF g
      <3>3. QED
        BY <1>2, <3>1, <3>2
    <2>2. g[0] = << <<>>, rest[0]>>
      BY <1>1, <1>3
    <2>3. g = [i \in 0..w |-> g[i]]
      OBVIOUS
    <2> HIDE DEF g
    <2>4. QED
      BY <2>1, <2>2, <2>3
  <1>5. /\ u[0] = << <<>>, rest[0]>>
        /\ \A i \in 0..w : i # 0 =>
               u[i] = <<Append(u[i - 1][1], ReadString(u[i - 1][2])[1]),
                        ReadString(u[i - 1][2])[2]>>
    <2>1. Def(u)
      <3> HIDE DEF Def, g
      <3>1. QED
        BY <1>4
    <2>2. 0 \in 0..w
      BY <1>1
    <2> HIDE DEF u, g
    <2>3. QED
      BY <2>1, <2>2
  <1>6. ReadStrings(rest[0], w) = u[w]
    BY DEF ReadStrings
  <1>7. \A i \in 0..w : u[i] = g[i]
    <2> DEFINE P == {i \in 0..w : u[i] = g[i]}
    <2> HIDE DEF u
    <2>1. 0 \in P
      <3>1. 0 \in 0..w /\ g[0] = << <<>>, rest[0]>>
        BY <1>1, <1>3
      <3> HIDE DEF g
      <3>2. QED
        BY <1>5, <3>1
    <2>2. ASSUME NEW i \in 0..w, i # w, i \in P
          PROVE  i + 1 \in P
      <3>1. i + 1 \in 1..w /\ (i + 1) - 1 = i /\ i + 1 # 0
        BY <2>2, <1>1
      <3>2. u[i] = <<SubSeq(ss, 1, i), rest[i]>>
        BY <2>2
      <3>3. ReadString(rest[i]) = <<ss[i + 1], rest[i + 1]>>
        BY <1>2, <3>1
      <3>4. Append(SubSeq(ss, 1, i), ss[i + 1]) = SubSeq(ss, 1, i + 1)
        BY <1>2, <3>1
      <3>5. u[i + 1] = <<Append(u[i][1], ReadString(u[i][2])[1]), ReadString(u[i][2])[2]>>
        <4> HIDE DEF P, g
        <4>1. i + 1 \in 0..w
          BY <3>1
        <4>2. QED
          BY <1>5, <3>1, <4>1
      <3>6. u[i + 1] = <<SubSeq(ss, 1, i + 1), rest[i + 1]>>
        BY <3>2, <3>3, <3>4, <3>5
      <3>7. i + 1 \in 0..w /\ g[i + 1] = <<SubSeq(ss, 1, i + 1), rest[i + 1]>>
        BY <3>1
      <3> HIDE DEF g
      <3>8. QED
        BY <3>6, <3>7
    <2>3. \A i \in 0..w : i # w /\ i \in P => i + 1 \in P
      BY <2>2
    <2> HIDE DEF P, g
    <2>4. \A i \in 0..w : i \in P
      BY <1>1, <2>1, <2>3, UpTo, Zenon
    <2>5. QED
      BY <2>4 DEF P
  <1> HIDE DEF u
  <1>8. QED
    BY <1>1, <1>3, <1>6, <1>7

\* Concat is what its recursion says, the partial results c.
Concatenated(ss, c) ==
    /\ c \in [0..Len(ss) -> Seq(Byte)]
    /\ c[0] = <<>>
    /\ \A i \in 1..Len(ss) : c[i] = c[i - 1] \o ss[i]
    /\ Concat(ss) = c[Len(ss)]

LEMMA Concats ==
    ASSUME NEW ss \in Seq(Seq(Byte))
    PROVE  \E c : Concatenated(ss, c)
  <1> DEFINE n == Len(ss)
             S == Seq(Byte)
             Def(f) == f = [i \in 0..n |-> IF i = 0 THEN <<>> ELSE f[i - 1] \o ss[i]]
             u == CHOOSE f : Def(f)
             step == [i \in 0..n |-> [x \in S |-> IF i = n THEN x ELSE x \o ss[i + 1]]]
  <1>1. n \in Nat /\ <<>> \in S
    OBVIOUS
  <1>2. \A i \in 1..n : ss[i] \in S
    OBVIOUS
  <1>3. \A x \in S, i \in 1..n : x \o ss[i] \in S
    BY <1>2
  <1>4. step \in [0..n -> [S -> S]]
    <2>1. ASSUME NEW i \in 0..n, NEW x \in S
          PROVE  (IF i = n THEN x ELSE x \o ss[i + 1]) \in S
      <3>1. CASE i = n
        BY <3>1
      <3>2. CASE i # n
        <4>1. i + 1 \in 1..n
          BY <3>2
        <4>2. QED
          BY <1>3, <3>2, <4>1
      <3>3. QED
        BY <3>1, <3>2
    <2> HIDE DEF S
    <2>2. QED
      BY <2>1
  <1>5. PICK f : Iterated(n, S, <<>>, step, f)
    <2> HIDE DEF n, S, step
    <2>1. QED
      BY <1>1, <1>4, Iteration
  <1>6. ASSUME NEW i \in 1..n
        PROVE  f[i] = f[i - 1] \o ss[i]
    <2>1. i - 1 \in 0..n /\ i - 1 # n /\ (i - 1) + 1 = i
      BY <1>1
    <2>2. f[i - 1] \in S
      BY <1>5, <2>1 DEF Iterated
    <2>3. step[i - 1][f[i - 1]] = f[i - 1] \o ss[i]
      BY <2>1, <2>2
    <2>4. f[i] = step[i - 1][f[i - 1]]
      <3> HIDE DEF step, S
      <3>1. QED
        BY <1>5, <2>1 DEF Iterated
    <2>5. QED
      BY <2>3, <2>4
  <1>7. f = [i \in 0..n |-> IF i = 0 THEN <<>> ELSE f[i - 1] \o ss[i]]
    <2>1. f \in [0..n -> S] /\ f[0] = <<>>
      BY <1>5 DEF Iterated
    <2> HIDE DEF S
    <2>2. ASSUME NEW i \in 0..n
          PROVE  f[i] = IF i = 0 THEN <<>> ELSE f[i - 1] \o ss[i]
      <3>1. CASE i = 0
        BY <2>1, <3>1
      <3>2. CASE i # 0
        <4>1. i \in 1..n
          BY <3>2
        <4>2. QED
          BY <1>6, <3>2, <4>1
      <3>3. QED
        BY <3>1, <3>2
    <2>3. QED
      BY <2>1, <2>2
  <1>8. u = [i \in 0..n |-> IF i = 0 THEN <<>> ELSE u[i - 1] \o ss[i]]
    <2>1. Def(f)
      BY <1>7
    <2>2. Def(u)
      <3> HIDE DEF Def
      <3>1. QED
        BY <2>1
    <2> HIDE DEF u
    <2>3. QED
      BY <2>2
  <1>9. Concat(ss) = u[n]
    BY DEF Concat
  <1> HIDE DEF u
  <1>10. u[0] = <<>> /\ \A i \in 1..n : u[i] = u[i - 1] \o ss[i]
    <2>1. 0 \in 0..n /\ \A i \in 1..n : i \in 0..n /\ i # 0
      BY <1>1
    <2> HIDE DEF n
    <2>2. u[0] = <<>>
      BY <1>8, <2>1
    <2>3. \A i \in 1..n : u[i] = u[i - 1] \o ss[i]
      BY <1>8, <2>1
    <2>4. QED
      BY <2>2, <2>3
  <1>11. \A i \in 0..n : u[i] \in S
    <2> DEFINE P == {i \in 0..n : u[i] \in S}
    <2>1. 0 \in P
      <3>1. 0 \in 0..n /\ u[0] \in S
        BY <1>1, <1>10
      <3> HIDE DEF n, S
      <3>2. QED
        BY <3>1
    <2>2. ASSUME NEW i \in 0..n, i # n, i \in P
          PROVE  i + 1 \in P
      <3>1. i + 1 \in 1..n /\ i + 1 \in 0..n /\ (i + 1) - 1 = i
        BY <2>2, <1>1
      <3>2. u[i + 1] = u[i] \o ss[i + 1]
        BY <1>10, <3>1
      <3>3. u[i] \in S
        BY <2>2
      <3> HIDE DEF S
      <3>4. u[i + 1] \in S
        BY <1>3, <3>1, <3>2, <3>3
      <3>5. QED
        BY <3>1, <3>4
    <2>3. \A i \in 0..n : i # n /\ i \in P => i + 1 \in P
      BY <2>2
    <2> HIDE DEF P
    <2>4. \A i \in 0..n : i \in P
      BY <1>1, <2>1, <2>3, UpTo, Zenon
    <2>5. QED
      BY <2>4 DEF P
  <1>12. u \in [0..n -> S]
    <2>1. DOMAIN u = 0..n /\ u = [i \in 0..n |-> u[i]]
      BY <1>8
    <2> HIDE DEF S
    <2>2. QED
      BY <1>11, <2>1
  <1>13. Concatenated(ss, u)
    BY <1>9, <1>10, <1>12 DEF Concatenated
  <1>14. QED
    BY <1>13

-----------------------------------------------------------------------------
(* The order of the tags *)

LEMMA Bytes ==
    ASSUME NEW a \in Seq(Byte)
    PROVE  Len(a) \in Nat /\ DOMAIN a = 1..Len(a) /\ \A j \in 1..Len(a) : a[j] \in Int
  <1>1. Byte \subseteq Int
    BY HashAssumption DEF Byte
  <1>2. Len(a) \in Nat /\ DOMAIN a = 1..Len(a)
    OBVIOUS
  <1>3. ASSUME NEW j \in 1..Len(a)
        PROVE  a[j] \in Int
    <2>1. a[j] \in Byte
      OBVIOUS
    <2>2. QED
      BY <1>1, <2>1
  <1>4. QED
    BY <1>2, <1>3

\* Where two strings differ first, if they do below the length of both.
LEMMA FirstDifference ==
    ASSUME NEW a \in Seq(Byte), NEW b \in Seq(Byte),
           NEW k \in DOMAIN a \cap DOMAIN b, a[k] # b[k]
    PROVE  \E m \in DOMAIN a \cap DOMAIN b :
               a[m] # b[m] /\ \A j \in 1..(m - 1) : a[j] = b[j]
  <1> DEFINE D == {i \in DOMAIN a \cap DOMAIN b : a[i] # b[i]}
  <1>1. D \in SUBSET Nat /\ k \in D
    OBVIOUS
  <1>2. PICK m \in D : \A i \in D : m <= i
    BY <1>1, LeastNumber
  <1>3. \A j \in 1..(m - 1) : a[j] = b[j]
    BY <1>2
  <1>4. QED
    BY <1>2, <1>3

\* Of two strings one is less, or they are equal.
LEMMA StrTrichotomy ==
    ASSUME NEW a \in Seq(Byte), NEW b \in Seq(Byte)
    PROVE  StrLess(a, b) \/ StrLess(b, a) \/ a = b
  <1>1. /\ Len(a) \in Nat /\ Len(b) \in Nat
        /\ DOMAIN a = 1..Len(a) /\ DOMAIN b = 1..Len(b)
    OBVIOUS
  <1>2. CASE \E k \in DOMAIN a \cap DOMAIN b : a[k] # b[k]
    <2>1. PICK m \in DOMAIN a \cap DOMAIN b :
              a[m] # b[m] /\ \A j \in 1..(m - 1) : a[j] = b[j]
      BY <1>2, FirstDifference
    <2>2. a[m] \in Int /\ b[m] \in Int
      BY <1>1, Bytes
    <2>3. CASE a[m] < b[m]
      BY <1>1, <2>1, <2>3 DEF StrLess
    <2>4. CASE b[m] < a[m]
      BY <1>1, <2>1, <2>4 DEF StrLess
    <2>5. QED
      BY <2>1, <2>2, <2>3, <2>4
  <1>3. CASE \A k \in DOMAIN a \cap DOMAIN b : a[k] = b[k]
    <2>1. CASE Len(a) < Len(b)
      <3>1. Len(a) + 1 \in 1..Len(b) /\ Len(a) + 1 \notin DOMAIN a
        BY <1>1, <2>1
      <3>2. \A j \in 1..((Len(a) + 1) - 1) : j \in DOMAIN a /\ a[j] = b[j]
        BY <1>1, <1>3, <2>1
      <3>3. QED
        BY <3>1, <3>2 DEF StrLess
    <2>2. CASE Len(b) < Len(a)
      <3>1. Len(b) + 1 \in 1..Len(a) /\ Len(b) + 1 \notin DOMAIN b
        BY <1>1, <2>2
      <3>2. \A j \in 1..((Len(b) + 1) - 1) : j \in DOMAIN b /\ b[j] = a[j]
        BY <1>1, <1>3, <2>2
      <3>3. QED
        BY <3>1, <3>2 DEF StrLess
    <2>3. CASE Len(a) = Len(b)
      <3>1. \A i \in 1..Len(a) : a[i] = b[i]
        BY <1>1, <1>3, <2>3
      <3>2. QED
        BY <2>3, <3>1, SeqEqual
    <2>4. Len(a) < Len(b) \/ Len(b) < Len(a) \/ Len(a) = Len(b)
      <3>1. \A x, y \in Nat : x < y \/ y < x \/ x = y
        OBVIOUS
      <3>2. QED
        BY <1>1, <3>1, Zenon
    <2>5. QED
      BY <2>1, <2>2, <2>3, <2>4
  <1>4. QED
    BY <1>2, <1>3

\* Where a is first less than b.
LessAt(a, b, i) ==
    /\ i \in 1..Len(b) /\ i <= Len(a) + 1
    /\ \A j \in 1..(i - 1) : a[j] = b[j]
    /\ i <= Len(a) => a[i] < b[i]

LEMMA StrLessAt ==
    ASSUME NEW a \in Seq(Byte), NEW b \in Seq(Byte)
    PROVE  StrLess(a, b) <=> \E i \in Nat : LessAt(a, b, i)
  <1>1. /\ Len(a) \in Nat /\ Len(b) \in Nat
        /\ DOMAIN a = 1..Len(a) /\ DOMAIN b = 1..Len(b)
    OBVIOUS
  <1>2. ASSUME NEW i \in 1..Len(b),
               \A j \in 1..(i - 1) : j \in DOMAIN a /\ a[j] = b[j],
               i \in DOMAIN a => a[i] < b[i]
        PROVE  LessAt(a, b, i)
    <2>1. i <= Len(a) + 1
      <3>1. CASE i = 1
        BY <1>1, <3>1
      <3>2. CASE i # 1
        <4>1. i - 1 \in 1..(i - 1)
          BY <3>2
        <4>2. QED
          BY <1>1, <1>2, <4>1
      <3>3. QED
        BY <3>1, <3>2
    <2>2. QED
      BY <1>1, <1>2, <2>1 DEF LessAt
  <1>3. ASSUME NEW i \in Nat, LessAt(a, b, i)
        PROVE  StrLess(a, b)
    BY <1>1, <1>3 DEF LessAt, StrLess
  <1>4. StrLess(a, b) => \E i \in Nat : LessAt(a, b, i)
    BY <1>1, <1>2 DEF StrLess
  <1>5. QED
    BY <1>3, <1>4

\* No string is less than one that is less than it.
LEMMA StrAsymmetry ==
    ASSUME NEW a \in Seq(Byte), NEW b \in Seq(Byte), StrLess(a, b)
    PROVE  ~StrLess(b, a)
  <1> SUFFICES ASSUME StrLess(b, a) PROVE FALSE
    OBVIOUS
  <1>1. PICK i \in Nat : LessAt(a, b, i)
    BY StrLessAt
  <1>2. PICK k \in Nat : LessAt(b, a, k)
    BY StrLessAt
  <1>3. /\ Len(a) \in Nat /\ Len(b) \in Nat
        /\ \A j \in 1..Len(a) : a[j] \in Int
        /\ \A j \in 1..Len(b) : b[j] \in Int
    BY Bytes
  <1>4. CASE i < k
    BY <1>1, <1>2, <1>3, <1>4 DEF LessAt
  <1>5. CASE k < i
    BY <1>1, <1>2, <1>3, <1>5 DEF LessAt
  <1>6. CASE i = k
    BY <1>1, <1>2, <1>3, <1>6 DEF LessAt
  <1>7. QED
    BY <1>4, <1>5, <1>6

LEMMA StrTransitivity ==
    ASSUME NEW a \in Seq(Byte), NEW b \in Seq(Byte), NEW c \in Seq(Byte),
           StrLess(a, b), StrLess(b, c)
    PROVE  StrLess(a, c)
  <1>1. PICK i \in Nat : LessAt(a, b, i)
    BY StrLessAt
  <1>2. PICK k \in Nat : LessAt(b, c, k)
    BY StrLessAt
  <1>3. /\ Len(a) \in Nat /\ Len(b) \in Nat /\ Len(c) \in Nat
        /\ \A j \in 1..Len(a) : a[j] \in Int
        /\ \A j \in 1..Len(b) : b[j] \in Int
        /\ \A j \in 1..Len(c) : c[j] \in Int
    BY Bytes
  <1>4. CASE i < k
    <2>1. LessAt(a, c, i)
      BY <1>1, <1>2, <1>3, <1>4 DEF LessAt
    <2>2. QED
      BY <2>1, StrLessAt
  <1>5. CASE k <= i
    <2>1. LessAt(a, c, k)
      BY <1>1, <1>2, <1>3, <1>5 DEF LessAt
    <2>2. QED
      BY <2>1, StrLessAt
  <1>6. QED
    BY <1>4, <1>5

\* The two orders are the same.
LEMMA SameOrder ==
    ASSUME NEW a \in Seq(Byte), NEW b \in Seq(Byte)
    PROVE  StrLess(a, b) <=> TagLess(a, b)
  <1> DEFINE n == IF Len(a) < Len(b) THEN Len(a) ELSE Len(b)
             differs == {i \in 1..n : a[i] # b[i]}
             Least(i) == i \in differs /\ \A j \in differs : i <= j
  <1>1. /\ Len(a) \in Nat /\ Len(b) \in Nat
        /\ \A j \in 1..Len(a) : a[j] \in Int
        /\ \A j \in 1..Len(b) : b[j] \in Int
    BY Bytes
  <1>2. differs \in SUBSET Nat
    BY <1>1
  <1>3. CASE differs = {}
    <2>1. TagLess(a, b) <=> Len(a) < Len(b)
      BY <1>3 DEF TagLess
    <2>2. \A j \in 1..n : a[j] = b[j]
      BY <1>3
    <2>3. ASSUME Len(a) < Len(b)
          PROVE  LessAt(a, b, Len(a) + 1)
      BY <1>1, <2>2, <2>3 DEF LessAt
    <2>4. ASSUME NEW i \in Nat, LessAt(a, b, i)
          PROVE  Len(a) < Len(b)
      BY <1>1, <2>2, <2>4 DEF LessAt
    <2>5. QED
      BY <1>1, <2>1, <2>3, <2>4, StrLessAt
  <1>4. CASE differs # {}
    <2> DEFINE m == CHOOSE i \in differs : \A j \in differs : i <= j
    <2>1. Least(m)
      <3>1. \E i \in differs : \A j \in differs : i <= j
        BY <1>2, <1>4, LeastNumber
      <3> HIDE DEF differs
      <3>2. QED
        BY <3>1
    <2>2. TagLess(a, b) <=> a[m] < b[m]
      BY <1>4 DEF TagLess
    <2> HIDE DEF m
    <2>3. m \in 1..n /\ a[m] # b[m] /\ \A j \in 1..(m - 1) : a[j] = b[j]
      BY <1>1, <2>1
    <2>4. ASSUME a[m] < b[m]
          PROVE  LessAt(a, b, m)
      BY <1>1, <2>3, <2>4 DEF LessAt
    <2>5. ASSUME NEW i \in Nat, LessAt(a, b, i)
          PROVE  a[m] < b[m]
      <3>1. CASE i < m
        BY <1>1, <2>3, <2>5, <3>1 DEF LessAt
      <3>2. CASE m < i
        BY <1>1, <2>3, <2>5, <3>2 DEF LessAt
      <3>3. CASE m = i
        BY <1>1, <2>3, <2>5, <3>3 DEF LessAt
      <3>4. QED
        BY <1>1, <2>3, <3>1, <3>2, <3>3
    <2>6. m \in Nat
      BY <2>3, <1>1
    <2>7. QED
      BY <2>2, <2>4, <2>5, <2>6, StrLessAt
  <1>5. QED
    BY <1>3, <1>4

-----------------------------------------------------------------------------
(* The two ports *)

\* What a sort makes of a list of strings has its length and its strings.
LEMMA PermutedType ==
    ASSUME NEW tags \in Seq(String), NEW s \in Permuted(tags)
    PROVE  /\ s \in Seq(String) /\ Len(s) = Len(tags)
           /\ DOMAIN s = DOMAIN tags /\ Range(s) = Range(tags)
  <1>1. PICK p \in Bijection(DOMAIN tags, DOMAIN tags) :
            s = [i \in DOMAIN tags |-> tags[p[i]]]
    BY DEF Permuted
  <1>2. /\ p \in [DOMAIN tags -> DOMAIN tags]
        /\ \A k \in DOMAIN tags : \E i \in DOMAIN tags : p[i] = k
    BY DEF Bijection, Surjection, Injection
  <1>3. s \in [1..Len(tags) -> String]
    BY <1>1, <1>2
  <1>4. s \in Seq(String) /\ Len(s) = Len(tags) /\ DOMAIN s = DOMAIN tags
    BY <1>3
  <1>5. Range(s) = Range(tags)
    BY <1>1, <1>2, <1>4 DEF Range
  <1>6. QED
    BY <1>4, <1>5

\* std::sort and sort_unstable, and what follows them, make the same of a list.
LEMMA SameTags ==
    ASSUME NEW tags \in Seq(String)
    PROVE  normalizedTagBytes(tags) = RustTags(tags)
  <1>1. ASSUME NEW s \in Permuted(tags), NEW i \in DOMAIN tags, NEW j \in DOMAIN tags
        PROVE  StrLess(s[j], s[i]) <=> TagLess(s[j], s[i])
    <2>1. s[i] \in Seq(Byte) /\ s[j] \in Seq(Byte)
      <3>1. s[i] \in String /\ s[j] \in String
        BY PermutedType
      <3>2. QED
        BY <3>1, Strings
    <2>2. QED
      BY <2>1, SameOrder
  <1>2. (CHOOSE s \in Permuted(tags) : \A i, j \in DOMAIN tags : i < j => ~StrLess(s[j], s[i]))
        = CHOOSE s \in Permuted(tags) : \A i, j \in DOMAIN tags : i < j => ~TagLess(s[j], s[i])
    BY <1>1
  <1>3. QED
    BY <1>2, Zenon DEF normalizedTagBytes, RustTags

\* The C++ code digests the bytes that the Rust code does.
THEOREM SameBytes ==
    ASSUME NEW e \in Envelope
    PROVE  metadataHash(e) = canonical_metadata_bytes(e)
  <1>1. normalizedTagBytes(e.tags) = RustTags(e.tags)
    BY SameTags, HashAssumption DEF Envelope
  <1>2. \A v, w : putULe(v, w) = LittleEndian(v, w)
    BY DEF putULe, LittleEndian
  <1>3. \A s : putLengthPrefixed(s) = put_lp(s)
    BY <1>2, Zenon DEF putLengthPrefixed, put_lp
  <1>4. \A t : [i \in DOMAIN t |-> putLengthPrefixed(t[i])] = [i \in DOMAIN t |-> put_lp(t[i])]
    BY <1>3
  <1>5. QED
    BY <1>1, <1>2, <1>3, <1>4, Zenon DEF metadataHash, canonical_metadata_bytes

\* What the anchorer has of the envelope is one, and the app's if the app sent it;
\* what it has digested, if it has, is the digest of a valid envelope.
EnvelopeInv ==
    /\ form \in Envelope
    /\ pc = "composing" => byApp = FALSE
    /\ pc = "sent" =>
           /\ wire = [k \in DOMAIN wire |-> wire[k]]
           /\ "cid" \in DOMAIN wire => wire["cid"] \in Cids
           /\ "title" \in DOMAIN wire => wire["title"] \in Titles
           /\ "description" \in DOMAIN wire => wire["description"] \in Descriptions
           /\ "content_type" \in DOMAIN wire => wire["content_type"] \in ContentTypes
           /\ "size_bytes" \in DOMAIN wire => wire["size_bytes"] \in Sizes
           /\ "timestamp" \in DOMAIN wire => wire["timestamp"] \in Times
           /\ "tags" \in DOMAIN wire => wire["tags"] \in TagLists
           /\ "schema_version" \in DOMAIN wire => wire["schema_version"] \in Versions
           /\ byApp => wire = [k \in Fields |-> form[k]]
    /\ pc \in {"parsed", "hashed"} => env \in Envelope /\ (byApp => env = form)
    /\ pc = "hashed" => validate(env) /\ hashed = canonical_metadata_bytes(env)

LEMMA EnvelopeInit == Init => EnvelopeInv
  BY DEF Init, EnvelopeInv

\* An envelope is the function of its fields.
LEMMA EnvelopeFields ==
    ASSUME NEW e \in Envelope
    PROVE  /\ e = [k \in Fields |-> e[k]]
           /\ e["cid"] \in Cids /\ e["title"] \in Titles
           /\ e["description"] \in Descriptions /\ e["content_type"] \in ContentTypes
           /\ e["size_bytes"] \in Sizes /\ e["timestamp"] \in Times
           /\ e["tags"] \in TagLists /\ e["schema_version"] \in Versions
  BY DEF Envelope, Fields

LEMMA FieldsEnvelope ==
    ASSUME NEW f,
           f["cid"] \in Cids, f["title"] \in Titles,
           f["description"] \in Descriptions, f["content_type"] \in ContentTypes,
           f["size_bytes"] \in Sizes, f["timestamp"] \in Times,
           f["tags"] \in TagLists, f["schema_version"] \in Versions
    PROVE  [k \in Fields |-> f[k]] \in Envelope
  BY DEF Envelope, Fields

LEMMA EnvelopeStep == EnvelopeInv /\ [Next]_vars => EnvelopeInv'
  <1> SUFFICES ASSUME EnvelopeInv, [Next]_vars
               PROVE  EnvelopeInv'
    OBVIOUS
  <1>1. CASE buildEnvelopeJson
    BY <1>1, EnvelopeFields DEF EnvelopeInv, buildEnvelopeJson, Fields
  <1>2. ASSUME NEW present \in SUBSET Fields, NEW version \in Versions,
               SendJson(present, version)
        PROVE  EnvelopeInv'
    BY <1>2, EnvelopeFields DEF EnvelopeInv, SendJson, Fields
  <1>3. CASE from_json_bytes
    <2>1. CASE Fields \ DOMAIN Defaults \subseteq DOMAIN wire
      <3> DEFINE e == [k \in Fields |-> IF k \in DOMAIN wire THEN wire[k] ELSE Defaults[k]]
      <3>1. pc = "sent" /\ pc' = "parsed" /\ env' = e /\ UNCHANGED <<form, byApp, wire, hashed>>
        BY <1>3, <2>1 DEF from_json_bytes
      <3>2. e \in Envelope
        BY <2>1, <3>1, HashAssumption, FieldsEnvelope DEF EnvelopeInv, Fields, Defaults
      <3>3. byApp => e = form
        BY <3>1, EnvelopeFields DEF EnvelopeInv
      <3> HIDE DEF e
      <3>4. QED
        BY <3>1, <3>2, <3>3 DEF EnvelopeInv
    <2>2. CASE ~(Fields \ DOMAIN Defaults \subseteq DOMAIN wire)
      BY <1>3, <2>2 DEF EnvelopeInv, from_json_bytes
    <2>3. QED
      BY <2>1, <2>2
  <1>4. CASE anchor_entry
    BY <1>4 DEF EnvelopeInv, anchor_entry
  <1>5. CASE UNCHANGED vars
    BY <1>5 DEF EnvelopeInv, vars
  <1>6. QED
    BY <1>1, <1>2, <1>3, <1>4, <1>5 DEF Next

THEOREM EnvelopeInvariant == Spec => []EnvelopeInv
  BY EnvelopeInit, EnvelopeStep, PTL DEF Spec

\* What the app showed for what was typed is what the anchorer of the app's
\* envelope digests.
THEOREM PortsAlwaysAgree == Spec => []PortsAgree
  <1>1. EnvelopeInv => PortsAgree
    BY SameBytes DEF EnvelopeInv, PortsAgree
  <1>2. QED
    BY <1>1, EnvelopeInvariant, PTL

-----------------------------------------------------------------------------
(* Sorted and deduplicated tags *)

\* What Dedup keeps of the next string x after k.
KeptOf(k, x) == IF k # <<>> /\ k[Len(k)] = x THEN k ELSE Append(k, x)

Ordered(s) == \A i, j \in DOMAIN s : i < j => ~StrLess(s[j], s[i])

Ascending(s) == \A i, j \in DOMAIN s : i < j => StrLess(s[i], s[j])

\* k is what Dedup keeps of the first i strings of s.
Kept(s, i, k) ==
    /\ k \in Seq(String) /\ Len(k) <= i
    /\ Range(k) = {s[j] : j \in 1..i}
    /\ i # 0 => Len(k) # 0 /\ k[Len(k)] = s[i]
    /\ Ordered(s) => Ascending(k)

LEMMA KeptType ==
    ASSUME NEW k \in Seq(String), NEW x \in String
    PROVE  KeptOf(k, x) \in Seq(String)
  BY DEF KeptOf

\* One more string is kept if it is not the last that was.
LEMMA KeptStep ==
    ASSUME NEW s \in Seq(String), NEW i \in 0..Len(s), i # Len(s), NEW k, Kept(s, i, k)
    PROVE  Kept(s, i + 1, KeptOf(k, s[i + 1]))
  <1> DEFINE x == s[i + 1]
  <1>1. /\ k \in Seq(String) /\ Len(k) \in Nat /\ Len(k) <= i /\ DOMAIN k = 1..Len(k)
        /\ Range(k) = {s[j] : j \in 1..i}
        /\ i # 0 => Len(k) # 0 /\ k[Len(k)] = s[i]
        /\ Ordered(s) => Ascending(k)
    BY DEF Kept
  <1>2. /\ i \in Nat /\ i + 1 \in 1..Len(s) /\ i + 1 \in DOMAIN s /\ x \in String
        /\ i # 0 => i \in DOMAIN s /\ s[i] \in String
    OBVIOUS
  <1>3. {s[j] : j \in 1..(i + 1)} = {s[j] : j \in 1..i} \cup {x}
    <2>1. 1..(i + 1) = 1..i \cup {i + 1}
      BY <1>2
    <2>2. QED
      BY <2>1
  <1>4. k # <<>> <=> i # 0
    <2>1. i = 0 => Len(k) = 0
      BY <1>1, <1>2
    <2>2. k # <<>> <=> Len(k) # 0
      BY <1>1
    <2>3. QED
      BY <1>1, <2>1, <2>2
  <1>5. CASE k # <<>> /\ k[Len(k)] = x
    <2>1. KeptOf(k, x) = k
      BY <1>5 DEF KeptOf
    <2>2. x \in {s[j] : j \in 1..i}
      <3>1. i \in 1..i /\ s[i] = x
        BY <1>1, <1>2, <1>4, <1>5
      <3>2. QED
        BY <3>1
    <2>3. Range(k) = {s[j] : j \in 1..(i + 1)}
      BY <1>1, <1>3, <2>2
    <2>4. Len(k) <= i + 1 /\ Len(k) # 0
      BY <1>1, <1>2, <1>4, <1>5
    <2> HIDE DEF x
    <2>5. Kept(s, i + 1, k)
      BY <1>1, <1>5, <2>3, <2>4 DEF Kept, x
    <2>6. QED
      BY <2>1, <2>5 DEF x
  <1>6. CASE ~(k # <<>> /\ k[Len(k)] = x)
    <2> DEFINE l == Append(k, x)
    <2>1. KeptOf(k, x) = l
      BY <1>6 DEF KeptOf
    <2>2. /\ l \in Seq(String) /\ Len(l) = Len(k) + 1 /\ DOMAIN l = 1..(Len(k) + 1)
          /\ l[Len(k) + 1] = x /\ \A j \in 1..Len(k) : l[j] = k[j]
      BY <1>1, <1>2
    <2> HIDE DEF l
    <2>3. Range(l) = Range(k) \cup {x}
      BY <1>1, <2>2 DEF Range
    <2>4. ASSUME Ordered(s)
          PROVE  Ascending(l)
      <3>1. ASSUME NEW j \in 1..Len(k)
            PROVE  StrLess(k[j], x)
        <4>1. /\ i # 0 /\ k[Len(k)] = s[i] /\ k[Len(k)] # x
              /\ Len(k) \in DOMAIN k /\ j \in DOMAIN k
          BY <1>1, <1>4, <1>6
        <4>2. /\ s[i] \in Seq(Byte) /\ x \in Seq(Byte) /\ k[j] \in Seq(Byte)
          <5>1. k[j] \in String /\ s[i] \in String /\ x \in String
            BY <1>1, <1>2, <4>1
          <5>2. QED
            BY <5>1, Strings
        <4>3. ~StrLess(x, s[i])
          <5>1. i < i + 1 /\ i \in DOMAIN s /\ i + 1 \in DOMAIN s
            BY <1>2, <4>1
          <5>2. QED
            BY <2>4, <5>1 DEF Ordered
        <4>4. StrLess(s[i], x)
          <5>1. s[i] # x
            BY <4>1
          <5> HIDE DEF x
          <5>2. QED
            BY <4>2, <4>3, <5>1, StrTrichotomy
        <4>5. CASE j = Len(k)
          BY <4>1, <4>4, <4>5
        <4>6. CASE j # Len(k)
          <5>1. j < Len(k)
            BY <1>1, <4>6
          <5>2. StrLess(k[j], s[i])
            BY <1>1, <2>4, <4>1, <5>1 DEF Ascending
          <5> HIDE DEF x
          <5>3. QED
            BY <4>2, <4>4, <5>2, StrTransitivity
        <4>7. QED
          BY <4>5, <4>6
      <3> SUFFICES ASSUME NEW a \in DOMAIN l, NEW b \in DOMAIN l, a < b
                   PROVE  StrLess(l[a], l[b])
        BY DEF Ascending
      <3>2. a \in 1..Len(k) /\ l[a] = k[a]
        BY <1>1, <2>2
      <3>3. CASE b = Len(k) + 1
        BY <2>2, <3>1, <3>2, <3>3
      <3>4. CASE b # Len(k) + 1
        <4>1. b \in 1..Len(k) /\ l[b] = k[b]
          BY <1>1, <2>2, <3>4
        <4>2. StrLess(k[a], k[b])
          BY <1>1, <2>4, <3>2, <4>1 DEF Ascending
        <4>3. QED
          BY <3>2, <4>1, <4>2
      <3>5. QED
        BY <3>3, <3>4
    <2>5. Len(l) <= i + 1 /\ Len(l) # 0
      BY <1>1, <1>2, <2>2
    <2>6. Range(l) = {s[j] : j \in 1..(i + 1)}
      BY <1>1, <1>3, <2>3
    <2>7. Kept(s, i + 1, l)
      BY <2>2, <2>4, <2>5, <2>6 DEF Kept
    <2>8. QED
      BY <2>1, <2>7
  <1>7. QED
    BY <1>5, <1>6

\* What Dedup keeps of a list of strings.
LEMMA Dedups ==
    ASSUME NEW s \in Seq(String)
    PROVE  Kept(s, Len(s), Dedup(s))
  <1> DEFINE n == Len(s)
             S == Seq(String)
             Def(f) == f = [i \in 0..n |->
                               IF i = 0 THEN <<>>
                               ELSE IF f[i - 1] # <<>> /\ f[i - 1][Len(f[i - 1])] = s[i]
                                    THEN f[i - 1] ELSE Append(f[i - 1], s[i])]
             u == CHOOSE f : Def(f)
             step == [i \in 0..n |-> [x \in S |-> IF i = n THEN x ELSE KeptOf(x, s[i + 1])]]
  <1>1. n \in Nat /\ <<>> \in S
    OBVIOUS
  <1>2. ASSUME NEW x \in S, NEW i \in 1..n
        PROVE  KeptOf(x, s[i]) \in S
    <2>1. s[i] \in String
      OBVIOUS
    <2>2. QED
      BY <2>1, KeptType
  <1>3. step \in [0..n -> [S -> S]]
    <2>1. ASSUME NEW i \in 0..n, NEW x \in S
          PROVE  (IF i = n THEN x ELSE KeptOf(x, s[i + 1])) \in S
      <3>1. CASE i = n
        BY <3>1
      <3>2. CASE i # n
        <4>1. i + 1 \in 1..n
          BY <3>2
        <4> HIDE DEF S, n
        <4>2. QED
          BY <1>2, <3>2, <4>1
      <3>3. QED
        BY <3>1, <3>2
    <2> HIDE DEF S
    <2>2. QED
      BY <2>1
  <1>4. PICK f : Iterated(n, S, <<>>, step, f)
    <2> HIDE DEF n, S, step
    <2>1. QED
      BY <1>1, <1>3, Iteration
  <1>5. ASSUME NEW i \in 1..n
        PROVE  f[i] = KeptOf(f[i - 1], s[i])
    <2>1. i - 1 \in 0..n /\ i - 1 # n /\ (i - 1) + 1 = i
      BY <1>1
    <2>2. f[i - 1] \in S
      BY <1>4, <2>1 DEF Iterated
    <2>3. step[i - 1][f[i - 1]] = KeptOf(f[i - 1], s[i])
      BY <2>1, <2>2
    <2>4. f[i] = step[i - 1][f[i - 1]]
      <3> HIDE DEF step, S
      <3>1. QED
        BY <1>4, <2>1 DEF Iterated
    <2>5. QED
      BY <2>3, <2>4
  <1>6. Def(f)
    <2>1. f \in [0..n -> S] /\ f[0] = <<>>
      BY <1>4 DEF Iterated
    <2> HIDE DEF S
    <2>2. ASSUME NEW i \in 0..n
          PROVE  f[i] = IF i = 0 THEN <<>>
                        ELSE IF f[i - 1] # <<>> /\ f[i - 1][Len(f[i - 1])] = s[i]
                             THEN f[i - 1] ELSE Append(f[i - 1], s[i])
      <3>1. CASE i = 0
        BY <2>1, <3>1
      <3>2. CASE i # 0
        <4>1. i \in 1..n
          BY <3>2
        <4>2. QED
          BY <1>5, <3>2, <4>1, Zenon DEF KeptOf
      <3>3. QED
        BY <3>1, <3>2
    <2>3. QED
      BY <2>1, <2>2
  <1>7. Def(u)
    <2> HIDE DEF Def
    <2>1. QED
      BY <1>6
  <1>8. Dedup(s) = u[n]
    BY DEF Dedup
  <1> HIDE DEF u
  <1>9. u[0] = <<>> /\ \A i \in 1..n : u[i] = KeptOf(u[i - 1], s[i])
    <2>1. 0 \in 0..n /\ \A i \in 1..n : i \in 0..n /\ i # 0
      BY <1>1
    <2> HIDE DEF n
    <2>2. u[0] = <<>>
      BY <1>7, <2>1
    <2>3. \A i \in 1..n : u[i] = KeptOf(u[i - 1], s[i])
      BY <1>7, <2>1 DEF KeptOf
    <2>4. QED
      BY <2>2, <2>3
  <1> HIDE DEF Def
  <1>10. \A i \in 0..n : Kept(s, i, u[i])
    <2> DEFINE P == {i \in 0..n : Kept(s, i, u[i])}
    <2>1. 0 \in P
      <3>1. Kept(s, 0, <<>>)
        BY <1>1 DEF Kept, Range, Ascending
      <3>2. QED
        BY <1>1, <1>9, <3>1
    <2>2. ASSUME NEW i \in 0..n, i # n, i \in P
          PROVE  i + 1 \in P
      <3>1. i + 1 \in 1..n /\ i + 1 \in 0..n /\ (i + 1) - 1 = i
        BY <2>2, <1>1
      <3>2. u[i + 1] = KeptOf(u[i], s[i + 1])
        BY <1>9, <3>1
      <3>3. Kept(s, i, u[i])
        BY <2>2
      <3>4. Kept(s, i + 1, u[i + 1])
        BY <2>2, <3>2, <3>3, KeptStep
      <3>5. QED
        BY <3>1, <3>4
    <2>3. \A i \in 0..n : i # n /\ i \in P => i + 1 \in P
      BY <2>2
    <2> HIDE DEF P
    <2>4. \A i \in 0..n : i \in P
      BY <1>1, <2>1, <2>3, UpTo, Zenon
    <2>5. QED
      BY <2>4 DEF P
  <1>11. QED
    BY <1>1, <1>8, <1>10

\* Where one ascending list agrees with another up to m, and its strings are the
\* other's, the other goes on, with a string that is not greater.
LEMMA NextAscending ==
    ASSUME NEW a \in Seq(String), NEW b \in Seq(String), Ascending(a), Ascending(b),
           Range(a) = Range(b), NEW m \in DOMAIN a,
           \A j \in 1..(m - 1) : j \in DOMAIN b /\ a[j] = b[j]
    PROVE  m \in DOMAIN b /\ ~StrLess(a[m], b[m])
  <1>1. /\ DOMAIN a = 1..Len(a) /\ DOMAIN b = 1..Len(b)
        /\ Len(a) \in Nat /\ Len(b) \in Nat /\ m \in Nat
    OBVIOUS
  <1>2. PICK k \in DOMAIN b : b[k] = a[m]
    BY DEF Range
  <1>3. \A j \in DOMAIN a : a[j] \in Seq(Byte)
    <2>1. \A j \in DOMAIN a : a[j] \in String
      OBVIOUS
    <2>2. QED
      BY <2>1, Strings
  <1>4. \A j \in DOMAIN b : b[j] \in Seq(Byte)
    <2>1. \A j \in DOMAIN b : b[j] \in String
      OBVIOUS
    <2>2. QED
      BY <2>1, Strings
  <1>5. ~(k < m)
    <2> SUFFICES ASSUME k < m PROVE FALSE
      OBVIOUS
    <2>1. k \in 1..(m - 1) /\ k \in DOMAIN a
      BY <1>1
    <2>2. a[k] = a[m] /\ StrLess(a[k], a[m])
      BY <1>2, <2>1 DEF Ascending
    <2>3. QED
      BY <1>3, <2>1, <2>2, StrAsymmetry
  <1>6. m \in DOMAIN b
    BY <1>1, <1>5
  <1>7. CASE k = m
    <2>1. a[m] \in Seq(Byte) /\ a[m] = b[m]
      BY <1>2, <1>3, <1>7
    <2>2. QED
      BY <1>6, <2>1, StrAsymmetry
  <1>8. CASE k # m
    <2>1. m < k
      BY <1>1, <1>5, <1>8
    <2>2. StrLess(b[m], a[m])
      BY <1>2, <1>6, <2>1 DEF Ascending
    <2>3. QED
      BY <1>3, <1>4, <1>6, <2>2, StrAsymmetry
  <1>9. QED
    BY <1>7, <1>8

\* Of the same strings there is one ascending list.
LEMMA AscendingUnique ==
    ASSUME NEW a \in Seq(String), NEW b \in Seq(String), Ascending(a), Ascending(b),
           Range(a) = Range(b)
    PROVE  a = b
  <1> DEFINE Bad == {i \in Nat \ {0} : /\ i \in DOMAIN a \/ i \in DOMAIN b
                                       /\ ~(i \in DOMAIN a /\ i \in DOMAIN b /\ a[i] = b[i])}
  <1>1. /\ DOMAIN a = 1..Len(a) /\ DOMAIN b = 1..Len(b)
        /\ Len(a) \in Nat /\ Len(b) \in Nat
    OBVIOUS
  <1>2. CASE Bad = {}
    <2>1. \A i \in Nat \ {0} : i \in DOMAIN a \/ i \in DOMAIN b =>
              i \in DOMAIN a /\ i \in DOMAIN b /\ a[i] = b[i]
      BY <1>2
    <2>2. Len(a) = Len(b)
      <3>1. Len(a) # 0 => Len(a) \in DOMAIN b
        BY <1>1, <2>1
      <3>2. Len(b) # 0 => Len(b) \in DOMAIN a
        BY <1>1, <2>1
      <3>3. Len(a) <= Len(b) /\ Len(b) <= Len(a)
        BY <1>1, <3>1, <3>2
      <3>4. \A x, y \in Nat : x <= y /\ y <= x => x = y
        OBVIOUS
      <3>5. QED
        BY <1>1, <3>3, <3>4, Zenon
    <2>3. \A i \in 1..Len(a) : a[i] = b[i]
      BY <1>1, <2>1
    <2>4. QED
      BY <2>2, <2>3, SeqEqual
  <1>3. CASE Bad # {}
    <2>1. PICK m \in Bad : \A i \in Bad : m <= i
      <3>1. Bad \in SUBSET Nat
        OBVIOUS
      <3>2. QED
        BY <1>3, <3>1, LeastNumber
    <2>2. m \in Nat \ {0} /\ (m \in DOMAIN a \/ m \in DOMAIN b)
      OBVIOUS
    <2>3. \A j \in 1..(m - 1) : j \in DOMAIN a /\ j \in DOMAIN b /\ a[j] = b[j]
      <3> SUFFICES ASSUME NEW j \in 1..(m - 1)
                   PROVE  j \in DOMAIN a /\ j \in DOMAIN b /\ a[j] = b[j]
        OBVIOUS
      <3>1. j \in Nat \ {0} /\ j \notin Bad
        BY <2>1, <2>2
      <3>2. j \in DOMAIN a \/ j \in DOMAIN b
        BY <1>1, <2>2
      <3>3. QED
        BY <3>1, <3>2
    <2>4. m \in DOMAIN a => m \in DOMAIN b /\ ~StrLess(a[m], b[m])
      BY <2>3, NextAscending
    <2>5. m \in DOMAIN b => m \in DOMAIN a /\ ~StrLess(b[m], a[m])
      BY <2>3, NextAscending
    <2>6. /\ m \in DOMAIN a /\ m \in DOMAIN b
          /\ ~StrLess(a[m], b[m]) /\ ~StrLess(b[m], a[m])
      BY <2>2, <2>4, <2>5
    <2>7. a[m] \in Seq(Byte) /\ b[m] \in Seq(Byte)
      <3>1. a[m] \in String /\ b[m] \in String
        BY <2>6
      <3>2. QED
        BY <3>1, Strings
    <2>8. a[m] = b[m]
      BY <2>6, <2>7, StrTrichotomy
    <2>9. QED
      BY <2>6, <2>8
  <1>4. QED
    BY <1>2, <1>3

\* Among the strings from one place on there is a least.
LEMMA LeastString ==
    ASSUME NEW s \in Seq(String), NEW k \in DOMAIN s
    PROVE  \E m \in k..Len(s) : \A l \in k..Len(s) : ~StrLess(s[l], s[m])
  <1> DEFINE n == Len(s) - k
             Least(j, m) == \A l \in k..(k + j) : ~StrLess(s[l], s[m])
             P == {j \in 0..n : \E m \in k..(k + j) : Least(j, m)}
  <1>1. k \in 1..Len(s) /\ Len(s) \in Nat /\ n \in Nat /\ k + n = Len(s)
    <2>1. k \in 1..Len(s) /\ Len(s) \in Nat
      OBVIOUS
    <2>2. \A l \in Nat : \A i \in 1..l : l - i \in Nat /\ i + (l - i) = l
      OBVIOUS
    <2>3. QED
      BY <2>1, <2>2, Zenon
  <1>2. \A l \in k..Len(s) : s[l] \in Seq(Byte)
    <2>1. \A l \in k..Len(s) : s[l] \in String
      BY <1>1
    <2>2. QED
      BY <2>1, Strings
  <1> HIDE DEF n
  <1>3. 0 \in P
    <2>1. \A l \in k..(k + 0) : l = k
      BY <1>1
    <2>2. ~StrLess(s[k], s[k])
      BY <1>1, <1>2, StrAsymmetry
    <2>3. k \in k..(k + 0) /\ Least(0, k) /\ 0 \in 0..n
      BY <1>1, <2>1, <2>2
    <2>4. QED
      BY <2>3
  <1>4. ASSUME NEW j \in 0..n, j # n, j \in P
        PROVE  j + 1 \in P
    <2>1. PICK m \in k..(k + j) : Least(j, m)
      BY <1>4
    <2>2. /\ j + 1 \in 0..n /\ m \in k..(k + (j + 1)) /\ k + (j + 1) \in k..(k + (j + 1))
          /\ m \in k..Len(s) /\ k + (j + 1) \in k..Len(s)
          /\ \A l \in k..(k + (j + 1)) : l = k + (j + 1) \/ l \in k..(k + j)
          /\ \A l \in k..(k + j) : l \in k..Len(s)
      BY <1>1, <1>4
    <2> DEFINE x == s[k + (j + 1)]
    <2>3. x \in Seq(Byte) /\ s[m] \in Seq(Byte)
      BY <1>2, <2>2
    <2>4. CASE ~StrLess(x, s[m])
      <3>1. Least(j + 1, m)
        BY <2>1, <2>2, <2>4
      <3>2. QED
        BY <2>2, <3>1
    <2>5. CASE StrLess(x, s[m])
      <3>1. ASSUME NEW l \in k..(k + j)
            PROVE  ~StrLess(s[l], x)
        <4>1. ~StrLess(s[l], s[m]) /\ s[l] \in Seq(Byte)
          BY <1>2, <2>1, <2>2
        <4> HIDE DEF x
        <4>2. QED
          BY <2>3, <2>5, <4>1, StrTransitivity
      <3>2. ~StrLess(x, x)
        <4> HIDE DEF x
        <4>1. QED
          BY <2>3, StrAsymmetry
      <3>3. Least(j + 1, k + (j + 1))
        BY <2>2, <3>1, <3>2
      <3>4. QED
        BY <2>2, <3>3
    <2>6. QED
      BY <2>4, <2>5
  <1>5. n \in P
    <2>1. \A j \in 0..n : j # n /\ j \in P => j + 1 \in P
      BY <1>4
    <2> HIDE DEF P
    <2>2. \A j \in 0..n : j \in P
      BY <1>1, <1>3, <2>1, UpTo, Zenon
    <2>3. QED
      BY <1>1, <2>2
  <1>6. QED
    BY <1>1, <1>5

\* A list can be sorted: each place in turn is given the least of what is left.
LEMMA Sortable ==
    ASSUME NEW tags \in Seq(String)
    PROVE  \E s \in Permuted(tags) : Ordered(s)
  <1> DEFINE n == Len(tags)
             D == 1..n
             Perm == Bijection(D, D)
             By(p) == [i \in D |-> tags[p[i]]]
             UpToPlace(k, s) == \A i, j \in D : i < j /\ i <= k => ~StrLess(s[j], s[i])
             P == {k \in 0..n : \E p \in Perm : UpToPlace(k, By(p))}
  <1>1. n \in Nat /\ DOMAIN tags = D /\ \A i \in D : tags[i] \in String
    OBVIOUS
  <1> HIDE DEF n
  <1>2. 0 \in P
    <2> DEFINE id == [i \in D |-> i]
    <2>1. id \in Perm
      BY DEF Bijection, Injection, Surjection, IsInjective
    <2>2. UpToPlace(0, By(id))
      BY <1>1
    <2> HIDE DEF UpToPlace, By, id, Perm
    <2>3. QED
      BY <1>1, <2>1, <2>2
  <1>3. ASSUME NEW k \in 0..n, k # n, k \in P
        PROVE  k + 1 \in P
    <2>1. PICK p \in Perm : UpToPlace(k, By(p))
      BY <1>3
    <2> DEFINE s == By(p)
    <2>2. /\ p \in [D -> D]
          /\ \A i, j \in D : p[i] = p[j] => i = j
          /\ \A j \in D : \E i \in D : p[i] = j
      BY DEF Bijection, Injection, Surjection, IsInjective
    <2>3. s \in Seq(String) /\ Len(s) = n /\ DOMAIN s = D /\ k + 1 \in D
      <3>1. s \in [1..n -> String]
        BY <1>1, <2>2
      <3> HIDE DEF s
      <3>2. QED
        BY <1>1, <1>3, <3>1
    <2>4. PICK m \in (k + 1)..n : \A l \in (k + 1)..n : ~StrLess(s[l], s[m])
      <3> HIDE DEF s, D
      <3>1. QED
        BY <2>3, LeastString
    <2> DEFINE sw(i) == IF i = k + 1 THEN m ELSE IF i = m THEN k + 1 ELSE i
               q == [i \in D |-> p[sw(i)]]
    <2>5. m \in D /\ \A i \in D : sw(i) \in D /\ sw(sw(i)) = i
      BY <1>1, <1>3, <2>3
    <2>6. q \in Perm
      <3>1. q \in [D -> D]
        BY <2>2, <2>5
      <3>2. ASSUME NEW i \in D, NEW j \in D, q[i] = q[j]
            PROVE  i = j
        <4>1. p[sw(i)] = p[sw(j)]
          BY <3>2
        <4>2. sw(i) = sw(j) /\ sw(sw(i)) = i /\ sw(sw(j)) = j
          <5> HIDE DEF sw
          <5>1. QED
            BY <2>2, <2>5, <4>1
        <4> HIDE DEF sw
        <4>3. QED
          BY <4>2
      <3>3. ASSUME NEW j \in D
            PROVE  \E i \in D : q[i] = j
        <4>1. PICK i \in D : p[i] = j
          BY <2>2
        <4>2. sw(i) \in D /\ q[sw(i)] = p[sw(sw(i))] /\ sw(sw(i)) = i
          <5> HIDE DEF sw
          <5>1. QED
            BY <2>5
        <4> HIDE DEF sw, q
        <4>3. QED
          BY <4>1, <4>2
      <3> HIDE DEF q
      <3>4. QED
        BY <3>1, <3>2, <3>3 DEF Bijection, Injection, Surjection, IsInjective
    <2>7. \A i \in D : By(q)[i] = s[sw(i)]
      <3> HIDE DEF sw
      <3>1. QED
        BY <2>2, <2>5
    <2>8. UpToPlace(k + 1, By(q))
      <3> SUFFICES ASSUME NEW i \in D, NEW j \in D, i < j, i <= k + 1
                   PROVE  ~StrLess(By(q)[j], By(q)[i])
        OBVIOUS
      <3> HIDE DEF By, q, s
      <3>1. CASE i = k + 1
        <4>1. sw(j) \in (k + 1)..n
          BY <1>1, <1>3, <2>5, <3>1
        <4>2. By(q)[i] = s[m]
          BY <2>7, <3>1
        <4>3. QED
          BY <2>4, <2>7, <4>1, <4>2
      <3>2. CASE i # k + 1
        <4>1. i <= k /\ sw(i) = i /\ sw(j) \in D /\ i < sw(j)
          BY <1>1, <1>3, <2>5, <3>2
        <4>2. ~StrLess(s[sw(j)], s[i])
          <5> HIDE DEF sw
          <5>1. QED
            BY <2>1, <4>1 DEF s
        <4>3. By(q)[i] = s[i] /\ By(q)[j] = s[sw(j)]
          <5> HIDE DEF sw
          <5>1. QED
            BY <2>7, <4>1
        <4>4. QED
          BY <4>2, <4>3
      <3>3. QED
        BY <3>1, <3>2
    <2>9. k + 1 \in 0..n
      BY <1>1, <1>3
    <2> HIDE DEF UpToPlace, By, q, s, Perm, D
    <2>10. QED
      BY <2>6, <2>8, <2>9
  <1>4. n \in P
    <2>1. \A k \in 0..n : k # n /\ k \in P => k + 1 \in P
      BY <1>3
    <2> HIDE DEF P
    <2>2. \A k \in 0..n : k \in P
      BY <1>1, <1>2, <2>1, UpTo, Zenon
    <2>3. QED
      BY <1>1, <2>2
  <1>5. PICK p \in Perm : UpToPlace(n, By(p))
    BY <1>4
  <1>6. By(p) \in Permuted(tags)
    BY <1>1 DEF Permuted
  <1>7. DOMAIN By(p) = D /\ Ordered(By(p))
    BY <1>1, <1>5 DEF Ordered
  <1>8. QED
    BY <1>6, <1>7

\* The tags that are digested are strings, no more than there were, and the same
\* ones for every list of the same strings.
LEMMA RustTagsOf ==
    ASSUME NEW tags \in Seq(String)
    PROVE  /\ RustTags(tags) \in Seq(String) /\ Len(RustTags(tags)) <= Len(tags)
           /\ Range(RustTags(tags)) = Range(tags)
           /\ Ascending(RustTags(tags))
  <1> DEFINE Sorted(s) == \A i, j \in DOMAIN tags : i < j => ~StrLess(s[j], s[i])
             s == CHOOSE x \in Permuted(tags) : Sorted(x)
  <1>1. \E x \in Permuted(tags) : Sorted(x)
    BY Sortable, PermutedType DEF Ordered
  <1>2. s \in Permuted(tags) /\ Sorted(s)
    <2> HIDE DEF Sorted
    <2>1. QED
      BY <1>1
  <1>3. RustTags(tags) = Dedup(s)
    BY DEF RustTags
  <1> HIDE DEF s
  <1>4. /\ s \in Seq(String) /\ Len(s) = Len(tags)
        /\ DOMAIN s = DOMAIN tags /\ Range(s) = Range(tags)
    BY <1>2, PermutedType
  <1>5. Ordered(s)
    BY <1>2, <1>4 DEF Ordered
  <1>6. Kept(s, Len(s), Dedup(s))
    BY <1>4, Dedups
  <1>7. Range(s) = {s[j] : j \in 1..Len(s)}
    BY <1>4 DEF Range
  <1>8. QED
    BY <1>3, <1>4, <1>5, <1>6, <1>7 DEF Kept

LEMMA SameTagSet ==
    ASSUME NEW a \in Seq(String), NEW b \in Seq(String), Range(a) = Range(b)
    PROVE  RustTags(a) = RustTags(b)
  BY RustTagsOf, AscendingUnique

-----------------------------------------------------------------------------
(* What the hash binds *)

Associative(x, y, z) == (x \o y) \o z = x \o (y \o z)

LEMMA Association ==
    ASSUME NEW x \in Seq(Byte), NEW y \in Seq(Byte), NEW z \in Seq(Byte)
    PROVE  Associative(x, y, z)
  BY DEF Associative

\* What remains of the strings of a list after each of them.
LEMMA Remainders ==
    ASSUME NEW ss \in Seq(Seq(Byte))
    PROVE  \E rest \in [0..Len(ss) -> Seq(Byte)] :
               /\ rest[0] = Concat(ss) /\ rest[Len(ss)] = <<>>
               /\ \A i \in 1..Len(ss) : rest[i - 1] = ss[i] \o rest[i]
  <1> DEFINE n == Len(ss)
             S == Seq(Byte)
             step == [j \in 0..n |-> [x \in S |-> IF j = n THEN x ELSE ss[n - j] \o x]]
  <1>1. n \in Nat /\ <<>> \in S /\ \A i \in 1..n : ss[i] \in S
    OBVIOUS
  <1>2. \A x \in S, y \in S : x \o y \in S
    OBVIOUS
  <1>3. step \in [0..n -> [S -> S]]
    <2>1. ASSUME NEW j \in 0..n, NEW x \in S
          PROVE  (IF j = n THEN x ELSE ss[n - j] \o x) \in S
      <3>1. CASE j = n
        BY <3>1
      <3>2. CASE j # n
        <4>1. n - j \in 1..n
          BY <1>1, <3>2
        <4> HIDE DEF S, n
        <4>2. QED
          BY <1>1, <1>2, <3>2, <4>1
      <3>3. QED
        BY <3>1, <3>2
    <2> HIDE DEF S
    <2>2. QED
      BY <2>1
  <1>4. PICK back : Iterated(n, S, <<>>, step, back)
    <2> HIDE DEF n, S, step
    <2>1. QED
      BY <1>1, <1>3, Iteration
  <1> DEFINE rest == [i \in 0..n |-> back[n - i]]
  <1>5. rest \in [0..n -> S] /\ rest[n] = <<>>
    <2>1. back \in [0..n -> S] /\ back[0] = <<>>
      BY <1>4 DEF Iterated
    <2>2. \A i \in 0..n : n - i \in 0..n
      BY <1>1
    <2>3. n \in 0..n /\ n - n = 0
      BY <1>1
    <2> HIDE DEF n, S
    <2>4. QED
      BY <2>1, <2>2, <2>3
  <1>6. ASSUME NEW i \in 1..n
        PROVE  rest[i - 1] = ss[i] \o rest[i]
    <2>1. /\ i - 1 \in 0..n /\ i \in 0..n /\ n - i \in 0..n /\ n - i # n
          /\ (n - i) + 1 = n - (i - 1) /\ n - (n - i) = i
      BY <1>1
    <2>2. back[n - i] \in S
      BY <1>4, <2>1 DEF Iterated
    <2>3. step[n - i][back[n - i]] = ss[i] \o back[n - i]
      BY <2>1, <2>2
    <2>4. back[(n - i) + 1] = step[n - i][back[n - i]]
      <3> HIDE DEF step, S, n
      <3>1. QED
        BY <1>4, <2>1 DEF Iterated
    <2>5. rest[i - 1] = back[n - (i - 1)] /\ rest[i] = back[n - i]
      <3> HIDE DEF n
      <3>1. QED
        BY <2>1
    <2> HIDE DEF n, rest, step
    <2>6. QED
      BY <2>1, <2>3, <2>4, <2>5
  <1> HIDE DEF rest
  <1>7. PICK c : Concatenated(ss, c)
    BY Concats
  <1>8. /\ c \in [0..n -> S] /\ c[0] = <<>> /\ Concat(ss) = c[n]
        /\ \A i \in 1..n : c[i] = c[i - 1] \o ss[i]
    BY <1>7 DEF Concatenated
  <1>9. \A i \in 0..n : c[i] \o rest[i] = rest[0]
    <2> DEFINE P == {i \in 0..n : c[i] \o rest[i] = rest[0]}
    <2>1. 0 \in P
      <3>1. 0 \in 0..n /\ rest[0] \in S
        BY <1>1, <1>5
      <3>2. <<>> \o rest[0] = rest[0]
        BY <3>1
      <3> HIDE DEF n, S
      <3>3. QED
        BY <1>8, <3>1, <3>2
    <2>2. ASSUME NEW i \in 0..n, i # n, i \in P
          PROVE  i + 1 \in P
      <3>1. i + 1 \in 1..n /\ i + 1 \in 0..n /\ (i + 1) - 1 = i
        BY <1>1, <2>2
      <3> HIDE DEF n
      <3>2. c[i + 1] = c[i] \o ss[i + 1] /\ rest[i] = ss[i + 1] \o rest[i + 1]
        BY <1>6, <1>8, <3>1
      <3>3. c[i] \in S /\ ss[i + 1] \in S /\ rest[i + 1] \in S
        BY <1>1, <1>5, <1>8, <3>1
      <3>4. (c[i] \o ss[i + 1]) \o rest[i + 1] = c[i] \o (ss[i + 1] \o rest[i + 1])
        <4>1. Associative(c[i], ss[i + 1], rest[i + 1])
          BY <3>3, Association
        <4>2. QED
          BY <4>1 DEF Associative
      <3>5. QED
        BY <2>2, <3>1, <3>2, <3>4
    <2>3. \A i \in 0..n : i # n /\ i \in P => i + 1 \in P
      BY <2>2
    <2> HIDE DEF P
    <2>4. \A i \in 0..n : i \in P
      BY <1>1, <2>1, <2>3, UpTo, Zenon
    <2>5. QED
      BY <2>4 DEF P
  <1>10. rest[0] = Concat(ss)
    <2>1. n \in 0..n /\ c[n] \in S
      BY <1>1, <1>8
    <2>2. c[n] \o <<>> = c[n]
      BY <2>1
    <2> HIDE DEF n, S
    <2>3. QED
      BY <1>5, <1>8, <1>9, <2>1, <2>2
  <1>11. QED
    BY <1>5, <1>6, <1>10

\* The tags are read back from their bytes.
LEMMA ReadTags ==
    ASSUME NEW tags \in Seq(String)
    PROVE  /\ Concat([i \in DOMAIN tags |-> put_lp(tags[i])]) \in Seq(Byte)
           /\ ReadStrings(Concat([i \in DOMAIN tags |-> put_lp(tags[i])]), Len(tags))
              = <<tags, <<>> >>
  <1> DEFINE ss == [i \in DOMAIN tags |-> put_lp(tags[i])]
  <1>1. \A i \in 1..Len(tags) : put_lp(tags[i]) \in Seq(Byte)
    <2>1. \A i \in 1..Len(tags) : tags[i] \in String
      OBVIOUS
    <2>2. QED
      BY <2>1, PutLpType
  <1>2. ss \in Seq(Seq(Byte)) /\ Len(ss) = Len(tags)
    <2>1. DOMAIN tags = 1..Len(tags) /\ Len(tags) \in Nat
      OBVIOUS
    <2>2. ss \in [1..Len(tags) -> Seq(Byte)]
      BY <1>1, <2>1
    <2> HIDE DEF ss
    <2>3. QED
      BY <2>1, <2>2
  <1>3. \A i \in 1..Len(tags) : ss[i] = put_lp(tags[i])
    OBVIOUS
  <1> HIDE DEF ss
  <1>4. PICK rest \in [0..Len(ss) -> Seq(Byte)] :
            /\ rest[0] = Concat(ss) /\ rest[Len(ss)] = <<>>
            /\ \A i \in 1..Len(ss) : rest[i - 1] = ss[i] \o rest[i]
    BY <1>2, Remainders
  <1>5. /\ rest \in [0..Len(tags) -> Seq(Byte)]
        /\ \A i \in 1..Len(tags) : rest[i - 1] = put_lp(tags[i]) \o rest[i]
    BY <1>2, <1>3, <1>4
  <1>6. ReadStrings(rest[0], Len(tags)) = <<tags, rest[Len(tags)]>>
    BY <1>5, ReadMany
  <1>7. rest[0] \in Seq(Byte)
    BY <1>5
  <1>8. QED
    BY <1>2, <1>4, <1>6, <1>7 DEF ss

\* The parts that are digested, the last first.
Nests(a, b, c, d, e, rest) ==
    a \o b \o c \o d \o e \o rest = a \o (b \o (c \o (d \o (e \o rest))))

LEMMA Nested ==
    ASSUME NEW a \in Seq(Byte), NEW b \in Seq(Byte), NEW c \in Seq(Byte),
           NEW d \in Seq(Byte), NEW e \in Seq(Byte), NEW rest \in Seq(Byte)
    PROVE  Nests(a, b, c, d, e, rest)
  <1> DEFINE S == Seq(Byte)
  <1>1. \A x, y \in S : x \o y \in S
    OBVIOUS
  <1>2. \A x, y, z \in S : Associative(x, y, z)
    BY Association
  <1>3. a \in S /\ b \in S /\ c \in S /\ d \in S /\ e \in S /\ rest \in S
    OBVIOUS
  <1> HIDE DEF S
  <1>4. /\ a \o b \in S /\ a \o b \o c \in S /\ a \o b \o c \o d \in S
        /\ e \o rest \in S /\ d \o (e \o rest) \in S /\ c \o (d \o (e \o rest)) \in S
    BY <1>1, <1>3
  <1>5. /\ Associative(a \o b \o c \o d, e, rest)
        /\ Associative(a \o b \o c, d, e \o rest)
        /\ Associative(a \o b, c, d \o (e \o rest))
        /\ Associative(a, b, c \o (d \o (e \o rest)))
    BY <1>2, <1>3, <1>4, Zenon
  <1>6. QED
    BY <1>5, Zenon DEF Associative, Nests

\* The five strings at the head, and the rest.
Headed(a, b, c, d, e, rest) ==
    put_lp(a) \o put_lp(b) \o put_lp(c) \o put_lp(d) \o put_lp(e) \o rest

\* The five strings at the head are read back, and the rest remains.
LEMMA ReadFive ==
    ASSUME NEW a \in String, NEW b \in String, NEW c \in String, NEW d \in String,
           NEW e \in String, NEW rest \in Seq(Byte)
    PROVE  ReadStrings(Headed(a, b, c, d, e, rest), 5) = << <<a, b, c, d, e>>, rest>>
  <1> DEFINE ss == <<a, b, c, d, e>>
             r5 == rest
             r4 == put_lp(e) \o r5
             r3 == put_lp(d) \o r4
             r2 == put_lp(c) \o r3
             r1 == put_lp(b) \o r2
             r0 == put_lp(a) \o r1
             r == [i \in 0..5 |-> IF i = 0 THEN r0 ELSE IF i = 1 THEN r1 ELSE IF i = 2 THEN r2
                                  ELSE IF i = 3 THEN r3 ELSE IF i = 4 THEN r4 ELSE r5]
  <1>1. ss \in Seq(String) /\ Len(ss) = 5
    OBVIOUS
  <1>2. /\ put_lp(a) \in Seq(Byte) /\ put_lp(b) \in Seq(Byte) /\ put_lp(c) \in Seq(Byte)
        /\ put_lp(d) \in Seq(Byte) /\ put_lp(e) \in Seq(Byte)
    BY PutLpType
  <1>3. \A x, y \in Seq(Byte) : x \o y \in Seq(Byte)
    OBVIOUS
  <1>4. /\ r5 \in Seq(Byte) /\ r4 \in Seq(Byte) /\ r3 \in Seq(Byte)
        /\ r2 \in Seq(Byte) /\ r1 \in Seq(Byte) /\ r0 \in Seq(Byte)
    BY <1>2, <1>3
  <1>5. /\ ss[1] = a /\ ss[2] = b /\ ss[3] = c /\ ss[4] = d /\ ss[5] = e
        /\ r0 = put_lp(a) \o r1 /\ r1 = put_lp(b) \o r2 /\ r2 = put_lp(c) \o r3
        /\ r3 = put_lp(d) \o r4 /\ r4 = put_lp(e) \o r5
    OBVIOUS
  <1> HIDE DEF r0, r1, r2, r3, r4, r5, ss
  <1>6. /\ r \in [0..5 -> Seq(Byte)]
        /\ r[0] = r0 /\ r[1] = r1 /\ r[2] = r2 /\ r[3] = r3 /\ r[4] = r4 /\ r[5] = r5
    BY <1>4
  <1> HIDE DEF r
  <1>7. \A i \in 1..5 : r[i - 1] = put_lp(ss[i]) \o r[i]
    <2>1. \A i \in 1..5 : i = 1 \/ i = 2 \/ i = 3 \/ i = 4 \/ i = 5
      OBVIOUS
    <2>2. 1 - 1 = 0 /\ 2 - 1 = 1 /\ 3 - 1 = 2 /\ 4 - 1 = 3 /\ 5 - 1 = 4
      OBVIOUS
    <2>3. QED
      BY <1>5, <1>6, <2>1, <2>2
  <1>8. ReadStrings(r[0], Len(ss)) = <<ss, r[Len(ss)]>>
    <2>1. r \in [0..Len(ss) -> Seq(Byte)] /\ \A i \in 1..Len(ss) : r[i - 1] = put_lp(ss[i]) \o r[i]
      BY <1>1, <1>6, <1>7
    <2>2. QED
      BY <1>1, <2>1, ReadMany
  <1>9. Headed(a, b, c, d, e, rest) = r0
    <2>1. Nests(put_lp(a), put_lp(b), put_lp(c), put_lp(d), put_lp(e), rest)
      BY <1>2, Nested, Zenon
    <2>2. QED
      BY <2>1, Zenon DEF Nests, Headed, r0, r1, r2, r3, r4, r5
  <1>10. QED
    BY <1>1, <1>6, <1>8, <1>9, Zenon DEF ss, r5

\* The two numbers, the count of the tags, and the tags.
Numbers(x, y, n, rest) ==
    LittleEndian(x, W64) \o (LittleEndian(y, W64) \o (LittleEndian(n, W32) \o rest))

\* The numbers and the count are read back, and the tags remain.
LEMMA ReadNumbers ==
    ASSUME NEW x \in 0..(Power[W64] - 1), NEW y \in 0..(Power[W64] - 1),
           NEW n \in 0..(Power[W32] - 1), NEW rest \in Seq(Byte)
    PROVE  /\ Numbers(x, y, n, rest) \in Seq(Byte)
           /\ Value(Take(Numbers(x, y, n, rest), W64)) = x
           /\ Value(Take(Drop(Numbers(x, y, n, rest), W64), W64)) = y
           /\ Value(Take(Drop(Numbers(x, y, n, rest), 2 * W64), W32)) = n
           /\ Drop(Numbers(x, y, n, rest), 2 * W64 + W32) = rest
  <1> DEFINE a == LittleEndian(x, W64)
             b == LittleEndian(y, W64)
             c == LittleEndian(n, W32)
             all == a \o (b \o (c \o rest))
  <1>1. W32 \in Nat /\ W64 \in Nat /\ x \in Nat /\ y \in Nat /\ n \in Nat
    BY HashAssumption
  <1>2. /\ a \in Seq(Byte) /\ Len(a) = W64 /\ Value(a) = x
        /\ b \in Seq(Byte) /\ Len(b) = W64 /\ Value(b) = y
        /\ c \in Seq(Byte) /\ Len(c) = W32 /\ Value(c) = n
    BY <1>1, LittleEndianType, ReadNumber
  <1> HIDE DEF a, b, c
  <1>3. c \o rest \in Seq(Byte) /\ b \o (c \o rest) \in Seq(Byte) /\ all \in Seq(Byte)
    BY <1>2
  <1>4. Take(all, W64) = a /\ Drop(all, W64) = b \o (c \o rest)
    BY <1>2, <1>3, TakeDrop
  <1>5. Take(b \o (c \o rest), W64) = b
    BY <1>2, <1>3, TakeDrop
  <1>6. W64 + W64 = 2 * W64
    BY <1>1
  <1>7. Drop(all, 2 * W64) = c \o rest
    <2> DEFINE d == c \o rest
    <2>1. d \in Seq(Byte)
      BY <1>3
    <2> HIDE DEF d
    <2>2. Drop(a \o (b \o d), Len(a) + Len(b)) = d
      BY <1>2, <2>1, DropTwo
    <2>3. QED
      BY <1>2, <1>6, <2>2, Zenon DEF d
  <1>8. Take(c \o rest, W32) = c
    BY <1>2, TakeDrop
  <1>9. Drop(all, 2 * W64 + W32) = rest
    <2>1. a \o b \in Seq(Byte) /\ Len(a \o b) = W64 + W64
      BY <1>2
    <2>2. (a \o b) \o (c \o rest) = all
      <3>1. Associative(a, b, c \o rest)
        BY <1>2, <1>3, Association, Zenon
      <3>2. QED
        BY <3>1, Zenon DEF Associative
    <2>3. Drop((a \o b) \o (c \o rest), Len(a \o b) + Len(c)) = rest
      BY <1>2, <2>1, DropTwo
    <2>4. QED
      BY <1>2, <1>6, <2>1, <2>2, <2>3, Zenon
  <1> HIDE DEF all
  <1>10. Numbers(x, y, n, rest) = all
    BY Zenon DEF Numbers, all, a, b, c
  <1>11. QED
    BY <1>2, <1>3, <1>4, <1>5, <1>7, <1>8, <1>9, <1>10, Zenon

\* The bytes that are digested: five strings, and the rest as above.
LEMMA DigestedBytes ==
    ASSUME NEW e \in Envelope,
           NEW tags \in Seq(String), tags = RustTags(e.tags), Len(tags) \in 0..(Power[W32] - 1),
           NEW body, body = Concat([i \in DOMAIN tags |-> put_lp(tags[i])])
    PROVE  canonical_metadata_bytes(e) =
               Headed(Domain, e.cid, e.title, e.description, e.content_type,
                      Numbers(e.size_bytes, e.timestamp, Len(tags), body))
  <1> DEFINE five == put_lp(Domain) \o put_lp(e.cid) \o put_lp(e.title) \o put_lp(e.description)
                         \o put_lp(e.content_type)
             a == LittleEndian(e.size_bytes, W64)
             b == LittleEndian(e.timestamp, W64)
             c == LittleEndian(Len(tags), W32)
  <1>1. \A x, y \in Seq(Byte) : x \o y \in Seq(Byte)
    OBVIOUS
  <1>2. five \in Seq(Byte)
    <2>1. /\ Domain \in String /\ e.cid \in String /\ e.title \in String
          /\ e.description \in String /\ e.content_type \in String
      BY HashAssumption DEF Envelope
    <2>2. /\ put_lp(Domain) \in Seq(Byte) /\ put_lp(e.cid) \in Seq(Byte)
          /\ put_lp(e.title) \in Seq(Byte) /\ put_lp(e.description) \in Seq(Byte)
          /\ put_lp(e.content_type) \in Seq(Byte)
      BY <2>1, PutLpType
    <2>3. QED
      BY <1>1, <2>2
  <1>3. a \in Seq(Byte) /\ b \in Seq(Byte) /\ c \in Seq(Byte) /\ body \in Seq(Byte)
    <2>1. e.size_bytes \in Sizes /\ e.timestamp \in Times
      BY DEF Envelope
    <2>2. e.size_bytes \in Nat /\ e.timestamp \in Nat /\ Len(tags) \in Nat
          /\ W32 \in Nat /\ W64 \in Nat
      BY <2>1, HashAssumption
    <2>3. QED
      BY <2>2, LittleEndianType, ReadTags
  <1>4. canonical_metadata_bytes(e) = five \o a \o b \o c \o body
    BY Zenon DEF canonical_metadata_bytes
  <1> HIDE DEF five, a, b, c
  <1>5. five \o a \in Seq(Byte) /\ five \o a \o b \in Seq(Byte)
        /\ c \o body \in Seq(Byte) /\ b \o (c \o body) \in Seq(Byte)
    BY <1>1, <1>2, <1>3
  <1>6. /\ Associative(five \o a \o b, c, body)
        /\ Associative(five \o a, b, c \o body)
        /\ Associative(five, a, b \o (c \o body))
    <2>1. \A x, y, z \in Seq(Byte) : Associative(x, y, z)
      BY Association
    <2>2. QED
      BY <1>2, <1>3, <1>5, <2>1, Zenon
  <1>7. five \o a \o b \o c \o body = five \o (a \o (b \o (c \o body)))
    BY <1>6, Zenon DEF Associative
  <1>8. QED
    BY <1>4, <1>7, Zenon DEF Headed, Numbers, five, a, b, c

\* What is read back from the bytes is what the envelope holds.
ReadsAs(bytes, e) ==
    LET numbers == ReadStrings(bytes, 5)[2]
        tags == ReadStrings(Drop(numbers, 2 * W64 + W32),
                            Value(Take(Drop(numbers, 2 * W64), W32)))
    IN  /\ ReadStrings(bytes, 5)[1]
           = <<Domain, e.cid, e.title, e.description, e.content_type>>
        /\ Value(Take(numbers, W64)) = e.size_bytes
        /\ Value(Take(Drop(numbers, W64), W64)) = e.timestamp
        /\ Range(tags[1]) = Range(e.tags)
        /\ tags[2] = <<>>

\* Everything can be read back from the bytes that an envelope is digested from.
THEOREM ReadBack ==
    ASSUME NEW e \in Envelope
    PROVE  ReadsAs(canonical_metadata_bytes(e), e)
  <1> DEFINE bytes == canonical_metadata_bytes(e)
  <1> DEFINE T == RustTags(e.tags)
             body == Concat([i \in DOMAIN T |-> put_lp(T[i])])
             rest == Numbers(e.size_bytes, e.timestamp, Len(T), body)
  <1>1. e.tags \in Seq(String) /\ Len(e.tags) < Power[W32]
    BY HashAssumption DEF Envelope
  <1>2. T \in Seq(String) /\ Len(T) <= Len(e.tags) /\ Range(T) = Range(e.tags)
    BY <1>1, RustTagsOf
  <1>3. Len(T) \in 0..(Power[W32] - 1)
    <2>1. Len(T) \in Nat /\ Len(e.tags) \in Nat
      BY <1>1, <1>2
    <2>2. Power[W32] \in Nat
      BY Powers, HashAssumption
    <2> HIDE DEF T
    <2>3. QED
      BY <1>1, <1>2, <2>1, <2>2
  <1> HIDE DEF T
  <1>4. body \in Seq(Byte) /\ ReadStrings(body, Len(T)) = <<T, <<>> >>
    BY <1>2, ReadTags
  <1> HIDE DEF body
  <1>5. /\ e.size_bytes \in 0..(Power[W64] - 1) /\ e.timestamp \in 0..(Power[W64] - 1)
        /\ Domain \in String /\ e.cid \in String /\ e.title \in String
        /\ e.description \in String /\ e.content_type \in String
    BY HashAssumption DEF Envelope
  <1>6. /\ rest \in Seq(Byte)
        /\ Value(Take(rest, W64)) = e.size_bytes
        /\ Value(Take(Drop(rest, W64), W64)) = e.timestamp
        /\ Value(Take(Drop(rest, 2 * W64), W32)) = Len(T)
        /\ Drop(rest, 2 * W64 + W32) = body
    BY <1>3, <1>4, <1>5, ReadNumbers
  <1> HIDE DEF rest
  <1>7. bytes = Headed(Domain, e.cid, e.title, e.description, e.content_type, rest)
    BY <1>2, <1>3, DigestedBytes, Zenon DEF T, body, rest
  <1> HIDE DEF bytes
  <1> DEFINE numbers == ReadStrings(bytes, 5)[2]
             tags == ReadStrings(Drop(numbers, 2 * W64 + W32),
                                 Value(Take(Drop(numbers, 2 * W64), W32)))
  <1>8. ReadStrings(bytes, 5)
        = << <<Domain, e.cid, e.title, e.description, e.content_type>>, rest>>
    <2>1. ReadStrings(Headed(Domain, e.cid, e.title, e.description, e.content_type, rest), 5)
          = << <<Domain, e.cid, e.title, e.description, e.content_type>>, rest>>
      <3>1. \A x1, x2, x3, x4, x5 \in String, x6 \in Seq(Byte) :
                ReadStrings(Headed(x1, x2, x3, x4, x5, x6), 5) = << <<x1, x2, x3, x4, x5>>, x6>>
        BY ReadFive
      <3> DEFINE a == e.cid
                 b == e.title
                 c == e.description
                 d == e.content_type
      <3>2. /\ Domain \in String /\ a \in String /\ b \in String /\ c \in String
            /\ d \in String /\ rest \in Seq(Byte)
        BY <1>5, <1>6
      <3> HIDE DEF a, b, c, d
      <3>3. ReadStrings(Headed(Domain, a, b, c, d, rest), 5) = << <<Domain, a, b, c, d>>, rest>>
        BY <3>1, <3>2
      <3>4. QED
        BY <3>3 DEF a, b, c, d
    <2>2. QED
      BY <1>7, <2>1
  <1>9. numbers = rest
    BY <1>8
  <1>10. tags = <<T, <<>> >>
    <2> HIDE DEF numbers
    <2>1. QED
      BY <1>4, <1>6, <1>9, Zenon
  <1> HIDE DEF tags, numbers
  <1>11. tags[1] = T /\ tags[2] = <<>>
    BY <1>10
  <1>12. ReadStrings(bytes, 5)[1] = <<Domain, e.cid, e.title, e.description, e.content_type>>
    BY <1>8
  <1>13. ReadsAs(bytes, e)
    BY <1>2, <1>6, <1>9, <1>11, <1>12, Zenon DEF ReadsAs, numbers, tags
  <1>14. QED
    BY <1>13 DEF bytes

\* Only the set of the tags is digested.
LEMMA TagOrderLost ==
    ASSUME NEW e \in Envelope, NEW list \in TagLists, Range(list) = Range(e.tags)
    PROVE  canonical_metadata_bytes([e EXCEPT !.tags = list]) = canonical_metadata_bytes(e)
  <1> DEFINE f == [e EXCEPT !.tags = list]
  <1>1. /\ f.cid = e.cid /\ f.title = e.title /\ f.description = e.description
        /\ f.content_type = e.content_type /\ f.size_bytes = e.size_bytes
        /\ f.timestamp = e.timestamp /\ f.tags = list
    BY DEF Envelope
  <1>2. RustTags(list) = RustTags(e.tags)
    <2>1. list \in Seq(String) /\ e.tags \in Seq(String)
      BY HashAssumption DEF Envelope
    <2>2. QED
      BY <2>1, SameTagSet
  <1> HIDE DEF f
  <1>3. canonical_metadata_bytes(f) = canonical_metadata_bytes(e)
    BY <1>1, <1>2, Zenon DEF canonical_metadata_bytes
  <1>4. QED
    BY <1>3 DEF f

\* Two envelopes are digested alike exactly if they differ at most in the order and
\* the repetition of their tags, and in the schema version, which stands in the
\* domain ("two envelopes that differ only in tag order or repeated tags hash
\* identically", hash.rs).
THEOREM DigestedAlike ==
    ASSUME NEW e \in Envelope, NEW f \in Envelope
    PROVE  canonical_metadata_bytes(e) = canonical_metadata_bytes(f) <=>
               /\ e.cid = f.cid /\ e.title = f.title /\ e.description = f.description
               /\ e.content_type = f.content_type /\ e.size_bytes = f.size_bytes
               /\ e.timestamp = f.timestamp /\ Range(e.tags) = Range(f.tags)
  <1>1. ASSUME canonical_metadata_bytes(e) = canonical_metadata_bytes(f)
        PROVE  /\ e.cid = f.cid /\ e.title = f.title /\ e.description = f.description
               /\ e.content_type = f.content_type /\ e.size_bytes = f.size_bytes
               /\ e.timestamp = f.timestamp /\ Range(e.tags) = Range(f.tags)
    <2> DEFINE bytes == canonical_metadata_bytes(e)
    <2>1. ReadsAs(bytes, e)
      BY ReadBack
    <2>2. ReadsAs(bytes, f)
      BY <1>1, ReadBack
    <2> HIDE DEF bytes
    <2>3. <<Domain, e.cid, e.title, e.description, e.content_type>>
          = <<Domain, f.cid, f.title, f.description, f.content_type>>
      BY <2>1, <2>2, Zenon DEF ReadsAs
    <2>4. /\ e.size_bytes = f.size_bytes /\ e.timestamp = f.timestamp
          /\ Range(e.tags) = Range(f.tags)
      BY <2>1, <2>2, Zenon DEF ReadsAs
    <2>5. QED
      BY <2>3, <2>4
  <1>2. ASSUME e.cid = f.cid, e.title = f.title, e.description = f.description,
               e.content_type = f.content_type, e.size_bytes = f.size_bytes,
               e.timestamp = f.timestamp, Range(e.tags) = Range(f.tags)
        PROVE  canonical_metadata_bytes(e) = canonical_metadata_bytes(f)
    <2>1. RustTags(e.tags) = RustTags(f.tags)
      <3>1. e.tags \in Seq(String) /\ f.tags \in Seq(String)
        BY HashAssumption DEF Envelope
      <3>2. QED
        BY <1>2, <3>1, SameTagSet
    <2>2. QED
      BY <1>2, <2>1, Zenon DEF canonical_metadata_bytes
  <1>3. QED
    BY <1>1, <1>2

\* What the anchorer digests binds every field of the envelope it has parsed, the
\* tags as a set, and that set alone.
THEOREM HashAlwaysBinds == Spec => []HashBinds
  <1>1. EnvelopeInv => HashBinds
    <2> SUFFICES ASSUME EnvelopeInv, pc = "hashed" PROVE HashBinds
      BY DEF HashBinds
    <2>1. env \in Envelope /\ hashed = canonical_metadata_bytes(env) /\ validate(env)
      BY DEF EnvelopeInv
    <2>2. env.schema_version = SCHEMA_VERSION
      BY <2>1 DEF validate
    <2>3. \A list \in TagLists : Range(list) = Range(env.tags) =>
              canonical_metadata_bytes([env EXCEPT !.tags = list]) = hashed
      BY <2>1, TagOrderLost
    <2>4. ReadsAs(hashed, env)
      BY <2>1, ReadBack
    <2>5. QED
      BY <2>2, <2>3, <2>4, Zenon DEF HashBinds, ReadsAs
  <1>2. QED
    BY <1>1, EnvelopeInvariant, PTL

=============================================================================
