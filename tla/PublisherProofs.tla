-------------------------- MODULE PublisherProofs --------------------------
(***************************************************************************)
(* Proofs about Publisher, for any number of concurrent calls and retries. *)
(***************************************************************************)
EXTENDS Publisher, WellFoundedInduction, TLAPS

\* A call that has passed the lock of `seen` with a CID nobody had marked.
Claims(c) == pc[c] \in {"publishing", "sent", "delivery failed"}

\* A claim marks its CID, and no two calls claim the same one.
ClaimsUnique ==
    /\ \A c \in Call : Claims(c) => Content[c] \in seen
    /\ \A c, d \in Call : Claims(c) /\ Claims(d) /\ Content[c] = Content[d] => c = d

\* Only a call with a claim relays its envelope.
RelayedClaimed == \A c \in relayed : pc[c] \in {"sent", "delivery failed"}

\* A call reaches the broadcast with its content stored.
PastUpload ==
    \A c \in Call : pc[c] \in {"broadcasting", "publishing", "sent", "delivery failed"}
                        => Content[c] \in stored

\* A call in upload() has failed at most max_retries times, and the error of one
\* that gave up is permanent or the last of 1 + max_retries.
AttemptsBounded ==
    \A c \in Call :
        /\ pc[c] # "upload failed" => attempt[c] <= policy.max_retries
        /\ pc[c] = "upload failed" /\ c \notin permanent => attempt[c] = policy.max_retries + 1

\* A call has slept once for each of its failures, but not after the last.
SleptCounted ==
    \A c \in Call :
        attempt[c] = IF pc[c] \in {"backoff", "upload failed"}
                     THEN Len(slept[c]) + 1 ELSE Len(slept[c])

\* The inductive invariant.
Inv == /\ TypeOK /\ ClaimsUnique /\ RelayedClaimed /\ PastUpload
       /\ AttemptsBounded /\ SleptCounted

\* A delay is a Duration, and never above max_delay.
LEMMA DelayBounded ==
    ASSUME NEW p \in Policy, NEW retry
    PROVE  delay_for(p, retry) \in 0..DurationMax /\ delay_for(p, retry) <= p.max
<1>1. p.max \in 0..DurationMax
      BY DEF Policy
<1> DEFINE inner == Saturate(p.base * saturating_pow(p.multiplier,
                                 IF retry = 0 THEN 0 ELSE retry - 1), DurationMax)
<1>2. inner \in 0..DurationMax
      BY WidthAssumption DEF Saturate
<1>3. delay_for(p, retry) = Saturate(inner, p.max)
      BY Zenon DEF delay_for
<1> HIDE DEF inner
<1> QED BY <1>1, <1>2, <1>3, WidthAssumption DEF Saturate

\* The least-number principle, for sets of naturals.
LEMMA LeastElement ==
    ASSUME NEW S \in SUBSET Nat, S # {}
    PROVE  \E m \in S : \A k \in S : m <= k
<1> DEFINE Less == {p \in Nat \X Nat : p[1] < p[2]}
<1>1. Less = OpToRel(<, Nat)
      BY DEF OpToRel
<1>2. IsWellFoundedOn(Less, Nat)
      BY <1>1, NatLessThanWellFounded
<1>3. PICK m \in S : \A k \in S : <<k, m>> \notin Less
      BY <1>2, WFMin
<1>4. ASSUME NEW k \in S
      PROVE  m <= k
  <2>1. m \in Nat /\ k \in Nat /\ ~(k < m)
        BY <1>3
  <2> QED BY <2>1
<1> QED BY <1>4

\* The powers of m up to the n-th.
Powers(m, n, f) ==
    /\ f \in [0..n -> Nat]
    /\ f[0] = 1
    /\ \A i \in 0..n : i + 1 \in 0..n => f[i + 1] = m * f[i]

\* They exist for every n: else the least n for which they do not follows one
\* for which they do.
LEMMA PowersExist ==
    ASSUME NEW m \in Nat, NEW n \in Nat
    PROVE  \E f : Powers(m, n, f)
<1> DEFINE Bad == {k \in Nat : ~ \E f : Powers(m, k, f)}
<1> SUFFICES ASSUME Bad # {} PROVE FALSE
    OBVIOUS
<1>1. PICK k \in Bad : \A j \in Bad : k <= j
      BY LeastElement
<1>2. k # 0
  <2>1. Powers(m, 0, [i \in 0..0 |-> 1])
        BY DEF Powers
  <2> QED BY <2>1
<1>3. PICK j \in Nat : j + 1 = k
  <2>1. k \in Nat /\ k - 1 \in Nat /\ (k - 1) + 1 = k
        BY <1>2
  <2> QED BY <2>1
<1>4. j \notin Bad
      BY <1>1, <1>3
<1>5. PICK f : Powers(m, j, f)
      BY <1>4
<1> DEFINE g == [i \in 0..k |-> IF i = k THEN m * f[j] ELSE f[i]]
<1>6. m * f[j] \in Nat
  <2>1. f[j] \in Nat
        BY <1>5 DEF Powers
  <2> QED BY <2>1
<1>7. g \in [0..k -> Nat] /\ g[0] = 1
      BY <1>2, <1>3, <1>5, <1>6 DEF Powers
<1>8. ASSUME NEW i \in 0..k, i + 1 \in 0..k
      PROVE  g[i + 1] = m * g[i]
  <2>1. CASE i = j
        BY <1>3, <1>8, <2>1
  <2>2. CASE i # j
    <3>1. i \in 0..j /\ i + 1 \in 0..j /\ i # k /\ i + 1 # k
          BY <1>3, <1>8, <2>2
    <3> QED BY <1>5, <1>8, <3>1 DEF Powers
  <2> QED BY <2>1, <2>2
<1>9. Powers(m, k, g)
      BY <1>7, <1>8 DEF Powers
<1> QED BY <1>9

\* ... and are the same wherever two such lists both have them.
LEMMA PowersAgree ==
    ASSUME NEW m \in Nat, NEW n \in Nat, NEW f, Powers(m, n, f),
           NEW k \in Nat, NEW g, Powers(m, k, g),
           NEW i \in 0..n, i \in 0..k
    PROVE  f[i] = g[i]
<1> DEFINE Bad == {j \in 0..n : j \in 0..k /\ f[j] # g[j]}
<1> SUFFICES ASSUME Bad # {} PROVE FALSE
    OBVIOUS
<1>1. PICK j \in Bad : \A l \in Bad : j <= l
  <2>1. Bad \in SUBSET Nat
        OBVIOUS
  <2> QED BY <2>1, LeastElement
<1>2. j # 0
      BY DEF Powers
<1>3. PICK l \in Nat : l + 1 = j
  <2>1. j \in Nat /\ j - 1 \in Nat /\ (j - 1) + 1 = j
        BY <1>2
  <2> QED BY <2>1
<1>4. l \in 0..n /\ l \in 0..k /\ l \notin Bad
      BY <1>1, <1>3
<1>5. f[j] = m * f[l] /\ g[j] = m * g[l]
      BY <1>3, <1>4 DEF Powers
<1> QED BY <1>4, <1>5

\* The power that saturating_pow saturates: 1, and then m times the one before.
LEMMA PowerStep ==
    ASSUME NEW m \in Nat
    PROVE  \E pow \in [Nat -> Nat] :
               /\ pow[0] = 1
               /\ \A i \in Nat : pow[i + 1] = m * pow[i]
               /\ \A n \in Nat : saturating_pow(m, n) = Saturate(pow[n], U32Max)
<1> DEFINE Upto(n) == CHOOSE f : Powers(m, n, f)
           F == [n \in Nat |-> Upto(n)[n]]
           Def(pow) == pow = [i \in Nat |-> IF i = 0 THEN 1 ELSE m * pow[i - 1]]
           pow == CHOOSE g : Def(g)
<1>1. \A n \in Nat : Powers(m, n, Upto(n))
      BY PowersExist
<1>2. F \in [Nat -> Nat] /\ F[0] = 1
  <2>1. ASSUME NEW n \in Nat
        PROVE  Upto(n)[n] \in Nat /\ Upto(n)[0] = 1
    <3>1. n \in 0..n /\ Powers(m, n, Upto(n))
          BY <1>1
    <3> QED BY <3>1 DEF Powers
  <2> HIDE DEF Upto
  <2> QED BY <2>1
<1>3. ASSUME NEW i \in Nat
      PROVE  F[i + 1] = m * F[i]
  <2>1. /\ i + 1 \in Nat /\ i \in 0..(i + 1) /\ i \in 0..i
        /\ i + 1 \in 0..(i + 1)
        OBVIOUS
  <2>2. Upto(i + 1)[i + 1] = m * Upto(i + 1)[i]
        BY <1>1, <2>1 DEF Powers
  <2>3. Upto(i + 1)[i] = Upto(i)[i]
        BY <1>1, <2>1, PowersAgree
  <2> QED BY <2>1, <2>2, <2>3
<1> HIDE DEF F
<1>4. Def(F)
  <2>1. ASSUME NEW i \in Nat, i # 0
        PROVE  F[i] = m * F[i - 1]
    <3>1. i - 1 \in Nat /\ (i - 1) + 1 = i
          BY <2>1
    <3> QED BY <1>3, <3>1
  <2> QED BY <1>2, <2>1
<1>5. Def(pow)
      BY <1>4
<1>6. \A n : saturating_pow(m, n) = Saturate(pow[n], U32Max)
      BY DEF saturating_pow
<1> HIDE DEF pow
<1>7. pow[0] = 1
      BY <1>5
<1>8. ASSUME NEW i \in Nat
      PROVE  pow[i + 1] = m * pow[i]
  <2>1. i + 1 \in Nat /\ i + 1 # 0 /\ (i + 1) - 1 = i
        OBVIOUS
  <2> QED BY <1>5, <2>1
<1>9. pow \in [Nat -> Nat]
  <2> DEFINE Bad == {n \in Nat : pow[n] \notin Nat}
  <2>1. ASSUME Bad # {} PROVE FALSE
    <3>1. PICK n \in Bad : \A k \in Bad : n <= k
          BY <2>1, LeastElement
    <3>2. n # 0
          BY <1>7
    <3>3. PICK l \in Nat : l + 1 = n
      <4>1. n \in Nat /\ n - 1 \in Nat /\ (n - 1) + 1 = n
            BY <3>2
      <4> QED BY <4>1
    <3>4. pow[l] \in Nat
          BY <3>1, <3>3
    <3>5. m * pow[l] \in Nat
          BY <3>4
    <3> QED BY <1>8, <3>3, <3>5
  <2>2. DOMAIN pow = Nat /\ pow = [i \in Nat |-> pow[i]]
        BY <1>5
  <2> QED BY <2>1, <2>2
<1> QED BY <1>6, <1>7, <1>8, <1>9

\* Saturation takes the smaller of a number and the width.
LEMMA SaturateMin ==
    ASSUME NEW n \in Nat, NEW w \in Nat
    PROVE  /\ Saturate(n, w) \in 0..w
           /\ n <= w => Saturate(n, w) = n
           /\ w <= n => Saturate(n, w) = w
  BY DEF Saturate

\* A product grows with its factors.
LEMMA ProductGrows ==
    ASSUME NEW k \in Nat, NEW a \in Nat, NEW b \in Nat
    PROVE  /\ k * a \in Nat
           /\ a <= b => k * a <= k * b
           /\ 1 <= k => a <= k * a
<1>1. k * a \in Nat
      OBVIOUS
<1>2. ASSUME a <= b
      PROVE  k * a <= k * b
  <2>1. PICK c \in Nat : b = a + c
    <3>1. b - a \in Nat /\ b = a + (b - a)
          BY <1>2
    <3> QED BY <3>1
  <2>2. k * (a + c) = k * a + k * c /\ k * a \in Nat /\ k * c \in Nat
        OBVIOUS
  <2> QED BY <2>1, <2>2
<1>3. ASSUME 1 <= k
      PROVE  a <= k * a
  <2>1. PICK c \in Nat : k = c + 1
    <3>1. k - 1 \in Nat /\ k = (k - 1) + 1
          BY <1>3
    <3> QED BY <3>1
  <2>2. (c + 1) * a = c * a + a /\ c * a \in Nat
        OBVIOUS
  <2> QED BY <2>1, <2>2
<1> QED BY <1>1, <1>2, <1>3

\* The width of a delay: two saturations are one at the smaller width.
LEMMA SaturateTwice ==
    ASSUME NEW n \in Nat, NEW v \in Nat, NEW w \in Nat
    PROVE  Saturate(Saturate(n, v), w) = Saturate(n, Saturate(v, w))
<1>1. CASE n <= v
      BY <1>1 DEF Saturate
<1>2. CASE ~(n <= v)
      BY <1>2 DEF Saturate
<1> QED BY <1>1, <1>2

\* The delay of base b for a power x of the multiplier, at widths u and w.
Delay(b, x, u, w) == Saturate(b * Saturate(x, u), w)

\* What one more factor m makes of it.
Grows(m, b, x, u, w) ==
    /\ Delay(b, x, u, w) <= Delay(b, m * x, u, w)
    /\ Delay(b, m * x, u, w) = Saturate(m * Delay(b, x, u, w), Saturate(b * u, w))

\* One more factor: the power and the delay are each the smaller of m times the
\* last one and their cap, saturated or not.
LEMMA DelayStep ==
    ASSUME NEW m \in Nat, 1 <= m, NEW x \in Nat, NEW b \in Nat,
           NEW u \in Nat, NEW w \in Nat
    PROVE  Grows(m, b, x, u, w)
<1> DEFINE f == Saturate(x, u)
           mx == m * x
           g == Saturate(mx, u)
           mf == m * f
           bf == b * f
           bg == b * g
           bu == b * u
           mbf == m * bf
           mw == m * w
<1>1. f \in 0..u /\ mx \in Nat /\ x <= mx
      BY SaturateMin, ProductGrows
<1>2. g \in 0..u /\ f <= u /\ g <= u
  <2> HIDE DEF f, mx
  <2> QED BY <1>1, SaturateMin
<1>3. mf \in Nat /\ f <= mf
      BY <1>1, ProductGrows
<1>4. (mf <= u /\ g = mf) \/ (u <= mf /\ g = u)
  <2>1. CASE x <= u
    <3>1. f = x /\ mf = mx
          BY <2>1, SaturateMin
    <3> HIDE DEF mx
    <3>2. (mx <= u => g = mx) /\ (u <= mx => g = u)
          BY <1>1, SaturateMin
    <3> HIDE DEF f, mf, g
    <3> QED BY <3>1, <3>2, <1>1
  <2>2. CASE ~(x <= u)
    <3>1. u <= x /\ f = u
          BY <2>2, SaturateMin
    <3>2. u <= mx
          BY <3>1, <1>1
    <3>3. g = u
          BY <3>2, <1>1, SaturateMin
    <3> QED BY <3>1, <3>3, <1>3
  <2> QED BY <2>1, <2>2
<1>5. f <= g
      BY <1>1, <1>2, <1>3, <1>4
<1>6. /\ bf \in Nat /\ bg \in Nat /\ bu \in Nat
      /\ bf <= bg /\ bf <= bu /\ bg <= bu
      BY <1>1, <1>2, <1>5, ProductGrows
<1>7. mbf \in Nat /\ bf <= mbf /\ mw \in Nat /\ w <= mw
      BY <1>6, ProductGrows
<1>8. mbf = b * mf
      BY <1>1
<1>9. (mbf <= bu /\ bg = mbf) \/ (bu <= mbf /\ bg = bu)
  <2>1. CASE mf <= u /\ g = mf
    <3>1. bg = mbf
          BY <2>1, <1>8
    <3> HIDE DEF bf, bg, bu, mbf
    <3> QED BY <3>1, <1>6
  <2>2. CASE u <= mf /\ g = u
    <3>1. bu <= b * mf
          BY <2>2, <1>3, ProductGrows
    <3> QED BY <2>2, <3>1, <1>8
  <2> QED BY <1>4, <2>1, <2>2
<1> DEFINE now == Saturate(bf, w)
           next == Saturate(bg, w)
           cap == Saturate(bu, w)
<1>10. now \in Nat /\ now <= next
  <2> HIDE DEF bf, bg
  <2> QED BY <1>6 DEF Saturate
<1>11. next = Saturate(m * now, cap)
  <2>1. CASE bf <= w
    <3>1. now = bf
          BY <2>1, <1>6, SaturateMin
    <3>2. m * now = mbf
          BY <3>1
    <3> HIDE DEF bf, bg, bu, mbf
    <3>3. Saturate(bg, w) = Saturate(mbf, Saturate(bu, w))
          BY <1>6, <1>7, <1>9 DEF Saturate
    <3> QED BY <3>2, <3>3
  <2>2. CASE ~(bf <= w)
    <3>1. now = w
          BY <2>2, <1>6, SaturateMin
    <3>2. m * now = mw
          BY <3>1
    <3> HIDE DEF bf, bg, bu, mw
    <3>3. Saturate(bg, w) = w /\ Saturate(bu, w) = w /\ Saturate(mw, w) = w
          BY <2>2, <1>6, <1>7 DEF Saturate
    <3> QED BY <3>2, <3>3
  <2> QED BY <2>1, <2>2
<1> QED BY <1>10, <1>11, Zenon DEF Delay, Grows

\* The delays of a policy: the first is base_delay, and each later one is
\* multiplier times the one before it, up to the cap.
LEMMA DelaysGrow ==
    ASSUME NEW p \in Policy
    PROVE  /\ delay_for(p, 1) = Saturate(p.base, p.max)
           /\ \A r \in Nat \ {0} :
                  LET cap == Saturate(Saturate(p.base * U32Max, DurationMax), p.max)
                  IN  /\ delay_for(p, r) <= delay_for(p, r + 1)
                      /\ delay_for(p, r + 1) = Saturate(p.multiplier * delay_for(p, r), cap)
<1> DEFINE mul == p.multiplier
           bas == p.base
           width == Saturate(DurationMax, p.max)
<1>1. /\ mul \in 1..U32Max /\ bas \in 0..DurationMax /\ p.max \in 0..DurationMax
      BY DEF Policy
<1>2. /\ mul \in Nat /\ 1 <= mul /\ bas \in Nat /\ p.max \in Nat
      /\ U32Max \in Nat /\ DurationMax \in Nat
      BY <1>1, WidthAssumption
<1>3. width \in Nat
  <2>1. width \in 0..p.max
        BY <1>2, SaturateMin
  <2> QED BY <2>1, <1>2
<1>4. PICK pow \in [Nat -> Nat] :
          /\ pow[0] = 1
          /\ \A i \in Nat : pow[i + 1] = mul * pow[i]
          /\ \A n \in Nat : saturating_pow(mul, n) = Saturate(pow[n], U32Max)
      BY <1>2, PowerStep
<1>5. ASSUME NEW n \in Nat
      PROVE  delay_for(p, n + 1) = Delay(bas, pow[n], U32Max, width)
  <2>1. n + 1 # 0 /\ (n + 1) - 1 = n
        OBVIOUS
  <2>2. delay_for(p, n + 1) = Saturate(Saturate(bas * saturating_pow(mul, n), DurationMax), p.max)
        BY <2>1 DEF delay_for
  <2>3. saturating_pow(mul, n) = Saturate(pow[n], U32Max)
        BY <1>4
  <2>4. Saturate(pow[n], U32Max) \in Nat
    <3>1. pow[n] \in Nat
          BY <1>4
    <3>2. Saturate(pow[n], U32Max) \in 0..U32Max
          BY <1>2, <3>1, SaturateMin
    <3> QED BY <3>2, <1>2
  <2>5. bas * Saturate(pow[n], U32Max) \in Nat
        BY <1>2, <2>4, ProductGrows
  <2> QED BY <1>2, <2>2, <2>3, <2>5, SaturateTwice DEF Delay
<1>6. delay_for(p, 1) = Saturate(bas, p.max)
  <2>1. 0 \in Nat /\ 0 + 1 = 1 /\ pow[0] = 1
        BY <1>4
  <2>2. Saturate(1, U32Max) = 1
        BY <1>1, <1>2 DEF Saturate
  <2>3. delay_for(p, 1) = Saturate(bas * 1, width)
        BY <1>5, <2>1, <2>2, Zenon DEF Delay
  <2>4. bas * 1 = bas
        BY <1>2
  <2>5. Saturate(bas, width) = Saturate(bas, p.max)
        BY <1>1, <1>2 DEF Saturate
  <2> QED BY <2>3, <2>4, <2>5
<1>7. Saturate(Saturate(bas * U32Max, DurationMax), p.max) = Saturate(bas * U32Max, width)
  <2>1. bas * U32Max \in Nat
        BY <1>2, ProductGrows
  <2> QED BY <1>2, <2>1, SaturateTwice
<1>8. ASSUME NEW r \in Nat \ {0}
      PROVE  /\ delay_for(p, r) <= delay_for(p, r + 1)
             /\ delay_for(p, r + 1) = Saturate(mul * delay_for(p, r), Saturate(bas * U32Max, width))
  <2>1. PICK n \in Nat : r = n + 1
    <3>1. r - 1 \in Nat /\ r = (r - 1) + 1
          OBVIOUS
    <3> QED BY <3>1
  <2>2. /\ pow[n] \in Nat /\ pow[n + 1] = mul * pow[n]
        /\ delay_for(p, r) = Delay(bas, pow[n], U32Max, width)
        /\ delay_for(p, r + 1) = Delay(bas, pow[n + 1], U32Max, width)
        BY <1>4, <1>5, <2>1
  <2> HIDE DEF mul, bas, width
  <2>3. Grows(mul, bas, pow[n], U32Max, width)
        BY <1>2, <1>3, <2>2, DelayStep, Zenon
  <2> QED BY <2>2, <2>3, Zenon DEF Grows
<1> QED BY <1>6, <1>7, <1>8

\* One more element makes a sequence longer by one.
LEMMA AppendTyped ==
    ASSUME NEW S, NEW s \in Seq(S), NEW e \in S
    PROVE  Append(s, e) \in Seq(S) /\ Len(Append(s, e)) = Len(s) + 1
  OBVIOUS

\* A counter that is at most a bound is at most its successor after one more.
LEMMA CountOneMore ==
    ASSUME NEW m \in Nat, NEW a \in 0..(m + 1), a <= m
    PROVE  /\ a + 1 \in 0..(m + 1)
           /\ a + 1 > m => a + 1 = m + 1
           /\ ~(a + 1 > m) => a + 1 <= m
  OBVIOUS

\* The number of retries is a number.
LEMMA RetriesNat == \A p \in Policies : p.max_retries \in Nat
<1>1. 0..(U32Max - 1) \subseteq Nat
      BY WidthAssumption
<1>2. \A p \in Policy : p.max_retries \in 0..(U32Max - 1)
      BY Zenon DEF Policy
<1>3. Policies \subseteq Policy
      BY Zenon, PublisherAssumption
<1> QED BY <1>1, <1>2, <1>3, Zenon

\* The invariant holds before the first call.
LEMMA InitInv == Init => Inv
  BY PublisherAssumption, WidthAssumption
  DEF Init, Inv, TypeOK, PC, ClaimsUnique, Claims, RelayedClaimed, PastUpload,
      AttemptsBounded, SleptCounted, Policy

\* Every step of every call preserves it; the lock of `seen` makes Broadcast
\* the only step that creates a claim.
LEMMA NextInv == Inv /\ [Next]_vars => Inv'
<1> SUFFICES ASSUME Inv, [Next]_vars
             PROVE  Inv'
    OBVIOUS
<1>m. policy.max_retries \in Nat
      BY RetriesNat DEF Inv, TypeOK
<1> USE PublisherAssumption DEF Inv, TypeOK, PC
<1>1. ASSUME NEW c \in Call, Begin(c)
      PROVE  Inv'
      BY <1>1 DEF Begin, ClaimsUnique, Claims, RelayedClaimed, PastUpload,
                  AttemptsBounded, SleptCounted
<1>2. ASSUME NEW c \in Call, UploadOk(c)
      PROVE  Inv'
  <2>1. TypeOK'
        BY <1>2 DEF UploadOk
  <2>2. ClaimsUnique' /\ RelayedClaimed'
        BY <1>2 DEF UploadOk, ClaimsUnique, Claims, RelayedClaimed
  <2>3. PastUpload'
        BY <1>2 DEF UploadOk, PastUpload
  <2>4. AttemptsBounded' /\ SleptCounted'
        BY <1>2 DEF UploadOk, AttemptsBounded, SleptCounted
  <2> QED BY <2>1, <2>2, <2>3, <2>4
<1>3. ASSUME NEW c \in Call, UploadErr(c)
      PROVE  Inv'
  <2>1. /\ pc[c] = "uploading"
        /\ attempt' = [attempt EXCEPT ![c] = @ + 1]
        /\ stored' = stored \/ stored' = stored \cup {Content[c]}
        /\ UNCHANGED <<policy, slept, seen, relayed>>
        BY <1>3, Zenon DEF UploadErr
  <2>a. attempt[c] \in 0..(policy.max_retries + 1)
        OBVIOUS
  <2>b. pc[c] # "upload failed"
        BY <2>1
  <2>c. attempt[c] <= policy.max_retries
        BY <2>b DEF AttemptsBounded, SleptCounted
  <2>2. /\ attempt[c] + 1 \in 0..(policy.max_retries + 1)
        /\ attempt[c] + 1 > policy.max_retries => attempt[c] + 1 = policy.max_retries + 1
        /\ ~(attempt[c] + 1 > policy.max_retries) => attempt[c] + 1 <= policy.max_retries
        BY <1>m, <2>a, <2>c, CountOneMore
  <2>d. attempt'[c] = attempt[c] + 1
        BY <2>1
  <2>3. attempt' \in [Call -> 0..(policy.max_retries + 1)]
        BY <2>1, <2>2
  <2>s. stored' \subseteq Cid
    <3>1. Content[c] \in Cid /\ stored \subseteq Cid
          OBVIOUS
    <3> QED BY <2>1, <3>1, Zenon
  <2>4. CASE /\ pc' = [pc EXCEPT ![c] = IF attempt'[c] > policy.max_retries
                                        THEN "upload failed" ELSE "backoff"]
             /\ UNCHANGED permanent
    <3>1. UNCHANGED permanent
          BY <2>4, Zenon
    <3>3. CASE attempt'[c] > policy.max_retries
      <4>1. attempt'[c] = policy.max_retries + 1
            BY <2>2, <2>d, <3>3
      <4>2. pc' = [pc EXCEPT ![c] = "upload failed"]
            BY <2>4, <3>3
      <4>3. TypeOK'
            BY <2>1, <2>3, <3>1, <2>s, <4>2
      <4>4. ClaimsUnique' /\ RelayedClaimed' /\ PastUpload'
            BY <2>1, <3>1, <4>2 DEF ClaimsUnique, Claims, RelayedClaimed, PastUpload
      <4>5. AttemptsBounded'
            BY <2>1, <3>1, <4>1, <4>2 DEF AttemptsBounded
      <4>6. SleptCounted'
            BY <2>1, <2>d, <4>2 DEF SleptCounted
      <4> QED BY <4>3, <4>4, <4>5, <4>6
    <3>4. CASE ~(attempt'[c] > policy.max_retries)
      <4>1. attempt'[c] <= policy.max_retries
            BY <2>2, <2>d, <3>4
      <4>2. pc' = [pc EXCEPT ![c] = "backoff"]
            BY <2>4, <3>4
      <4>3. TypeOK'
            BY <2>1, <2>3, <3>1, <2>s, <4>2
      <4>4. ClaimsUnique' /\ RelayedClaimed' /\ PastUpload'
            BY <2>1, <3>1, <4>2 DEF ClaimsUnique, Claims, RelayedClaimed, PastUpload
      <4>5. AttemptsBounded'
            BY <2>1, <3>1, <4>1, <4>2 DEF AttemptsBounded
      <4>6. SleptCounted'
            BY <2>1, <2>d, <4>2 DEF SleptCounted
      <4> QED BY <4>3, <4>4, <4>5, <4>6
    <3> QED BY <3>3, <3>4
  <2>5. CASE /\ pc' = [pc EXCEPT ![c] = "upload failed"]
             /\ permanent' = permanent \cup {c}
        BY <2>1, <2>2, <2>3, <2>s, <2>5
           DEF ClaimsUnique, Claims, RelayedClaimed, PastUpload, AttemptsBounded, SleptCounted
  <2> QED BY <1>3, <2>4, <2>5, Zenon DEF UploadErr
<1>4. ASSUME NEW c \in Call, Retry(c)
      PROVE  Inv'
  <2> DEFINE delay == delay_for(policy, attempt[c])
  <2>1. /\ pc[c] = "backoff"
        /\ pc' = [pc EXCEPT ![c] = "uploading"]
        /\ slept' = [slept EXCEPT ![c] = Append(@, delay)]
        /\ UNCHANGED <<policy, attempt, permanent, seen, stored, relayed>>
        BY <1>4, Zenon DEF Retry
  <2>2. delay \in 0..DurationMax
        BY DelayBounded
  <2> HIDE DEF delay
  <2>3. slept[c] \in Seq(0..DurationMax)
        OBVIOUS
  <2>4. /\ Append(slept[c], delay) \in Seq(0..DurationMax)
        /\ Len(Append(slept[c], delay)) = Len(slept[c]) + 1
        BY <2>2, <2>3, AppendTyped
  <2>5. TypeOK'
        BY <2>1, <2>4
  <2>6. ClaimsUnique' /\ RelayedClaimed' /\ PastUpload' /\ AttemptsBounded'
        BY <2>1 DEF ClaimsUnique, Claims, RelayedClaimed, PastUpload, AttemptsBounded
  <2>7. SleptCounted'
        BY <2>1, <2>4 DEF SleptCounted
  <2> QED BY <2>5, <2>6, <2>7
<1>5. ASSUME NEW c \in Call, Broadcast(c)
      PROVE  Inv'
  <2>1. CASE c \in Invalid
        BY <1>5, <2>1 DEF Broadcast, ClaimsUnique, Claims, RelayedClaimed,
                          PastUpload, AttemptsBounded, SleptCounted
  <2>2. CASE c \notin Invalid /\ Content[c] \in seen
        BY <1>5, <2>2 DEF Broadcast, ClaimsUnique, Claims, RelayedClaimed,
                          PastUpload, AttemptsBounded, SleptCounted
  <2>3. CASE c \notin Invalid /\ Content[c] \notin seen
    <3>1. /\ pc' = [pc EXCEPT ![c] = "publishing"]
          /\ seen' = seen \cup {Content[c]}
          /\ UNCHANGED <<policy, attempt, slept, permanent, stored, relayed>>
          BY <1>5, <2>3 DEF Broadcast
    <3>2. \A d \in Call : Claims(d) => Content[d] # Content[c]
          BY <2>3 DEF ClaimsUnique
    <3>3. \A d \in Call : Claims(d)' => d = c \/ Claims(d)
          BY <3>1 DEF Claims
    <3>4. ClaimsUnique'
          BY <3>1, <3>2, <3>3 DEF ClaimsUnique
    <3>5. TypeOK'
          BY <1>5, <3>1
    <3>6. RelayedClaimed' /\ PastUpload' /\ AttemptsBounded' /\ SleptCounted'
          BY <1>5, <3>1 DEF Broadcast, RelayedClaimed, PastUpload, AttemptsBounded,
                            SleptCounted
    <3> QED BY <3>4, <3>5, <3>6
  <2> QED BY <2>1, <2>2, <2>3
<1>6. ASSUME NEW c \in Call, PublishOk(c)
      PROVE  Inv'
  <2>1. TypeOK'
        BY <1>6 DEF PublishOk
  <2>2. ClaimsUnique' /\ RelayedClaimed'
        BY <1>6 DEF PublishOk, ClaimsUnique, Claims, RelayedClaimed
  <2>3. PastUpload'
        BY <1>6 DEF PublishOk, PastUpload
  <2>4. AttemptsBounded' /\ SleptCounted'
        BY <1>6 DEF PublishOk, AttemptsBounded, SleptCounted
  <2> QED BY <2>1, <2>2, <2>3, <2>4
<1>7. ASSUME NEW c \in Call, PublishErr(c)
      PROVE  Inv'
  <2>1. TypeOK'
        BY <1>7 DEF PublishErr
  <2>2. ClaimsUnique' /\ RelayedClaimed'
        BY <1>7 DEF PublishErr, ClaimsUnique, Claims, RelayedClaimed
  <2>3. PastUpload'
        BY <1>7 DEF PublishErr, PastUpload
  <2>4. AttemptsBounded' /\ SleptCounted'
        BY <1>7 DEF PublishErr, AttemptsBounded, SleptCounted
  <2> QED BY <2>1, <2>2, <2>3, <2>4
<1>8. CASE UNCHANGED vars
  <2>1. UNCHANGED <<policy, pc, attempt, slept, permanent, seen, stored, relayed>>
        BY <1>8, Zenon DEF vars
  <2>2. TypeOK'
        BY <2>1
  <2>3. ClaimsUnique' /\ RelayedClaimed' /\ PastUpload'
        BY <2>1 DEF ClaimsUnique, Claims, RelayedClaimed, PastUpload
  <2>4. AttemptsBounded' /\ SleptCounted'
        BY <2>1 DEF AttemptsBounded, SleptCounted
  <2> QED BY <2>2, <2>3, <2>4
<1> QED
    BY <1>1, <1>2, <1>3, <1>4, <1>5, <1>6, <1>7, <1>8 DEF Next, Step, Done

\* The invariant implies the properties the runs check.
LEMMA InvImplies == Inv => AtMostOnce /\ RelayedIsStored /\ RetriesUsed
<1> SUFFICES ASSUME Inv
             PROVE  AtMostOnce /\ RelayedIsStored /\ RetriesUsed
    OBVIOUS
<1>1. AtMostOnce
      BY DEF Inv, TypeOK, ClaimsUnique, Claims, RelayedClaimed, AtMostOnce
<1>2. RelayedIsStored
      BY DEF Inv, TypeOK, RelayedClaimed, PastUpload, RelayedIsStored
<1>3. \A c \in Call : pc[c] = "upload failed" => Len(slept[c]) + 1 = attempt[c]
      BY Zenon DEF Inv, SleptCounted
<1>4. \A c \in Call : pc[c] = "upload failed" => c \notin relayed
      BY DEF Inv, RelayedClaimed
<1>5. \A c \in Call : pc[c] = "upload failed" /\ c \notin permanent
                          => attempt[c] = policy.max_retries + 1
      BY Zenon DEF Inv, AttemptsBounded
<1>6. RetriesUsed
      BY <1>3, <1>4, <1>5, Zenon DEF RetriesUsed
<1> QED BY <1>1, <1>2, <1>6

\* The invariant holds in every reachable state.
THEOREM Invariant == Spec => []Inv
  BY InitInv, NextInv, PTL DEF Spec

\* Every variable keeps its type; no upload counts more than 1 + max_retries
\* failed attempts.
THEOREM TypeCorrect == Spec => []TypeOK
<1>1. Inv => TypeOK
      BY DEF Inv
<1> QED BY <1>1, Invariant, PTL

\* A Publisher relays an envelope for a CID at most once, however many calls
\* run concurrently and however often callers retry.
THEOREM RelayedAtMostOnce == Spec => []AtMostOnce
  BY Invariant, InvImplies, PTL

\* What has been relayed is stored.
THEOREM RelayedStored == Spec => []RelayedIsStored
  BY Invariant, InvImplies, PTL

\* An upload is given up only after all its retries or a permanent error.
THEOREM UploadRetried == Spec => []RetriesUsed
  BY Invariant, InvImplies, PTL

\* A call has slept, before each retry, the delay of that retry: its counter of
\* failures is the number of the retry it sleeps for.
DelaysSlept ==
    \A c \in Call : \A i \in 1..Len(slept[c]) : slept[c][i] = delay_for(policy, i)

\* Nobody has slept before the first call.
LEMMA InitDelays == Init => DelaysSlept
<1> SUFFICES ASSUME Init, NEW c \in Call
             PROVE  \A i \in 1..Len(slept[c]) : slept[c][i] = delay_for(policy, i)
    BY Zenon DEF DelaysSlept
<1>1. slept[c] = <<>>
      BY DEF Init
<1>2. 1..Len(slept[c]) = {}
      BY <1>1
<1> QED BY <1>2

\* A list of delays stays in step with its positions when the delay of the next
\* position is appended.
LEMMA AppendDelay ==
    ASSUME NEW S, NEW s \in Seq(S), NEW p,
           \A i \in 1..Len(s) : s[i] = delay_for(p, i)
    PROVE  \A i \in 1..Len(Append(s, delay_for(p, Len(s) + 1))) :
               Append(s, delay_for(p, Len(s) + 1))[i] = delay_for(p, i)
<1> DEFINE n == Len(s) + 1
           e == delay_for(p, n)
<1>1. /\ Len(Append(s, e)) = n
      /\ Append(s, e)[n] = e
      /\ \A i \in 1..Len(s) : Append(s, e)[i] = s[i]
  <2> HIDE DEF e
  <2> QED OBVIOUS
<1>2. \A i \in 1..n : i \in 1..Len(s) \/ i = n
      OBVIOUS
<1> QED BY <1>1, <1>2, Zenon

\* A retry sleeps for the delay of its number; no other step sleeps.
LEMMA NextDelays == Inv /\ DelaysSlept /\ [Next]_vars => DelaysSlept'
<1> SUFFICES ASSUME Inv, DelaysSlept, [Next]_vars
             PROVE  DelaysSlept'
    OBVIOUS
<1>1. CASE UNCHANGED <<policy, slept>>
      BY <1>1 DEF DelaysSlept
<1>2. ASSUME NEW c \in Call, Retry(c)
      PROVE  DelaysSlept'
  <2>1. /\ pc[c] = "backoff"
        /\ policy' = policy
        /\ slept' = [slept EXCEPT ![c] = Append(@, delay_for(policy, attempt[c]))]
        BY <1>2, Zenon DEF Retry
  <2>2. /\ slept \in [Call -> Seq(0..DurationMax)]
        /\ slept[c] \in Seq(0..DurationMax)
        BY DEF Inv, TypeOK
  <2>3. attempt[c] = Len(slept[c]) + 1
        BY <2>1 DEF Inv, SleptCounted
  <2>4. \A i \in 1..Len(slept[c]) : slept[c][i] = delay_for(policy, i)
        BY Zenon DEF DelaysSlept
  <2> DEFINE longer == Append(slept[c], delay_for(policy, Len(slept[c]) + 1))
  <2>5. \A i \in 1..Len(longer) : longer[i] = delay_for(policy, i)
        BY <2>2, <2>4, AppendDelay, Zenon
  <2>6. slept' = [slept EXCEPT ![c] = longer]
        BY <2>1, <2>3, Zenon
  <2> HIDE DEF longer
  <2>7. /\ slept'[c] = longer
        /\ \A d \in Call \ {c} : slept'[d] = slept[d]
        BY <2>2, <2>6
  <2> QED BY <2>1, <2>5, <2>7 DEF DelaysSlept
<1>3. ASSUME Next
      PROVE  UNCHANGED <<policy, slept>> \/ \E c \in Call : Retry(c)
      BY <1>3 DEF Next, Done, vars, Begin, Step, UploadOk, UploadErr, Broadcast,
                  PublishOk, PublishErr
<1>4. CASE UNCHANGED vars
      BY <1>1, <1>4 DEF vars
<1> QED BY <1>1, <1>2, <1>3, <1>4

\* The delays slept grow as those of the policy do.
LEMMA DelaysImply == Inv /\ DelaysSlept => BackoffGrows
<1> SUFFICES ASSUME Inv, DelaysSlept, NEW c \in Call
             PROVE  LET cap == Saturate(Saturate(policy.base * U32Max, DurationMax), policy.max)
                    IN  /\ slept[c] # <<>> => slept[c][1] = Saturate(policy.base, policy.max)
                        /\ \A i \in 2..Len(slept[c]) :
                               /\ slept[c][i - 1] <= slept[c][i]
                               /\ slept[c][i] = Saturate(policy.multiplier * slept[c][i - 1], cap)
    BY Zenon DEF BackoffGrows
<1> DEFINE cap == Saturate(Saturate(policy.base * U32Max, DurationMax), policy.max)
           mul == policy.multiplier
<1>1. policy \in Policy /\ slept[c] \in Seq(0..DurationMax)
      BY PublisherAssumption DEF Inv, TypeOK
<1>2. /\ delay_for(policy, 1) = Saturate(policy.base, policy.max)
      /\ \A r \in Nat \ {0} : /\ delay_for(policy, r) <= delay_for(policy, r + 1)
                              /\ delay_for(policy, r + 1) = Saturate(mul * delay_for(policy, r), cap)
      BY <1>1, DelaysGrow, Zenon
<1>3. \A i \in 1..Len(slept[c]) : slept[c][i] = delay_for(policy, i)
      BY Zenon DEF DelaysSlept
<1> HIDE DEF cap, mul
<1>4. ASSUME slept[c] # <<>>
      PROVE  slept[c][1] = Saturate(policy.base, policy.max)
  <2>1. 1 \in 1..Len(slept[c])
        BY <1>1, <1>4
  <2> QED BY <1>2, <1>3, <2>1, Zenon
<1>5. ASSUME NEW i \in 2..Len(slept[c])
      PROVE  /\ slept[c][i - 1] <= slept[c][i]
             /\ slept[c][i] = Saturate(mul * slept[c][i - 1], cap)
  <2>1. PICK r \in Nat \ {0} : r + 1 = i
    <3>1. i - 1 \in Nat \ {0} /\ (i - 1) + 1 = i
          BY <1>1
    <3> QED BY <3>1
  <2>2. i - 1 = r /\ r \in 1..Len(slept[c]) /\ i \in 1..Len(slept[c])
        BY <1>1, <2>1
  <2>3. slept[c][i - 1] = delay_for(policy, r) /\ slept[c][i] = delay_for(policy, r + 1)
        BY <1>3, <2>1, <2>2, Zenon
  <2> QED BY <1>2, <2>3, Zenon
<1> QED BY <1>4, <1>5 DEF cap, mul

\* Delays never shrink and each follows the one before, for every policy and
\* every width, saturated or not.
THEOREM BackoffGrowing == Spec => []BackoffGrows
<1>1. Spec => []DelaysSlept
  <2>1. Inv /\ Inv' /\ DelaysSlept /\ [Next]_vars => DelaysSlept'
        BY NextDelays
  <2> QED BY <2>1, InitDelays, Invariant, PTL DEF Spec
<1> QED BY <1>1, DelaysImply, Invariant, PTL

=============================================================================
