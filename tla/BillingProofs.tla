--------------------------- MODULE BillingProofs ---------------------------
(***************************************************************************)
(* Facts about Billing and Accounting for every policy, instant, sweep     *)
(* interval, list of observed durations and set of lease intervals:        *)
(* NextBoundary is the next jump of the bill, a periodic sweep does not    *)
(* miss the termination window, P95 finds its entry, and UsefulMillis      *)
(* counts the instants that the leases cover.                              *)
(***************************************************************************)
EXTENDS Accounting, FiniteSetTheorems, WellFoundedInduction, TLAPS

(* Division with remainder, in the two forms that Paid and NextBoundary    *)
(* use: whole increments that fit, and whether something is left over.     *)
LEMMA Division ==
    ASSUME NEW n \in Nat, NEW i \in Nat \ {0}
    PROVE  /\ n \div i \in Nat /\ n % i \in Nat
           /\ (n \div i) * i <= n /\ n < (n \div i) * i + i
           /\ n % i = 0 <=> n = (n \div i) * i
  <1>1. n \div i \in Nat /\ n % i \in Nat
    OBVIOUS
  <1>2. (n \div i) * i <= n
    BY <1>1
  <1>3. n < (n \div i) * i + i
    BY <1>1
  <1>4. n % i = n - i * (n \div i)
    BY SMTT(30)
  <1>5. (n \div i) * i \in Nat /\ (n \div i) * i = i * (n \div i)
    BY <1>1
  <1>6. n % i = 0 <=> n = (n \div i) * i
    BY <1>1, <1>4, <1>5
  <1> QED
    BY <1>1, <1>2, <1>3, <1>6

(* Multiples of an increment grow by at least one increment.               *)
LEMMA Multiples ==
    ASSUME NEW a \in Int, NEW b \in Int, NEW i \in Nat
    PROVE  /\ a * i \in Int
           /\ (a + 1) * i = a * i + i /\ (a - 1) * i = a * i - i
           /\ a < b => a * i + i <= b * i
           /\ a <= b => a * i <= b * i
  OBVIOUS

(* The number of increments is the one whose multiple is bracketed so.     *)
LEMMA Bracket ==
    ASSUME NEW a \in Int, NEW b \in Int, NEW i \in Nat \ {0}, NEW n \in Nat,
           (a - 1) * i < n, n <= a * i, (b - 1) * i < n, n <= b * i
    PROVE  a = b
  <1>1. ~(a < b) /\ ~(b < a)
    BY Multiples
  <1> QED
    BY <1>1

(* What is billed, and at least the minimum.                               *)
AtLeast(billed, minimum) == IF billed < minimum THEN minimum ELSE billed

(* A lifetime costs its last increment whole, also when it was only begun. *)
LEMMA PaidCeiling ==
    ASSUME NEW p \in Policy, p.increment > 0, NEW life \in Nat \ {0}, NEW k \in Nat,
           (k - 1) * p.increment < life, life <= k * p.increment
    PROVE  Paid(life, p) = AtLeast(k * p.increment, p.minimum)
  <1> DEFINE i == p.increment
             n == life \div i + (IF life = 0 \/ life % i # 0 THEN 1 ELSE 0)
  <1>1. i \in Nat \ {0} /\ p.minimum \in Nat
    BY DEF Policy
  <1>2. /\ life \div i \in Nat /\ life % i \in Nat
        /\ (life \div i) * i <= life /\ life < (life \div i) * i + i
        /\ life % i = 0 <=> life = (life \div i) * i
    BY <1>1, Division
  <1>3. n \in Nat /\ Paid(life, p) = AtLeast(n * i, p.minimum)
    BY <1>1, <1>2 DEF Paid, AtLeast
  <1>4. /\ (life \div i + 1) * i = (life \div i) * i + i
        /\ (life \div i - 1) * i = (life \div i) * i - i
        /\ (life \div i) * i \in Int
    BY <1>1, <1>2, Multiples
  <1>5. (n - 1) * i < life /\ life <= n * i
    <2>1. CASE life % i = 0
      <3>1. n = life \div i
        BY <2>1, <1>2
      <3> QED
        BY <3>1, <2>1, <1>1, <1>2, <1>4
    <2>2. CASE life % i # 0
      <3>1. n = life \div i + 1 /\ n - 1 = life \div i
        BY <2>2, <1>2
      <3> QED
        BY <3>1, <2>2, <1>1, <1>2, <1>4
    <2> QED
      BY <2>1, <2>2
  <1> HIDE DEF n, i
  <1>6. (k - 1) * i < life /\ life <= k * i
    BY DEF i
  <1>7. n = k
    BY <1>1, <1>3, <1>5, <1>6, Bracket
  <1> QED
    BY <1>3, <1>7 DEF i

(* A lifetime of zero costs a whole increment.                             *)
LEMMA PaidZero ==
    ASSUME NEW p \in Policy, p.increment > 0
    PROVE  Paid(0, p) = AtLeast(p.increment, p.minimum)
  <1>1. p.increment \in Nat \ {0} /\ p.minimum \in Nat
    BY DEF Policy
  <1>2. 0 \div p.increment = 0
    BY <1>1
  <1>3. (0 + 1) * p.increment = p.increment
    BY <1>1
  <1>4. Paid(0, p) = AtLeast((0 + 1) * p.increment, p.minimum)
    BY <1>1, <1>2 DEF Paid, AtLeast
  <1> QED
    BY <1>3, <1>4

(* Every positive lifetime is bracketed by a number of increments.         *)
LEMMA Ceiling ==
    ASSUME NEW life \in Nat \ {0}, NEW i \in Nat \ {0}
    PROVE  \E k \in Nat \ {0} : (k - 1) * i < life /\ life <= k * i
  <1> DEFINE q == (life - 1) \div i
  <1>1. q \in Nat /\ q * i <= life - 1 /\ life - 1 < q * i + i
    BY Division
  <1> HIDE DEF q
  <1>2. (q + 1) * i = q * i + i /\ q * i \in Int
    BY <1>1, Multiples
  <1>3. q + 1 \in Nat \ {0}
    BY <1>1
  <1> WITNESS q + 1 \in Nat \ {0}
  <1> QED
    BY <1>1, <1>2

(* What is paid is a whole number and at least the minimum.                *)
LEMMA PaidType ==
    ASSUME NEW p \in Policy, NEW life \in Nat
    PROVE  Paid(life, p) \in Nat /\ Paid(life, p) >= p.minimum
  <1>0. p.increment \in Nat /\ p.minimum \in Nat
    BY DEF Policy
  <1>1. CASE p.increment = 0
    BY <1>0, <1>1 DEF Paid
  <1>2. CASE p.increment > 0
    <2> DEFINE n == life \div p.increment
                      + (IF life = 0 \/ life % p.increment # 0 THEN 1 ELSE 0)
    <2>1. n \in Nat
      BY <1>0, <1>2, Division
    <2>2. Paid(life, p) = AtLeast(n * p.increment, p.minimum)
      BY <1>2 DEF Paid, AtLeast
    <2> HIDE DEF n
    <2>3. n * p.increment \in Nat
      BY <1>0, <2>1
    <2> QED
      BY <1>0, <2>2, <2>3 DEF AtLeast
  <1> QED
    BY <1>0, <1>1, <1>2

(* A longer life is not cheaper.                                           *)
LEMMA PaidMonotone ==
    ASSUME NEW p \in Policy, NEW life \in Nat, NEW more \in Nat, life <= more
    PROVE  Paid(life, p) <= Paid(more, p)
  <1>0. p.increment \in Nat /\ p.minimum \in Nat
    BY DEF Policy
  <1>1. CASE p.increment = 0
    BY <1>0, <1>1 DEF Paid
  <1>2. CASE p.increment > 0 /\ life > 0
    <2>0. p.increment \in Nat \ {0} /\ life \in Nat \ {0} /\ more \in Nat \ {0}
      BY <1>0, <1>2
    <2>1. PICK j \in Nat \ {0} : /\ (j - 1) * p.increment < life
                                 /\ life <= j * p.increment
      BY <2>0, Ceiling
    <2>2. PICK k \in Nat \ {0} : /\ (k - 1) * p.increment < more
                                 /\ more <= k * p.increment
      BY <2>0, Ceiling
    <2>3. /\ Paid(life, p) = AtLeast(j * p.increment, p.minimum)
          /\ Paid(more, p) = AtLeast(k * p.increment, p.minimum)
      BY <1>2, <2>1, <2>2, PaidCeiling
    <2>4. j * p.increment <= k * p.increment
      <3>1. ~(k < j)
        BY <1>0, <2>1, <2>2, Multiples
      <3> QED
        BY <1>0, <3>1, Multiples
    <2>5. j * p.increment \in Int /\ k * p.increment \in Int
      BY <1>0, Multiples
    <2> QED
      BY <1>0, <2>3, <2>4, <2>5 DEF AtLeast
  <1>3. CASE p.increment > 0 /\ life = 0 /\ more > 0
    <2>0. p.increment \in Nat \ {0} /\ more \in Nat \ {0}
      BY <1>0, <1>3
    <2>1. PICK k \in Nat \ {0} : /\ (k - 1) * p.increment < more
                                 /\ more <= k * p.increment
      BY <2>0, Ceiling
    <2>2. /\ Paid(life, p) = AtLeast(p.increment, p.minimum)
          /\ Paid(more, p) = AtLeast(k * p.increment, p.minimum)
      BY <1>3, <2>1, PaidCeiling, PaidZero
    <2>3. p.increment <= k * p.increment /\ k * p.increment \in Int
      BY <1>0
    <2> QED
      BY <1>0, <2>2, <2>3 DEF AtLeast
  <1>4. CASE p.increment > 0 /\ more = 0
    <2>1. Paid(0, p) = AtLeast(p.increment, p.minimum)
      BY <1>4, PaidZero
    <2> QED
      BY <1>0, <1>4, <2>1 DEF AtLeast
  <1> QED
    BY <1>0, <1>1, <1>2, <1>3, <1>4

(* NextBoundary finds the first multiple of the increment at which a       *)
(* lifetime outgrows what is paid: the end of the running increment, or    *)
(* of the last increment that the minimum covers whole.                    *)
LEMMA BoundaryIsMultiple ==
    ASSUME NEW p \in Policy, p.increment > 0,
           NEW created \in Nat, NEW now \in Nat, created <= now
    PROVE  \E k \in Nat \ {0} :
              /\ NextBoundary(created, p, now) = created + k * p.increment
              /\ now - created < k * p.increment
              /\ (k + 1) * p.increment > p.minimum
              /\ \/ (k - 1) * p.increment <= now - created
                 \/ k * p.increment <= p.minimum
  <1> DEFINE i == p.increment
             m == p.minimum
             elapsed == IF now < created THEN 0 ELSE now - created
             first == elapsed \div i + 1
             Stops(k) == LET t == k * i
                         IN  \/ Paid(t + 1, p) > Paid(t - 1, p)
                             \/ t > m + i
             last == first + m \div i + 2
             k0 == CHOOSE k \in first..last :
                      Stops(k) /\ \A j \in first..(k - 1) : ~Stops(j)
             kk == IF first < m \div i THEN m \div i ELSE first
  <1>1. /\ i \in Nat \ {0} /\ m \in Nat
        /\ elapsed \in Nat /\ elapsed = now - created
    BY DEF Policy
  <1>2. NextBoundary(created, p, now) = created + k0 * i
    BY Zenon DEF NextBoundary
  <1>3. /\ m \div i \in Nat /\ (m \div i) * i <= m /\ m < (m \div i) * i + i
        /\ elapsed \div i \in Nat /\ (elapsed \div i) * i <= elapsed
        /\ elapsed < (elapsed \div i) * i + i
    BY <1>1, Division
  <1> HIDE DEF i, m, elapsed
  <1>4. /\ first \in Nat \ {0} /\ last \in Nat /\ kk \in first..last
        /\ kk \in Nat \ {0}
    BY <1>3
  <1>5. (m \div i) * i \in Int /\ (elapsed \div i) * i \in Int
        /\ first * i = (elapsed \div i) * i + i
        /\ (first - 1) * i = (elapsed \div i) * i
    BY <1>1, <1>3, Multiples
  <1>6. ASSUME NEW k \in Nat \ {0}
        PROVE  Stops(k) <=> (k + 1) * i > m
    <2>1. /\ k * i \in Int /\ (k + 1) * i = k * i + i
          /\ (k - 1) * i = k * i - i /\ k * i >= i
      BY <1>1, Multiples
    <2>2. Paid(k * i + 1, p) = AtLeast((k + 1) * i, m)
      <3>1. /\ k * i + 1 \in Nat \ {0} /\ k + 1 \in Nat
            /\ (k + 1 - 1) * i < k * i + 1 /\ k * i + 1 <= (k + 1) * i
        BY <1>1, <2>1
      <3> QED
        BY <3>1, PaidCeiling DEF i, m
    <2>3. Paid(k * i, p) = AtLeast(k * i, m)
      <3>1. /\ k * i \in Nat \ {0} /\ k \in Nat
            /\ (k - 1) * i < k * i /\ k * i <= k * i
        BY <1>1, <2>1
      <3> QED
        BY <3>1, PaidCeiling DEF i, m
    <2>4. k * i - 1 \in Nat /\ k * i \in Nat /\ k * i - 1 <= k * i
      BY <1>1, <2>1
    <2>5. /\ Paid(k * i - 1, p) <= Paid(k * i, p)
          /\ Paid(k * i - 1, p) \in Nat /\ Paid(k * i - 1, p) >= m
      BY <2>4, PaidMonotone, PaidType DEF m
    <2> QED
      BY <1>1, <2>1, <2>2, <2>3, <2>5 DEF AtLeast
  <1>7. ASSUME NEW k \in Nat \ {0}
        PROVE  Stops(k) <=> k >= m \div i
    <2>1. /\ (k + 1) * i = k * i + i /\ k * i \in Int
          /\ (k < m \div i => k * i + i <= (m \div i) * i)
          /\ (m \div i <= k => (m \div i) * i <= k * i)
      BY <1>1, <1>3, Multiples
    <2>2. Stops(k) <=> (k + 1) * i > m
      BY <1>6
    <2> HIDE DEF Stops
    <2> QED
      BY <1>1, <1>3, <1>5, <2>1, <2>2
  <1> HIDE DEF Stops
  <1>8. k0 = kk
    <2>1. Stops(kk) /\ \A j \in first..(kk - 1) : ~Stops(j)
      BY <1>3, <1>4, <1>7
    <2>2. ASSUME NEW k \in first..last, Stops(k), \A j \in first..(k - 1) : ~Stops(j)
          PROVE  k = kk
      <3>1. ~(kk < k)
        BY <1>4, <2>1, <2>2
      <3>2. ~(k < kk)
        BY <1>4, <2>1, <2>2
      <3> QED
        BY <1>4, <3>1, <3>2
    <2> HIDE DEF first, last, kk
    <2> QED
      BY <1>4, <2>1, <2>2
  <1>9. /\ kk * i \in Int /\ (kk + 1) * i = kk * i + i /\ (kk - 1) * i = kk * i - i
        /\ first * i <= kk * i /\ (kk = first \/ kk = m \div i)
        /\ (m \div i) * i <= kk * i
    BY <1>1, <1>3, <1>4, Multiples
  <1>10. /\ NextBoundary(created, p, now) = created + kk * i
         /\ elapsed < kk * i /\ (kk + 1) * i > m
         /\ (kk - 1) * i <= elapsed \/ kk * i <= m
    <2> HIDE DEF k0, kk
    <2>1. NextBoundary(created, p, now) = created + kk * i
      BY <1>2, <1>8
    <2>2. elapsed < kk * i /\ (kk + 1) * i > m
      BY <1>1, <1>3, <1>5, <1>9
    <2>3. (kk - 1) * i <= elapsed \/ kk * i <= m
      BY <1>1, <1>3, <1>5, <1>9
    <2> QED
      BY <2>1, <2>2, <2>3
  <1> HIDE DEF kk
  <1> QED
    BY <1>1, <1>4, <1>10 DEF i, m

(* NextBoundary is the next jump of the bill, for every policy, birth and  *)
(* instant: whatever ends after now and not after the boundary costs the   *)
(* same, and whatever ends after the boundary costs more.                  *)
THEOREM BoundaryIsNextJump ==
    ASSUME NEW p \in Policy, NEW created \in Nat, NEW now \in Nat, created <= now,
           NextBoundary(created, p, now) # NoBoundary
    PROVE  /\ NextBoundary(created, p, now) \in Nat
           /\ NextBoundary(created, p, now) > now
           /\ \A t \in Nat : (now < t /\ t <= NextBoundary(created, p, now))
                 => Paid(t - created, p) = Paid((now + 1) - created, p)
           /\ \A t \in Nat : t > NextBoundary(created, p, now)
                 => Paid(t - created, p) > Paid((now + 1) - created, p)
  <1> DEFINE b == NextBoundary(created, p, now)
             i == p.increment
             m == p.minimum
  <1>0. i \in Nat /\ m \in Nat
    BY DEF Policy
  <1>1. CASE i = 0
    <2>1. m > 0 /\ now - created < m /\ b = created + m
      BY <1>0, <1>1 DEF NextBoundary
    <2>2. \A life \in Nat : Paid(life, p) = AtLeast(life, m)
      BY <1>1 DEF Paid, AtLeast
    <2>3. ASSUME NEW t \in Nat, t > now
          PROVE  t - created \in Nat /\ Paid(t - created, p) = AtLeast(t - created, m)
      BY <2>2, <2>3
    <2>4. Paid((now + 1) - created, p) = m
      BY <1>0, <2>1, <2>2 DEF AtLeast
    <2> HIDE DEF b, i, m
    <2>5. \A t \in Nat : (now < t /\ t <= b) => Paid(t - created, p) = m
      BY <1>0, <2>1, <2>3 DEF AtLeast
    <2>6. \A t \in Nat : t > b => Paid(t - created, p) > m
      BY <1>0, <2>1, <2>3 DEF AtLeast
    <2>7. b \in Nat /\ b > now
      BY <1>0, <2>1
    <2> QED
      BY <2>4, <2>5, <2>6, <2>7 DEF b
  <1>2. CASE i > 0
    <2>1. PICK k \in Nat \ {0} :
             /\ b = created + k * i /\ now - created < k * i
             /\ (k + 1) * i > m
             /\ (k - 1) * i <= now - created \/ k * i <= m
      BY <1>2, BoundaryIsMultiple
    <2>2. /\ k * i \in Int /\ (k + 1) * i = k * i + i /\ (k - 1) * i = k * i - i
      BY <1>0, Multiples
    <2> HIDE DEF b
    <2>3. ASSUME NEW t \in Nat, now < t, t <= b
          PROVE  Paid(t - created, p) = AtLeast(k * i, m)
      <3>1. t - created \in Nat \ {0} /\ t - created <= k * i
        BY <2>1, <2>2, <2>3
      <3>2. i \in Nat \ {0}
        BY <1>0, <1>2
      <3>3. PICK j \in Nat \ {0} : (j - 1) * i < t - created /\ t - created <= j * i
        BY <3>1, <3>2, Ceiling
      <3>4. Paid(t - created, p) = AtLeast(j * i, m)
        BY <1>2, <3>1, <3>3, PaidCeiling
      <3>5. j <= k
        <4>1. k < j => k * i <= (j - 1) * i
          BY <1>0, Multiples
        <4>2. (j - 1) * i \in Int
          BY <1>0, Multiples
        <4> QED
          BY <2>2, <3>1, <3>3, <4>1, <4>2
      <3>6. CASE k * i <= m
        <4>1. j * i <= k * i /\ j * i \in Int
          BY <1>0, <3>5, Multiples
        <4> QED
          BY <1>0, <2>2, <3>4, <3>6, <4>1 DEF AtLeast
      <3>7. CASE (k - 1) * i <= now - created
        <4>1. (k - 1) * i < j * i
          BY <2>2, <3>3, <3>7, <2>3, <1>0
        <4>2. j < k => j * i <= (k - 1) * i
          BY <1>0, Multiples
        <4>3. j * i \in Int /\ (k - 1) * i \in Int
          BY <1>0, Multiples
        <4>4. j = k
          BY <3>5, <4>1, <4>2, <4>3
        <4> QED
          BY <3>4, <4>4
      <3> QED
        BY <2>1, <3>6, <3>7
    <2>4. ASSUME NEW t \in Nat, t > b
          PROVE  Paid(t - created, p) > AtLeast(k * i, m)
      <3>1. t - created \in Nat \ {0} /\ t - created > k * i
        BY <1>0, <2>1, <2>2, <2>4
      <3>2. i \in Nat \ {0}
        BY <1>0, <1>2
      <3>3. PICK j \in Nat \ {0} : (j - 1) * i < t - created /\ t - created <= j * i
        BY <3>1, <3>2, Ceiling
      <3>4. Paid(t - created, p) = AtLeast(j * i, m)
        BY <1>2, <3>1, <3>3, PaidCeiling
      <3>5. j * i \in Int /\ (j <= k => j * i <= k * i) /\ (k < j => k * i + i <= j * i)
        BY <1>0, Multiples
      <3>6. k < j
        BY <2>2, <3>1, <3>3, <3>5
      <3> QED
        BY <1>0, <1>2, <2>1, <2>2, <3>4, <3>5, <3>6 DEF AtLeast
    <2>5. b \in Nat /\ b > now
      BY <2>1, <2>2
    <2>6. Paid((now + 1) - created, p) = AtLeast(k * i, m)
      BY <2>3, <2>5
    <2> QED
      BY <2>3, <2>4, <2>5, <2>6 DEF b
  <1> QED
    BY <1>0, <1>1, <1>2

(* The bill jumps only after a whole number of increments.                 *)
LEMMA JumpIsMultiple ==
    ASSUME NEW p \in Policy, p.increment > 0, NEW life \in Nat,
           Paid(life + 1, p) > Paid(life, p)
    PROVE  \E j \in Nat : life = j * p.increment
  <1> DEFINE i == p.increment
  <1>1. i \in Nat \ {0} /\ p.minimum \in Nat
    BY DEF Policy
  <1>2. CASE life = 0
    <2>1. 0 = 0 * i
      BY <1>1
    <2> QED
      BY <1>2, <2>1
  <1>3. CASE life # 0
    <2>1. PICK j \in Nat \ {0} : (j - 1) * i < life /\ life <= j * i
      BY <1>1, <1>3, Ceiling
    <2>2. Paid(life, p) = AtLeast(j * i, p.minimum)
      BY <1>1, <1>3, <2>1, PaidCeiling
    <2>3. (j - 1) * i \in Int /\ j * i \in Int
      BY <1>1, Multiples
    <2>4. ASSUME life < j * i PROVE FALSE
      <3>1. /\ life + 1 \in Nat \ {0} /\ (j - 1) * i < life + 1 /\ life + 1 <= j * i
        BY <2>1, <2>3, <2>4
      <3>2. Paid(life + 1, p) = AtLeast(j * i, p.minimum)
        BY <1>1, <3>1, PaidCeiling
      <3>3. AtLeast(j * i, p.minimum) \in Int
        BY <1>1, <2>3 DEF AtLeast
      <3> QED
        BY <2>2, <3>2, <3>3
    <2>5. life = j * i
      BY <2>1, <2>3, <2>4
    <2> QED
      BY <2>5
  <1> QED
    BY <1>2, <1>3

(* Between an instant and a later jump of the bill that is less than an    *)
(* increment away there is no other: it is the next boundary.              *)
LEMMA JumpIsNextBoundary ==
    ASSUME NEW p \in Policy, p.increment > 0,
           NEW created \in Nat, NEW now \in Nat, created <= now,
           NEW b \in Nat, now < b, b <= now + p.increment,
           Paid((b + 1) - created, p) > Paid(b - created, p)
    PROVE  NextBoundary(created, p, now) = b
  <1> DEFINE i == p.increment
             n == NextBoundary(created, p, now)
  <1>1. i \in Nat \ {0}
    BY DEF Policy
  <1>2. PICK k \in Nat \ {0} : n = created + k * i
    BY BoundaryIsMultiple
  <1>3. k * i \in Nat
    BY <1>1
  <1>4. n # NoBoundary
    BY <1>2, <1>3 DEF NoBoundary
  <1>5. /\ n \in Nat /\ n > now
        /\ \A t \in Nat : (now < t /\ t <= n)
              => Paid(t - created, p) = Paid((now + 1) - created, p)
    BY <1>4, BoundaryIsNextJump
  <1>6. b - created \in Nat /\ (b + 1) - created = (b - created) + 1
    OBVIOUS
  <1>7. PICK j \in Nat : b - created = j * i
    <2>1. Paid((b - created) + 1, p) > Paid(b - created, p)
      BY <1>6
    <2> QED
      BY <1>6, <2>1, JumpIsMultiple
  <1> HIDE DEF n
  <1>8. ~(b < n)
    <2>1. ASSUME b < n PROVE FALSE
      <3>1. b + 1 \in Nat /\ now < b + 1 /\ b + 1 <= n /\ b <= n
        BY <1>5, <2>1
      <3>2. /\ Paid(b - created, p) = Paid((now + 1) - created, p)
            /\ Paid((b + 1) - created, p) = Paid((now + 1) - created, p)
        BY <1>5, <3>1
      <3>3. Paid(b - created, p) \in Nat
        BY <1>6, PaidType
      <3> QED
        BY <3>2, <3>3
    <2> QED
      BY <2>1
  <1>9. ~(n < b)
    <2>1. j * i \in Int /\ (k < j => k * i + i <= j * i) /\ (j <= k => j * i <= k * i)
      BY <1>1, Multiples
    <2> QED
      BY <1>1, <1>2, <1>3, <1>5, <1>7, <2>1
  <1> QED
    BY <1>5, <1>8, <1>9 DEF n

-----------------------------------------------------------------------------
(* The buffer is a whole number and at least the kernel's floor.           *)
LEMMA BufferFloor ==
    ASSUME NEW p \in Policy, NEW interval \in Nat, NEW slack \in Nat
    PROVE  /\ EffectiveBuffer(p, interval, slack) \in Nat
           /\ EffectiveBuffer(p, interval, slack) >= 2 * interval + slack
  <1>1. p.buffer \in Nat
    BY DEF Policy
  <1> QED
    BY <1>1 DEF EffectiveBuffer

(* Half of a number, as Window takes it.                                   *)
LEMMA Half ==
    ASSUME NEW n \in Nat
    PROVE  /\ n \div 2 \in Nat
           /\ 2 * (n \div 2) <= n
           /\ n <= 2 * (n \div 2) + 1
  OBVIOUS

(* A sweep that still keeps the machine is followed, at most one interval  *)
(* later, by one that is not past the cutoff: with EffectiveBuffer's floor *)
(* no window fits between two sweeps.  This is the claim of the comment at *)
(* EffectiveBuffer, for all of Decide's inputs.                            *)
THEOREM WindowNotSkipped ==
    ASSUME NEW p \in Policy, NEW interval \in Nat, NEW slack \in Nat,
           NEW boundary \in Nat, NEW t \in Nat, NEW next \in Nat,
           next <= t + interval,
           Decide(Window(boundary, EffectiveBuffer(p, interval, slack)), t) = "keep"
    PROVE  Decide(Window(boundary, EffectiveBuffer(p, interval, slack)), next) # "crossed"
  <1> DEFINE buf == EffectiveBuffer(p, interval, slack)
             half == buf \div 2
  <1>1. buf \in Nat /\ buf >= 2 * interval + slack
    BY BufferFloor
  <1>2. half \in Nat /\ 2 * half <= buf /\ buf <= 2 * half + 1
    BY <1>1, Half
  <1> HIDE DEF buf
  <1>3. Decide(Window(boundary, buf), t) = "keep"
    BY DEF buf
  <1>4. t < boundary - buf
    BY <1>1, <1>3 DEF Decide, Window
  <1>5. buf - interval >= half
    BY <1>1, <1>2
  <1>6. next <= boundary - half
    BY <1>1, <1>2, <1>4, <1>5
  <1>7. Decide(Window(boundary, buf), next) # "crossed"
    BY <1>6 DEF Decide, Window
  <1> QED
    BY <1>7 DEF buf

(* A delete that the window admits is journaled at least half a buffer, so *)
(* at least one whole sweep interval, before the boundary it is for.       *)
THEOREM ReclaimLeavesTime ==
    ASSUME NEW p \in Policy, NEW interval \in Nat, NEW slack \in Nat \ {0},
           NEW boundary \in Nat, NEW t \in Nat,
           Decide(Window(boundary, EffectiveBuffer(p, interval, slack)), t) = "terminate"
    PROVE  t + interval <= boundary
  <1> DEFINE buf == EffectiveBuffer(p, interval, slack)
             half == buf \div 2
  <1>1. buf \in Nat /\ buf >= 2 * interval + slack
    BY BufferFloor
  <1>2. half \in Nat /\ 2 * half <= buf /\ buf <= 2 * half + 1
    BY <1>1, Half
  <1>3. half >= interval
    BY <1>1, <1>2
  <1> HIDE DEF buf
  <1>4. Decide(Window(boundary, buf), t) = "terminate"
    BY DEF buf
  <1>5. t <= boundary - half
    BY <1>1, <1>2, <1>4 DEF Decide, Window
  <1> QED
    BY <1>2, <1>3, <1>5

-----------------------------------------------------------------------------
(* A non-empty set of naturals has a least element.                        *)
LEMMA LeastNatural ==
    ASSUME NEW T \in SUBSET Nat, T # {}
    PROVE  \E x \in T : \A y \in T : x <= y
  <1> DEFINE R == OpToRel(<, Nat)
  <1>1. IsWellFoundedOn(R, Nat)
    BY NatLessThanWellFounded
  <1> HIDE DEF R
  <1>2. PICK x \in T : \A y \in T : ~(<<y, x>> \in R)
    BY <1>1, WFMin
  <1>3. \A y \in T : ~(y < x)
    BY <1>2 DEF R, OpToRel
  <1> QED
    BY <1>3

(* A non-empty finite set of naturals has a greatest element: the least    *)
(* bound on its elements.                                                  *)
LEMMA GreatestNatural ==
    ASSUME NEW T \in SUBSET Nat, T # {}, IsFiniteSet(T)
    PROVE  \E x \in T : \A y \in T : y <= x
  <1> DEFINE Bad == {k \in Nat : \E S \in SUBSET Nat :
                        /\ S # {} /\ IsFiniteSet(S) /\ Cardinality(S) = k
                        /\ ~ \E x \in S : \A y \in S : y <= x}
  <1>1. SUFFICES ASSUME Bad # {} PROVE FALSE
    BY FS_CardinalityType
  <1>2. PICK k \in Bad : \A j \in Bad : k <= j
    BY <1>1, LeastNatural
  <1>3. PICK S \in SUBSET Nat : /\ S # {} /\ IsFiniteSet(S) /\ Cardinality(S) = k
                                /\ ~ \E x \in S : \A y \in S : y <= x
    BY <1>2
  <1>4. PICK e \in S : TRUE
    BY <1>3
  <1>5. /\ IsFiniteSet(S \ {e}) /\ Cardinality(S \ {e}) = k - 1 /\ k \in Nat
        /\ k - 1 \in Nat
    <2>1. IsFiniteSet(S \ {e}) /\ Cardinality(S \ {e}) = k - 1 /\ k \in Nat
      BY <1>2, <1>3, <1>4, FS_RemoveElement
    <2> QED
      BY <2>1, FS_CardinalityType
  <1>6. CASE S \ {e} = {}
    <2>1. \A y \in S : y <= e
      BY <1>4, <1>6
    <2> QED
      BY <1>3, <1>4, <2>1
  <1>7. CASE S \ {e} # {}
    <2>1. k - 1 \notin Bad
      BY <1>2, <1>5
    <2>2. PICK x \in S \ {e} : \A y \in S \ {e} : y <= x
      BY <1>5, <1>7, <2>1
    <2>3. CASE e <= x
      <3>1. \A y \in S : y <= x
        BY <2>2, <2>3
      <3> QED
        BY <1>3, <2>2, <3>1
    <2>4. CASE ~(e <= x)
      <3>1. \A y \in S : y <= e
        BY <1>4, <2>2, <2>4
      <3> QED
        BY <1>3, <1>4, <3>1
    <2> QED
      BY <2>3, <2>4
  <1> QED
    BY <1>6, <1>7

(* P95 returns one of the observed durations; at most 95 percent of them   *)
(* are shorter, and it is not longer than it has to be for that.           *)
THEOREM P95IsObserved ==
    ASSUME NEW observed \in Seq(Nat), observed # <<>>
    PROVE  LET at == (Len(observed) * 95) \div 100
               v  == P95(observed)
           IN  /\ \E i \in DOMAIN observed : v = observed[i]
               /\ Cardinality({i \in DOMAIN observed : observed[i] < v}) <= at
               /\ at < Cardinality({i \in DOMAIN observed : observed[i] <= v})
  <1> DEFINE D == DOMAIN observed
             n == Len(observed)
             at == (n * 95) \div 100
             Rank(v) == Cardinality({i \in D : observed[i] < v})
             Upto(v) == Cardinality({i \in D : observed[i] <= v})
             Values == {observed[i] : i \in D}
  <1>0. \A i \in D : observed[i] \in Nat
    OBVIOUS
  <1>1. n \in Nat \ {0} /\ D = 1..n
    OBVIOUS
  <1>2. at \in Nat /\ at < n
    BY <1>1
  <1>3. IsFiniteSet(D) /\ Cardinality(D) = n
    BY <1>1, FS_Interval
  <1> HIDE DEF D, n, at
  <1>4. ASSUME NEW S \in SUBSET D
        PROVE  IsFiniteSet(S) /\ Cardinality(S) \in Nat /\ Cardinality(S) <= n
    BY <1>3, FS_Subset, FS_CardinalityType
  <1>5. ASSUME NEW v \in Nat
        PROVE  /\ Rank(v) \in Nat /\ Upto(v) \in Nat
               /\ Rank(v) <= n /\ Upto(v) <= n
    <2>1. {i \in D : observed[i] < v} \in SUBSET D
      OBVIOUS
    <2>2. {i \in D : observed[i] <= v} \in SUBSET D
      OBVIOUS
    <2> QED
      BY <1>4, <2>1, <2>2
  \* a longer duration has more durations up to it
  <1>6. ASSUME NEW i \in D, NEW j \in D, observed[i] < observed[j]
        PROVE  Upto(observed[i]) < Upto(observed[j])
    <2> DEFINE A == {k \in D : observed[k] <= observed[i]}
               B == {k \in D : observed[k] <= observed[j]}
    <2>1. A \in SUBSET B /\ A # B /\ B \in SUBSET D
      <3>1. observed[i] \in Nat /\ observed[j] \in Nat /\ j \in B /\ j \notin A
        BY <1>0, <1>6
      <3>2. A \subseteq B
        BY <1>0, <1>6
      <3> QED
        BY <3>1, <3>2
    <2>2. /\ IsFiniteSet(B) /\ Cardinality(B) \in Nat
          /\ A \in SUBSET D
      BY <1>4, <2>1
    <2>3. Cardinality(A) <= Cardinality(B) /\ Cardinality(A) # Cardinality(B)
          /\ Cardinality(A) \in Nat
      <3> HIDE DEF A, B
      <3> QED
        BY <1>4, <2>1, <2>2, FS_Subset
    <2> QED
      BY <2>2, <2>3
  \* a longest one of some of them
  <1>7. ASSUME NEW S \in SUBSET D, S # {}
        PROVE  \E i \in S : \A j \in S : observed[j] <= observed[i]
    <2> DEFINE T == {n - Upto(observed[i]) : i \in S}
    <2>0. \A i \in S : observed[i] \in Nat /\ i \in D
      BY <1>0
    <2> HIDE DEF Upto
    <2>1. T \in SUBSET Nat /\ T # {}
      <3>1. ASSUME NEW i \in S PROVE n - Upto(observed[i]) \in Nat
        <4>1. Upto(observed[i]) \in Nat /\ Upto(observed[i]) <= n
          BY <1>5, <2>0
        <4> QED
          BY <1>1, <4>1
      <3> QED
        BY <1>7, <3>1
    <2>2. PICK x \in T : \A y \in T : x <= y
      BY <2>1, LeastNatural
    <2>3. PICK i \in S : x = n - Upto(observed[i])
      BY <2>2
    <2>4. ASSUME NEW j \in S PROVE observed[j] <= observed[i]
      <3>1. n - Upto(observed[j]) \in T
        OBVIOUS
      <3>2. x <= n - Upto(observed[j])
        BY <2>2, <3>1
      <3>3. Upto(observed[j]) \in Nat /\ Upto(observed[i]) \in Nat
        BY <1>5, <2>0
      <3>4. ~(Upto(observed[i]) < Upto(observed[j]))
        BY <1>1, <2>3, <3>2, <3>3
      <3>5. ~(observed[i] < observed[j])
        BY <1>6, <2>0, <3>4
      <3> QED
        BY <2>0, <3>5
    <2> QED
      BY <2>4
  <1> DEFINE G == {i \in D : at < Upto(observed[i])}
  <1>8. G # {}
    <2>1. 1 \in D
      BY <1>1
    <2>2. PICK i \in D : \A j \in D : observed[j] <= observed[i]
      BY <1>7, <2>1
    <2>3. {j \in D : observed[j] <= observed[i]} = D
      BY <2>2
    <2>4. Upto(observed[i]) = n
      BY <1>3, <2>3
    <2> QED
      BY <1>2, <2>4
  \* the shortest one with more than at up to it
  <1>9. PICK g \in G : \A j \in G : observed[g] <= observed[j]
    <2> DEFINE T == {observed[i] : i \in G}
    <2> HIDE DEF G
    <2>0. G \subseteq D
      BY DEF G
    <2>1. T \in SUBSET Nat /\ T # {}
      BY <1>0, <1>8, <2>0
    <2>2. PICK x \in T : \A y \in T : x <= y
      BY <2>1, LeastNatural
    <2> QED
      BY <2>2
  <1>10. Rank(observed[g]) <= at
    <2> DEFINE L == {j \in D : observed[j] < observed[g]}
    <2>1. CASE L = {}
      <3>1. Rank(observed[g]) = 0
        BY <2>1, FS_EmptySet
      <3> HIDE DEF Rank
      <3> QED
        BY <1>2, <3>1
    <2>2. CASE L # {}
      <3>1. L \in SUBSET D
        OBVIOUS
      <3>2. PICK j \in L : \A k \in L : observed[k] <= observed[j]
        BY <1>7, <2>2, <3>1
      <3>3. j \in D /\ j \notin G
        BY <1>0, <1>9, <3>2
      <3>0. observed[j] \in Nat /\ Upto(observed[j]) \in Nat
        BY <1>0, <1>5, <3>3
      <3>4. Upto(observed[j]) <= at
        BY <1>2, <3>0, <3>3
      <3>5. L \in SUBSET {k \in D : observed[k] <= observed[j]}
        BY <3>2
      <3>6. Cardinality(L) <= Upto(observed[j])
        BY <1>4, <3>5, FS_Subset
      <3>7. Cardinality(L) \in Nat
        BY <1>4, <3>1
      <3>8. Cardinality(L) <= at
        BY <1>2, <3>0, <3>4, <3>6, <3>7
      <3> QED
        BY <3>8
    <2> QED
      BY <2>1, <2>2
  <1>11. \E v \in Values : Rank(v) <= at /\ at < Upto(v)
    BY <1>9, <1>10
  <1>12. P95(observed) = CHOOSE v \in Values : Rank(v) <= at /\ at < Upto(v)
    BY DEF P95, D, n, at
  <1> DEFINE w == P95(observed)
  <1>13. w \in Values /\ Rank(w) <= at /\ at < Upto(w)
    <2> HIDE DEF Rank, Upto, Values
    <2> QED
      BY <1>11, <1>12
  <1> QED
    BY <1>13 DEF D, n, at

(* The adaptive buffer is a whole number.                                  *)
LEMMA AdaptiveBufferType ==
    ASSUME NEW observed \in Seq(Nat), NEW floor \in Nat, NEW margin \in Nat, NEW cap \in Nat
    PROVE  AdaptiveBuffer(observed, floor, margin, cap) \in Nat
  <1>1. CASE observed = <<>>
    BY <1>1 DEF AdaptiveBuffer
  <1>2. CASE observed # <<>>
    <2>0. PICK i \in DOMAIN observed : P95(observed) = observed[i]
      BY <1>2, P95IsObserved, Zenon
    <2>1. P95(observed) \in Nat
      BY <2>0
    <2> QED
      BY <2>1 DEF AdaptiveBuffer
  <1> QED
    BY <1>1, <1>2

-----------------------------------------------------------------------------
(* Merging intervals *)

(* Clipped intervals.                                                      *)
Clipped == {iv \in [start : Nat, end : Nat] : iv.start <= iv.end}

(* A finite set of intervals has one that starts last.                     *)
LEMMA LatestIsLast ==
    ASSUME NEW S \in SUBSET Clipped, IsFiniteSet(S), NEW s \in SUBSET S, s # {}
    PROVE  /\ Latest(s) \in s /\ \A iv \in s : iv.start <= Latest(s).start
           /\ s \ {Latest(s)} \in SUBSET S
           /\ Cardinality(s) \in Nat /\ Cardinality(s \ {Latest(s)}) = Cardinality(s) - 1
  <1>1. IsFiniteSet(s)
    BY FS_Subset
  <1> DEFINE starts == {iv.start : iv \in s}
  <1>2. \A iv \in s : iv.start \in Nat
    BY DEF Clipped
  <1>3. IsFiniteSet(starts)
    <2> DEFINE f == [iv \in s |-> iv.start]
    <2>1. f \in Surjection(s, starts)
      BY DEF Surjection
    <2> QED
      BY <1>1, <2>1, FS_Surjection
  <1>4. \E m \in starts : \A n \in starts : n <= m
    <2>1. starts # {} /\ starts \in SUBSET Nat
      BY <1>2
    <2> HIDE DEF starts
    <2> QED
      BY <1>3, <2>1, GreatestNatural
  <1>5. \E iv \in s : \A other \in s : other.start <= iv.start
    BY <1>4
  <1>6. Latest(s) \in s /\ \A iv \in s : iv.start <= Latest(s).start
    BY <1>5 DEF Latest
  <1> QED
    BY <1>1, <1>6, FS_RemoveElement, FS_CardinalityType

(* G is the fold's table of merges over a set D of sets of intervals.      *)
Merges(D, G) ==
    G = [s \in D |-> IF s = {} THEN NothingMerged
                     ELSE Merge(Latest(s), G[s \ {Latest(s)}])]

(* The subsets of S with at most n intervals.                              *)
AtMost(S, n) == {s \in SUBSET S : Cardinality(s) <= n}

(* A table for sets of up to n intervals extends to one interval more.     *)
LEMMA MergesGrow ==
    ASSUME NEW S \in SUBSET Clipped, IsFiniteSet(S), NEW n \in Nat,
           NEW G, Merges(AtMost(S, n), G)
    PROVE  \E H : Merges(AtMost(S, n + 1), H)
  <1> DEFINE H == [s \in AtMost(S, n + 1) |->
                     IF s = {} THEN NothingMerged ELSE Merge(Latest(s), G[s \ {Latest(s)}])]
  <1>1. \A s \in AtMost(S, n) :
           G[s] = IF s = {} THEN NothingMerged ELSE Merge(Latest(s), G[s \ {Latest(s)}])
    BY DEF Merges
  <1>2. \A s \in AtMost(S, n) : s \in AtMost(S, n + 1)
    <2> TAKE s \in AtMost(S, n)
    <2>1. s \in SUBSET S /\ Cardinality(s) <= n
      BY DEF AtMost
    <2>2. Cardinality(s) \in Nat
      BY <2>1, FS_Subset, FS_CardinalityType
    <2> QED
      BY <2>1, <2>2 DEF AtMost
  <1>3. \A s \in AtMost(S, n) : H[s] = G[s]
    BY <1>1, <1>2, Zenon
  <1>4. ASSUME NEW s \in AtMost(S, n + 1), s # {}
        PROVE  H[s \ {Latest(s)}] = G[s \ {Latest(s)}]
    <2>1. s \in SUBSET S /\ Cardinality(s) <= n + 1
      BY DEF AtMost
    <2>2. /\ s \ {Latest(s)} \in SUBSET S
          /\ Cardinality(s) \in Nat /\ Cardinality(s \ {Latest(s)}) = Cardinality(s) - 1
      BY <1>4, <2>1, LatestIsLast
    <2>3. s \ {Latest(s)} \in AtMost(S, n)
      BY <2>1, <2>2 DEF AtMost
    <2> QED
      BY <1>3, <2>3
  <1>5. H = [s \in AtMost(S, n + 1) |->
               IF s = {} THEN NothingMerged ELSE Merge(Latest(s), H[s \ {Latest(s)}])]
    BY <1>4
  <1> QED
    BY <1>5 DEF Merges

(* There is a table for all subsets of a finite set of intervals.          *)
LEMMA MergesExist ==
    ASSUME NEW S \in SUBSET Clipped, IsFiniteSet(S)
    PROVE  \E G : Merges(SUBSET S, G)
  <1> DEFINE Bad == {n \in Nat : ~ \E G : Merges(AtMost(S, n), G)}
  <1>1. Bad = {}
    <2>1. SUFFICES ASSUME Bad # {} PROVE FALSE
      OBVIOUS
    <2>2. PICK m \in Bad : \A k \in Bad : m <= k
      BY <2>1, LeastNatural
    <2>3. m \in Nat /\ ~ \E G : Merges(AtMost(S, m), G)
      BY <2>2
    <2>4. m # 0
      <3>1. \A s \in AtMost(S, 0) : s = {}
        <4> TAKE s \in AtMost(S, 0)
        <4>1. s \in SUBSET S /\ Cardinality(s) <= 0
          BY DEF AtMost
        <4>2. IsFiniteSet(s) /\ Cardinality(s) \in Nat
          BY <4>1, FS_Subset, FS_CardinalityType
        <4> QED
          BY <4>1, <4>2, FS_EmptySet
      <3> DEFINE G == [s \in AtMost(S, 0) |-> NothingMerged]
      <3>2. G = [s \in AtMost(S, 0) |->
                   IF s = {} THEN NothingMerged ELSE Merge(Latest(s), G[s \ {Latest(s)}])]
        BY <3>1
      <3>3. Merges(AtMost(S, 0), G)
        BY <3>2 DEF Merges
      <3> QED
        BY <2>3, <3>3
    <2>5. m - 1 \in Nat /\ m - 1 \notin Bad
      BY <2>2, <2>3, <2>4
    <2>6. PICK G : Merges(AtMost(S, m - 1), G)
      BY <2>5
    <2>7. \E H : Merges(AtMost(S, (m - 1) + 1), H)
      BY <2>5, <2>6, MergesGrow
    <2>8. (m - 1) + 1 = m
      BY <2>3
    <2> QED
      BY <2>3, <2>7, <2>8
  <1>2. Cardinality(S) \in Nat
    BY FS_CardinalityType
  <1>3. AtMost(S, Cardinality(S)) = SUBSET S
    BY FS_Subset DEF AtMost
  <1>4. \E G : Merges(AtMost(S, Cardinality(S)), G)
    BY <1>1, <1>2
  <1> QED
    BY <1>3, <1>4

(* The fold of UsefulMillis.                                               *)
Merged(S) == MapThenFoldSet(Merge, NothingMerged, LAMBDA iv : iv, Latest, S)

(* It is the entry for the whole set of a table of merges.                 *)
LEMMA MergeTable ==
    ASSUME NEW S \in SUBSET Clipped, IsFiniteSet(S)
    PROVE  \E G : /\ Merged(S) = G[S]
                  /\ G[{}] = NothingMerged
                  /\ \A s \in SUBSET S :
                        s # {} => G[s] = Merge(Latest(s), G[s \ {Latest(s)}])
  <1> DEFINE G0 == CHOOSE G : Merges(SUBSET S, G)
  <1>1. Merges(SUBSET S, G0)
    BY MergesExist
  <1>2. Merged(S) = G0[S]
    BY DEF Merged, MapThenFoldSet, Merges
  <1>3. G0 = [s \in SUBSET S |-> IF s = {} THEN NothingMerged
                                 ELSE Merge(Latest(s), G0[s \ {Latest(s)}])]
    BY <1>1, Zenon DEF Merges
  <1> HIDE DEF G0
  <1>4. /\ G0[{}] = NothingMerged
        /\ \A s \in SUBSET S : s # {} => G0[s] = Merge(Latest(s), G0[s \ {Latest(s)}])
    BY <1>3
  <1> QED
    BY <1>2, <1>4

(* The instants that some interval covers.                                 *)
Covered(S) == {t \in Nat : \E iv \in S : iv.start <= t /\ t < iv.end}

(* What the merge of a set of intervals has found: the number of covered   *)
(* instants, all of them before its end; its current span is covered, and  *)
(* begins no later than what follows in the list.                          *)
MergedRight(s, cur) ==
    /\ cur \in [total : Nat, start : Int, end : Int]
    /\ cur.start <= cur.end /\ -1 <= cur.start
    /\ IsFiniteSet(Covered(s)) /\ cur.total + (cur.end - cur.start) = Cardinality(Covered(s))
    /\ \A t \in Nat : (cur.start <= t /\ t < cur.end) => t \in Covered(s)
    /\ \A iv \in s : iv.end <= cur.end
    /\ \A n \in Nat : (\A iv \in s : iv.start <= n) => cur.start <= n

(* Disjoint finite sets.                                                   *)
LEMMA CountDisjoint ==
    ASSUME NEW A, NEW a \in Int, NEW b \in Int, a <= b, IsFiniteSet(A),
           \A t \in A : ~(t \in a..(b - 1))
    PROVE  /\ IsFiniteSet(A \cup (a..(b - 1)))
           /\ Cardinality(A \cup (a..(b - 1))) = Cardinality(A) + (b - a)
  <1>1. PICK m \in Int : m = b - 1
    OBVIOUS
  <1>2. PICK B : B = a..m
    OBVIOUS
  <1>3. IsFiniteSet(B) /\ Cardinality(B) = IF a > m THEN 0 ELSE m - a + 1
    BY <1>2, FS_Interval
  <1>4. Cardinality(B) = b - a
    BY <1>1, <1>3
  <1>5. A \cap B = {}
    BY <1>1, <1>2
  <1>6. Cardinality(A) \in Nat
    BY FS_CardinalityType
  <1>7. /\ IsFiniteSet(A \cup B)
        /\ Cardinality(A \cup B) = Cardinality(A) + Cardinality(B) - 0
    <2>1. /\ IsFiniteSet(A \cup B)
          /\ Cardinality(A \cup B) = Cardinality(A) + Cardinality(B) - Cardinality(A \cap B)
      BY <1>3, FS_Union, Zenon
    <2>2. Cardinality(A \cap B) = 0
      BY <1>5, FS_EmptySet, Zenon
    <2> QED
      BY <2>1, <2>2, Zenon
  <1> QED
    BY <1>1, <1>2, <1>4, <1>6, <1>7

(* A turn of the merge keeps this: an interval that begins beyond the end  *)
(* adds its own length, any other what it reaches beyond the end.          *)
LEMMA MergeStep ==
    ASSUME NEW u \in SUBSET Clipped, NEW x \in Clipped, NEW cur, MergedRight(u, cur),
           \A iv \in u : iv.start <= x.start
    PROVE  MergedRight(u \cup {x}, Merge(x, cur))
  <1> DEFINE s == u \cup {x}
  <1>1. /\ cur.total \in Nat /\ cur.start \in Int /\ cur.end \in Int
        /\ x.start \in Nat /\ x.end \in Nat /\ x.start <= x.end
        /\ cur = [total |-> cur.total, start |-> cur.start, end |-> cur.end]
        /\ \A iv \in u : iv.start \in Nat /\ iv.end \in Nat
    BY DEF MergedRight, Clipped
  <1>2. cur.start <= x.start
    BY <1>1 DEF MergedRight
  <1>3. \A t \in Covered(u) : t < cur.end
    <2> TAKE t \in Covered(u)
    <2>1. PICK iv \in u : t < iv.end
      BY DEF Covered
    <2>2. iv.end <= cur.end /\ t \in Nat
      BY DEF MergedRight, Covered
    <2> QED
      BY <1>1, <2>1, <2>2
  <1>4. Cardinality(Covered(u)) = cur.total + (cur.end - cur.start) /\ IsFiniteSet(Covered(u))
    BY DEF MergedRight
  <1>5. CASE x.start > cur.end
    <2> DEFINE total == cur.total + (cur.end - cur.start)
               new == [total |-> total, start |-> x.start, end |-> x.end]
    <2>1. Merge(x, cur) = new
      BY <1>5 DEF Merge
    <2>2. total \in Nat
      BY <1>1 DEF MergedRight
    <2>3. Covered(s) = Covered(u) \cup (x.start..(x.end - 1))
      BY <1>1 DEF Covered
    <2>4. \A t \in Covered(u) : ~(t \in x.start..(x.end - 1))
      BY <1>1, <1>3, <1>5 DEF Covered
    <2>5. IsFiniteSet(Covered(s)) /\ Cardinality(Covered(s)) = total + (x.end - x.start)
      <3>1. PICK A : A = Covered(u)
        OBVIOUS
      <3>2. PICK a \in Int, b \in Int : a = x.start /\ b = x.end
        BY <1>1
      <3>3. /\ IsFiniteSet(A \cup (a..(b - 1)))
            /\ Cardinality(A \cup (a..(b - 1))) = Cardinality(A) + (b - a)
        BY <1>1, <1>4, <2>4, <3>1, <3>2, CountDisjoint
      <3> QED
        BY <1>4, <2>3, <3>1, <3>2, <3>3
    <2>6. new.total = total /\ new.start = x.start /\ new.end = x.end
          /\ new \in [total : Nat, start : Int, end : Int]
      BY <1>1, <2>2
    <2>7. \A t \in Nat : (x.start <= t /\ t < x.end) => t \in Covered(s)
      BY <1>1, <2>3
    <2>8. \A iv \in s : iv.end <= x.end
      <3>1. \A iv \in u : iv.end <= cur.end
        BY DEF MergedRight
      <3> QED
        BY <1>1, <1>5, <3>1
    <2>9. \A n \in Nat : (\A iv \in s : iv.start <= n) => x.start <= n
      OBVIOUS
    <2> HIDE DEF total, new, s
    <2>10. MergedRight(s, new)
      BY <1>1, <2>5, <2>6, <2>7, <2>8, <2>9 DEF MergedRight
    <2> QED
      BY <2>1, <2>10 DEF s
  <1>6. CASE ~(x.start > cur.end)
    <2> DEFINE end == IF x.end > cur.end THEN x.end ELSE cur.end
               new == [total |-> cur.total, start |-> cur.start, end |-> end]
    <2>1. Merge(x, cur) = new
      BY <1>1, <1>6 DEF Merge
    <2>2. end \in Int /\ cur.end <= end /\ x.end <= end /\ (end = x.end \/ end = cur.end)
      BY <1>1
    <2> HIDE DEF end
    <2>3. Covered(s) = Covered(u) \cup (cur.end..(end - 1))
      <3>1. \A t \in Nat : (x.start <= t /\ t < x.end) =>
               (t \in Covered(u) \/ t \in cur.end..(end - 1))
        BY <1>1, <1>2, <2>2 DEF MergedRight
      <3>2. \A t \in cur.end..(end - 1) : t \in Nat /\ x.start <= t /\ t < x.end
        BY <1>1, <1>6, <2>2
      <3>3. ASSUME NEW t PROVE t \in Covered(s) <=> t \in Covered(u) \cup (cur.end..(end - 1))
        BY <3>1, <3>2 DEF Covered
      <3> QED
        BY <3>3
    <2>4. \A t \in Covered(u) : ~(t \in cur.end..(end - 1))
      BY <1>1, <1>3 DEF Covered
    <2>5. /\ IsFiniteSet(Covered(s))
          /\ Cardinality(Covered(s)) = Cardinality(Covered(u)) + (end - cur.end)
      <3>1. PICK A : A = Covered(u)
        OBVIOUS
      <3>2. PICK a \in Int, b \in Int : a = cur.end /\ b = end
        BY <1>1, <2>2
      <3>3. /\ IsFiniteSet(A \cup (a..(b - 1)))
            /\ Cardinality(A \cup (a..(b - 1))) = Cardinality(A) + (b - a)
        BY <1>4, <2>2, <2>4, <3>1, <3>2, CountDisjoint
      <3> QED
        BY <2>3, <3>1, <3>2, <3>3
    <2>6. Cardinality(Covered(s)) = cur.total + (end - cur.start)
      BY <1>1, <1>4, <2>2, <2>5
    <2>7. \A t \in Nat : (cur.start <= t /\ t < end) => t \in Covered(s)
      <3> TAKE t \in Nat
      <3> HAVE cur.start <= t /\ t < end
      <3>1. CASE t < cur.end
        <4>1. t \in Covered(u)
          BY <3>1 DEF MergedRight
        <4> QED
          BY <2>3, <4>1
      <3>2. CASE ~(t < cur.end)
        <4>1. t \in cur.end..(end - 1)
          BY <1>1, <2>2, <3>2
        <4> QED
          BY <2>3, <4>1
      <3> QED
        BY <3>1, <3>2
    <2>8. \A iv \in s : iv.end <= end
      BY <1>1, <2>2 DEF MergedRight
    <2>9. \A n \in Nat : (\A iv \in s : iv.start <= n) => cur.start <= n
      BY DEF MergedRight
    <2>10. new.total = cur.total /\ new.start = cur.start /\ new.end = end
           /\ new \in [total : Nat, start : Int, end : Int]
      BY <1>1, <2>2
    <2>11. cur.start <= end /\ -1 <= cur.start
      BY <1>1, <2>2 DEF MergedRight
    <2> HIDE DEF new, s
    <2>12. MergedRight(s, new)
      BY <1>1, <2>5, <2>6, <2>7, <2>8, <2>9, <2>10, <2>11 DEF MergedRight
    <2> QED
      BY <2>1, <2>12 DEF s
  <1> QED
    BY <1>5, <1>6

(* So the merge of every set of intervals is right, whatever order the     *)
(* sort leaves intervals in that start together.                           *)
LEMMA MergedIsRight ==
    ASSUME NEW S \in SUBSET Clipped, IsFiniteSet(S)
    PROVE  MergedRight(S, Merged(S))
  <1>1. PICK G : /\ Merged(S) = G[S]
                 /\ G[{}] = NothingMerged
                 /\ \A s \in SUBSET S :
                       s # {} => G[s] = Merge(Latest(s), G[s \ {Latest(s)}])
    BY MergeTable
  <1> DEFINE Sizes == {n \in Nat : \E s \in SUBSET S :
                         Cardinality(s) = n /\ ~MergedRight(s, G[s])}
  <1>2. CASE Sizes = {}
    <2>1. Cardinality(S) \in Nat /\ S \in SUBSET S
      BY FS_CardinalityType
    <2> QED
      BY <1>1, <1>2, <2>1
  <1>3. CASE Sizes # {}
    <2>1. PICK n \in Sizes : \A m \in Sizes : n <= m
      BY <1>3, LeastNatural
    <2>2. PICK s \in SUBSET S : Cardinality(s) = n /\ ~MergedRight(s, G[s])
      BY <2>1
    <2>3. CASE s = {}
      <3>1. Covered({}) = {}
        BY DEF Covered
      <3>2. MergedRight({}, NothingMerged)
        <4>1. IsFiniteSet({}) /\ Cardinality({}) = 0
          BY FS_EmptySet
        <4>2. /\ NothingMerged \in [total : Nat, start : Int, end : Int]
              /\ NothingMerged.total = 0 /\ NothingMerged.start = -1
              /\ NothingMerged.end = -1
          BY DEF NothingMerged
        <4>3. PICK cur : cur = NothingMerged
          OBVIOUS
        <4>4. /\ cur \in [total : Nat, start : Int, end : Int]
              /\ cur.total = 0 /\ cur.start = 0 - 1 /\ cur.end = 0 - 1
          BY <4>2, <4>3
        <4>5. /\ cur.start <= cur.end /\ -1 <= cur.start
              /\ cur.total + (cur.end - cur.start) = 0
              /\ \A t \in Nat : ~(cur.start <= t /\ t < cur.end)
              /\ \A i \in Nat : cur.start <= i
          BY <4>4
        <4> QED
          BY <3>1, <4>1, <4>3, <4>4, <4>5, Zenon DEF MergedRight
      <3> QED
        BY <1>1, <2>2, <2>3, <3>2
    <2>4. CASE s # {}
      <3> DEFINE x == Latest(s)
                 u == s \ {x}
      <3>1. /\ x \in s /\ \A iv \in s : iv.start <= x.start
            /\ u \in SUBSET S
            /\ Cardinality(s) \in Nat /\ Cardinality(u) = Cardinality(s) - 1
        BY <2>4, LatestIsLast
      <3>2. Cardinality(u) \in Nat
        BY <3>1, FS_Subset, FS_CardinalityType
      <3>3. Cardinality(u) \notin Sizes
        <4>1. n \in Nat /\ n = Cardinality(s)
          BY <2>1, <2>2
        <4> HIDE DEF Sizes
        <4> QED
          BY <2>1, <3>1, <3>2, <4>1
      <3>4. MergedRight(u, G[u])
        BY <3>1, <3>2, <3>3
      <3>5. G[s] = Merge(x, G[u])
        BY <1>1, <2>4
      <3>6. u \in SUBSET Clipped /\ x \in Clipped /\ u \cup {x} = s
            /\ \A iv \in u : iv.start <= x.start
        BY <3>1
      <3> HIDE DEF x, u
      <3>7. MergedRight(u \cup {x}, Merge(x, G[u]))
        BY <3>4, <3>6, MergeStep
      <3> QED
        BY <2>2, <3>5, <3>6, <3>7
    <2> QED
      BY <2>3, <2>4
  <1> QED
    BY <1>2, <1>3

(* UsefulMillis is resource-busy time and not lease time: for every finite *)
(* set of leases that began by now and did not end before they began, it   *)
(* is the number of instants before now in which at least one was held.    *)
THEOREM UsefulIsCovered ==
    ASSUME NEW now \in Nat, NEW spans \in SUBSET [start : Nat, end : Nat],
           IsFiniteSet(spans),
           \A iv \in spans : iv.start <= now /\ (iv.end = 0 \/ iv.start <= iv.end)
    PROVE  UsefulMillis(spans, now)
             = Cardinality({t \in Nat : \E iv \in spans :
                  iv.start <= t /\ t < now /\ (iv.end = 0 \/ t < iv.end)})
  <1> DEFINE S == {Clip(iv, now) : iv \in spans}
             busy == {t \in Nat : \E iv \in spans :
                        iv.start <= t /\ t < now /\ (iv.end = 0 \/ t < iv.end)}
  <1>1. ASSUME NEW iv \in spans
        PROVE  /\ Clip(iv, now) \in Clipped
               /\ \A t \in Nat : (Clip(iv, now).start <= t /\ t < Clip(iv, now).end)
                     <=> (iv.start <= t /\ t < now /\ (iv.end = 0 \/ t < iv.end))
    <2>1. iv.start \in Nat /\ iv.end \in Nat
      OBVIOUS
    <2>2. PICK e : e = IF iv.end = 0 \/ iv.end > now THEN now ELSE iv.end
      OBVIOUS
    <2>3. /\ e \in Nat /\ iv.start <= e
          /\ \A t \in Nat : t < e <=> (t < now /\ (iv.end = 0 \/ t < iv.end))
      BY <2>1, <2>2
    <2>4. Clip(iv, now) = [start |-> iv.start, end |-> e]
      BY <2>2 DEF Clip, Interval
    <2> QED
      BY <2>1, <2>3, <2>4 DEF Clipped
  <1>2. S \in SUBSET Clipped
    BY <1>1
  <1>3. IsFiniteSet(S)
    <2> DEFINE f == [iv \in spans |-> Clip(iv, now)]
    <2>1. f \in Surjection(spans, S)
      BY DEF Surjection
    <2> HIDE DEF f, S
    <2> QED
      BY <2>1, FS_Surjection
  <1>4. Covered(S) = busy
    BY <1>1 DEF Covered
  <1>5. PICK cur : cur = Merged(S)
    OBVIOUS
  <1> HIDE DEF S, busy
  <1>6. MergedRight(S, cur)
    BY <1>2, <1>3, <1>5, MergedIsRight
  <1>7. /\ cur.total + (cur.end - cur.start) = Cardinality(busy)
        /\ Cardinality(busy) \in Nat
    <2>1. IsFiniteSet(busy) /\ cur.total + (cur.end - cur.start) = Cardinality(busy)
      BY <1>4, <1>6 DEF MergedRight
    <2> QED
      BY <2>1, FS_CardinalityType
  <1>8. UsefulMillis(spans, now) = IF cur.total + (cur.end - cur.start) < 0 THEN 0
                                   ELSE cur.total + (cur.end - cur.start)
    BY <1>5 DEF UsefulMillis, Merged, S
  <1>9. UsefulMillis(spans, now) = Cardinality(busy)
    BY <1>7, <1>8
  <1> QED
    BY <1>9 DEF busy

(* No lifetime is paid for with less than itself.                          *)
LEMMA PaidCovers ==
    ASSUME NEW p \in Policy, NEW life \in Nat
    PROVE  life <= Paid(life, p)
  <1>0. p.increment \in Nat /\ p.minimum \in Nat
    BY DEF Policy
  <1>1. CASE life = 0
    BY <1>1, PaidType
  <1>2. CASE life # 0 /\ p.increment > 0
    <2>1. PICK k \in Nat \ {0} : (k - 1) * p.increment < life /\ life <= k * p.increment
      <3>1. life \in Nat \ {0} /\ p.increment \in Nat \ {0}
        BY <1>0, <1>2
      <3> QED
        BY <3>1, Ceiling
    <2>2. Paid(life, p) = AtLeast(k * p.increment, p.minimum)
      BY <1>2, <2>1, PaidCeiling
    <2>3. k * p.increment \in Nat
      BY <1>0
    <2> QED
      BY <1>0, <2>1, <2>2, <2>3 DEF AtLeast
  <1>3. CASE ~(p.increment > 0)
    <2>1. Paid(life, p) = IF life < p.minimum THEN p.minimum ELSE life
      BY <1>3 DEF Paid
    <2> QED
      BY <1>0, <2>1
  <1> QED
    BY <1>0, <1>1, <1>2, <1>3
=============================================================================
