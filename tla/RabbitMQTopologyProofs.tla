------------------------ MODULE RabbitMQTopologyProofs ------------------------
(***************************************************************************)
(* The retry queues, proved for all delays, units, attempts and any number *)
(* of deployments.                                                         *)
(***************************************************************************)
EXTENDS RabbitMQTopology, SequenceTheorems, WellFoundedInduction, TLAPS

-----------------------------------------------------------------------------
(***************************************************************************)
(* Induction over the attempts.                                            *)
(***************************************************************************)

\* A set of numbers has a least one.
LEMMA LeastNumber ==
    ASSUME NEW T \in SUBSET Nat, T # {} PROVE \E n \in T : \A m \in T : n <= m
<1>1. PICK n \in T : \A m \in T : ~(<< m, n >> \in OpToRel(<, Nat))
  BY NatLessThanWellFounded, WFMin
<1>2. ASSUME NEW m \in T PROVE n <= m
  <2>1. << m, n >> \in OpToRel(<, Nat) <=> m < n
    <3>1. OpToRel(<, Nat) = {ss \in Nat \X Nat : ss[1] < ss[2]}
      BY DEF OpToRel
    <3> QED
      BY <3>1
  <2>2. ~(m < n)
    BY <1>1, <2>1, Zenon
  <2>3. m \in Nat /\ n \in Nat
    OBVIOUS
  <2> QED
    BY <2>2, <2>3
<1> QED
  BY <1>2

LEMMA SetInduction ==
    ASSUME NEW T \in SUBSET Nat, 0 \in T, \A n \in T : n + 1 \in T PROVE T = Nat
<1> SUFFICES ASSUME Nat \ T # {} PROVE FALSE
  OBVIOUS
<1>1. PICK n \in Nat \ T : \A m \in Nat \ T : n <= m
  BY LeastNumber
<1>2. n # 0 /\ n - 1 \in Nat
  BY <1>1
<1>3. n - 1 \in T
  BY <1>1, <1>2
<1>4. (n - 1) + 1 = n
  BY <1>1
<1> QED
  BY <1>1, <1>3, <1>4

\* A function defined by recursion over the numbers up to n.
UpTo(g, n, S, first, step) ==
    /\ g \in [0..n -> S] /\ g[0] = first
    /\ \A i \in 1..n : g[i] = step[i][g[i - 1]]

LEMMA UpToExists ==
    ASSUME NEW S, NEW first \in S, NEW step \in [Nat -> [S -> S]]
    PROVE  \A n \in Nat : \E g : UpTo(g, n, S, first, step)
<1> DEFINE T == {n \in Nat : \E g : UpTo(g, n, S, first, step)}
<1>1. 0 \in T
  <2>1. UpTo([i \in 0..0 |-> first], 0, S, first, step)
    BY DEF UpTo
  <2> QED
    BY <2>1
<1>2. ASSUME NEW n \in T PROVE n + 1 \in T
  <2>1. PICK g : UpTo(g, n, S, first, step)
    OBVIOUS
  <2> DEFINE h == [i \in 0..n + 1 |-> IF i <= n THEN g[i] ELSE step[i][g[n]]]
  <2>2. g[n] \in S /\ n \in Nat
    BY <2>1 DEF UpTo
  <2>3. h \in [0..n + 1 -> S] /\ h[0] = first
    BY <2>1, <2>2 DEF UpTo
  <2>4. ASSUME NEW i \in 1..n + 1 PROVE h[i] = step[i][h[i - 1]]
    <3>1. CASE i <= n
      BY <2>1, <2>2, <3>1 DEF UpTo
    <3>2. CASE i = n + 1
      BY <2>2, <3>2
    <3> QED
      BY <2>2, <3>1, <3>2
  <2> HIDE DEF h
  <2>5. UpTo(h, n + 1, S, first, step)
    BY <2>3, <2>4 DEF UpTo
  <2> QED
    BY <2>2, <2>5
<1>3. T = Nat
  <2> HIDE DEF T
  <2>1. T \in SUBSET Nat
    BY DEF T
  <2> QED
    BY <1>1, <1>2, <2>1, SetInduction
<1> QED
  BY <1>3

LEMMA UpToUnique ==
    ASSUME NEW S, NEW first, NEW step, NEW g, NEW h, NEW n \in Nat, NEW m \in Nat,
           UpTo(g, n, S, first, step), UpTo(h, m, S, first, step)
    PROVE  \A i \in Nat : i <= n /\ i <= m => g[i] = h[i]
<1> DEFINE T == {i \in Nat : i <= n /\ i <= m => g[i] = h[i]}
<1>1. 0 \in T
  BY DEF UpTo
<1>2. ASSUME NEW i \in T PROVE i + 1 \in T
  <2>1. i \in Nat /\ (i <= n /\ i <= m => g[i] = h[i])
    OBVIOUS
  <2>2. ASSUME i + 1 <= n, i + 1 <= m PROVE g[i + 1] = h[i + 1]
    <3>1. i + 1 \in 1..n /\ i + 1 \in 1..m /\ (i + 1) - 1 = i
      BY <2>1, <2>2
    <3>2. g[i + 1] = step[i + 1][g[i]] /\ h[i + 1] = step[i + 1][h[i]]
      BY <3>1 DEF UpTo
    <3> QED
      BY <2>1, <2>2, <3>2
  <2> QED
    BY <2>1, <2>2
<1>3. T = Nat
  <2> HIDE DEF T
  <2>1. T \in SUBSET Nat
    BY DEF T
  <2> QED
    BY <1>1, <1>2, <2>1, SetInduction
<1> QED
  BY <1>3

\* Recursion over the numbers defines a function.
Recursion(S, first, step) ==
    \E f \in [Nat -> S] : f[0] = first /\ \A n \in Nat : f[n + 1] = step[n + 1][f[n]]

LEMMA RecursiveFunction ==
    ASSUME NEW S, NEW first \in S, NEW step \in [Nat -> [S -> S]]
    PROVE  Recursion(S, first, step)
<1> DEFINE part(n) == CHOOSE g : UpTo(g, n, S, first, step)
           f == [n \in Nat |-> part(n)[n]]
<1>1. \A n \in Nat : UpTo(part(n), n, S, first, step)
  BY UpToExists
<1> HIDE DEF part
<1>2. f \in [Nat -> S]
  BY <1>1 DEF UpTo
<1>3. f[0] = first
  BY <1>1 DEF UpTo
<1>4. ASSUME NEW n \in Nat PROVE f[n + 1] = step[n + 1][f[n]]
  <2>1. UpTo(part(n), n, S, first, step) /\ UpTo(part(n + 1), n + 1, S, first, step)
    BY <1>1
  <2>2. part(n + 1)[n] = part(n)[n]
    BY <2>1, UpToUnique
  <2>3. n + 1 \in 1..n + 1 /\ (n + 1) - 1 = n
    OBVIOUS
  <2>4. part(n + 1)[n + 1] = step[n + 1][part(n + 1)[n]]
    BY <2>1, <2>3 DEF UpTo
  <2> QED
    BY <2>2, <2>4
<1> HIDE DEF f
<1> QED
  BY <1>2, <1>3, <1>4 DEF Recursion
-----------------------------------------------------------------------------
(***************************************************************************)
(* The delay of an attempt is the documented backoff: it never wraps, and  *)
(* never decreases.                                                        *)
(***************************************************************************)

Positive == Nat \ {0}

LEMMA WrapInRange ==
    ASSUME NEW d \in Int
    PROVE  Wrap(d) \in Int /\ (d \in 0..MaxDuration => Wrap(d) = d)
<1> USE MaxDurationAssumption
<1>1. Wrap(d) \in Int
  BY DEF Wrap
<1>2. ASSUME d \in 0..MaxDuration PROVE Wrap(d) = d
  <2>1. PICK m \in Nat : m = 2 * (MaxDuration + 1)
    OBVIOUS
  <2>2. PICK e \in Nat : e = d + MaxDuration + 1 /\ e < m
    BY <1>2, <2>1
  <2>3. e % m = e
    BY <2>1, <2>2
  <2> QED
    BY <1>2, <2>1, <2>2, <2>3 DEF Wrap
<1> QED
  BY <1>1, <1>2

LEMMA PolicyFacts ==
    ASSUME NEW p \in Policies
    PROVE  /\ p.MaxAttempts \in Nat \ {0} /\ p.BaseDelay \in Positive /\ p.MaxDelay \in Positive
           /\ p.BaseDelay <= p.MaxDelay /\ 2 * p.MaxDelay <= MaxDuration
  BY MaxDurationAssumption, BoundsAssumption, NoOverflowAssumption
  DEF Policies, ValidPolicy, Positive

\* The functions that Backoff and Delay define by recursion.
IsDoubled(f, p) == f = [i \in Nat |-> IF i = 0 THEN p.BaseDelay ELSE 2 * f[i - 1]]

IsDelay(f, p) ==
    f = [i \in Nat |-> IF i <= 1 THEN p.BaseDelay
                       ELSE IF f[i - 1] < p.MaxDelay THEN Wrap(2 * f[i - 1]) ELSE f[i - 1]]

LEMMA DoubledExists ==
    ASSUME NEW p \in Policies
    PROVE  \E f \in [Nat -> Int] :
              /\ f[0] = p.BaseDelay /\ \A n \in Nat : f[n + 1] = 2 * f[n]
              /\ \A n \in Nat : Backoff(p, n + 1) = Least(f[n], p.MaxDelay)
<1>1. PICK step : step = [i \in Nat |-> [x \in Int |-> 2 * x]]
  OBVIOUS
<1>2. step \in [Nat -> [Int -> Int]] /\ p.BaseDelay \in Int
  BY <1>1, PolicyFacts DEF Positive
<1>3. PICK f \in [Nat -> Int] :
         f[0] = p.BaseDelay /\ \A n \in Nat : f[n + 1] = step[n + 1][f[n]]
  <2>1. Recursion(Int, p.BaseDelay, step)
    BY <1>2, RecursiveFunction
  <2> QED
    BY <2>1 DEF Recursion
<1>4. ASSUME NEW n \in Nat PROVE f[n + 1] = 2 * f[n]
  <2>1. f[n + 1] = step[n + 1][f[n]]
    BY <1>3
  <2> QED
    BY <1>1, <2>1
<1>5. IsDoubled(f, p)
  <2>1. ASSUME NEW i \in Nat PROVE f[i] = IF i = 0 THEN p.BaseDelay ELSE 2 * f[i - 1]
    <3>1. CASE i = 0
      BY <1>3, <3>1
    <3>2. CASE i # 0
      <4>1. i - 1 \in Nat /\ (i - 1) + 1 = i
        BY <3>2
      <4>2. f[(i - 1) + 1] = 2 * f[i - 1]
        BY <1>4, <4>1
      <4> QED
        BY <3>2, <4>1, <4>2
    <3> QED
      BY <3>1, <3>2
  <2> QED
    BY <2>1 DEF IsDoubled
<1>6. ASSUME NEW g, IsDoubled(g, p) PROVE \A n \in Nat : g[n] = f[n]
  <2> DEFINE T == {n \in Nat : g[n] = f[n]}
  <2>1. 0 \in T
    BY <1>3, <1>6 DEF IsDoubled
  <2>2. ASSUME NEW n \in T PROVE n + 1 \in T
    <3>1. g[n + 1] = 2 * g[(n + 1) - 1] /\ (n + 1) - 1 = n
      BY <1>6 DEF IsDoubled
    <3> QED
      BY <1>4, <3>1
  <2>3. T = Nat
    <3> HIDE DEF T
    <3>1. T \in SUBSET Nat
      BY DEF T
    <3> QED
      BY <2>1, <2>2, <3>1, SetInduction
  <2> QED
    BY <2>3
<1>7. ASSUME NEW n \in Nat PROVE Backoff(p, n + 1) = Least(f[n], p.MaxDelay)
  <2>1. PICK g : g = CHOOSE h : IsDoubled(h, p)
    OBVIOUS
  <2>2. IsDoubled(g, p)
    BY <1>5, <2>1
  <2>3. Backoff(p, n + 1) = Least(g[(n + 1) - 1], p.MaxDelay)
    BY <2>1 DEF Backoff, IsDoubled
  <2> QED
    BY <1>6, <2>2, <2>3
<1> QED
  BY <1>3, <1>4, <1>7

LEMMA DelayExists ==
    ASSUME NEW p \in Policies
    PROVE  \E f \in [Nat -> Int] :
              /\ f[1] = p.BaseDelay
              /\ \A n \in Positive :
                    f[n + 1] = IF f[n] < p.MaxDelay THEN Wrap(2 * f[n]) ELSE f[n]
              /\ \A n \in Positive : Delay(p, n) = Least(f[n], p.MaxDelay)
<1>1. PICK step : step = [i \in Nat |-> [x \in Int |->
                             IF i <= 1 THEN p.BaseDelay
                             ELSE IF x < p.MaxDelay THEN Wrap(2 * x) ELSE x]]
  OBVIOUS
<1>2. step \in [Nat -> [Int -> Int]] /\ p.BaseDelay \in Int
  BY <1>1, PolicyFacts, WrapInRange DEF Positive
<1>3. PICK f \in [Nat -> Int] :
         f[0] = p.BaseDelay /\ \A n \in Nat : f[n + 1] = step[n + 1][f[n]]
  <2>1. Recursion(Int, p.BaseDelay, step)
    BY <1>2, RecursiveFunction
  <2> QED
    BY <2>1 DEF Recursion
<1>4. ASSUME NEW n \in Nat
      PROVE  f[n + 1] = IF n = 0 THEN p.BaseDelay
                        ELSE IF f[n] < p.MaxDelay THEN Wrap(2 * f[n]) ELSE f[n]
  <2>1. f[n + 1] = step[n + 1][f[n]]
    BY <1>3
  <2> QED
    BY <1>1, <2>1
<1>5. IsDelay(f, p)
  <2>1. ASSUME NEW i \in Nat
        PROVE  f[i] = IF i <= 1 THEN p.BaseDelay
                      ELSE IF f[i - 1] < p.MaxDelay THEN Wrap(2 * f[i - 1]) ELSE f[i - 1]
    <3>1. CASE i = 0
      BY <1>3, <3>1
    <3>2. CASE i # 0
      <4>1. PICK n \in Nat : i = n + 1 /\ n = i - 1
        BY <3>2
      <4> QED
        BY <1>4, <4>1
    <3> QED
      BY <3>1, <3>2
  <2> QED
    BY <2>1 DEF IsDelay
<1>6. ASSUME NEW g, IsDelay(g, p) PROVE \A n \in Nat : g[n] = f[n]
  <2> DEFINE T == {n \in Nat : g[n] = f[n]}
  <2>1. 0 \in T
    BY <1>3, <1>6 DEF IsDelay
  <2>2. ASSUME NEW n \in T PROVE n + 1 \in T
    <3>1. /\ g[n + 1] = IF n + 1 <= 1 THEN p.BaseDelay
                        ELSE IF g[(n + 1) - 1] < p.MaxDelay THEN Wrap(2 * g[(n + 1) - 1])
                        ELSE g[(n + 1) - 1]
          /\ (n + 1) - 1 = n
      BY <1>6 DEF IsDelay
    <3> QED
      BY <1>4, <3>1
  <2>3. T = Nat
    <3> HIDE DEF T
    <3>1. T \in SUBSET Nat
      BY DEF T
    <3> QED
      BY <2>1, <2>2, <3>1, SetInduction
  <2> QED
    BY <2>3
<1>7. ASSUME NEW n \in Positive PROVE Delay(p, n) = Least(f[n], p.MaxDelay)
  <2>1. PICK g : g = CHOOSE h : IsDelay(h, p)
    OBVIOUS
  <2>2. IsDelay(g, p)
    BY <1>5, <2>1
  <2>3. Delay(p, n) = Least(g[n], p.MaxDelay)
    BY <2>1 DEF Delay, IsDelay
  <2> QED
    BY <1>6, <2>2, <2>3 DEF Positive
<1>8. f[1] = p.BaseDelay
  BY <1>4
<1> QED
  BY <1>4, <1>7, <1>8 DEF Positive

LEMMA DelayIsBackoff ==
    ASSUME NEW p \in Policies
    PROVE  \A n \in Positive : /\ Delay(p, n) = Backoff(p, n)
                               /\ Delay(p, n) \in Positive
                               /\ Delay(p, n) <= Delay(p, n + 1)
<1>1. PICK d \in [Nat -> Int] :
         /\ d[1] = p.BaseDelay
         /\ \A n \in Positive : d[n + 1] = IF d[n] < p.MaxDelay THEN Wrap(2 * d[n]) ELSE d[n]
         /\ \A n \in Positive : Delay(p, n) = Least(d[n], p.MaxDelay)
  BY DelayExists
<1>2. PICK b \in [Nat -> Int] :
         /\ b[0] = p.BaseDelay /\ \A n \in Nat : b[n + 1] = 2 * b[n]
         /\ \A n \in Nat : Backoff(p, n + 1) = Least(b[n], p.MaxDelay)
  BY DoubledExists
<1> DEFINE Same(n) == /\ d[n + 1] \in Positive /\ b[n] \in Positive
                      /\ d[n + 1] < p.MaxDelay => d[n + 1] = b[n]
                      /\ d[n + 1] >= p.MaxDelay => b[n] >= p.MaxDelay
           T == {n \in Nat : Same(n)}
<1>3. 0 \in T
  BY <1>1, <1>2, PolicyFacts DEF Positive
<1>4. ASSUME NEW n \in T PROVE n + 1 \in T
  <2>1. PICK x, y : x = d[n + 1] /\ y = b[n]
    OBVIOUS
  <2>2. /\ x \in Positive /\ y \in Positive
        /\ x < p.MaxDelay => x = y
        /\ x >= p.MaxDelay => y >= p.MaxDelay
    BY <2>1
  <2>3. n + 1 \in Positive /\ d[(n + 1) + 1] = IF x < p.MaxDelay THEN Wrap(2 * x) ELSE x
    BY <1>1, <2>1 DEF Positive
  <2>4. b[n + 1] = 2 * y
    BY <1>2, <2>1
  <2>5. x < p.MaxDelay => Wrap(2 * x) = 2 * x
    <3>1. ASSUME x < p.MaxDelay PROVE Wrap(2 * x) = 2 * x
      <4>1. 2 * x \in Int /\ 2 * x \in 0..MaxDuration
        BY <2>2, <3>1, PolicyFacts, MaxDurationAssumption DEF Positive
      <4> QED
        BY <4>1, WrapInRange
    <3> QED
      BY <3>1
  <2>6. p.MaxDelay \in Positive
    BY PolicyFacts
  <2>7. Same(n + 1)
    BY <2>2, <2>3, <2>4, <2>5, <2>6 DEF Positive
  <2> QED
    BY <2>7
<1>5. T = Nat
  <2> HIDE DEF T
  <2>1. T \in SUBSET Nat
    BY DEF T
  <2> QED
    BY <1>3, <1>4, <2>1, SetInduction
<1>6. ASSUME NEW n \in Positive
      PROVE  /\ Delay(p, n) = Backoff(p, n) /\ Delay(p, n) \in Positive
             /\ Delay(p, n) <= Delay(p, n + 1)
  <2>1. PICK k \in Nat : n = k + 1 /\ n + 1 = (k + 1) + 1
    BY DEF Positive
  <2>2. Same(k) /\ Same(k + 1)
    BY <1>5
  <2>3. PICK x, y, x2 : x = d[n] /\ y = b[k] /\ x2 = d[n + 1]
    OBVIOUS
  <2>4. /\ x \in Positive /\ y \in Positive /\ x2 \in Positive
        /\ x < p.MaxDelay => x = y
        /\ x >= p.MaxDelay => y >= p.MaxDelay
    BY <2>1, <2>2, <2>3
  <2>5. x2 = IF x < p.MaxDelay THEN Wrap(2 * x) ELSE x
    BY <1>1, <2>3
  <2>6. x < p.MaxDelay => Wrap(2 * x) = 2 * x
    <3>1. ASSUME x < p.MaxDelay PROVE Wrap(2 * x) = 2 * x
      <4>1. 2 * x \in Int /\ 2 * x \in 0..MaxDuration
        BY <2>4, <3>1, PolicyFacts, MaxDurationAssumption DEF Positive
      <4> QED
        BY <4>1, WrapInRange
    <3> QED
      BY <3>1
  <2>7. /\ Delay(p, n) = Least(x, p.MaxDelay) /\ Delay(p, n + 1) = Least(x2, p.MaxDelay)
        /\ Backoff(p, n) = Least(y, p.MaxDelay)
    BY <1>1, <1>2, <2>1, <2>3 DEF Positive
  <2>8. p.MaxDelay \in Positive
    BY PolicyFacts
  <2> QED
    BY <2>4, <2>5, <2>6, <2>7, <2>8 DEF Least, Positive
<1> QED
  BY <1>6

-----------------------------------------------------------------------------
(***************************************************************************)
(* The distinct delays are sorted, and every attempt finds its own.        *)
(***************************************************************************)

\* s lists the delays of the first n attempts.
Waits(s, p, n) ==
    /\ s \in Seq(Positive)
    /\ n = 0 => s = << >>
    /\ n # 0 => s # << >> /\ s[Len(s)] = Delay(p, n)
    /\ \A i, j \in 1..Len(s) : i <= j => s[i] <= s[j]
    /\ \A k \in 1..n : \E i \in 1..Len(s) : s[i] = Delay(p, k)

\* One attempt more.
Longer(s, d) == IF s = << >> \/ s[Len(s)] # d THEN Append(s, d) ELSE s

LEMMA LongerWaits ==
    ASSUME NEW p \in Policies, NEW n \in Nat, NEW s, Waits(s, p, n)
    PROVE  Waits(Longer(s, Delay(p, n + 1)), p, n + 1)
<1>1. PICK d : d = Delay(p, n + 1)
  OBVIOUS
<1>2. d \in Positive
  BY <1>1, DelayIsBackoff DEF Positive
<1>3. n # 0 => s[Len(s)] <= d /\ s[Len(s)] \in Positive
  BY <1>1, DelayIsBackoff DEF Positive, Waits
<1>4. PICK t : t = Longer(s, d)
  OBVIOUS
<1>5. s \in Seq(Positive)
  BY DEF Waits
<1>6. CASE s = << >> \/ s[Len(s)] # d
  <2>1. t = Append(s, d)
    BY <1>4, <1>6 DEF Longer
  <2>2. /\ t \in Seq(Positive) /\ t # << >> /\ Len(t) = Len(s) + 1 /\ Len(s) \in Nat
        /\ \A i \in 1..Len(s) : t[i] = s[i] /\ s[i] \in Positive
        /\ t[Len(s) + 1] = d
    BY <1>2, <1>5, <2>1
  <2>3. \A i \in 1..Len(s) : s[i] <= d
    <3>1. CASE n = 0
      BY <1>5, <3>1 DEF Waits
    <3>2. CASE n # 0
      <4>1. \A i \in 1..Len(s) : s[i] <= s[Len(s)]
        BY <2>2 DEF Waits
      <4> QED
        BY <1>2, <1>3, <2>2, <3>2, <4>1 DEF Positive
    <3> QED
      BY <3>1, <3>2
  <2>4. ASSUME NEW i \in 1..Len(t), NEW j \in 1..Len(t), i <= j PROVE t[i] <= t[j]
    <3>1. CASE j = Len(s) + 1
      <4>1. CASE i = j
        BY <1>2, <2>2, <3>1, <4>1 DEF Positive
      <4>2. CASE i # j
        <5>1. i \in 1..Len(s)
          BY <2>2, <2>4, <3>1, <4>2
        <5> QED
          BY <2>2, <2>3, <3>1, <5>1
      <4> QED
        BY <4>1, <4>2
    <3>2. CASE j # Len(s) + 1
      <4>1. i \in 1..Len(s) /\ j \in 1..Len(s)
        BY <2>2, <2>4, <3>2
      <4> QED
        BY <2>2, <2>4, <4>1 DEF Waits
    <3> QED
      BY <3>1, <3>2
  <2>5. ASSUME NEW k \in 1..n + 1 PROVE \E i \in 1..Len(t) : t[i] = Delay(p, k)
    <3>1. CASE k = n + 1
      BY <1>1, <2>2, <3>1
    <3>2. CASE k # n + 1
      <4>1. PICK i \in 1..Len(s) : s[i] = Delay(p, k)
        BY <3>2 DEF Waits
      <4> QED
        BY <2>2, <4>1
    <3> QED
      BY <3>1, <3>2
  <2> QED
    BY <1>1, <1>4, <2>2, <2>4, <2>5 DEF Waits
<1>7. CASE ~(s = << >> \/ s[Len(s)] # d)
  <2>1. t = s
    BY <1>4, <1>7 DEF Longer
  <2>2. Len(s) \in 1..Len(s)
    BY <1>5, <1>7
  <2>3. ASSUME NEW k \in 1..n + 1 PROVE \E i \in 1..Len(s) : s[i] = Delay(p, k)
    <3>1. CASE k = n + 1
      BY <1>1, <1>7, <2>2, <3>1
    <3>2. CASE k # n + 1
      BY <3>2 DEF Waits
    <3> QED
      BY <3>1, <3>2
  <2>4. n + 1 # 0
    OBVIOUS
  <2> QED
    BY <1>1, <1>4, <1>5, <1>7, <2>1, <2>3, <2>4 DEF Waits
<1> QED
  BY <1>1, <1>4, <1>6, <1>7

IsDelays(f, p) ==
    f = [n \in Nat |->
            IF n = 0 THEN << >>
            ELSE LET prev == f[n - 1] IN
                 IF prev = << >> \/ prev[Len(prev)] # Delay(p, n)
                 THEN Append(prev, Delay(p, n)) ELSE prev]

LEMMA DelaysExist ==
    ASSUME NEW p \in Policies
    PROVE  \E f \in [Nat -> Seq(Positive)] : IsDelays(f, p)
<1>1. PICK step : step = [i \in Nat |-> [s \in Seq(Positive) |->
                             IF i = 0 THEN s ELSE Longer(s, Delay(p, i))]]
  OBVIOUS
<1>2. step \in [Nat -> [Seq(Positive) -> Seq(Positive)]]
  <2>1. ASSUME NEW i \in Nat, NEW s \in Seq(Positive), i # 0
        PROVE  Longer(s, Delay(p, i)) \in Seq(Positive)
    <3>1. PICK d \in Positive : d = Delay(p, i)
      BY <2>1, DelayIsBackoff DEF Positive
    <3>2. Append(s, d) \in Seq(Positive)
      OBVIOUS
    <3> QED
      BY <3>1, <3>2 DEF Longer
  <2> QED
    BY <1>1, <2>1
<1>3. Recursion(Seq(Positive), << >>, step)
  <2>1. << >> \in Seq(Positive)
    OBVIOUS
  <2> QED
    BY <1>2, <2>1, RecursiveFunction
<1>4. PICK f \in [Nat -> Seq(Positive)] :
         f[0] = << >> /\ \A n \in Nat : f[n + 1] = step[n + 1][f[n]]
  BY <1>3 DEF Recursion
<1>5. ASSUME NEW n \in Nat PROVE f[n + 1] = Longer(f[n], Delay(p, n + 1))
  <2>1. f[n + 1] = step[n + 1][f[n]] /\ f[n] \in Seq(Positive) /\ n + 1 \in Nat /\ n + 1 # 0
    BY <1>4
  <2> QED
    BY <1>1, <2>1
<1>6. ASSUME NEW n \in Nat PROVE f[n] = IF n = 0 THEN << >> ELSE Longer(f[n - 1], Delay(p, n))
  <2>1. CASE n = 0
    BY <1>4, <2>1
  <2>2. CASE n # 0
    <3>1. PICK k \in Nat : n = k + 1 /\ k = n - 1
      BY <2>2
    <3> QED
      BY <1>5, <2>2, <3>1
  <2> QED
    BY <2>1, <2>2
<1>7. IsDelays(f, p)
  BY <1>6 DEF IsDelays, Longer
<1> QED
  BY <1>7

LEMMA DelaysOfAttempts ==
    ASSUME NEW p \in Policies, NEW f, IsDelays(f, p) PROVE \A n \in Nat : Waits(f[n], p, n)
<1> DEFINE T == {n \in Nat : Waits(f[n], p, n)}
<1>1. 0 \in T
  <2>1. f[0] = << >>
    BY DEF IsDelays
  <2>2. << >> \in Seq(Positive) /\ Len(<< >>) = 0
    OBVIOUS
  <2>3. Waits(<< >>, p, 0)
    BY <2>2 DEF Waits
  <2> QED
    BY <2>1, <2>3
<1>2. ASSUME NEW n \in T PROVE n + 1 \in T
  <2>1. n \in Nat /\ Waits(f[n], p, n)
    OBVIOUS
  <2>2. f[n + 1] = Longer(f[n], Delay(p, n + 1))
    <3>1. PICK k : k = n + 1
      OBVIOUS
    <3>2. k \in Nat /\ k # 0 /\ k - 1 = n
      BY <2>1, <3>1
    <3>3. f[k] = Longer(f[k - 1], Delay(p, k))
      BY <3>2 DEF IsDelays, Longer
    <3> QED
      BY <3>1, <3>2, <3>3
  <2>3. Waits(f[n + 1], p, n + 1)
    BY <2>1, <2>2, LongerWaits
  <2> QED
    BY <2>1, <2>3
<1>3. T = Nat
  <2> HIDE DEF T
  <2>1. T \in SUBSET Nat
    BY DEF T
  <2> QED
    BY <1>1, <1>2, <2>1, SetInduction
<1> QED
  BY <1>3

LEMMA DelaysFacts ==
    ASSUME NEW p \in Policies PROVE Waits(Delays(p), p, p.MaxAttempts - 1)
<1>1. PICK f : f = CHOOSE g : IsDelays(g, p)
  OBVIOUS
<1>2. IsDelays(f, p)
  BY <1>1, DelaysExist
<1>3. Delays(p) = f[p.MaxAttempts - 1]
  BY <1>1 DEF Delays, IsDelays
<1>4. p.MaxAttempts - 1 \in Nat
  BY PolicyFacts
<1> QED
  BY <1>2, <1>3, <1>4, DelaysOfAttempts

-----------------------------------------------------------------------------
(***************************************************************************)
(* The queues.                                                             *)
(***************************************************************************)

\* The name of a queue tells its TTL.
LEMMA NamesTellTTL ==
    ASSUME NEW d \in Positive, NEW e \in Positive, compactDuration(d) = compactDuration(e)
    PROVE  MessageTTL(d) = MessageTTL(e)
<1> USE UnitsAssumption
<1>1. Hour \in Positive /\ Minute \in Positive /\ Second \in Positive /\ Millisecond \in Positive
  BY DEF Positive
<1>2. ASSUME NEW u \in Positive, d % u = 0, e % u = 0, d \div u = e \div u PROVE d = e
  <2>1. d = u * (d \div u) + (d % u)
    BY DEF Positive
  <2>2. e = u * (e \div u) + (e % u)
    BY DEF Positive
  <2> QED
    BY <1>2, <2>1, <2>2 DEF Positive
<1>3. CASE d % Hour = 0
  <2>1. compactDuration(d) = << d \div Hour, "h" >>
    BY <1>3 DEF compactDuration
  <2>2. e % Hour = 0 /\ d \div Hour = e \div Hour
    BY <2>1 DEF compactDuration
  <2> QED
    BY <1>1, <1>2, <1>3, <2>2
<1>4. CASE d % Hour # 0 /\ d % Minute = 0
  <2>1. compactDuration(d) = << d \div Minute, "m" >>
    BY <1>4 DEF compactDuration
  <2>2. e % Minute = 0 /\ d \div Minute = e \div Minute
    BY <2>1 DEF compactDuration
  <2> QED
    BY <1>1, <1>2, <1>4, <2>2
<1>5. CASE d % Hour # 0 /\ d % Minute # 0 /\ d % Second = 0
  <2>1. compactDuration(d) = << d \div Second, "s" >>
    BY <1>5 DEF compactDuration
  <2>2. e % Second = 0 /\ d \div Second = e \div Second
    BY <2>1 DEF compactDuration
  <2> QED
    BY <1>1, <1>2, <1>5, <2>2
<1>6. CASE d % Hour # 0 /\ d % Minute # 0 /\ d % Second # 0
  <2>1. compactDuration(d) = << d \div Millisecond, "ms" >>
    BY <1>6 DEF compactDuration
  <2>2. d \div Millisecond = e \div Millisecond
    BY <2>1 DEF compactDuration
  <2> QED
    BY <2>2 DEF MessageTTL
<1> QED
  BY <1>3, <1>4, <1>5, <1>6

\* The queue that retryQueue chooses is the one of the attempt's own delay.
LEMMA QueueOfAttempt ==
    ASSUME NEW p \in Policies, NEW k \in 1..p.MaxAttempts - 1, NEW d, d = Delay(p, k)
    PROVE  /\ d \in Positive /\ retryQueue(Delays(p), d) = compactDuration(d)
           /\ QueueOf(d) \in retryQueues(p)
<1>1. PICK s : s = Delays(p)
  OBVIOUS
<1>2. Waits(s, p, p.MaxAttempts - 1) /\ s \in Seq(Positive) /\ Len(s) \in Nat
  BY <1>1, DelaysFacts DEF Waits
<1>3. PICK j \in 1..Len(s) : s[j] = d
  BY <1>2 DEF Waits
<1>4. d \in Positive
  BY <1>2, <1>3
<1> DEFINE fitting == {i \in 1..Len(s) : s[i] >= d}
<1>5. j \in fitting
  BY <1>3, <1>4 DEF Positive
<1>6. \E i \in fitting : \A m \in fitting : i <= m
  <2>1. fitting \in SUBSET Nat /\ fitting # {}
    BY <1>2, <1>5
  <2> HIDE DEF fitting
  <2> QED
    BY <2>1, LeastNumber
<1>7. PICK index : index = CHOOSE i \in fitting : \A m \in fitting : i <= m
  OBVIOUS
<1>8. index \in fitting /\ index <= j
  <2> HIDE DEF fitting
  <2> QED
    BY <1>5, <1>6, <1>7
<1>9. s[index] = d
  <2>1. s[index] <= s[j] /\ s[index] >= d /\ s[index] \in Positive
    BY <1>2, <1>8 DEF Waits
  <2> QED
    BY <1>3, <1>4, <2>1 DEF Positive
<1>10. retryQueue(s, d) = compactDuration(s[index])
  BY <1>5, <1>7 DEF retryQueue
<1>11. QueueOf(d) \in retryQueues(p)
  BY <1>1, <1>3 DEF retryQueues
<1> QED
  BY <1>1, <1>4, <1>9, <1>10, <1>11

LEMMA QueuesOfDelays ==
    ASSUME NEW p \in Policies, NEW q \in retryQueues(p) PROVE \E d \in Positive : q = QueueOf(d)
<1>1. Delays(p) \in Seq(Positive)
  BY DelaysFacts DEF Waits
<1> QED
  BY <1>1 DEF retryQueues

\* What exists on the broker was declared for some delay, and has all that the policy needs; a
\* request waits where its own attempt sent it.
TopologyInv ==
    /\ policy \in Policies /\ connected = TRUE /\ attempt \in Nat \ {0}
    /\ \A q \in declared : \E d \in Positive : q = QueueOf(d)
    /\ retryQueues(policy) \subseteq declared
    /\ waiting # NoWait =>
          /\ waiting.policy \in Policies /\ waiting.attempt \in Nat \ {0}
          /\ \E q \in declared :
                /\ q.name = waiting.queue
                /\ q.ttl = MessageTTL(Delay(waiting.policy, waiting.attempt))

\* Two queues of one name have one TTL.
LEMMA NoConflict ==
    ASSUME NEW queues, \A q \in queues : \E d \in Positive : q = QueueOf(d), NEW d \in Positive
    PROVE  ~Conflicts(queues, QueueOf(d))
<1> SUFFICES ASSUME NEW e \in queues, e.name = QueueOf(d).name, e.ttl # QueueOf(d).ttl PROVE FALSE
  BY DEF Conflicts
<1>1. PICK c \in Positive : e = QueueOf(c)
  OBVIOUS
<1>2. compactDuration(c) = compactDuration(d) /\ MessageTTL(c) # MessageTTL(d)
  BY <1>1 DEF QueueOf
<1> QED
  BY <1>2, NamesTellTTL

\* All queues of a policy are declared, next to those that other policies have declared.
LEMMA DeclaresAll ==
    ASSUME NEW queues, \A q \in queues : \E d \in Positive : q = QueueOf(d), NEW p \in Policies
    PROVE  /\ accepted(queues, p) = 1..Len(Delays(p))
           /\ declare(queues, p) = queues \cup retryQueues(p)
           /\ \A q \in declare(queues, p) : \E d \in Positive : q = QueueOf(d)
<1>1. PICK s : s = Delays(p)
  OBVIOUS
<1>2. s \in Seq(Positive) /\ Len(s) \in Nat
  BY <1>1, DelaysFacts DEF Waits
<1>3. ASSUME NEW i \in 1..Len(s)
      PROVE  ~Conflicts(queues \cup {QueueOf(s[j]) : j \in 1..i - 1}, QueueOf(s[i]))
  <2>1. PICK held : held = queues \cup {QueueOf(s[j]) : j \in 1..i - 1}
    OBVIOUS
  <2>2. \A j \in 1..i - 1 : s[j] \in Positive
    BY <1>2
  <2>3. \A q \in held : \E d \in Positive : q = QueueOf(d)
    BY <2>1, <2>2
  <2>4. s[i] \in Positive
    BY <1>2
  <2> QED
    BY <2>1, <2>3, <2>4, NoConflict
<1>4. accepted(queues, p) = 1..Len(s)
  <2>1. \A n \in 1..Len(s) : \A i \in 1..n : i \in 1..Len(s)
    BY <1>2
  <2>2. accepted(queues, p) =
           {n \in 1..Len(s) : \A i \in 1..n :
               ~Conflicts(queues \cup {QueueOf(s[j]) : j \in 1..i - 1}, QueueOf(s[i]))}
    BY <1>1 DEF accepted
  <2> QED
    BY <1>3, <2>1, <2>2
<1>5. declare(queues, p) = queues \cup retryQueues(p)
  BY <1>1, <1>4 DEF declare, retryQueues
<1> QED
  BY <1>1, <1>4, <1>5, QueuesOfDelays

LEMMA TopologyInvariant == Spec => []TopologyInv
<1>1. ASSUME Init PROVE TopologyInv
  <2>1. /\ policy \in Policies /\ declared = declare({}, policy)
        /\ connected = (accepted({}, policy) = 1..Len(Delays(policy)))
        /\ attempt = 1 /\ waiting = NoWait
    BY <1>1 DEF Init
  <2>2. /\ declared = retryQueues(policy) /\ connected = TRUE
        /\ \A q \in declared : \E d \in Positive : q = QueueOf(d)
    <3>1. PICK queues : queues = {}
      OBVIOUS
    <3>2. /\ accepted(queues, policy) = 1..Len(Delays(policy))
          /\ declare(queues, policy) = queues \cup retryQueues(policy)
          /\ \A q \in declare(queues, policy) : \E d \in Positive : q = QueueOf(d)
      BY <2>1, <3>1, DeclaresAll
    <3> QED
      BY <2>1, <3>1, <3>2
  <2> QED
    BY <2>1, <2>2 DEF TopologyInv
<1>2. ASSUME TopologyInv, [Next]_vars PROVE TopologyInv'
  <2>1. CASE UNCHANGED vars
    BY <1>2, <2>1 DEF vars, TopologyInv
  <2>2. CASE FailTemporarily
    <3>1. PICK d : d = Delay(policy, attempt)
      OBVIOUS
    <3>2. attempt \in 1..policy.MaxAttempts - 1 /\ policy \in Policies
      BY <1>2, <2>2, PolicyFacts DEF FailTemporarily, CanRetry, TopologyInv
    <3>3. /\ retryQueue(Delays(policy), d) = compactDuration(d)
          /\ QueueOf(d) \in retryQueues(policy)
      BY <3>1, <3>2, QueueOfAttempt
    <3>4. PICK q \in declared : q = QueueOf(d)
      BY <1>2, <3>3 DEF TopologyInv
    <3>5. /\ waiting'.queue = q.name /\ waiting'.policy = policy /\ waiting'.attempt = attempt
          /\ q.ttl = MessageTTL(Delay(policy, attempt))
      BY <2>2, <3>1, <3>3, <3>4 DEF FailTemporarily, QueueOf
    <3>6. /\ UNCHANGED << policy, connected, declared >> /\ attempt' \in Nat \ {0}
      BY <1>2, <2>2 DEF FailTemporarily, TopologyInv
    <3> QED
      BY <1>2, <3>5, <3>6 DEF TopologyInv
  <2>3. CASE Expire
    BY <1>2, <2>3 DEF Expire, TopologyInv
  <2>4. CASE GiveUp
    BY <1>2, <2>4 DEF GiveUp, vars, TopologyInv
  <2>5. ASSUME NEW p \in Policies, Redeploy(p) PROVE TopologyInv'
    <3>1. PICK queues : queues = declared
      OBVIOUS
    <3>2. /\ accepted(queues, p) = 1..Len(Delays(p))
          /\ declare(queues, p) = queues \cup retryQueues(p)
          /\ \A q \in declare(queues, p) : \E d \in Positive : q = QueueOf(d)
      BY <1>2, <3>1, DeclaresAll DEF TopologyInv
    <3>3. /\ policy' = p /\ connected' = TRUE /\ declared' = declared \cup retryQueues(p)
          /\ \A q \in declared' : \E d \in Positive : q = QueueOf(d)
          /\ UNCHANGED << attempt, waiting >>
      BY <2>5, <3>1, <3>2 DEF Redeploy
    <3> QED
      BY <1>2, <3>3 DEF TopologyInv
  <2> QED
    BY <1>2, <2>1, <2>2, <2>3, <2>4, <2>5 DEF Next
<1> QED
  BY <1>1, <1>2, PTL DEF Spec

\* No sequence of deployments makes the broker refuse a declaration: a queue's name tells its TTL
\* (internal/infrastructure/messaging/rabbitmq_topology.go:68-85).
THEOREM RedeploysNeverConflict == Spec => []RedeployNeverConflicts
<1>1. TopologyInv => RedeployNeverConflicts
  BY DEF TopologyInv, RedeployNeverConflicts
<1> QED
  BY <1>1, TopologyInvariant, PTL

\* A request waits in a queue that exists, for the documented backoff of the attempt that failed
\* (internal/infrastructure/messaging/rabbitmq_topology.go:29-72, internal/core/mailer/retry.go).
THEOREM RequestsWaitTheBackoff == Spec => []WaitsAsLongAsThePolicySays
<1>1. TopologyInv => WaitsAsLongAsThePolicySays
  <2> SUFFICES ASSUME TopologyInv, waiting # NoWait
               PROVE  \E q \in declared :
                         /\ q.name = waiting.queue
                         /\ q.ttl = MessageTTL(Backoff(waiting.policy, waiting.attempt))
    BY DEF WaitsAsLongAsThePolicySays
  <2>1. waiting.policy \in Policies /\ waiting.attempt \in Positive
    BY DEF TopologyInv, Positive
  <2>2. Delay(waiting.policy, waiting.attempt) = Backoff(waiting.policy, waiting.attempt)
    BY <2>1, DelayIsBackoff
  <2> QED
    BY <2>2 DEF TopologyInv
<1> QED
  BY <1>1, TopologyInvariant, PTL

=============================================================================
