----------------------------- MODULE PowProofs ------------------------------
(***************************************************************************)
(* Facts about the proof of work, for every modulus, coefficients and       *)
(* number of threads: the hash stays below POW_LIMIT, the threads' shares   *)
(* lie below POW_LIMIT - 1, and no two arguments collide.                   *)
(***************************************************************************)
EXTENDS Pow, TLAPS

(* BIG_X has an inverse modulo POW_LIMIT. pow.c's values have: POW_LIMIT is *)
(* a prime, and 435679812 * 1243652 = 99997669 * 5418467 + 1.               *)
Invertible == \E u, v \in Nat : BIG_X * u = POW_LIMIT * v + 1

(* What % and \div are to each other.                                       *)
LEMMA Division ==
  ASSUME NEW n \in Nat, NEW d \in Nat \ {0}
  PROVE  /\ n \div d \in Nat /\ n % d \in 0 .. d - 1
         /\ n = d * (n \div d) + (n % d)
  OBVIOUS

(* pow_hash never leaves the range of the targets.                          *)
LEMMA HashRange ==
  ASSUME NEW x \in Nat
  PROVE  pow_hash(x) \in 0 .. POW_LIMIT - 1
  <1>1. x * BIG_X + BIG_Y \in Nat /\ POW_LIMIT \in Nat \ {0}
    BY PowAssumption
  <1> QED BY <1>1, Division DEF pow_hash

(* A thread's share begins at zero or later and ends before POW_LIMIT.      *)
LEMMA ShareBounds ==
  ASSUME NEW t \in Threads
  PROVE  /\ Start(t) \in Nat /\ End(t) \in Nat /\ Start(t) <= End(t)
         /\ End(t) <= POW_LIMIT - 1
  <1>1. PICK s \in Nat : s = Share /\ nthreads * s <= POW_LIMIT - 1
    <2>1. POW_LIMIT - 1 \in Nat /\ nthreads \in Nat \ {0}
      BY PowAssumption
    <2>2. PICK q \in Nat, r \in 0 .. nthreads - 1 : q = Share /\ POW_LIMIT - 1 = nthreads * q + r
      BY <2>1, Division DEF Share
    <2>3. nthreads * q \in Nat
      BY <2>1
    <2> QED BY <2>1, <2>2, <2>3
  <1>2. t \in Nat /\ t + 1 \in Nat /\ t + 1 <= nthreads /\ nthreads \in Nat
    BY PowAssumption DEF Threads
  <1>3. PICK d \in Nat : nthreads = t + 1 + d
    <2>1. nthreads - (t + 1) \in Nat /\ nthreads = t + 1 + (nthreads - (t + 1))
      BY <1>2
    <2> QED BY <2>1
  <1>4. /\ nthreads * s = (t + 1) * s + d * s /\ (t + 1) * s = t * s + s
        /\ t * s \in Nat /\ d * s \in Nat /\ (t + 1) * s \in Nat
    BY <1>2, <1>3
  <1>5. Start(t) = t * s /\ End(t) = (t + 1) * s
    BY <1>1 DEF Start, End
  <1> QED BY <1>1, <1>4, <1>5, PowAssumption

LEMMA SearchedRange == Searched \subseteq 0 .. POW_LIMIT - 1
  <1> SUFFICES ASSUME NEW t \in Threads, NEW x \in Start(t) .. End(t) - 1
               PROVE  x \in 0 .. POW_LIMIT - 1
    BY DEF Searched
  <1> QED BY ShareBounds, PowAssumption

(* No two arguments below POW_LIMIT have the same hash.                     *)
LEMMA NoCollision ==
  ASSUME Invertible, NEW x \in 0 .. POW_LIMIT - 1, NEW y \in 0 .. POW_LIMIT - 1,
         pow_hash(x) = pow_hash(y)
  PROVE  x = y
  <1> DEFINE a == x * BIG_X + BIG_Y
             b == y * BIG_X + BIG_Y
  <1>1. /\ POW_LIMIT \in Nat \ {0} /\ BIG_X \in Nat /\ BIG_Y \in Nat /\ x \in Nat /\ y \in Nat
        /\ a \in Nat /\ b \in Nat
    BY PowAssumption
  <1>2. PICK k \in Int : (x - y) * BIG_X = POW_LIMIT * k
    <2>1. PICK p, q \in Nat, r \in Int : a = POW_LIMIT * p + r /\ b = POW_LIMIT * q + r
      <3>1. a % POW_LIMIT = b % POW_LIMIT
        BY DEF pow_hash
      <3> HIDE DEF a, b
      <3>2. /\ a \div POW_LIMIT \in Nat /\ b \div POW_LIMIT \in Nat /\ a % POW_LIMIT \in Int
            /\ a = POW_LIMIT * (a \div POW_LIMIT) + (a % POW_LIMIT)
            /\ b = POW_LIMIT * (b \div POW_LIMIT) + (b % POW_LIMIT)
        <4>1. /\ a \div POW_LIMIT \in Nat /\ a % POW_LIMIT \in 0 .. POW_LIMIT - 1
              /\ a = POW_LIMIT * (a \div POW_LIMIT) + (a % POW_LIMIT)
          BY <1>1, Division
        <4>2. /\ b \div POW_LIMIT \in Nat
              /\ b = POW_LIMIT * (b \div POW_LIMIT) + (b % POW_LIMIT)
          BY <1>1, Division
        <4>3. a % POW_LIMIT \in Int
          BY <1>1, <4>1
        <4> QED BY <4>1, <4>2, <4>3
      <3> QED BY <3>1, <3>2
    <2>2. (x - y) * BIG_X = a - b
      BY <1>1
    <2>3. a - b = POW_LIMIT * (p - q) /\ p - q \in Int
      BY <1>1, <2>1
    <2> QED BY <2>2, <2>3
  <1>3. PICK u, v \in Nat : BIG_X * u = POW_LIMIT * v + 1
    BY DEF Invertible
  <1> HIDE DEF a, b
  <1> DEFINE d == x - y
             z == k * u - d * v
  <1>4. d \in Int /\ d < POW_LIMIT /\ -POW_LIMIT < d /\ z \in Int
    BY <1>1, <1>2, <1>3
  <1>5. d = POW_LIMIT * z
    <2>1. d * (BIG_X * u) = (d * BIG_X) * u
      BY <1>1, <1>3, <1>4
    <2>2. d * (BIG_X * u) = POW_LIMIT * (d * v) + d
      BY <1>1, <1>3, <1>4
    <2>3. (d * BIG_X) * u = POW_LIMIT * (k * u)
      BY <1>1, <1>2, <1>3, <1>4
    <2>4. POW_LIMIT * z = POW_LIMIT * (k * u) - POW_LIMIT * (d * v)
      BY <1>1, <1>2, <1>3, <1>4
    <2> QED BY <1>1, <1>2, <1>3, <1>4, <2>1, <2>2, <2>3, <2>4
  <1>6. z = 0
    <2> HIDE DEF z, d
    <2>1. CASE z >= 1
      <3>1. PICK e \in Nat : z = 1 + e
        <4>1. z - 1 \in Nat /\ z = 1 + (z - 1)
          BY <1>4, <2>1
        <4> QED BY <4>1
      <3>2. POW_LIMIT * z = POW_LIMIT + POW_LIMIT * e /\ POW_LIMIT * e \in Nat
        BY <1>1, <3>1
      <3> QED BY <1>1, <1>4, <1>5, <3>2
    <2>2. CASE z <= -1
      <3>1. PICK e \in Nat : z = -1 - e
        <4>1. -1 - z \in Nat /\ z = -1 - (-1 - z)
          BY <1>4, <2>2
        <4> QED BY <4>1
      <3>2. POW_LIMIT * z = -POW_LIMIT - POW_LIMIT * e /\ POW_LIMIT * e \in Nat
        BY <1>1, <3>1
      <3> QED BY <1>1, <1>4, <1>5, <3>2
    <2> QED BY <1>4, <2>1, <2>2
  <1>7. d = 0
    <2> HIDE DEF z, d
    <2> QED BY <1>1, <1>5, <1>6
  <1> QED BY <1>1, <1>7

(* pow.c's hash gives every target one argument at most, so the threads of  *)
(* work() (miner_launch.c, miner.c of P1) cannot answer a target in two     *)
(* ways: what they race for is the same number.                             *)
THEOREM OneArgumentAtMost ==
  ASSUME Invertible, NEW t, NEW x \in Findable(t), NEW y \in Findable(t)
  PROVE  x = y
  BY SearchedRange, NoCollision DEF Findable
=============================================================================
