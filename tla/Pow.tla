-------------------------------- MODULE Pow --------------------------------
(***************************************************************************)
(* The proof of work that every program of the repository shares: pow_hash  *)
(* (pow.c) and the split of its arguments among the threads of one miner.   *)
(***************************************************************************)
EXTENDS Integers

CONSTANTS
  POW_LIMIT,     \* modulus of the hash (99997669)
  BIG_X, BIG_Y,  \* its coefficients
  nthreads       \* threads of one miner

ASSUME PowAssumption ==
  /\ POW_LIMIT \in Nat /\ POW_LIMIT > 1 /\ BIG_X \in Nat /\ BIG_Y \in Nat
  /\ nthreads \in Nat \ {0}

Threads == 0 .. nthreads - 1

pow_hash_Narrow(x) ==  \* faulty variant: the product kept in too few (3) bits
  ((x * BIG_X + BIG_Y) % 8) % POW_LIMIT

pow_hash(x) == (x * BIG_X + BIG_Y) % POW_LIMIT

Share == (POW_LIMIT - 1) \div nthreads

\* Thread j searches Start(j) .. End(j) - 1.
Start(j) == j * Share
End(j) == (j + 1) * Share

(* What the threads search together: the remainder of the division and      *)
(* POW_LIMIT - 1 belong to nobody.                                          *)
Searched == UNION { Start(j) .. End(j) - 1 : j \in Threads }

(* The arguments one of the threads finds for target t: one at most, since  *)
(* the hash is a bijection of 0 .. POW_LIMIT - 1, and none in the gap.      *)
Findable(t) == { x \in Searched : pow_hash(x) = t }
=============================================================================
