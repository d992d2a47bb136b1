------------------------------ MODULE MinerLib ------------------------------
(***************************************************************************)
(* The helpers of Proyecto/srclib/miner.c that compute on the shared        *)
(* structures: init_block, find_miner_index, delete_miner and check_args.   *)
(* C arrays of MAX_MINERS slots are functions over 0 .. MAX_MINERS - 1.     *)
(***************************************************************************)
EXTENDS Integers

CONSTANTS
  MAX_MINERS,  \* slots of System.miners and Block.miners (100 in miner.h)
  None         \* a slot, or a winner field, that holds no miner's pid

ASSUME LibAssumption == MAX_MINERS \in Nat \ {0} /\ MAX_MINERS < 255

Slots == 0 .. MAX_MINERS - 1

(* Conversion of an int to uint8_t.                                         *)
UInt8(n) == n % 256

(***************************************************************************)
(* init_block never writes Block.miners: its slots keep whatever the stack  *)
(* held, written None here ("no miner wrote this slot").                    *)
(***************************************************************************)
InitBlock(last_id, target) ==
  [ id         |-> last_id + 1,
    target     |-> target,
    solution   |-> 0,
    winner     |-> None,
    miners     |-> [i \in Slots |-> None],
    num_voters |-> 0,
    total      |-> 0,
    fav        |-> 0 ]

(***************************************************************************)
(* find_miner_index: the first of the num slots in use that holds pid.      *)
(* "return -1" goes through the uint8_t return type and becomes 255.        *)
(***************************************************************************)
FindMinerIndex(miners, num, pid) ==
  LET hits == {i \in Slots : i < num /\ miners[i] = pid}
  IN  IF hits = {} THEN UInt8(-1)
      ELSE CHOOSE i \in hits : \A j \in hits : i <= j

(***************************************************************************)
(* delete_miner shifts the slots behind the pid one place down and          *)
(* decrements the counter. Its guard compares a uint8_t with -1. What lies  *)
(* behind the table is no pid.                                              *)
(***************************************************************************)
ShiftDown(miners, num, index) ==
  [i \in Slots |-> IF i < index \/ i >= num - 1 THEN miners[i]
                   ELSE IF i + 1 \in Slots THEN miners[i + 1] ELSE None]

DeleteMiner_KeepsCount(miners, num, pid) ==  \* faulty variant: no (*num_miners)--
  [ miners |-> ShiftDown(miners, num, FindMinerIndex(miners, num, pid)),
    num    |-> num ]

DeleteMiner(miners, num, pid) ==
  LET index == FindMinerIndex(miners, num, pid)
  IN  IF index # -1
      THEN [ miners |-> ShiftDown(miners, num, index), num |-> UInt8(num - 1) ]
      ELSE [ miners |-> miners, num |-> num ]

(***************************************************************************)
(* check_args: both numbers go through uint8_t before they are compared.    *)
(***************************************************************************)
CheckArgs(argc, n_sec, nthreads) ==
  /\ argc = 3
  /\ UInt8(n_sec) \in 1 .. 60
  /\ UInt8(nthreads) \in 1 .. 9
=============================================================================
