------------------------------ MODULE RtMemory ------------------------------
(***************************************************************************)
(* Realtime memory (memory_atomic.c): a memory is a row of pools whose     *)
(* chunks double in size, and a request takes a chunk of the first pool    *)
(* that holds it together with the handle of its pool, which is stored in  *)
(* front of the data so that it can be given back.                         *)
(*                                                                         *)
(* These are the module's computations; Lifecycle has its state.           *)
(***************************************************************************)
EXTENDS Integers

CONSTANTS
  DataMin,     \* DATA_MIN
  DataSub,     \* DATA_SUB, for the allocator's control data
  HandleSize,  \* sizeof(rtsafe_memory_pool_handle)
  WordBits     \* bits of size_t, the most pools a memory may have

ASSUME MemoryAssumption ==
  /\ DataMin \in Nat /\ DataSub \in Nat /\ DataSub < DataMin
  /\ HandleSize \in Nat /\ WordBits \in Nat \ {0}

NoPool == -1

\* The loop that counts the pools stops when this holds.
Enough(count, max_size) == DataMin * 2^count >= max_size + DataSub

\* pools_count of rtsafe_memory_init.
PoolsCount(max_size) ==
  CHOOSE n \in 1..WordBits :
    Enough(n, max_size) /\ \A m \in 1..(n - 1) : ~Enough(m, max_size)

\* The size of the chunks of pool i, of pools 0 .. count - 1.
ChunkSize(i) == DataMin * 2^i - DataSub

\* Faulty: the handle in front of the data is not counted.
HoldsBareData(i, size) == size <= ChunkSize(i)
Holds(i, size) == size + HandleSize <= ChunkSize(i)

\* The loop of rtsafe_memory_allocate_internal.
\* Faulty: it looks one pool too far.
PoolForPastEnd(count, size) ==
  IF \E i \in 0..count : Holds(i, size)
    THEN CHOOSE i \in 0..count : Holds(i, size) /\ \A j \in 0..(i - 1) : ~Holds(j, size)
    ELSE NoPool
PoolFor(count, size) ==
  IF \E i \in 0..(count - 1) : Holds(i, size)
    THEN CHOOSE i \in 0..(count - 1) :
           Holds(i, size) /\ \A j \in 0..(i - 1) : ~Holds(j, size)
    ELSE NoPool
=============================================================================
