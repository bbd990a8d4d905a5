------------------------------ MODULE MemPool ------------------------------
(***************************************************************************)
(* The pools of equal blocks of mem/mem_main.c.  An address of a pool is   *)
(* its distance from saddr; addr_blks[i] is an index in the set "free"     *)
(* while it is not NULL.  The calls here are the application's on pools of *)
(* its own; HashTable composes the operators with the table's calls.       *)
(***************************************************************************)
EXTENDS Integers, FiniteSets

CONSTANTS
  Requests,    \* the <<size, n_blks>> that mem_pool_create is called with
  Align,       \* MACHINE_ALIGNEMENT
  Strays,      \* addresses callers give to free_blk besides their own blocks
  Deletes,     \* whether the application deletes pools
  MaxPools     \* bound: pools created

ASSUME PoolAssumption ==
  /\ Requests \subseteq (Nat \ {0}) \X (Nat \ {0})
  /\ Align \in Nat \ {0} /\ Strays \subseteq Nat
  /\ Deletes \in BOOLEAN /\ MaxPools \in Nat

Id == 1 .. MaxPools

VARIABLES
  next,        \* static int i of get_next_free_mcb
  own,         \* pools the application has created
  hd_mcb,      \* pools linked there, in order of their ids
  mcb,         \* struct mem_info of a pool
  freed,       \* pools whose struct mem_info has been freed
  held,        \* history: addresses of a pool that callers have
  accepted,    \* history: free_blk accepted an address that was not held
  bad          \* what a call followed: "freed" memory, a "null" pointer, or "none"

poolVars == <<next, own, hd_mcb, mcb, freed, held, accepted>>

NoPool == [size |-> 1, nblks |-> 0, bytes |-> 0, free |-> {}, array |-> FALSE,
           fblks |-> 0, useblks |-> 0]

PoolInit ==
  /\ next = 0 /\ own = {} /\ hd_mcb = {} /\ freed = {}
  /\ mcb = [p \in Id |-> NoPool]
  /\ held = [p \in Id |-> {}]
  /\ accepted = FALSE /\ bad = "none"

-----------------------------------------------------------------------------
(* Mutant: the size of one block is aligned, not that of the pool. *)
BytesOfOneBlock(size, n) == size + (Align - (size % Align))

(* An unaligned request is given one more unit of alignment. *)
Bytes(size, n) ==
  IF (size * n) % Align = 0 THEN size * n ELSE size * n + Align

(* mem_pool_create.  There may be no memory for the control block, for the *)
(* blocks, or for their list; only the first two are noticed.              *)
mem_pool_create(size, n) ==
  /\ next < MaxPools
  /\ \/ UNCHANGED <<next, hd_mcb, mcb>>
     \/ next' = next + 1 /\ UNCHANGED <<hd_mcb, mcb>>
     \/ \E array \in BOOLEAN :
          /\ next' = next + 1
          /\ mcb' = [mcb EXCEPT ![next + 1] =
               [size |-> size, nblks |-> n, bytes |-> Bytes(size, n),
                free |-> IF array THEN 0 .. n - 1 ELSE {}, array |-> array,
                fblks |-> n, useblks |-> 0]]
          /\ hd_mcb' = hd_mcb \cup {next + 1}

(* get_mem_info walks hd_mcb up to the pool a caller names, through the    *)
(* control blocks that have been freed.                                    *)
WalksFreed(p) == \E i \in freed : i <= p

(* What alloc_block follows before it has a block: freed memory, or a list *)
(* of blocks that was never allocated.                                     *)
PoolFault(p) ==
  IF WalksFreed(p) THEN "freed" ELSE IF ~mcb[p].array THEN "null" ELSE "none"

Lowest(S) == CHOOSE i \in S : \A j \in S : i <= j

(* The address alloc_block returns. *)
NextBlock(p) == Lowest(mcb[p].free) * mcb[p].size

(* Mutant: addr_blks[i] is not cleared. *)
TakeBlockKept(p) ==
  /\ mcb' = [mcb EXCEPT ![p].fblks = @ - 1, ![p].useblks = @ + 1]
  /\ held' = [held EXCEPT ![p] = @ \cup {NextBlock(p)}]

(* alloc_block, when fblks is not 0 and an entry of addr_blks not NULL. *)
TakeBlock(p) ==
  /\ mcb' = [mcb EXCEPT ![p].free = @ \ {Lowest(@)},
                        ![p].fblks = @ - 1, ![p].useblks = @ + 1]
  /\ held' = [held EXCEPT ![p] = @ \cup {NextBlock(p)}]

(* in_range and is_not_valid_block_offset. *)
ValidBlock(p, addr) ==
  addr + mcb[p].size <= mcb[p].bytes /\ addr % mcb[p].size = 0

(* free_blk takes addr: it could be a block's, and is not free.  An index  *)
(* past addr_blks reads whatever lies there: NULL here, since with another *)
(* value the call changes nothing.                                         *)
TakesBack(p, addr) ==
  ValidBlock(p, addr) /\ addr \div mcb[p].size \notin mcb[p].free

(* free_blk of each address of S; those it does not take it reports. *)
PutBlocks(p, S) ==
  LET back == {addr \in S : TakesBack(p, addr)}
      n    == Cardinality(back)
  IN /\ mcb' = [mcb EXCEPT ![p].free = @ \cup ({addr \div mcb[p].size : addr \in back}
                                               \cap (0 .. mcb[p].nblks - 1)),
                           ![p].fblks = @ + n, ![p].useblks = @ - n]
     /\ accepted' = (accepted \/ ~(back \subseteq held[p]))
     /\ held' = [held EXCEPT ![p] = @ \ back]

(* mem_pool_delete frees the pool, and leaves it on hd_mcb. *)
mem_pool_delete(p) ==
  /\ freed' = freed \cup {p}
  /\ mcb' = [mcb EXCEPT ![p] = NoPool]
  /\ held' = [held EXCEPT ![p] = {}]

-----------------------------------------------------------------------------
(* The application's calls.                                                *)

AppCreate(size, n) ==
  /\ mem_pool_create(size, n)
  /\ own' = own \cup (hd_mcb' \ hd_mcb)
  /\ UNCHANGED <<freed, held, accepted, bad>>

AppDelete(p) ==
  /\ Deletes
  /\ IF WalksFreed(p) THEN bad' = "freed" /\ UNCHANGED <<freed, mcb, held>>
     ELSE mem_pool_delete(p) /\ UNCHANGED bad
  /\ UNCHANGED <<next, own, hd_mcb, accepted>>

alloc_block(p) ==
  /\ \/ PoolFault(p) # "none" /\ bad' = PoolFault(p) /\ UNCHANGED <<mcb, held>>
     \/ PoolFault(p) = "none" /\ mcb[p].free # {} /\ TakeBlock(p) /\ UNCHANGED bad
  /\ UNCHANGED <<next, own, hd_mcb, freed, accepted>>

free_blk(p, addr) ==
  /\ \/ WalksFreed(p) /\ bad' = "freed" /\ UNCHANGED <<mcb, held, accepted>>
     \/ /\ ~WalksFreed(p) /\ ValidBlock(p, addr) /\ ~mcb[p].array
        /\ bad' = "null" /\ UNCHANGED <<mcb, held, accepted>>
     \/ ~WalksFreed(p) /\ mcb[p].array /\ PutBlocks(p, {addr}) /\ UNCHANGED bad
  /\ UNCHANGED <<next, own, hd_mcb, freed>>

AppCall ==
  \/ \E r \in Requests : AppCreate(r[1], r[2])
  \/ \E p \in own :
       \/ AppDelete(p)
       \/ alloc_block(p)
       \/ \E addr \in held[p] \cup Strays : free_blk(p, addr)

-----------------------------------------------------------------------------
(* Properties.                                                             *)

(* Pools callers can use: on hd_mcb with no deleted pool before them. *)
UsablePools == {p \in hd_mcb : PoolFault(p) = "none"}

(* The counters of a pool, its list of free blocks and the blocks callers  *)
(* hold always agree, whatever addresses are given to free_blk.            *)
Accounted ==
  \A p \in UsablePools :
    /\ mcb[p].fblks = Cardinality(mcb[p].free)
    /\ mcb[p].useblks = Cardinality(held[p])
    /\ held[p] = {i * mcb[p].size : i \in (0 .. mcb[p].nblks - 1) \ mcb[p].free}

(* No two blocks that alloc_block has handed out share a byte, and each is *)
(* one that free_blk takes back.                                           *)
BlocksDisjoint ==
  \A p \in UsablePools :
    /\ \A x \in held[p] : ValidBlock(p, x) /\ x \div mcb[p].size \notin mcb[p].free
    /\ \A x, y \in held[p] : x < y => x + mcb[p].size <= y

(* "aligned it as per machine aligenment": the memory of a pool is a       *)
(* multiple of MACHINE_ALIGNEMENT.                                         *)
AlignedBytes == \A p \in hd_mcb : mcb[p].bytes % Align = 0

(* "Trying to free invaild address": free_blk takes only what alloc_block  *)
(* handed out.                                                             *)
OnlyHeldFreed == ~accepted

(* "Invalid POOL ID": a call with the id of a deleted pool is refused. *)
DeletedPoolRefused == bad # "freed"
=============================================================================
