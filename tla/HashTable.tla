----------------------------- MODULE HashTable -----------------------------
(***************************************************************************)
(* The chained hash table of cmn/hashlib.c over the pools of MemPool.  One *)
(* table is created, used and destroyed, over and over, by a program that  *)
(* also has pools of its own.  An entry is a block of the table's pool,    *)
(* which has as many blocks as the table has buckets.                      *)
(***************************************************************************)
EXTENDS MemPool, Sequences

CONSTANTS
  Key, Data, Absent,
  NBuckets,        \* buckets of the table, and blocks of its pool
  Word,            \* size of a pointer
  hash_index_gen,  \* the caller's function from keys to buckets
  MaxCount         \* bound: nentries, which a flush does not reset

Bucket == 0 .. NBuckets - 1

(* A block of the pool has NBuckets words, an entry three. *)
ASSUME TableAssumption ==
  /\ NBuckets \in Nat /\ NBuckets >= 3 /\ Word \in Nat \ {0}
  /\ hash_index_gen \in [Key -> Nat]
  /\ Absent \notin Data /\ MaxCount \in Nat

VARIABLES
  state,        \* "none", "open", or "freed": the pointer returned is dangling
  hmem_pool_id,
  chain,        \* entries linked from bucket_array[b]: key, data and block
  junk,         \* buckets whose word malloc left non-zero and nobody has written
  nentries

table == <<state, hmem_pool_id, chain, junk, nentries>>
vars  == <<poolVars, bad, table>>

NoEntries == [b \in Bucket |-> <<>>]

Init ==
  /\ PoolInit
  /\ state = "none" /\ hmem_pool_id = 0 /\ chain = NoEntries /\ junk = {}
  /\ nentries = 0

-----------------------------------------------------------------------------
(* create_hash_table.  Without memory for the pool there is no table;      *)
(* without memory for the buckets pool and table are freed and the table   *)
(* is returned.  The buckets hold what malloc found there.                 *)
create_hash_table ==
  /\ state = "none"
  /\ mem_pool_create(Word * NBuckets, NBuckets)
  /\ IF hd_mcb' = hd_mcb THEN UNCHANGED <<table, freed, bad>>
     ELSE \/ /\ state' = "open" /\ hmem_pool_id' = next'
             /\ junk' \in SUBSET Bucket
             /\ nentries' = 0 /\ chain' = NoEntries
             /\ UNCHANGED <<freed, bad>>
          \/ /\ state' = "freed"
             /\ freed' = freed \cup {next'}
             /\ bad' = IF WalksFreed(next') THEN "freed" ELSE "none"
             /\ UNCHANGED <<hmem_pool_id, chain, junk, nentries>>
  /\ UNCHANGED <<own, held, accepted>>

Crash(what) == bad' = what /\ UNCHANGED <<poolVars, table>>

(* What following bucket_array[hash_index_gen (k)] meets before an entry.  *)
(* The test against nbuckets lets the index nbuckets pass.                 *)
Hazard(k) ==
  IF state = "freed" THEN "freed"
  ELSE IF hash_index_gen[k] = NBuckets THEN "bounds"
  ELSE IF hash_index_gen[k] \in junk THEN "junk"
  ELSE "none"

Usable(k) == state = "open" /\ hash_index_gen[k] \in Bucket /\ Hazard(k) = "none"

(* Positions of k in its chain; the first is the one found. *)
find_hash_entry(k) ==
  {i \in 1 .. Len(chain[hash_index_gen[k]]) : chain[hash_index_gen[k]][i].key = k}

hash_tbl_lookup(k) ==
  LET found == IF hash_index_gen[k] \in Bucket THEN find_hash_entry(k) ELSE {}
  IN IF found = {} THEN Absent ELSE chain[hash_index_gen[k]][Lowest(found)].data

(* A block from the pool becomes the last entry of the chain. *)
Link(k, d) ==
  /\ TakeBlock(hmem_pool_id)
  /\ chain' = [chain EXCEPT ![hash_index_gen[k]] =
                 Append(@, [key |-> k, data |-> d, blk |-> NextBlock(hmem_pool_id)])]
  /\ nentries' = nentries + 1

(* Mutant: a key is added without a look for an entry it may have. *)
HashTblAddTwice(k, d) ==
  /\ state # "none" /\ nentries < MaxCount
  /\ Usable(k) /\ PoolFault(hmem_pool_id) = "none" /\ mcb[hmem_pool_id].fblks # 0
  /\ Link(k, d)
  /\ UNCHANGED <<next, own, hd_mcb, freed, accepted, bad, state, hmem_pool_id, junk>>

(* hash_tbl_add.  A key that is present keeps its data and the call        *)
(* succeeds; an empty pool makes it fail.  The copy of the key is written  *)
(* without a test for NULL.                                                *)
hash_tbl_add(k, d) ==
  /\ state # "none" /\ nentries < MaxCount
  /\ \/ Hazard(k) # "none" /\ Crash(Hazard(k))
     \/ /\ Usable(k) /\ find_hash_entry(k) = {}
        /\ \/ PoolFault(hmem_pool_id) # "none" /\ Crash(PoolFault(hmem_pool_id))
           \/ /\ PoolFault(hmem_pool_id) = "none" /\ mcb[hmem_pool_id].fblks # 0
              /\ \/ Crash("null")
                 \/ /\ Link(k, d)
                    /\ UNCHANGED <<next, own, hd_mcb, freed, accepted, bad, state,
                                   hmem_pool_id, junk>>

(* A sequence without its element i. SequencesExt has the same operator,   *)
(* but brings in more definitions than the proofs about this module can    *)
(* carry.                                                                  *)
RemoveAt(s, i) == SubSeq(s, 1, i - 1) \o SubSeq(s, i + 1, Len(s))

(* Mutant: the rest of the chain is lost with the entry. *)
UnlinkCuts(b, i) ==
  /\ PutBlocks(hmem_pool_id, {chain[b][i].blk})
  /\ chain' = [chain EXCEPT ![b] = SubSeq(@, 1, i - 1)]
  /\ nentries' = nentries - 1

(* Mutant: the entry's successor goes back to the pool in its place. *)
UnlinkFreesNext(b, i) ==
  /\ PutBlocks(hmem_pool_id, {chain[b][IF i < Len(chain[b]) THEN i + 1 ELSE i].blk})
  /\ chain' = [chain EXCEPT ![b] = RemoveAt(@, i)]
  /\ nentries' = nentries - 1

(* hash_delete_entry, past the search. *)
Unlink(b, i) ==
  /\ PutBlocks(hmem_pool_id, {chain[b][i].blk})
  /\ chain' = [chain EXCEPT ![b] = RemoveAt(@, i)]
  /\ nentries' = nentries - 1

(* hash_tbl_delete; a key that is not found is reported. *)
hash_tbl_delete(k) ==
  /\ state # "none"
  /\ \/ Hazard(k) # "none" /\ Crash(Hazard(k))
     \/ /\ Usable(k) /\ find_hash_entry(k) # {}
        /\ \/ WalksFreed(hmem_pool_id) /\ Crash("freed")
           \/ /\ ~WalksFreed(hmem_pool_id)
              /\ Unlink(hash_index_gen[k], Lowest(find_hash_entry(k)))
              /\ UNCHANGED <<next, own, hd_mcb, freed, bad, state, hmem_pool_id, junk>>

(* The entries hash_walk visits: bucket and place in its chain.            *)
hash_walk == UNION {{<<b, i>> : i \in DOMAIN chain[b]} : b \in Bucket}

Blocks == UNION {{chain[b][i].blk : i \in DOMAIN chain[b]} : b \in Bucket}

FlushFault ==
  IF state = "freed" THEN "freed"
  ELSE IF junk # {} THEN "junk"
  ELSE IF Blocks # {} /\ WalksFreed(hmem_pool_id) THEN "freed"
  ELSE "none"

(* Every entry of every bucket is freed; nentries is left as it is. *)
flush_hash_table ==
  /\ state # "none"
  /\ \/ FlushFault # "none" /\ Crash(FlushFault)
     \/ /\ FlushFault = "none"
        /\ PutBlocks(hmem_pool_id, Blocks)
        /\ chain' = NoEntries
        /\ UNCHANGED <<next, own, hd_mcb, freed, bad, state, hmem_pool_id, junk, nentries>>

(* flush_hash_table and mem_pool_delete; the table itself is not freed. *)
destroy_hash_table ==
  /\ state # "none"
  /\ \/ FlushFault # "none" /\ Crash(FlushFault)
     \/ FlushFault = "none" /\ WalksFreed(hmem_pool_id) /\ Crash("freed")
     \/ /\ FlushFault = "none" /\ ~WalksFreed(hmem_pool_id)
        /\ mem_pool_delete(hmem_pool_id)
        /\ state' = "none" /\ chain' = NoEntries
        /\ UNCHANGED <<next, own, hd_mcb, accepted, bad, hmem_pool_id, junk, nentries>>

(* A program that has followed a bad pointer is not followed further. *)
Next ==
  /\ bad = "none"
  /\ \/ create_hash_table
     \/ \E k \in Key : hash_tbl_delete(k) \/ \E d \in Data : hash_tbl_add(k, d)
     \/ flush_hash_table
     \/ destroy_hash_table
     \/ AppCall /\ UNCHANGED table

Spec == Init /\ [][Next]_vars

-----------------------------------------------------------------------------
(* Properties.                                                             *)

(* The entries of an open table are distinct blocks, and are exactly the   *)
(* blocks of its pool in use: additions that fail, deletions and flushes   *)
(* leak none, and none is handed out again while it is linked.             *)
EntriesAreBlocksInUse ==
  state = "open" /\ hmem_pool_id \in UsablePools =>
    /\ \A b, c \in Bucket : \A i \in DOMAIN chain[b], j \in DOMAIN chain[c] :
         chain[b][i].blk = chain[c][j].blk => b = c /\ i = j
    /\ Blocks = held[hmem_pool_id]

(* Every entry hash_walk visits is in the bucket of its key and is the one *)
(* that hash_tbl_lookup finds for it: no key is linked twice, and no entry *)
(* is out of reach of a lookup.                                            *)
WalkMatchesLookup ==
  \A b \in Bucket : \A i \in DOMAIN chain[b] :
    /\ hash_index_gen[chain[b][i].key] = b
    /\ find_hash_entry(chain[b][i].key) = {i}

(* What hash_tbl_lookup returns is a map that keeps the data a key was     *)
(* first added with until the key is deleted or the table flushed.         *)
Abstract == INSTANCE Map WITH m <- [k \in Key |-> hash_tbl_lookup(k)]
TableIsMap == Abstract!Spec

(* "How many entries does this table have." *)
NentriesExact == state = "open" => nentries = Cardinality(hash_walk)

(* "HASH Error : Invalid Bucket": an index outside bucket_array is refused. *)
InvalidBucketRefused == bad # "bounds"
=============================================================================
