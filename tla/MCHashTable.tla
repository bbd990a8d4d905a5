---------------------------- MODULE MCHashTable ----------------------------
(* Instances of HashTable and MemPool for TLC: three of the four keys      *)
(* share a bucket; sizes of pools that need no alignment, and one that     *)
(* does.                                                                   *)
EXTENDS HashTable, TLC

CONSTANTS k1, k2, k3, k4

MCIndex == (k1 :> 0) @@ (k2 :> 0) @@ (k3 :> 0) @@ (k4 :> 1)
MCIndexOut == (k1 :> 0) @@ (k2 :> 3)
MCAligned == {<<4, 2>>, <<8, 1>>}
MCUnaligned == {<<3, 1>>}
=============================================================================
