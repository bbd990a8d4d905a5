-------------------------- MODULE HashTableProofs --------------------------
(***************************************************************************)
(* Proofs about modules MemPool and HashTable for every set of requests,   *)
(* alignment and stray addresses, every table and every hash function.     *)
(***************************************************************************)
EXTENDS HashTable, TLAPS

(* No request leaves room for one more block in the padding of its pool.   *)
(* A stray address there is taken back as a block that never was, and the  *)
(* counters of the pool no longer say how many blocks are free.            *)
NoSlack ==
  \A r \in Requests : (r[1] * r[2]) % Align = 0 \/ Align < r[1]

-----------------------------------------------------------------------------
(* The inductive invariant.                                                *)

Pool == [size : Nat \ {0}, nblks : Nat, bytes : Nat, free : SUBSET Nat,
         array : BOOLEAN, fblks : Int, useblks : Int]

Entry == [key : Key, data : Data, blk : Nat]

PoolTypeOK ==
  /\ next \in 0 .. MaxPools /\ hd_mcb \subseteq 1 .. next
  /\ own \subseteq hd_mcb /\ freed \subseteq hd_mcb
  /\ mcb \in [Id -> Pool] /\ held \in [Id -> SUBSET Nat]
  /\ accepted \in BOOLEAN

TableTypeOK ==
  /\ state \in {"none", "open", "freed"} /\ hmem_pool_id \in Nat
  /\ chain \in [Bucket -> Seq(Entry)] /\ junk \subseteq Bucket
  /\ nentries \in Int

(* The offsets of the blocks of size s, out of n, that are not free. *)
BlocksOf(n, s, free) == {i * s : i \in (0 .. n - 1) \ free}

(* Callers hold the blocks that are not free, and all of them lie in the   *)
(* memory of the pool.  Nobody holds a block of a pool without a list.     *)
Shape(m, h) ==
  /\ m.free \subseteq 0 .. m.nblks - 1
  /\ m.nblks * m.size <= m.bytes
  /\ m.array => h = BlocksOf(m.nblks, m.size, m.free)
  /\ ~m.array => m.free = {} /\ h = {}

Exact(m, h) == m.fblks + m.useblks = m.nblks /\ m.useblks = Cardinality(h)

(* There is no room for a block behind the last one. *)
Tight(m) == m.bytes < m.nblks * m.size + m.size

PoolsOK ==
  \A p \in Id :
    /\ Shape(mcb[p], held[p])
    /\ NoSlack \/ p \notin own => Exact(mcb[p], held[p])
    /\ NoSlack /\ p \in own => Tight(mcb[p])
    /\ p \notin hd_mcb => held[p] = {}

KeyPlaced(ch) ==
  \A b \in Bucket : \A i \in DOMAIN ch[b] :
    /\ hash_index_gen[ch[b][i].key] = b
    /\ \A j \in DOMAIN ch[b] : ch[b][j].key = ch[b][i].key => j = i

BlocksDistinct(ch) ==
  \A b, c \in Bucket : \A i \in DOMAIN ch[b], j \in DOMAIN ch[c] :
    ch[b][i].blk = ch[c][j].blk => b = c /\ i = j

TableOK ==
  /\ KeyPlaced(chain) /\ BlocksDistinct(chain)
  /\ state # "open" => chain = NoEntries
  /\ state = "open" =>
       /\ hmem_pool_id \in hd_mcb \ (own \cup freed)
       /\ Blocks = held[hmem_pool_id]

HashInv == PoolTypeOK /\ TableTypeOK /\ PoolsOK /\ TableOK

-----------------------------------------------------------------------------
(* Arithmetic.                                                             *)

(* A product that is smaller has a smaller factor. *)
LEMMA MulBelow ==
  ASSUME NEW i \in Nat, NEW n \in Nat, NEW s \in Nat \ {0}, i * s + s <= n * s
  PROVE  i < n
<1>1. SUFFICES ASSUME n <= i PROVE FALSE
  OBVIOUS
<1>2. PICK d \in Nat : i = n + d
  BY <1>1
<1>3. i * s = n * s + d * s /\ d * s \in Nat /\ n * s \in Nat
  BY <1>2
<1> QED
  BY <1>3

(* Blocks of one size that start at different multiples of it are apart. *)
LEMMA MulApart ==
  ASSUME NEW i \in Nat, NEW j \in Nat, NEW s \in Nat \ {0}, i < j
  PROVE  i * s + s <= j * s
<1>1. PICK d \in Nat : j = i + 1 + d
  BY j - i - 1 \in Nat, SMTT(60)
<1>2. j * s = i * s + s + d * s /\ d * s \in Nat /\ i * s \in Nat
  BY <1>1
<1> QED
  BY <1>2

(* The offset of a block gives back its index. *)
LEMMA BlockIndex ==
  ASSUME NEW i \in Nat, NEW s \in Nat \ {0}
  PROVE  i * s \in Nat /\ (i * s) % s = 0 /\ (i * s) \div s = i
<1> DEFINE a == i * s
           q == a \div s
           r == a % s
<1>1. a \in Nat /\ q \in Nat /\ r \in Nat /\ r < s /\ a = q * s + r
  OBVIOUS
<1>2. ~(q < i)
  <2>1. SUFFICES ASSUME q < i PROVE FALSE
    OBVIOUS
  <2>2. q * s + s <= i * s /\ q * s \in Nat
    BY <1>1, <2>1, MulApart
  <2> QED
    BY <1>1, <2>2
<1>3. ~(i < q)
  <2>1. SUFFICES ASSUME i < q PROVE FALSE
    OBVIOUS
  <2>2. i * s + s <= q * s /\ q * s \in Nat
    BY <1>1, <2>1, MulApart
  <2> QED
    BY <1>1, <2>2
<1>4. q = i
  BY <1>1, <1>2, <1>3
<1> QED
  BY <1>1, <1>4

(* An offset without remainder is its index times the size. *)
LEMMA OffsetOfIndex ==
  ASSUME NEW a \in Nat, NEW s \in Nat \ {0}, a % s = 0
  PROVE  a \div s \in Nat /\ (a \div s) * s = a
  OBVIOUS

(* The lowest member of a set of one. *)
LEMMA LowestOfOne ==
  ASSUME NEW i \in Nat
  PROVE  Lowest({i}) = i
<1>1. \E x \in {i} : \A y \in {i} : x <= y
  OBVIOUS
<1> QED
  BY <1>1, Zenon DEF Lowest

-----------------------------------------------------------------------------
(* Pools.                                                                  *)

(* The other pools keep what they have. *)
OthersSame(p) ==
  \A q \in Id \ {p} : mcb'[q] = mcb[q] /\ held'[q] = held[q]

(* A multiple of the block size that is in range is the offset of a block, *)
(* or lies in the padding.                                                 *)
LEMMA ValidIndex ==
  ASSUME NEW p \in Id, mcb[p] \in Pool, NEW addr \in Nat
  PROVE  /\ addr \div mcb[p].size \in Nat
         /\ ValidBlock(p, addr) =>
              /\ addr = (addr \div mcb[p].size) * mcb[p].size
              /\ Tight(mcb[p]) => addr \div mcb[p].size < mcb[p].nblks
<1> DEFINE s == mcb[p].size
           n == mcb[p].nblks
           i == addr \div s
<1>1. s \in Nat \ {0} /\ n \in Nat /\ mcb[p].bytes \in Nat /\ i \in Nat
  BY DEF Pool
<1>2. ASSUME ValidBlock(p, addr) PROVE addr = i * s
  BY <1>1, <1>2, OffsetOfIndex, Zenon DEF ValidBlock
<1>3. ASSUME ValidBlock(p, addr), Tight(mcb[p]) PROVE i < n
  <2>1. i * s + s <= mcb[p].bytes /\ mcb[p].bytes < n * s + s
    BY <1>1, <1>2, <1>3 DEF ValidBlock, Tight
  <2>2. i * s \in Nat /\ n * s \in Nat /\ (n + 1) * s = n * s + s
    BY <1>1
  <2>3. i * s + s <= (n + 1) * s /\ i * s + s < (n + 1) * s
    BY <1>1, <2>1, <2>2
  <2>4. i < n + 1
    BY <1>1, <2>3, MulBelow, n + 1 \in Nat
  <2>5. i # n
    BY <1>1, <2>3, <2>2
  <2> QED
    BY <1>1, <2>4, <2>5
<1> QED
  BY <1>1, <1>2, <1>3

(* A block a caller holds is valid, is not free, and does not overlap with *)
(* another.                                                                *)
LEMMA HeldBlock ==
  ASSUME NEW p \in Id, mcb[p] \in Pool, Shape(mcb[p], held[p]), NEW x \in held[p]
  PROVE  /\ x \in Nat /\ ValidBlock(p, x) /\ TakesBack(p, x)
         /\ x \div mcb[p].size \in (0 .. mcb[p].nblks - 1) \ mcb[p].free
         /\ x = (x \div mcb[p].size) * mcb[p].size
         /\ \A y \in held[p] : x < y => x + mcb[p].size <= y
<1> DEFINE s == mcb[p].size
           n == mcb[p].nblks
<1>1. s \in Nat \ {0} /\ n \in Nat /\ mcb[p].bytes \in Nat /\ n * s <= mcb[p].bytes
  BY DEF Pool, Shape
<1>2. held[p] = {i * s : i \in (0 .. n - 1) \ mcb[p].free}
  BY DEF Shape, BlocksOf
<1>3. PICK i \in (0 .. n - 1) \ mcb[p].free : x = i * s
  BY <1>2
<1>4. x \in Nat /\ x % s = 0 /\ x \div s = i
  BY <1>1, <1>3, BlockIndex
<1>5. x + s <= mcb[p].bytes
  <2>1. i * s + s <= n * s /\ n * s \in Nat
    BY <1>1, MulApart
  <2> QED
    BY <1>1, <1>3, <1>4, <2>1
<1>6. ASSUME NEW y \in held[p], x < y PROVE x + s <= y
  <2>1. PICK j \in (0 .. n - 1) \ mcb[p].free : y = j * s
    BY <1>2
  <2>2. y \in Nat
    BY <1>1, <2>1, BlockIndex
  <2>3. CASE i < j
    BY <1>1, <1>3, <2>1, <2>3, MulApart
  <2>4. CASE j < i
    <3>1. y + s <= x
      BY <1>1, <1>3, <2>1, <2>4, MulApart
    <3> QED
      BY <1>1, <1>4, <1>6, <2>2, <3>1
  <2>5. CASE i = j
    BY <1>3, <1>4, <1>6, <2>1, <2>5
  <2> QED
    BY <2>3, <2>4, <2>5
<1> QED
  BY <1>3, <1>4, <1>5, <1>6 DEF ValidBlock, TakesBack

(* g is f with the free blocks and the counters of p replaced. *)
Updates(g, f, p, F, u, v) ==
  g = [f EXCEPT ![p] = [f[p] EXCEPT !.free = F, !.fblks = u, !.useblks = v]]

(* A change of the free blocks and the counters of a pool. *)
LEMMA PoolUpdate ==
  ASSUME NEW f \in [Id -> Pool], NEW p \in Id, NEW F \in SUBSET Nat,
         NEW u \in Int, NEW v \in Int, NEW g,
         Updates(g, f, p, F, u, v)
  PROVE  /\ g \in [Id -> Pool] /\ g[p] \in Pool
         /\ g[p].size = f[p].size /\ g[p].nblks = f[p].nblks
         /\ g[p].bytes = f[p].bytes /\ g[p].array = f[p].array
         /\ g[p].free = F /\ g[p].fblks = u /\ g[p].useblks = v
         /\ \A q \in Id \ {p} : g[q] = f[q]
  BY Zenon DEF Pool, Updates

(* A call on one pool keeps what is said of all. *)
LEMMA OnePool ==
  ASSUME PoolsOK, NEW p \in Id, OthersSame(p), UNCHANGED <<own, hd_mcb>>,
         Shape(mcb'[p], held'[p]),
         NoSlack \/ p \notin own => Exact(mcb'[p], held'[p]),
         NoSlack /\ p \in own => Tight(mcb'[p]),
         p \notin hd_mcb => held'[p] = {}
  PROVE  PoolsOK'
<1>1. SUFFICES ASSUME NEW q \in Id
               PROVE  /\ Shape(mcb'[q], held'[q])
                      /\ NoSlack \/ q \notin own => Exact(mcb'[q], held'[q])
                      /\ NoSlack /\ q \in own => Tight(mcb'[q])
                      /\ q \notin hd_mcb => held'[q] = {}
  BY Zenon DEF PoolsOK
<1>2. CASE q = p
  BY <1>2
<1>3. CASE q # p
  BY <1>3 DEF OthersSame, PoolsOK
<1> QED
  BY <1>2, <1>3

(* The memory of a pool has room for its blocks, and for no other when the *)
(* request is a multiple of the alignment or its blocks are larger.        *)
LEMMA BytesHold ==
  ASSUME NEW size \in Nat \ {0}, NEW n \in Nat \ {0}
  PROVE  /\ Bytes(size, n) \in Nat /\ n * size <= Bytes(size, n)
         /\ (size * n) % Align = 0 \/ Align < size => Bytes(size, n) < n * size + size
<1>1. Align \in Nat \ {0}
  BY PoolAssumption
<1>2. n * size = size * n /\ size * n \in Nat
  OBVIOUS
<1> QED
  BY <1>1, <1>2 DEF Bytes

(* alloc_block and free_blk: what handing out a block of the pool p, and   *)
(* taking back those of S, do to it.                                       *)
Takes(p) ==
  /\ mcb' \in [Id -> Pool] /\ held' \in [Id -> SUBSET Nat] /\ OthersSame(p)
  /\ Shape(mcb'[p], held'[p]) /\ Exact(mcb'[p], held'[p])
  /\ NextBlock(p) \in Nat /\ NextBlock(p) \notin held[p]
  /\ held'[p] = held[p] \cup {NextBlock(p)}

Puts(p, S) ==
  /\ mcb' \in [Id -> Pool] /\ held' \in [Id -> SUBSET Nat] /\ OthersSame(p)
  /\ Shape(mcb'[p], held'[p]) /\ Exact(mcb'[p], held'[p])
  /\ held'[p] = held[p] \ S /\ accepted' \in BOOLEAN

(* The pool p has been made, with all of its blocks free. *)
Created(p) ==
  /\ p \in Id /\ p \notin hd_mcb /\ hd_mcb' = hd_mcb \cup {p} /\ next' = p
  /\ mcb' \in [Id -> Pool] /\ \A q \in Id \ {p} : mcb'[q] = mcb[q]
  /\ Shape(mcb'[p], {}) /\ Exact(mcb'[p], {})

(* What a call of the application does to the pools that are not its own. *)
ForeignSame ==
  /\ hd_mcb \subseteq hd_mcb'
  /\ (hd_mcb \ own) \cap (own' \cup (freed' \ freed)) = {}
  /\ \A q \in hd_mcb \ own : held'[q] = held[q]

(* Pools have ids. *)
LEMMA OwnId ==
  ASSUME PoolTypeOK
  PROVE  hd_mcb \subseteq Id /\ own \subseteq Id
  BY PoolAssumption DEF PoolTypeOK, Id

(* Where nothing happens to the pools. *)
LEMMA PoolsSame ==
  ASSUME PoolTypeOK, PoolsOK, UNCHANGED <<own, hd_mcb, mcb, held, freed, accepted>>,
         next' \in 0 .. MaxPools, next <= next'
  PROVE  PoolTypeOK' /\ PoolsOK' /\ ForeignSame
<1>1. hd_mcb \subseteq 1 .. next'
  BY DEF PoolTypeOK
<1>2. PoolTypeOK'
  BY <1>1 DEF PoolTypeOK
<1>3. PoolsOK'
  BY DEF PoolsOK
<1> QED
  BY <1>2, <1>3 DEF ForeignSame

-----------------------------------------------------------------------------
(* The operations of the pools, which count their blocks.                  *)
(* They rest on a few facts about numbers and finite sets.  The lemmas     *)
(* below take these as a hypothesis, Counting; CountingHolds proves it from *)
(* the library, and no theorem depends on it.                              *)

(* A set of numbers has a lowest member. *)
LowestLaw ==
  \A S \in SUBSET Nat : S # {} => Lowest(S) \in S /\ \A y \in S : Lowest(S) <= y

(* As many blocks are in use as are not free. *)
HeldLaw ==
  \A n \in Nat, s \in Nat \ {0} : \A free \in SUBSET (0 .. n - 1) :
    LET h == BlocksOf(n, s, free)
    IN  /\ IsFiniteSet(h) /\ IsFiniteSet(free)
        /\ Cardinality(h) \in Nat /\ Cardinality(free) \in Nat
        /\ Cardinality(h) + Cardinality(free) = n

EmptyLaw == IsFiniteSet({}) /\ Cardinality({}) = 0

AddLaw ==
  \A S, x : IsFiniteSet(S) /\ x \notin S =>
             Cardinality(S \cup {x}) = Cardinality(S) + 1

SingletonLaw == \A x : IsFiniteSet({x})

SubsetLaw ==
  \A S, T : IsFiniteSet(S) /\ T \subseteq S =>
             IsFiniteSet(T) /\ Cardinality(T) \in Nat

DifferenceLaw ==
  \A S, T : IsFiniteSet(S) /\ T \subseteq S =>
             Cardinality(S \ T) = Cardinality(S) - Cardinality(T)

Counting ==
  /\ LowestLaw /\ HeldLaw /\ EmptyLaw /\ AddLaw
  /\ SingletonLaw /\ SubsetLaw /\ DifferenceLaw

(* Callers hold finitely many blocks, and in a pool whose counters are     *)
(* exact fblks is the number of free ones.                                 *)
LEMMA HeldFinite ==
  ASSUME Counting, NEW m \in Pool, NEW h, Shape(m, h)
  PROVE  /\ IsFiniteSet(h) /\ Cardinality(h) \in Nat
         /\ m.array /\ Exact(m, h) => m.fblks = Cardinality(m.free)
<1>1. /\ m.size \in Nat \ {0} /\ m.nblks \in Nat /\ m.array \in BOOLEAN
      /\ m.free \in SUBSET (0 .. m.nblks - 1) /\ m.fblks \in Int /\ m.useblks \in Int
  BY DEF Pool, Shape
<1>2. CASE m.array
  <2>1. h = BlocksOf(m.nblks, m.size, m.free)
    BY <1>2 DEF Shape
  <2>2. /\ IsFiniteSet(h) /\ Cardinality(h) \in Nat /\ Cardinality(m.free) \in Nat
        /\ Cardinality(h) + Cardinality(m.free) = m.nblks
    BY <1>1, <2>1 DEF Counting, HeldLaw
  <2> QED
    BY <1>1, <2>2 DEF Exact
<1>3. CASE ~m.array
  <2>1. h = {}
    BY <1>3 DEF Shape
  <2>2. IsFiniteSet(h) /\ Cardinality(h) = 0
    BY <2>1, SMTT(60) DEF Counting, EmptyLaw
  <2> QED
    BY <1>3, <2>2
<1> QED
  BY <1>1, <1>2, <1>3

(* The counters stay exact when n blocks are handed out, *)
LEMMA ExactTaken ==
  ASSUME NEW m \in Pool, NEW m2 \in Pool, NEW h, NEW h2, NEW n \in Nat,
         m2.nblks = m.nblks, m2.fblks = m.fblks - n, m2.useblks = m.useblks + n,
         Cardinality(h2) = Cardinality(h) + n, Exact(m, h)
  PROVE  Exact(m2, h2)
BY DEF Pool, Exact

(* and when n blocks come back. *)
LEMMA ExactReturned ==
  ASSUME NEW m \in Pool, NEW m2 \in Pool, NEW h, NEW h2, NEW n \in Nat,
         m2.nblks = m.nblks, m2.fblks = m.fblks + n, m2.useblks = m.useblks - n,
         Cardinality(h2) = Cardinality(h) - n, Exact(m, h)
  PROVE  Exact(m2, h2)
BY DEF Pool, Exact

(* alloc_block hands out a block nobody holds. *)
LEMMA TakeKeeps ==
  ASSUME Counting, NEW p \in Id, mcb \in [Id -> Pool], held \in [Id -> SUBSET Nat],
         Shape(mcb[p], held[p]), mcb[p].array, mcb[p].free # {}, TakeBlock(p)
  PROVE  /\ mcb' \in [Id -> Pool] /\ held' \in [Id -> SUBSET Nat]
         /\ OthersSame(p)
         /\ Shape(mcb'[p], held'[p])
         /\ Tight(mcb[p]) => Tight(mcb'[p])
         /\ Exact(mcb[p], held[p]) => Exact(mcb'[p], held'[p])
         /\ NextBlock(p) \in Nat \ held[p]
         /\ held'[p] = held[p] \cup {NextBlock(p)}
<1> DEFINE m == mcb[p]
           s == m.size
           R == 0 .. m.nblks - 1
           lo == Lowest(m.free)
           blk == lo * s
<1>1. /\ m \in Pool /\ s \in Nat \ {0} /\ m.nblks \in Nat /\ m.free \in SUBSET R
      /\ m.fblks \in Int /\ m.useblks \in Int /\ m.bytes \in Nat /\ m.array
      /\ m.free \in SUBSET Nat
  BY SMTT(60) DEF Pool, Shape
<1>2. lo \in m.free /\ lo \in Nat /\ lo \in R
  BY <1>1, SMTT(60) DEF Counting, LowestLaw
<1>3. blk \in Nat /\ blk \div s = lo
  BY <1>1, <1>2, BlockIndex, Zenon
<1>4. NextBlock(p) = blk
  BY DEF NextBlock
<1>5. Updates(mcb', mcb, p, m.free \ {lo}, m.fblks - 1, m.useblks + 1)
  BY Zenon DEF TakeBlock, Updates
<1>6. /\ mcb'[p].size = s /\ mcb'[p].nblks = m.nblks /\ mcb'[p].bytes = m.bytes
      /\ mcb'[p].array = m.array /\ mcb'[p].free = m.free \ {lo}
      /\ mcb'[p].fblks = m.fblks - 1 /\ mcb'[p].useblks = m.useblks + 1
      /\ mcb' \in [Id -> Pool] /\ mcb'[p] \in Pool
      /\ \A q \in Id \ {p} : mcb'[q] = mcb[q]
  <2>1. /\ m.free \ {lo} \in SUBSET Nat /\ m.fblks - 1 \in Int
        /\ m.useblks + 1 \in Int
    BY <1>1
  <2> QED
    <3>1. PICK F \in SUBSET Nat, u \in Int, v \in Int :
            F = m.free \ {lo} /\ u = m.fblks - 1 /\ v = m.useblks + 1
      BY <2>1, Zenon
    <3>2. Updates(mcb', mcb, p, F, u, v)
      BY <1>5, <3>1, Zenon
    <3>3. /\ mcb' \in [Id -> Pool] /\ mcb'[p] \in Pool
          /\ mcb'[p].size = mcb[p].size /\ mcb'[p].nblks = mcb[p].nblks
          /\ mcb'[p].bytes = mcb[p].bytes /\ mcb'[p].array = mcb[p].array
          /\ mcb'[p].free = F /\ mcb'[p].fblks = u /\ mcb'[p].useblks = v
          /\ \A q \in Id \ {p} : mcb'[q] = mcb[q]
      BY ONLY <3>2, PoolUpdate, mcb \in [Id -> Pool], p \in Id, SMTT(60)
    <3> QED
      BY <3>1, <3>3, Zenon
<1>8. /\ held' \in [Id -> SUBSET Nat] /\ held'[p] = held[p] \cup {blk}
      /\ \A q \in Id \ {p} : held'[q] = held[q]
  BY <1>3, <1>4, SMTT(60) DEF TakeBlock
<1>9. blk \notin held[p]
  BY <1>1, <1>2, <1>3, HeldBlock, SMTT(60)
<1>10. held[p] = {i * s : i \in R \ m.free}
  BY <1>1 DEF Shape, BlocksOf
<1>11. held'[p] = {i * s : i \in R \ (m.free \ {lo})}
  <2>1. R \ (m.free \ {lo}) = (R \ m.free) \cup {lo}
    BY <1>2, SMTT(60)
  <2> HIDE DEF R
  <2> QED
    BY <1>8, <1>10, <2>1, SMTT(60)
<1>12. Shape(mcb'[p], held'[p])
  BY <1>1, <1>6, <1>11, SMTT(60) DEF Shape, BlocksOf
<1>13. ASSUME Exact(m, held[p]) PROVE Exact(mcb'[p], held'[p])
  <2>1. IsFiniteSet(held[p]) /\ Cardinality(held[p]) \in Nat
    BY <1>1, HeldFinite
  <2>2. Cardinality(held'[p]) = Cardinality(held[p]) + 1
    BY <1>8, <1>9, <2>1, ZenonT(60) DEF Counting, AddLaw
  <2> QED
    BY <1>1, <1>6, <1>13, <2>2, ExactTaken
<1>14. Tight(m) => Tight(mcb'[p])
  BY <1>6, Zenon DEF Tight
<1>15. OthersSame(p)
  BY <1>6, <1>8, Zenon DEF OthersSame
<1> QED
  BY <1>3, <1>4, <1>6, <1>8, <1>9, <1>12, <1>13, <1>14, <1>15, Zenon

(* free_blk takes back what a caller holds, and what it takes back beyond  *)
(* that, out of the padding, changes only the counters.                    *)
LEMMA PutKeeps ==
  ASSUME Counting, NEW p \in Id, mcb \in [Id -> Pool], held \in [Id -> SUBSET Nat],
         Shape(mcb[p], held[p]), NEW S \in SUBSET Nat, IsFiniteSet(S),
         mcb[p].array \/ S = {}, PutBlocks(p, S)
  PROVE  /\ mcb' \in [Id -> Pool] /\ held' \in [Id -> SUBSET Nat]
         /\ OthersSame(p)
         /\ Shape(mcb'[p], held'[p])
         /\ Tight(mcb[p]) => Tight(mcb'[p])
         /\ Exact(mcb[p], held[p]) /\ (Tight(mcb[p]) \/ S \subseteq held[p]) =>
              Exact(mcb'[p], held'[p])
         /\ S \subseteq held[p] => held'[p] = held[p] \ S
         /\ accepted' \in BOOLEAN
<1> DEFINE m == mcb[p]
           s == m.size
           R == 0 .. m.nblks - 1
           back == {addr \in S : TakesBack(p, addr)}
           n == Cardinality(back)
           idx == {addr \div s : addr \in back}
<1>1. /\ m \in Pool /\ s \in Nat \ {0} /\ m.nblks \in Nat /\ m.free \in SUBSET R
      /\ m.fblks \in Int /\ m.useblks \in Int /\ m.bytes \in Nat
      /\ m.free \in SUBSET Nat /\ m.array \in BOOLEAN
  BY DEF Pool, Shape
<1>2. back \subseteq S /\ IsFiniteSet(back) /\ n \in Nat
  <2>1. back \in SUBSET S
    BY SMTT(30)
  <2> QED
    BY <2>1 DEF Counting, SubsetLaw
<1>3. Updates(mcb', mcb, p, m.free \cup (idx \cap R), m.fblks + n, m.useblks - n)
  BY Zenon DEF PutBlocks, Updates
<1>4. /\ mcb'[p].size = s /\ mcb'[p].nblks = m.nblks /\ mcb'[p].bytes = m.bytes
      /\ mcb'[p].array = m.array /\ mcb'[p].free = m.free \cup (idx \cap R)
      /\ mcb'[p].fblks = m.fblks + n /\ mcb'[p].useblks = m.useblks - n
      /\ mcb' \in [Id -> Pool] /\ mcb'[p] \in Pool
      /\ \A q \in Id \ {p} : mcb'[q] = mcb[q]
  <2>1. m.free \cup (idx \cap R) \in SUBSET Nat
    BY <1>1, SMTT(60)
  <2>2. m.fblks + n \in Int /\ m.useblks - n \in Int
    BY <1>1, <1>2, SMTT(30)
  <2> HIDE DEF idx, n, R
  <2> QED
    <3>1. PICK F \in SUBSET Nat, u \in Int, v \in Int :
            F = m.free \cup (idx \cap R) /\ u = m.fblks + n /\ v = m.useblks - n
      BY <2>1, <2>2, Zenon
    <3>2. Updates(mcb', mcb, p, F, u, v)
      BY <1>3, <3>1, Zenon
    <3>3. /\ mcb' \in [Id -> Pool] /\ mcb'[p] \in Pool
          /\ mcb'[p].size = mcb[p].size /\ mcb'[p].nblks = mcb[p].nblks
          /\ mcb'[p].bytes = mcb[p].bytes /\ mcb'[p].array = mcb[p].array
          /\ mcb'[p].free = F /\ mcb'[p].fblks = u /\ mcb'[p].useblks = v
          /\ \A q \in Id \ {p} : mcb'[q] = mcb[q]
      BY ONLY <3>2, PoolUpdate, mcb \in [Id -> Pool], p \in Id, SMTT(60)
    <3> QED
      BY <3>1, <3>3, Zenon
<1>6. /\ held' \in [Id -> SUBSET Nat] /\ held'[p] = held[p] \ back
      /\ \A q \in Id \ {p} : held'[q] = held[q]
      /\ accepted' \in BOOLEAN
  BY ZenonT(60) DEF PutBlocks
<1>7. \A a \in back : /\ a \in Nat /\ a \div s \in Nat /\ a = (a \div s) * s
                      /\ a \div s \notin m.free
                      /\ Tight(m) => a \div s < m.nblks
  BY <1>1, ValidIndex, SMTT(60) DEF TakesBack
<1>8. Shape(mcb'[p], held'[p])
  <2>1. CASE m.array
    <3>1. held[p] = {i * s : i \in R \ m.free}
      BY <2>1, SMTT(60) DEF Shape, BlocksOf
    <3>2. ASSUME NEW x \in held'[p]
          PROVE  x \in {i * s : i \in R \ (m.free \cup (idx \cap R))}
      <4>1. x \in held[p] /\ x \notin back
        BY <1>6, SMTT(60)
      <4>2. x \div s \in R \ m.free /\ x = (x \div s) * s
        BY <1>1, <4>1, HeldBlock, SMTT(60)
      <4>3. x \div s \notin idx
        <5>1. SUFFICES ASSUME NEW a \in back, a \div s = x \div s PROVE FALSE
          BY SMTT(60)
        <5>2. a = x
          BY <1>7, <4>2, <5>1, SMTT(60)
        <5> QED
          BY <4>1, <5>2, SMTT(60)
      <4> QED
        BY <4>2, <4>3
    <3>3. ASSUME NEW i \in R \ (m.free \cup (idx \cap R)) PROVE i * s \in held'[p]
      <4>1. i * s \in held[p]
        BY <3>1, SMTT(60)
      <4>2. i \in Nat /\ (i * s) \div s = i
        BY <1>1, BlockIndex, SMTT(60)
      <4>3. i * s \notin back
        <5>1. SUFFICES ASSUME i * s \in back PROVE FALSE
          OBVIOUS
        <5>2. (i * s) \div s \in idx
          BY <5>1, ZenonT(60)
        <5> QED
          BY <4>2, <5>2, SMTT(60)
      <4> QED
        BY <1>6, <4>1, <4>3, SMTT(60)
    <3>4. held'[p] = {i * s : i \in R \ (m.free \cup (idx \cap R))}
      <4> HIDE DEF idx, back, R
      <4> QED
        BY <3>2, <3>3, SMTT(60)
    <3>5. m.free \cup (idx \cap R) \subseteq R
      BY <1>1, SMTT(60)
    <3> HIDE DEF idx, back
    <3> QED
      BY <1>1, <1>4, <2>1, <3>4, <3>5, SMTT(60) DEF Shape, BlocksOf
  <2>2. CASE ~m.array
    <3>1. back = {} /\ idx = {}
      BY <2>2, ZenonT(60)
    <3> HIDE DEF idx, back, n
    <3> QED
      BY <1>1, <1>4, <1>6, <2>2, <3>1, SMTT(60) DEF Shape
  <2> QED
    BY <1>1, <2>1, <2>2, SMTT(60)
<1>9. ASSUME Tight(m) PROVE back \subseteq held[p]
  <2>1. SUFFICES ASSUME NEW a \in back PROVE a \in held[p]
    BY ZenonT(60)
  <2>2. a \div s \in R \ m.free /\ a = (a \div s) * s
    BY <1>1, <1>7, <1>9, SMTT(60)
  <2>3. m.array
    BY <1>2, <2>1
  <2> HIDE DEF back
  <2> QED
    BY <2>2, <2>3 DEF Shape, BlocksOf
<1>10. ASSUME S \subseteq held[p] PROVE back = S
  <2>1. \A x \in S : TakesBack(p, x)
    BY <1>1, <1>10, HeldBlock, SMTT(60)
  <2> QED
    BY <2>1, ZenonT(60)
<1>11. ASSUME Exact(m, held[p]), Tight(m) \/ S \subseteq held[p]
       PROVE  Exact(mcb'[p], held'[p])
  <2>1. back \subseteq held[p]
    BY <1>9, <1>10, <1>11, Zenon
  <2>2. IsFiniteSet(held[p]) /\ Cardinality(held[p]) \in Nat
    BY <1>1, HeldFinite
  <2>3. Cardinality(held'[p]) = Cardinality(held[p]) - n
    BY <1>6, <2>1, <2>2, ZenonT(60) DEF Counting, DifferenceLaw
  <2>4. /\ mcb'[p].nblks = m.nblks /\ mcb'[p].fblks = m.fblks + n
        /\ mcb'[p].useblks = m.useblks - n /\ mcb'[p] \in Pool
    BY <1>4, Zenon
  <2> HIDE DEF back, n, m
  <2> QED
    BY <1>1, <1>2, <1>11, <2>3, <2>4, ExactReturned
<1>12. Tight(m) => Tight(mcb'[p])
  BY <1>4, Zenon DEF Tight
<1>13. OthersSame(p)
  BY <1>4, <1>6, Zenon DEF OthersSame
<1> HIDE DEF back, n
<1> QED
  BY <1>4, <1>6, <1>8, <1>10, <1>11, <1>12, <1>13, Zenon

(* mem_pool_create makes no pool, or one with an id of its own and all of  *)
(* its blocks free.                                                        *)
LEMMA CreateKeeps ==
  ASSUME Counting, PoolTypeOK, NEW size \in Nat \ {0}, NEW n \in Nat \ {0},
         mem_pool_create(size, n)
  PROVE  \/ /\ next' \in {next, next + 1} /\ next' \in 0 .. MaxPools
            /\ UNCHANGED <<hd_mcb, mcb>>
         \/ /\ Created(next + 1) /\ next' \in 0 .. MaxPools
            /\ (size * n) % Align = 0 \/ Align < size => Tight(mcb'[next + 1])
<1> DEFINE p == next + 1
<1>1. next \in Nat /\ MaxPools \in Nat /\ next < MaxPools /\ p \in Id /\ p \notin hd_mcb
  BY PoolAssumption, SMTT(60) DEF PoolTypeOK, mem_pool_create, Id
<1>2. CASE \E array \in BOOLEAN :
          /\ next' = next + 1
          /\ mcb' = [mcb EXCEPT ![next + 1] =
               [size |-> size, nblks |-> n, bytes |-> Bytes(size, n),
                free |-> IF array THEN 0 .. n - 1 ELSE {}, array |-> array,
                fblks |-> n, useblks |-> 0]]
          /\ hd_mcb' = hd_mcb \cup {next + 1}
  <2>1. PICK array \in BOOLEAN :
          /\ next' = p
          /\ mcb' = [mcb EXCEPT ![p] =
               [size |-> size, nblks |-> n, bytes |-> Bytes(size, n),
                free |-> IF array THEN 0 .. n - 1 ELSE {}, array |-> array,
                fblks |-> n, useblks |-> 0]]
          /\ hd_mcb' = hd_mcb \cup {p}
    BY <1>2, Zenon
  <2>2. PICK bytes \in Nat :
          /\ bytes = Bytes(size, n) /\ n * size <= bytes
          /\ (size * n) % Align = 0 \/ Align < size => bytes < n * size + size
    BY BytesHold
  <2>3. PICK F \in SUBSET Nat :
          /\ F \subseteq 0 .. n - 1 /\ (0 .. n - 1) \ F = (IF array THEN {} ELSE 0 .. n - 1)
          /\ ~array => F = {}
          /\ F = (IF array THEN 0 .. n - 1 ELSE {})
    <3>1. CASE array
      <4>1. 0 .. n - 1 \in SUBSET Nat
        OBVIOUS
      <4> QED
        BY <3>1, <4>1, Zenon
    <3>2. CASE ~array
      BY <3>2, ZenonT(60)
    <3> QED
      BY <3>1, <3>2, Zenon
  <2>4. mcb' = [mcb EXCEPT ![p] =
               [size |-> size, nblks |-> n, bytes |-> bytes, free |-> F,
                array |-> array, fblks |-> n, useblks |-> 0]]
    BY <2>1, <2>2, <2>3, SMTT(60)
  <2>5. /\ mcb'[p].size = size /\ mcb'[p].nblks = n /\ mcb'[p].bytes = bytes
        /\ mcb'[p].free = F /\ mcb'[p].array = array /\ mcb'[p].fblks = n
        /\ mcb'[p].useblks = 0 /\ mcb'[p] \in Pool
    BY <1>1, <2>4 DEF PoolTypeOK, Pool
  <2>6. mcb' \in [Id -> Pool] /\ \A q \in Id \ {p} : mcb'[q] = mcb[q]
    BY <2>4, <2>5, ZenonT(60) DEF PoolTypeOK
  <2>7. Shape(mcb'[p], {})
    <3>1. array => BlocksOf(n, size, F) = {}
      BY <2>3, SMTT(60) DEF BlocksOf
    <3> QED
      BY <2>2, <2>3, <2>5, <3>1, SMTT(60) DEF Shape
  <2>8. Exact(mcb'[p], {})
    BY <2>5, SMTT(60) DEF Counting, EmptyLaw, Exact
  <2>9. (size * n) % Align = 0 \/ Align < size => Tight(mcb'[p])
    BY <2>2, <2>5 DEF Tight
  <2> QED
    BY <1>1, <2>1, <2>6, <2>7, <2>8, <2>9, SMTT(60) DEF Created
<1>3. CASE UNCHANGED <<next, hd_mcb, mcb>>
  BY <1>1, <1>3
<1>4. CASE next' = next + 1 /\ UNCHANGED <<hd_mcb, mcb>>
  BY <1>1, <1>4
<1> QED
  BY <1>2, <1>3, <1>4, ZenonT(60) DEF mem_pool_create

(* A pool that has been freed, or is not there yet. *)
LEMMA NoPoolShape ==
  ASSUME Counting
  PROVE  /\ NoPool \in Pool /\ Shape(NoPool, {}) /\ Exact(NoPool, {}) /\ Tight(NoPool)
<1>1. NoPool \in Pool
  BY DEF NoPool, Pool
<1>2. Shape(NoPool, {}) /\ Tight(NoPool)
  BY DEF NoPool, Shape, Tight
<1>3. Exact(NoPool, {})
  BY DEF Counting, EmptyLaw, NoPool, Exact
<1> QED
  BY <1>1, <1>2, <1>3, SMTT(60)

(* mem_pool_delete leaves the pool without blocks. *)
LEMMA DeleteKeeps ==
  ASSUME Counting, PoolTypeOK, PoolsOK, NEW p \in Id, mem_pool_delete(p),
         UNCHANGED <<own, hd_mcb>>
  PROVE  /\ mcb' \in [Id -> Pool] /\ held' \in [Id -> SUBSET Nat]
         /\ OthersSame(p) /\ PoolsOK' /\ held'[p] = {}
<1>1. /\ mcb' = [mcb EXCEPT ![p] = NoPool] /\ held' = [held EXCEPT ![p] = {}]
      /\ mcb \in [Id -> Pool] /\ held \in [Id -> SUBSET Nat]
  BY DEF mem_pool_delete, PoolTypeOK
<1>2. /\ mcb' \in [Id -> Pool] /\ held' \in [Id -> SUBSET Nat]
      /\ OthersSame(p) /\ mcb'[p] = NoPool /\ held'[p] = {}
  BY <1>1, NoPoolShape DEF OthersSame
<1>3. PoolsOK'
  BY <1>2, NoPoolShape, OnePool, SMTT(60)
<1> QED
  BY <1>2, <1>3

(* One call of the application keeps the pools consistent, whatever        *)
(* address it gives to free_blk, and does not touch the table's pool.      *)
LEMMA AppKeeps ==
  ASSUME Counting, PoolTypeOK, PoolsOK, AppCall
  PROVE  PoolTypeOK' /\ PoolsOK' /\ ForeignSame
<1>0. /\ next \in Nat /\ next \in 0 .. MaxPools /\ mcb \in [Id -> Pool]
      /\ held \in [Id -> SUBSET Nat] /\ accepted \in BOOLEAN
      /\ own \subseteq hd_mcb /\ freed \subseteq hd_mcb
  BY DEF PoolTypeOK
<1>1. ASSUME NEW r \in Requests, AppCreate(r[1], r[2])
      PROVE  PoolTypeOK' /\ PoolsOK' /\ ForeignSame
  <2>1. r[1] \in Nat \ {0} /\ r[2] \in Nat \ {0}
    BY PoolAssumption
  <2>2. /\ mem_pool_create(r[1], r[2]) /\ own' = own \cup (hd_mcb' \ hd_mcb)
        /\ UNCHANGED <<freed, held, accepted>>
    BY <1>1 DEF AppCreate
  <2>3. CASE next' \in {next, next + 1} /\ next' \in 0 .. MaxPools /\ UNCHANGED <<hd_mcb, mcb>>
    BY <1>0, <2>2, <2>3, PoolsSame
  <2>4. CASE /\ Created(next + 1) /\ next' \in 0 .. MaxPools
             /\ (r[1] * r[2]) % Align = 0 \/ Align < r[1] => Tight(mcb'[next + 1])
    <3> DEFINE p == next + 1
    <3>1. own' = own \cup {p} /\ hd_mcb' = hd_mcb \cup {p} /\ p \notin hd_mcb /\ p \in Id
      BY <2>2, <2>4, SMTT(60) DEF Created
    <3>2. held'[p] = {}
      BY <2>2, <3>1, SMTT(60) DEF PoolsOK
    <3>3. PoolTypeOK'
      <4>1. hd_mcb' \subseteq 1 .. next'
        BY <1>0, <2>4, SMTT(60) DEF Created, PoolTypeOK
      <4> QED
        BY <2>2, <2>4, <3>1, <4>1, SMTT(60) DEF Created, PoolTypeOK
    <3>4. PoolsOK'
      <4>1. SUFFICES ASSUME NEW q \in Id
                     PROVE  /\ Shape(mcb'[q], held'[q])
                            /\ NoSlack \/ q \notin own' => Exact(mcb'[q], held'[q])
                            /\ NoSlack /\ q \in own' => Tight(mcb'[q])
                            /\ q \notin hd_mcb' => held'[q] = {}
        BY Zenon DEF PoolsOK
      <4>2. CASE q = p
        BY <1>1, <2>4, <3>1, <3>2, <4>2, ZenonT(60) DEF Created, NoSlack
      <4>3. CASE q # p
        BY <2>2, <2>4, <3>1, <4>3, SMTT(60) DEF Created, PoolsOK
      <4> QED
        BY <4>2, <4>3
    <3>5. ForeignSame
      BY <2>2, <3>1 DEF ForeignSame
    <3> QED
      BY <3>3, <3>4, <3>5, SMTT(60)
  <2> QED
    BY <2>1, <2>2, <2>3, <2>4, CreateKeeps, SMTT(60)
<1>2. ASSUME NEW p \in own, AppDelete(p)
      PROVE  PoolTypeOK' /\ PoolsOK' /\ ForeignSame
  <2>1. p \in Id /\ p \in hd_mcb /\ UNCHANGED <<next, own, hd_mcb, accepted>>
    BY <1>0, <1>2, OwnId, SMTT(60) DEF AppDelete
  <2>2. CASE WalksFreed(p)
    BY <1>0, <1>2, <2>1, <2>2, PoolsSame, SMTT(60) DEF AppDelete
  <2>3. CASE ~WalksFreed(p)
    <3>1. mem_pool_delete(p) /\ freed' = freed \cup {p}
      BY <1>2, <2>3 DEF AppDelete, mem_pool_delete
    <3>2. /\ mcb' \in [Id -> Pool] /\ held' \in [Id -> SUBSET Nat]
          /\ OthersSame(p) /\ PoolsOK'
      BY <2>1, <3>1, DeleteKeeps, SMTT(60)
    <3>3. PoolTypeOK'
      BY <2>1, <3>1, <3>2, SMTT(60) DEF PoolTypeOK
    <3>4. ForeignSame
      BY <1>2, <2>1, <3>1, <3>2, OwnId DEF ForeignSame, OthersSame
    <3> QED
      BY <3>2, <3>3, <3>4
  <2> QED
    BY <2>2, <2>3
<1>3. ASSUME NEW p \in own, UNCHANGED <<next, own, hd_mcb, freed>>, accepted' \in BOOLEAN,
             mcb' \in [Id -> Pool], held' \in [Id -> SUBSET Nat], OthersSame(p),
             Shape(mcb'[p], held'[p]),
             NoSlack => Exact(mcb'[p], held'[p]) /\ Tight(mcb'[p])
      PROVE  PoolTypeOK' /\ PoolsOK' /\ ForeignSame
  <2>1. p \in Id /\ p \in hd_mcb
    BY <1>0, <1>3, OwnId, SMTT(60)
  <2>2. PoolsOK'
    BY <1>3, <2>1, OnePool, SMTT(60)
  <2>3. PoolTypeOK'
    BY <1>3, SMTT(60) DEF PoolTypeOK
  <2>4. ForeignSame
    BY <1>3, OwnId, SMTT(60) DEF ForeignSame, OthersSame
  <2> QED
    BY <2>2, <2>3, <2>4, SMTT(60)
<1>4. ASSUME NEW p \in own, alloc_block(p)
      PROVE  PoolTypeOK' /\ PoolsOK' /\ ForeignSame
  <2>1. p \in Id /\ UNCHANGED <<next, own, hd_mcb, freed, accepted>>
    BY <1>4, OwnId DEF alloc_block
  <2>2. CASE UNCHANGED <<mcb, held>>
    BY <1>0, <2>1, <2>2, PoolsSame
  <2>3. CASE PoolFault(p) = "none" /\ mcb[p].free # {} /\ TakeBlock(p)
    <3>1. mcb[p].array
      BY <2>3, SMTT(60) DEF PoolFault
    <3>2. Shape(mcb[p], held[p]) /\ (NoSlack => Exact(mcb[p], held[p]) /\ Tight(mcb[p]))
      BY <1>4, <2>1, Zenon DEF PoolsOK
    <3>3. /\ mcb' \in [Id -> Pool] /\ held' \in [Id -> SUBSET Nat]
          /\ OthersSame(p) /\ Shape(mcb'[p], held'[p])
          /\ Tight(mcb[p]) => Tight(mcb'[p])
          /\ Exact(mcb[p], held[p]) => Exact(mcb'[p], held'[p])
      BY <1>0, <2>1, <2>3, <3>1, <3>2, TakeKeeps, SMTT(60)
    <3> QED
      BY <1>0, <1>3, <2>1, <3>2, <3>3, Zenon
  <2> QED
    BY <1>4, <2>2, <2>3, SMTT(60) DEF alloc_block
<1>5. ASSUME NEW p \in own, NEW addr \in held[p] \cup Strays, free_blk(p, addr)
      PROVE  PoolTypeOK' /\ PoolsOK' /\ ForeignSame
  <2>1. p \in Id /\ UNCHANGED <<next, own, hd_mcb, freed>>
    BY <1>5, OwnId DEF free_blk
  <2>2. {addr} \in SUBSET Nat /\ IsFiniteSet({addr})
    <3>1. held[p] \in SUBSET Nat
      BY <1>0, <2>1
    <3> QED
      BY <3>1, PoolAssumption, ZenonT(30) DEF Counting, SingletonLaw
  <2>3. CASE UNCHANGED <<mcb, held, accepted>>
    BY <1>0, <2>1, <2>3, PoolsSame
  <2>4. CASE mcb[p].array /\ PutBlocks(p, {addr})
    <3>1. Shape(mcb[p], held[p]) /\ (NoSlack => Exact(mcb[p], held[p]) /\ Tight(mcb[p]))
      BY <1>5, <2>1, SMTT(60) DEF PoolsOK
    <3>2. /\ mcb' \in [Id -> Pool] /\ held' \in [Id -> SUBSET Nat]
          /\ OthersSame(p) /\ Shape(mcb'[p], held'[p])
          /\ Tight(mcb[p]) => Tight(mcb'[p])
          /\ Exact(mcb[p], held[p]) /\ Tight(mcb[p]) => Exact(mcb'[p], held'[p])
          /\ accepted' \in BOOLEAN
      BY <1>0, <2>1, <2>2, <2>4, <3>1, PutKeeps, SMTT(60)
    <3> QED
      BY <1>3, <2>1, <3>1, <3>2, ZenonT(60)
  <2> QED
    BY <1>5, <2>3, <2>4, SMTT(60) DEF free_blk
<1> QED
  BY <1>1, <1>2, <1>4, <1>5, SMTT(60) DEF AppCall

-----------------------------------------------------------------------------
(* Chains.                                                                 *)

(* hash_tbl_lookup and find_hash_entry on given chains. *)
FoundIn(ch, k) ==
  {i \in 1 .. Len(ch[hash_index_gen[k]]) : ch[hash_index_gen[k]][i].key = k}

LookupIn(ch, k) ==
  LET found == IF hash_index_gen[k] \in Bucket THEN FoundIn(ch, k) ELSE {}
  IN IF found = {} THEN Absent ELSE ch[hash_index_gen[k]][Lowest(found)].data

BlocksIn(ch) == UNION {{ch[b][i].blk : i \in DOMAIN ch[b]} : b \in Bucket}

ChainType == [Bucket -> Seq(Entry)]

(* A key has at most one entry, and that one is what a lookup finds. *)
LEMMA LookupIs ==
  ASSUME NEW ch \in ChainType, KeyPlaced(ch), NEW b \in Bucket, NEW i \in DOMAIN ch[b]
  PROVE  /\ ch[b][i] \in Entry /\ i \in Nat
         /\ FoundIn(ch, ch[b][i].key) = {i}
         /\ LookupIn(ch, ch[b][i].key) = ch[b][i].data
<1> DEFINE k == ch[b][i].key
<1>1. ch[b] \in Seq(Entry) /\ DOMAIN ch[b] = 1 .. Len(ch[b]) /\ Len(ch[b]) \in Nat
  BY DEF ChainType
<1>2. i \in 1 .. Len(ch[b]) /\ i \in Nat /\ ch[b][i] \in Entry
  BY <1>1
<1>3. hash_index_gen[k] = b /\ \A j \in 1 .. Len(ch[b]) : ch[b][j].key = k => j = i
  BY <1>1 DEF KeyPlaced
<1>4. FoundIn(ch, k) = {i}
  BY <1>2, <1>3 DEF FoundIn
<1>5. LookupIn(ch, k) = ch[b][i].data
  BY <1>2, <1>3, <1>4, LowestOfOne DEF LookupIn
<1> QED
  BY <1>2, <1>4, <1>5

(* A key without an entry. *)
LEMMA LookupAbsent ==
  ASSUME NEW ch \in ChainType, NEW k \in Key,
         hash_index_gen[k] \in Bucket =>
           \A i \in DOMAIN ch[hash_index_gen[k]] : ch[hash_index_gen[k]][i].key # k
  PROVE  LookupIn(ch, k) = Absent
<1>1. CASE hash_index_gen[k] \in Bucket
  <2>1. DOMAIN ch[hash_index_gen[k]] = 1 .. Len(ch[hash_index_gen[k]])
    BY <1>1 DEF ChainType
  <2>2. FoundIn(ch, k) = {}
    BY <1>1, <2>1 DEF FoundIn
  <2> QED
    BY <2>2 DEF LookupIn
<1>2. CASE hash_index_gen[k] \notin Bucket
  BY <1>2 DEF LookupIn
<1> QED
  BY <1>1, <1>2

(* A table without entries. *)
LEMMA EmptyChains ==
  /\ NoEntries \in ChainType /\ KeyPlaced(NoEntries) /\ BlocksDistinct(NoEntries)
  /\ BlocksIn(NoEntries) = {}
  /\ \A k \in Key : LookupIn(NoEntries, k) = Absent
<1>1. NoEntries \in ChainType /\ \A b \in Bucket : NoEntries[b] = <<>>
  BY DEF NoEntries, ChainType
<1>2. \A b \in Bucket : DOMAIN NoEntries[b] = {}
  BY <1>1
<1>3. KeyPlaced(NoEntries) /\ BlocksDistinct(NoEntries) /\ BlocksIn(NoEntries) = {}
  BY <1>2 DEF KeyPlaced, BlocksDistinct, BlocksIn
<1>4. \A k \in Key : LookupIn(NoEntries, k) = Absent
  BY <1>1, <1>2, LookupAbsent
<1> QED
  BY <1>1, <1>3, <1>4

(* The chains after Link and after Unlink. *)
Appended(ch2, ch, b, e) == ch2 = [ch EXCEPT ![b] = Append(ch[b], e)]
RemovedAt(ch2, ch, b, i) == ch2 = [ch EXCEPT ![b] = RemoveAt(ch[b], i)]

(* Link puts an entry behind those of the bucket. *)
LEMMA AppendEntry ==
  ASSUME NEW ch \in ChainType, NEW b \in Bucket, NEW e \in Entry, NEW ch2,
         Appended(ch2, ch, b, e)
  PROVE  /\ ch2 \in ChainType
         /\ \A c \in Bucket \ {b} : ch2[c] = ch[c]
         /\ Len(ch[b]) \in Nat /\ DOMAIN ch[b] = 1 .. Len(ch[b])
         /\ DOMAIN ch2[b] = 1 .. Len(ch[b]) + 1
         /\ ch2[b][Len(ch[b]) + 1] = e
         /\ \A i \in 1 .. Len(ch[b]) : ch2[b][i] = ch[b][i]
<1>1. ch[b] \in Seq(Entry) /\ Len(ch[b]) \in Nat /\ DOMAIN ch[b] = 1 .. Len(ch[b])
  BY DEF ChainType
<1>2. ch2[b] = Append(ch[b], e) /\ \A c \in Bucket \ {b} : ch2[c] = ch[c]
  BY DEF ChainType, Appended
<1>3. /\ Append(ch[b], e) \in Seq(Entry) /\ Len(Append(ch[b], e)) = Len(ch[b]) + 1
      /\ \A i \in 1 .. Len(ch[b]) : Append(ch[b], e)[i] = ch[b][i]
      /\ Append(ch[b], e)[Len(ch[b]) + 1] = e
  BY <1>1
<1>4. DOMAIN Append(ch[b], e) = 1 .. Len(ch[b]) + 1
  BY <1>3
<1>5. ch2 \in ChainType
  BY <1>2, <1>3 DEF ChainType, Appended
<1> QED
  BY <1>1, <1>2, <1>3, <1>4, <1>5, Zenon

(* What two sequences are when put together.                               *)
LEMMA Joined ==
  ASSUME NEW S, NEW l \in Seq(S), NEW r \in Seq(S)
  PROVE  /\ l \o r \in Seq(S) /\ Len(l \o r) = Len(l) + Len(r)
         /\ \A j \in 1 .. Len(l) + Len(r) :
              (l \o r)[j] = IF j <= Len(l) THEN l[j] ELSE r[j - Len(l)]
<1>1. l \o r \in Seq(S)
  OBVIOUS
<1>2. Len(l \o r) = Len(l) + Len(r)
  OBVIOUS
<1>3. ASSUME NEW j \in 1 .. Len(l) + Len(r)
      PROVE  (l \o r)[j] = IF j <= Len(l) THEN l[j] ELSE r[j - Len(l)]
  <2>1. Len(l) \in Nat /\ Len(r) \in Nat
    OBVIOUS
  <2> QED
    BY <2>1
<1> QED
  BY <1>1, <1>2, <1>3

(* Unlink moves the entries behind the one removed up by one. *)
LEMMA RemoveEntry ==
  ASSUME NEW ch \in ChainType, NEW b \in Bucket, NEW i \in DOMAIN ch[b], NEW ch2,
         RemovedAt(ch2, ch, b, i)
  PROVE  /\ ch2 \in ChainType
         /\ \A c \in Bucket \ {b} : ch2[c] = ch[c]
         /\ Len(ch[b]) \in Nat /\ DOMAIN ch[b] = 1 .. Len(ch[b])
         /\ DOMAIN ch2[b] = 1 .. Len(ch[b]) - 1
         /\ \A j \in 1 .. Len(ch[b]) - 1 : ch2[b][j] = ch[b][IF j < i THEN j ELSE j + 1]
<1> DEFINE s == ch[b]
           l == SubSeq(s, 1, i - 1)
           r == SubSeq(s, i + 1, Len(s))
<1>1. s \in Seq(Entry) /\ Len(s) \in Nat /\ DOMAIN s = 1 .. Len(s) /\ i \in 1 .. Len(s)
  BY DEF ChainType
<1>2. ch2[b] = l \o r /\ \A c \in Bucket \ {b} : ch2[c] = ch[c]
  BY Zenon DEF ChainType, RemovedAt, RemoveAt
<1>3. /\ l \in Seq(Entry) /\ Len(l) = i - 1 /\ \A j \in 1 .. i - 1 : l[j] = s[j]
  <2>1. \A j \in 1 .. i - 1 : j \in 1 .. Len(s)
    BY <1>1
  <2> QED
    BY <1>1, <2>1
<1>4. /\ r \in Seq(Entry) /\ Len(r) = Len(s) - i
      /\ \A j \in 1 .. Len(s) - i : r[j] = s[i + j]
  <2>1. \A j \in i + 1 .. Len(s) : j \in 1 .. Len(s)
    BY <1>1
  <2> QED
    BY <1>1, <2>1, SMTT(60)
<1> HIDE DEF l, r
<1>5. /\ l \o r \in Seq(Entry) /\ Len(l \o r) = Len(l) + Len(r)
      /\ \A j \in 1 .. Len(l) + Len(r) :
           (l \o r)[j] = IF j <= Len(l) THEN l[j] ELSE r[j - Len(l)]
  BY <1>3, <1>4, Joined, Zenon
<1>6. ASSUME NEW j \in 1 .. Len(s) - 1
      PROVE  (l \o r)[j] = s[IF j < i THEN j ELSE j + 1]
  <2>1. j \in 1 .. Len(l) + Len(r)
    BY <1>1, <1>3, <1>4
  <2>2. CASE j < i
    <3>1. j <= Len(l) /\ j \in 1 .. i - 1
      BY <1>1, <1>3, <2>2
    <3> QED
      BY <1>3, <1>5, <2>1, <2>2, <3>1, Zenon
  <2>3. CASE ~(j < i)
    <3>1. ~(j <= Len(l)) /\ j - Len(l) \in 1 .. Len(s) - i /\ i + (j - Len(l)) = j + 1
      BY <1>1, <1>3, <2>3
    <3>2. (l \o r)[j] = r[j - Len(l)]
      BY <1>5, <2>1, <3>1, Zenon
    <3>3. r[j - Len(l)] = s[i + (j - Len(l))]
      BY <1>4, <3>1, Zenon
    <3> QED
      BY <2>3, <3>1, <3>2, <3>3, Zenon
  <2> QED
    BY <2>2, <2>3, Zenon
<1>7. DOMAIN (l \o r) = 1 .. Len(s) - 1
  <2>1. Len(l) + Len(r) = Len(s) - 1
    BY <1>1, <1>3, <1>4
  <2> QED
    BY <1>5, <2>1
<1>8. ch2 \in ChainType
  <2>1. ch2 = [ch EXCEPT ![b] = l \o r]
    BY DEF RemovedAt, RemoveAt, l, r
  <2> QED
    BY <1>5, <2>1, Zenon DEF ChainType
<1> QED
  BY <1>1, <1>2, <1>6, <1>7, <1>8, Zenon

(* big has the entries of small, the j-th of bucket c at pos[c][j], and    *)
(* one more: the n-th of bucket b.                                         *)
OneMore(big, small, pos, b, n) ==
  /\ n \in DOMAIN big[b]
  /\ \A c \in Bucket : \A j \in DOMAIN small[c] :
       /\ pos[c][j] \in DOMAIN big[c] /\ small[c][j] = big[c][pos[c][j]]
       /\ c # b \/ pos[c][j] # n
       /\ \A k \in DOMAIN small[c] : pos[c][k] = pos[c][j] => k = j
  /\ \A c \in Bucket : \A i \in DOMAIN big[c] :
       (c = b /\ i = n) \/ \E j \in DOMAIN small[c] : pos[c][j] = i

(* The blocks of chains with one more entry. *)
LEMMA MoreBlocks ==
  ASSUME NEW big, NEW small, NEW pos, NEW b \in Bucket, NEW n,
         OneMore(big, small, pos, b, n)
  PROVE  /\ BlocksIn(big) = BlocksIn(small) \cup {big[b][n].blk}
         /\ BlocksDistinct(big) =>
              BlocksDistinct(small) /\ big[b][n].blk \notin BlocksIn(small)
         /\ BlocksDistinct(small) /\ big[b][n].blk \notin BlocksIn(small) =>
              BlocksDistinct(big)
<1>1. /\ n \in DOMAIN big[b]
      /\ \A c \in Bucket : \A j \in DOMAIN small[c] :
           /\ pos[c][j] \in DOMAIN big[c] /\ small[c][j] = big[c][pos[c][j]]
           /\ c # b \/ pos[c][j] # n
           /\ \A k \in DOMAIN small[c] : pos[c][k] = pos[c][j] => k = j
      /\ \A c \in Bucket : \A i \in DOMAIN big[c] :
           (c = b /\ i = n) \/ \E j \in DOMAIN small[c] : pos[c][j] = i
  BY Zenon DEF OneMore
<1>2. ASSUME NEW x
      PROVE  /\ x \in BlocksIn(big) <=>
                  \E c \in Bucket : \E i \in DOMAIN big[c] : x = big[c][i].blk
             /\ x \in BlocksIn(small) <=>
                  \E c \in Bucket : \E i \in DOMAIN small[c] : x = small[c][i].blk
  BY DEF BlocksIn
<1>3. ASSUME NEW x PROVE x \in BlocksIn(big) <=> x \in BlocksIn(small) \/ x = big[b][n].blk
  <2>1. ASSUME NEW c \in Bucket, NEW i \in DOMAIN big[c], x = big[c][i].blk
        PROVE  x \in BlocksIn(small) \/ x = big[b][n].blk
    <3>1. CASE c = b /\ i = n
      BY <2>1, <3>1, Zenon
    <3>2. CASE \E j \in DOMAIN small[c] : pos[c][j] = i
      <4>1. PICK j \in DOMAIN small[c] : pos[c][j] = i
        BY <3>2, Zenon
      <4>2. x = small[c][j].blk
        BY <1>1, <2>1, <4>1, Zenon
      <4> QED
        BY <1>2, <4>2, Zenon
    <3> QED
      BY <1>1, <3>1, <3>2
  <2>2. ASSUME NEW c \in Bucket, NEW j \in DOMAIN small[c], x = small[c][j].blk
        PROVE  x \in BlocksIn(big)
    <3>1. pos[c][j] \in DOMAIN big[c] /\ x = big[c][pos[c][j]].blk
      BY <1>1, <2>2, Zenon
    <3> QED
      BY <1>2, <3>1, Zenon
  <2>3. big[b][n].blk \in BlocksIn(big)
    BY <1>1, <1>2, Zenon
  <2> QED
    BY <1>2, <2>1, <2>2, <2>3, Zenon
<1>4. ASSUME BlocksDistinct(big)
      PROVE  BlocksDistinct(small) /\ big[b][n].blk \notin BlocksIn(small)
  <2>1. ASSUME NEW c \in Bucket, NEW d \in Bucket, NEW i \in DOMAIN small[c],
               NEW j \in DOMAIN small[d], small[c][i].blk = small[d][j].blk
        PROVE  c = d /\ i = j
    <3>1. /\ pos[c][i] \in DOMAIN big[c] /\ small[c][i] = big[c][pos[c][i]]
          /\ pos[d][j] \in DOMAIN big[d] /\ small[d][j] = big[d][pos[d][j]]
      BY <1>1, Zenon
    <3>2. c = d /\ pos[c][i] = pos[d][j]
      BY <1>4, <2>1, <3>1, SMTT(30) DEF BlocksDistinct
    <3> QED
      BY <1>1, <3>2, Zenon
  <2>2. ASSUME NEW c \in Bucket, NEW j \in DOMAIN small[c],
               big[b][n].blk = small[c][j].blk
        PROVE  FALSE
    <3>1. /\ pos[c][j] \in DOMAIN big[c] /\ small[c][j] = big[c][pos[c][j]]
          /\ c # b \/ pos[c][j] # n
      BY <1>1, Zenon
    <3> QED
      BY <1>1, <1>4, <2>2, <3>1 DEF BlocksDistinct
  <2>3. BlocksDistinct(small)
    BY <2>1, Zenon DEF BlocksDistinct
  <2> QED
    BY <1>2, <2>2, <2>3, Zenon
<1>5. ASSUME BlocksDistinct(small), big[b][n].blk \notin BlocksIn(small)
      PROVE  BlocksDistinct(big)
  <2>1. ASSUME NEW c \in Bucket, NEW i \in DOMAIN big[c], ~(c = b /\ i = n)
        PROVE  big[c][i].blk # big[b][n].blk
    <3>1. PICK j \in DOMAIN small[c] : pos[c][j] = i
      BY <1>1, <2>1, ZenonT(60)
    <3>2. big[c][i].blk \in BlocksIn(small)
      BY <1>1, <1>2, <3>1
    <3> QED
      BY <1>5, <3>2, Zenon
  <2>2. ASSUME NEW c \in Bucket, NEW d \in Bucket, NEW i \in DOMAIN big[c],
               NEW j \in DOMAIN big[d], big[c][i].blk = big[d][j].blk,
               ~(c = b /\ i = n), ~(d = b /\ j = n)
        PROVE  c = d /\ i = j
    <3>1. PICK x \in DOMAIN small[c] : pos[c][x] = i
      BY <1>1, <2>2, SMTT(60)
    <3>2. PICK y \in DOMAIN small[d] : pos[d][y] = j
      BY <1>1, <2>2
    <3>3. small[c][x].blk = small[d][y].blk
      BY <1>1, <2>2, <3>1, <3>2, Zenon
    <3>4. c = d /\ x = y
      BY <1>5, <3>3, Zenon DEF BlocksDistinct
    <3> QED
      BY <3>1, <3>2, <3>4, Zenon
  <2>3. ASSUME NEW c \in Bucket, NEW d \in Bucket, NEW i \in DOMAIN big[c],
               NEW j \in DOMAIN big[d], big[c][i].blk = big[d][j].blk
        PROVE  c = d /\ i = j
    BY <2>1, <2>2, <2>3
  <2> QED
    BY <2>3, Zenon DEF BlocksDistinct
<1>6. BlocksIn(big) = BlocksIn(small) \cup {big[b][n].blk}
  BY <1>3, Zenon
<1> QED
  BY <1>4, <1>5, <1>6, Zenon

(* The keys of chains with one more entry. *)
LEMMA MoreKeys ==
  ASSUME NEW big, NEW small, NEW pos, NEW b \in Bucket, NEW n,
         OneMore(big, small, pos, b, n)
  PROVE  /\ KeyPlaced(big) =>
              /\ KeyPlaced(small) /\ hash_index_gen[big[b][n].key] = b
              /\ \A j \in DOMAIN small[b] : small[b][j].key # big[b][n].key
         /\ /\ KeyPlaced(small) /\ hash_index_gen[big[b][n].key] = b
            /\ \A j \in DOMAIN small[b] : small[b][j].key # big[b][n].key
            => KeyPlaced(big)
<1>1. /\ n \in DOMAIN big[b]
      /\ \A c \in Bucket : \A j \in DOMAIN small[c] :
           /\ pos[c][j] \in DOMAIN big[c] /\ small[c][j] = big[c][pos[c][j]]
           /\ c # b \/ pos[c][j] # n
           /\ \A k \in DOMAIN small[c] : pos[c][k] = pos[c][j] => k = j
      /\ \A c \in Bucket : \A i \in DOMAIN big[c] :
           (c = b /\ i = n) \/ \E j \in DOMAIN small[c] : pos[c][j] = i
  BY Zenon DEF OneMore
<1>2. ASSUME KeyPlaced(big)
      PROVE  /\ KeyPlaced(small) /\ hash_index_gen[big[b][n].key] = b
             /\ \A j \in DOMAIN small[b] : small[b][j].key # big[b][n].key
  <2>1. ASSUME NEW c \in Bucket, NEW i \in DOMAIN small[c]
        PROVE  /\ hash_index_gen[small[c][i].key] = c
               /\ \A j \in DOMAIN small[c] : small[c][j].key = small[c][i].key => j = i
    <3>1. pos[c][i] \in DOMAIN big[c] /\ small[c][i] = big[c][pos[c][i]]
      BY <1>1, Zenon
    <3>2. hash_index_gen[small[c][i].key] = c
      BY <1>2, <3>1, ZenonT(60) DEF KeyPlaced
    <3>3. ASSUME NEW j \in DOMAIN small[c], small[c][j].key = small[c][i].key PROVE j = i
      <4>1. pos[c][j] \in DOMAIN big[c] /\ small[c][j] = big[c][pos[c][j]]
        BY <1>1, Zenon
      <4>2. pos[c][j] = pos[c][i]
        BY <1>2, <3>1, <3>3, <4>1 DEF KeyPlaced
      <4> QED
        BY <1>1, <4>2, Zenon
    <3> QED
      BY <3>2, <3>3, Zenon
  <2>2. ASSUME NEW j \in DOMAIN small[b], small[b][j].key = big[b][n].key PROVE FALSE
    <3>1. pos[b][j] \in DOMAIN big[b] /\ small[b][j] = big[b][pos[b][j]] /\ pos[b][j] # n
      BY <1>1, Zenon
    <3> QED
      BY <1>1, <1>2, <2>2, <3>1, SMTT(60) DEF KeyPlaced
  <2>3. hash_index_gen[big[b][n].key] = b
    BY <1>1, <1>2, Zenon DEF KeyPlaced
  <2>4. KeyPlaced(small)
    BY <2>1, Zenon DEF KeyPlaced
  <2> QED
    BY <2>2, <2>3, <2>4, Zenon
<1>3. ASSUME KeyPlaced(small), hash_index_gen[big[b][n].key] = b,
             \A j \in DOMAIN small[b] : small[b][j].key # big[b][n].key
      PROVE  KeyPlaced(big)
  <2>1. ASSUME NEW c \in Bucket, NEW i \in DOMAIN big[c]
        PROVE  hash_index_gen[big[c][i].key] = c
    <3>1. CASE c = b /\ i = n
      BY <1>3, <3>1, Zenon
    <3>2. CASE \E j \in DOMAIN small[c] : pos[c][j] = i
      <4>1. PICK j \in DOMAIN small[c] : pos[c][j] = i
        BY <3>2, Zenon
      <4>2. small[c][j] = big[c][i]
        BY <1>1, <4>1, Zenon
      <4>3. hash_index_gen[small[c][j].key] = c
        BY <1>3, Zenon DEF KeyPlaced
      <4> QED
        BY <4>2, <4>3, Zenon
    <3> QED
      BY <1>1, <3>1, <3>2, SMTT(60)
  <2>2. ASSUME NEW i \in DOMAIN big[b], i # n PROVE big[b][i].key # big[b][n].key
    <3>1. PICK j \in DOMAIN small[b] : pos[b][j] = i
      BY <1>1, <2>2, ZenonT(60)
    <3> QED
      BY <1>1, <1>3, <3>1, SMTT(60)
  <2>3. ASSUME NEW c \in Bucket, NEW i \in DOMAIN big[c], NEW j \in DOMAIN big[c],
               big[c][i].key = big[c][j].key, ~(c = b /\ i = n), ~(c = b /\ j = n)
        PROVE  j = i
    <3>1. PICK x \in DOMAIN small[c] : pos[c][x] = i
      BY <1>1, <2>3, SMTT(60)
    <3>2. PICK y \in DOMAIN small[c] : pos[c][y] = j
      BY <1>1, <2>3, SMTT(60)
    <3>3. small[c][x].key = small[c][y].key
      BY <1>1, <2>3, <3>1, <3>2, Zenon
    <3>4. y = x
      BY <1>3, <3>3, Zenon DEF KeyPlaced
    <3> QED
      BY <3>1, <3>2, <3>4, Zenon
  <2>4. ASSUME NEW c \in Bucket, NEW i \in DOMAIN big[c], NEW j \in DOMAIN big[c],
               big[c][j].key = big[c][i].key
        PROVE  j = i
    BY <2>2, <2>3, <2>4, Zenon
  <2> QED
    BY <2>1, <2>4, Zenon DEF KeyPlaced
<1> QED
  BY <1>2, <1>3, Zenon

(* A lookup in chains with one more entry finds it, and for every other    *)
(* key what it found without it.                                           *)
LEMMA MoreLookup ==
  ASSUME NEW big \in ChainType, NEW small \in ChainType, NEW pos, NEW b \in Bucket, NEW n,
         OneMore(big, small, pos, b, n), KeyPlaced(big)
  PROVE  /\ big[b][n] \in Entry
         /\ LookupIn(big, big[b][n].key) = big[b][n].data
         /\ LookupIn(small, big[b][n].key) = Absent
         /\ \A k \in Key \ {big[b][n].key} : LookupIn(big, k) = LookupIn(small, k)
<1>1. /\ KeyPlaced(small) /\ hash_index_gen[big[b][n].key] = b
      /\ \A j \in DOMAIN small[b] : small[b][j].key # big[b][n].key
  BY MoreKeys
<1>2. n \in DOMAIN big[b]
  BY Zenon DEF OneMore
<1>3. big[b][n] \in Entry /\ LookupIn(big, big[b][n].key) = big[b][n].data
  BY <1>2, LookupIs, Zenon
<1>4. big[b][n].key \in Key
  BY <1>3 DEF Entry
<1>5. LookupIn(small, big[b][n].key) = Absent
  BY <1>1, <1>4, LookupAbsent, Zenon
<1>6. ASSUME NEW k \in Key \ {big[b][n].key} PROVE LookupIn(big, k) = LookupIn(small, k)
  <2>1. ASSUME NEW c \in Bucket, NEW j \in DOMAIN small[c], small[c][j].key = k
        PROVE  LookupIn(big, k) = LookupIn(small, k)
    <3>1. pos[c][j] \in DOMAIN big[c] /\ small[c][j] = big[c][pos[c][j]]
      BY Zenon DEF OneMore
    <3>2. LookupIn(small, small[c][j].key) = small[c][j].data
      BY <1>1, LookupIs, Zenon
    <3>3. LookupIn(big, big[c][pos[c][j]].key) = big[c][pos[c][j]].data
      BY <3>1, LookupIs, Zenon
    <3> QED
      BY <2>1, <3>1, <3>2, <3>3, Zenon
  <2>2. ASSUME \A c \in Bucket : \A j \in DOMAIN small[c] : small[c][j].key # k
        PROVE  LookupIn(big, k) = LookupIn(small, k)
    <3>1. LookupIn(small, k) = Absent
      BY <2>2, LookupAbsent, Zenon
    <3>2. ASSUME NEW c \in Bucket, NEW i \in DOMAIN big[c], big[c][i].key = k PROVE FALSE
      <4>1. ~(c = b /\ i = n)
        BY <1>6, <3>2, Zenon
      <4>2. PICK j \in DOMAIN small[c] : pos[c][j] = i
        BY <4>1, ZenonT(60) DEF OneMore
      <4>3. small[c][j] = big[c][i]
        BY <4>2, Zenon DEF OneMore
      <4> QED
        BY <2>2, <3>2, <4>3, Zenon
    <3>3. LookupIn(big, k) = Absent
      BY <3>2, LookupAbsent, Zenon
    <3> QED
      BY <3>1, <3>3, Zenon
  <2> QED
    BY <2>1, <2>2, Zenon
<1> QED
  BY <1>3, <1>5, <1>6, Zenon

(* Link: the new entry is the one more. *)
LEMMA AppendMore ==
  ASSUME NEW ch \in ChainType, NEW b \in Bucket, NEW e \in Entry, NEW ch2,
         Appended(ch2, ch, b, e)
  PROVE  /\ ch2 \in ChainType
         /\ \E pos : OneMore(ch2, ch, pos, b, Len(ch[b]) + 1)
         /\ ch2[b][Len(ch[b]) + 1] = e
<1> DEFINE n == Len(ch[b]) + 1
           pos == [c \in Bucket |-> [j \in DOMAIN ch[c] |-> j]]
<1>1. /\ ch2 \in ChainType
      /\ \A c \in Bucket \ {b} : ch2[c] = ch[c]
      /\ Len(ch[b]) \in Nat /\ DOMAIN ch[b] = 1 .. Len(ch[b])
      /\ DOMAIN ch2[b] = 1 .. n /\ ch2[b][n] = e
      /\ \A i \in 1 .. Len(ch[b]) : ch2[b][i] = ch[b][i]
  <2>1. ch2 \in ChainType /\ Len(ch[b]) \in Nat /\ DOMAIN ch[b] = 1 .. Len(ch[b])
    BY AppendEntry
  <2>2. \A c \in Bucket \ {b} : ch2[c] = ch[c]
    BY AppendEntry
  <2>3. DOMAIN ch2[b] = 1 .. n /\ ch2[b][n] = e
    BY AppendEntry
  <2>4. \A i \in 1 .. Len(ch[b]) : ch2[b][i] = ch[b][i]
    BY AppendEntry
  <2> QED
    BY <2>1, <2>2, <2>3, <2>4, Zenon
<1>2. /\ n \in DOMAIN ch2[b] /\ n \notin DOMAIN ch[b]
      /\ DOMAIN ch[b] \subseteq DOMAIN ch2[b]
      /\ \A i \in DOMAIN ch2[b] : i = n \/ i \in DOMAIN ch[b]
  BY <1>1
<1>3. \A c \in Bucket : \A j \in DOMAIN ch[c] : pos[c][j] = j
  OBVIOUS
<1> HIDE DEF pos, n
<1>4. ASSUME NEW c \in Bucket
      PROVE  /\ \A j \in DOMAIN ch[c] : j \in DOMAIN ch2[c] /\ ch[c][j] = ch2[c][j]
             /\ \A i \in DOMAIN ch2[c] : (c = b /\ i = n) \/ i \in DOMAIN ch[c]
  <2>1. CASE c = b
    BY <1>1, <1>2, <2>1, Zenon
  <2>2. CASE c # b
    BY <1>1, <2>2, Zenon
  <2> QED
    BY <2>1, <2>2, Zenon
<1>5. OneMore(ch2, ch, pos, b, n)
  BY <1>2, <1>3, <1>4 DEF OneMore
<1> QED
  BY <1>1, <1>5, Zenon DEF n

(* Unlink: the removed entry was the one more. *)
LEMMA RemoveMore ==
  ASSUME NEW ch \in ChainType, NEW b \in Bucket, NEW i \in DOMAIN ch[b], NEW ch2,
         RemovedAt(ch2, ch, b, i)
  PROVE  ch2 \in ChainType /\ \E pos : OneMore(ch, ch2, pos, b, i)
<1> DEFINE after(c, j) == c = b /\ ~(j < i)
           pos == [c \in Bucket |-> [j \in DOMAIN ch2[c] |-> IF after(c, j) THEN j + 1 ELSE j]]
<1>1. /\ ch2 \in ChainType
      /\ \A c \in Bucket \ {b} : ch2[c] = ch[c]
      /\ Len(ch[b]) \in Nat /\ DOMAIN ch[b] = 1 .. Len(ch[b])
      /\ DOMAIN ch2[b] = 1 .. Len(ch[b]) - 1
      /\ \A j \in 1 .. Len(ch[b]) - 1 : ch2[b][j] = ch[b][IF j < i THEN j ELSE j + 1]
  <2>1. ch2 \in ChainType /\ Len(ch[b]) \in Nat /\ DOMAIN ch[b] = 1 .. Len(ch[b])
    BY RemoveEntry
  <2>2. \A c \in Bucket \ {b} : ch2[c] = ch[c]
    BY RemoveEntry
  <2>3. DOMAIN ch2[b] = 1 .. Len(ch[b]) - 1
    BY RemoveEntry
  <2>4. \A j \in 1 .. Len(ch[b]) - 1 : ch2[b][j] = ch[b][IF j < i THEN j ELSE j + 1]
    BY RemoveEntry
  <2> QED
    BY <2>1, <2>2, <2>3, <2>4, Zenon
<1>2. \A c \in Bucket : \A j \in DOMAIN ch2[c] :
        pos[c][j] = IF c = b /\ ~(j < i) THEN j + 1 ELSE j
  OBVIOUS
<1> HIDE DEF pos
<1>3. i \in 1 .. Len(ch[b])
  BY <1>1
<1>4. ASSUME NEW c \in Bucket, c # b
      PROVE  /\ \A j \in DOMAIN ch2[c] : pos[c][j] = j
             /\ ch2[c] = ch[c]
  BY <1>1, <1>2, <1>4, Zenon
<1>5. \A j \in DOMAIN ch2[b] :
        /\ pos[b][j] = (IF j < i THEN j ELSE j + 1)
        /\ pos[b][j] \in DOMAIN ch[b] /\ pos[b][j] # i
  BY <1>1, <1>2, <1>3
<1>6. \A j, k \in DOMAIN ch2[b] : pos[b][k] = pos[b][j] => k = j
  <2>1. \A j, k \in 1 .. Len(ch[b]) - 1 :
          (IF k < i THEN k ELSE k + 1) = (IF j < i THEN j ELSE j + 1) => k = j
    BY <1>1, <1>3
  <2> QED
    BY <1>1, <1>5, <2>1, SMTT(60)
<1>7. ASSUME NEW m \in DOMAIN ch[b], m # i PROVE \E j \in DOMAIN ch2[b] : pos[b][j] = m
  <2>1. CASE m < i
    <3>1. m \in DOMAIN ch2[b]
      BY <1>1, <1>3, <2>1
    <3> QED
      BY <1>5, <2>1, <3>1, Zenon
  <2>2. CASE ~(m < i)
    <3>1. m - 1 \in DOMAIN ch2[b] /\ ~(m - 1 < i) /\ (m - 1) + 1 = m
      BY <1>1, <1>3, <1>7, <2>2
    <3>2. pos[b][m - 1] = (m - 1) + 1
      BY <1>5, <3>1, Zenon
    <3> QED
      BY <3>1, <3>2, Zenon
  <2> QED
    BY <2>1, <2>2, Zenon
<1>8. ASSUME NEW c \in Bucket, NEW j \in DOMAIN ch2[c]
      PROVE  /\ pos[c][j] \in DOMAIN ch[c] /\ ch2[c][j] = ch[c][pos[c][j]]
             /\ c # b \/ pos[c][j] # i
             /\ \A k \in DOMAIN ch2[c] : pos[c][k] = pos[c][j] => k = j
  <2>1. CASE c = b
    <3>1. pos[b][j] \in DOMAIN ch[b] /\ pos[b][j] # i
      BY <1>5, <2>1, Zenon
    <3>2. ch2[b][j] = ch[b][pos[b][j]]
      BY <1>1, <1>5, <2>1, Zenon
    <3>3. \A k \in DOMAIN ch2[b] : pos[b][k] = pos[b][j] => k = j
      BY <1>6, <2>1, Zenon
    <3> QED
      BY <2>1, <3>1, <3>2, <3>3, Zenon
  <2>2. CASE c # b
    BY <1>4, <2>2, Zenon
  <2> QED
    BY <2>1, <2>2, Zenon
<1>9. ASSUME NEW c \in Bucket, NEW m \in DOMAIN ch[c]
      PROVE  (c = b /\ m = i) \/ \E j \in DOMAIN ch2[c] : pos[c][j] = m
  <2>1. CASE c = b
    BY <1>7, <2>1, Zenon
  <2>2. CASE c # b
    BY <1>4, <2>2, Zenon
  <2> QED
    BY <2>1, <2>2, Zenon
<1>10. OneMore(ch, ch2, pos, b, i)
  BY <1>8, <1>9, Zenon DEF OneMore
<1> QED
  BY <1>1, <1>10, Zenon

WellFormed(ch) == ch \in ChainType /\ KeyPlaced(ch) /\ BlocksDistinct(ch)

(* The chains big show the entries of small and e, of a key that small     *)
(* does not have.                                                          *)
Shows(big, small, e) ==
  /\ BlocksIn(big) = BlocksIn(small) \cup {e.blk} /\ e.blk \notin BlocksIn(small)
  /\ e \in Entry /\ LookupIn(big, e.key) = e.data /\ LookupIn(small, e.key) = Absent
  /\ \A k \in Key \ {e.key} : LookupIn(big, k) = LookupIn(small, k)

(* One more entry, of a block and of a key that the chains do not have.    *)
LEMMA MoreKept ==
  ASSUME NEW big, NEW small, NEW pos, NEW b \in Bucket, NEW n,
         OneMore(big, small, pos, b, n), KeyPlaced(small), BlocksDistinct(small),
         big[b][n].blk \notin BlocksIn(small), hash_index_gen[big[b][n].key] = b,
         \A j \in DOMAIN small[b] : small[b][j].key # big[b][n].key
  PROVE  BlocksDistinct(big) /\ KeyPlaced(big)
<1>1. BlocksDistinct(big)
  BY MoreBlocks, Zenon
<1>2. KeyPlaced(big)
  BY MoreKeys
<1> QED
  BY <1>1, <1>2

(* What one more entry in well-formed chains shows. *)
LEMMA MoreShows ==
  ASSUME NEW big, NEW small, NEW pos, NEW b \in Bucket, NEW n,
         OneMore(big, small, pos, b, n), WellFormed(big), small \in ChainType
  PROVE  WellFormed(small) /\ Shows(big, small, big[b][n])
<1>1. big \in ChainType /\ KeyPlaced(big) /\ BlocksDistinct(big)
  BY Zenon DEF WellFormed
<1>2. /\ BlocksIn(big) = BlocksIn(small) \cup {big[b][n].blk}
      /\ BlocksDistinct(small) /\ big[b][n].blk \notin BlocksIn(small)
  BY <1>1, MoreBlocks
<1>3. KeyPlaced(small)
  BY <1>1, MoreKeys, Zenon
<1>4. /\ big[b][n] \in Entry /\ LookupIn(big, big[b][n].key) = big[b][n].data
      /\ LookupIn(small, big[b][n].key) = Absent
      /\ \A k \in Key \ {big[b][n].key} : LookupIn(big, k) = LookupIn(small, k)
  BY <1>1, MoreLookup
<1> QED
  BY <1>2, <1>3, <1>4, Zenon DEF WellFormed, Shows

(* Link adds an entry for a key that has none. *)
LEMMA LinkedChain ==
  ASSUME NEW ch, WellFormed(ch), NEW b \in Bucket, NEW e \in Entry, NEW ch2,
         Appended(ch2, ch, b, e), e.blk \notin BlocksIn(ch), hash_index_gen[e.key] = b,
         \A j \in DOMAIN ch[b] : ch[b][j].key # e.key
  PROVE  WellFormed(ch2) /\ Shows(ch2, ch, e)
<1>0. ch \in ChainType /\ KeyPlaced(ch) /\ BlocksDistinct(ch)
  BY Zenon DEF WellFormed
<1>1. PICK n, pos : OneMore(ch2, ch, pos, b, n) /\ ch2[b][n] = e /\ ch2 \in ChainType
  BY <1>0, AppendMore, Zenon
<1>2. ch2[b][n].blk \notin BlocksIn(ch) /\ hash_index_gen[ch2[b][n].key] = b
  BY <1>1, Zenon
<1>3. BlocksDistinct(ch2) /\ KeyPlaced(ch2)
  <2>1. \A j \in DOMAIN ch[b] : ch[b][j].key # ch2[b][n].key
    BY <1>1, Zenon
  <2> QED
    BY <1>0, <1>1, <1>2, <2>1, MoreKept, Zenon
<1>4. WellFormed(ch2)
  BY <1>1, <1>3, Zenon DEF WellFormed
<1> QED
  BY <1>0, <1>1, <1>4, MoreShows, Zenon

(* Unlink takes out an entry. *)
LEMMA UnlinkedChain ==
  ASSUME NEW ch, WellFormed(ch), NEW b \in Bucket, NEW i \in DOMAIN ch[b], NEW ch2,
         RemovedAt(ch2, ch, b, i)
  PROVE  WellFormed(ch2) /\ Shows(ch, ch2, ch[b][i])
<1>1. PICK pos : ch2 \in ChainType /\ OneMore(ch, ch2, pos, b, i)
  BY RemoveMore, Zenon DEF WellFormed
<1> QED
  BY <1>1, MoreShows, Zenon

-----------------------------------------------------------------------------
(* The steps of the table, given what they do to its pool.                 *)

(* What a step does to the map that lookups show. *)
Adds(k, d) ==
  /\ LookupIn(chain, k) = Absent /\ LookupIn(chain', k) = d
  /\ \A j \in Key \ {k} : LookupIn(chain', j) = LookupIn(chain, j)

Drops(k) ==
  /\ LookupIn(chain, k) \in Data /\ LookupIn(chain', k) = Absent
  /\ \A j \in Key \ {k} : LookupIn(chain', j) = LookupIn(chain, j)

MapStep ==
  \/ chain' = chain
  \/ \A k \in Key : LookupIn(chain', k) = Absent
  \/ \E k \in Key, d \in Data : Adds(k, d)
  \/ \E k \in Key : Drops(k)

(* The invariant in an open table, in the form the steps use.              *)
LEMMA OpenTable ==
  ASSUME HashInv, state = "open"
  PROVE  /\ hmem_pool_id \in Id /\ hmem_pool_id \in hd_mcb
         /\ hmem_pool_id \notin own /\ hmem_pool_id \notin freed
         /\ WellFormed(chain)
         /\ BlocksIn(chain) = held[hmem_pool_id]
         /\ mcb \in [Id -> Pool] /\ held \in [Id -> SUBSET Nat]
         /\ Shape(mcb[hmem_pool_id], held[hmem_pool_id])
         /\ Exact(mcb[hmem_pool_id], held[hmem_pool_id])
<1>1. /\ hmem_pool_id \in hd_mcb /\ hmem_pool_id \notin own /\ hmem_pool_id \notin freed
      /\ KeyPlaced(chain) /\ BlocksDistinct(chain) /\ Blocks = held[hmem_pool_id]
  BY Zenon DEF HashInv, TableOK
<1>2. hmem_pool_id \in Id
  BY <1>1, OwnId DEF HashInv
<1>3. /\ Shape(mcb[hmem_pool_id], held[hmem_pool_id])
      /\ Exact(mcb[hmem_pool_id], held[hmem_pool_id])
  BY <1>1, <1>2, Zenon DEF HashInv, PoolsOK
<1>4. chain \in ChainType /\ mcb \in [Id -> Pool] /\ held \in [Id -> SUBSET Nat]
  BY Zenon DEF HashInv, TableTypeOK, PoolTypeOK, ChainType
<1>5. BlocksIn(chain) = Blocks
  BY Zenon DEF BlocksIn, Blocks
<1>6. WellFormed(chain)
  BY <1>1, <1>4, Zenon DEF WellFormed
<1> QED
  BY <1>1, <1>2, <1>3, <1>4, <1>5, <1>6, Zenon

(* The pools after a call on the table's pool.                             *)
LEMMA TablePool ==
  ASSUME HashInv, state = "open", UNCHANGED <<next, own, hd_mcb, freed>>,
         accepted' \in BOOLEAN, mcb' \in [Id -> Pool], held' \in [Id -> SUBSET Nat],
         OthersSame(hmem_pool_id),
         Shape(mcb'[hmem_pool_id], held'[hmem_pool_id]),
         Exact(mcb'[hmem_pool_id], held'[hmem_pool_id])
  PROVE  PoolTypeOK' /\ PoolsOK'
<1>1. /\ hmem_pool_id \in Id /\ hmem_pool_id \in hd_mcb /\ hmem_pool_id \notin own
      /\ PoolsOK /\ PoolTypeOK
  BY OpenTable, Zenon DEF HashInv
<1>2. PoolsOK'
  BY <1>1, OnePool, Zenon
<1>3. PoolTypeOK'
  BY <1>1, Zenon DEF PoolTypeOK
<1> QED
  BY <1>2, <1>3

(* The table after a step that leaves it open.                             *)
LEMMA TableStays ==
  ASSUME HashInv, state = "open", UNCHANGED <<own, hd_mcb, freed, state, hmem_pool_id, junk>>,
         nentries' \in Int, WellFormed(chain'), BlocksIn(chain') = held'[hmem_pool_id]
  PROVE  TableTypeOK' /\ TableOK'
<1>1. TableTypeOK'
  BY Zenon DEF HashInv, TableTypeOK, ChainType, WellFormed
<1>2. Blocks' = BlocksIn(chain')
  BY Zenon DEF BlocksIn, Blocks
<1>3. hmem_pool_id \in hd_mcb /\ hmem_pool_id \notin own /\ hmem_pool_id \notin freed
  BY OpenTable, Zenon
<1>4. KeyPlaced(chain)' /\ BlocksDistinct(chain)'
  BY Zenon DEF KeyPlaced, BlocksDistinct, WellFormed
<1>5. TableOK'
  BY <1>2, <1>3, <1>4, Zenon DEF TableOK
<1> QED
  BY <1>1, <1>5

(* The entry of a key is a block of the table's pool in use.               *)
LEMMA FoundEntry ==
  ASSUME HashInv, NEW k \in Key, Usable(k), find_hash_entry(k) # {}
  PROVE  LET b == hash_index_gen[k]
             i == Lowest(find_hash_entry(k))
         IN /\ i \in DOMAIN chain[b] /\ chain[b][i].key = k
            /\ chain[b][i].blk \in held[hmem_pool_id]
<1> DEFINE b == hash_index_gen[k]
<1>1. state = "open" /\ b \in Bucket
  BY Zenon DEF Usable
<1>2. /\ chain \in ChainType /\ KeyPlaced(chain) /\ BlocksIn(chain) = held[hmem_pool_id]
  BY <1>1, OpenTable, Zenon DEF WellFormed
<1>3. DOMAIN chain[b] = 1 .. Len(chain[b])
  BY <1>1, <1>2 DEF ChainType
<1>4. find_hash_entry(k) = FoundIn(chain, k)
  BY Zenon DEF find_hash_entry, FoundIn
<1>5. PICK i \in DOMAIN chain[b] : chain[b][i].key = k
  BY <1>3, <1>4, Zenon DEF FoundIn
<1>6. FoundIn(chain, chain[b][i].key) = {i} /\ i \in Nat
  BY <1>1, <1>2, LookupIs
<1>7. Lowest(find_hash_entry(k)) = i
  BY <1>4, <1>5, <1>6, LowestOfOne, Zenon
<1>8. chain[b][i].blk \in BlocksIn(chain)
  BY <1>1, SMTT(60) DEF BlocksIn
<1> QED
  BY <1>2, <1>5, <1>7, <1>8, Zenon

(* A key that find_hash_entry does not find has no entry in its bucket.    *)
LEMMA NotFound ==
  ASSUME HashInv, NEW k \in Key, Usable(k), find_hash_entry(k) = {},
         NEW b, b = hash_index_gen[k]
  PROVE  b \in Bucket /\ \A j \in DOMAIN chain[b] : chain[b][j].key # k
<1>1. state = "open" /\ b \in Bucket
  BY Zenon DEF Usable
<1>2. chain \in ChainType
  BY <1>1, OpenTable, Zenon DEF WellFormed
<1>3. DOMAIN chain[b] = 1 .. Len(chain[b])
  BY <1>1, <1>2 DEF ChainType
<1> QED
  BY <1>1, <1>3, Zenon DEF find_hash_entry

(* hash_tbl_add puts a block from the pool on the chain of its key.        *)
LEMMA LinkStep ==
  ASSUME HashInv, state = "open", NEW b \in Bucket, NEW e \in Entry,
         hash_index_gen[e.key] = b, \A j \in DOMAIN chain[b] : chain[b][j].key # e.key,
         Takes(hmem_pool_id), e.blk = NextBlock(hmem_pool_id),
         Appended(chain', chain, b, e), nentries' = nentries + 1,
         UNCHANGED <<next, own, hd_mcb, freed, accepted, state, hmem_pool_id, junk>>
  PROVE  HashInv' /\ Adds(e.key, e.data)
<1>1. WellFormed(chain) /\ BlocksIn(chain) = held[hmem_pool_id]
  BY OpenTable, Zenon
<1>2. e.blk \notin BlocksIn(chain)
  BY <1>1, Zenon DEF Takes
<1>3. WellFormed(chain') /\ Shows(chain', chain, e)
  BY <1>1, <1>2, LinkedChain, Zenon
<1>4. BlocksIn(chain') = held'[hmem_pool_id]
  BY <1>1, <1>3, Zenon DEF Shows, Takes
<1>5. nentries' \in Int /\ accepted' \in BOOLEAN
  BY DEF HashInv, TableTypeOK, PoolTypeOK
<1>6. TableTypeOK' /\ TableOK'
  BY <1>3, <1>4, <1>5, TableStays, Zenon
<1>7. PoolTypeOK' /\ PoolsOK'
  BY <1>5, TablePool, Zenon DEF Takes
<1>8. Adds(e.key, e.data)
  BY <1>3, Zenon DEF Shows, Adds
<1> QED
  BY <1>6, <1>7, <1>8, Zenon DEF HashInv

(* hash_tbl_delete takes an entry off its chain and gives its block back.  *)
LEMMA UnlinkStep ==
  ASSUME HashInv, state = "open", NEW b \in Bucket, NEW i \in DOMAIN chain[b],
         NEW e, e = chain[b][i], Puts(hmem_pool_id, {e.blk}),
         RemovedAt(chain', chain, b, i), nentries' = nentries - 1,
         UNCHANGED <<next, own, hd_mcb, freed, state, hmem_pool_id, junk>>
  PROVE  HashInv' /\ Drops(e.key)
<1>1. WellFormed(chain) /\ BlocksIn(chain) = held[hmem_pool_id]
  BY OpenTable, Zenon
<1>2. WellFormed(chain') /\ Shows(chain, chain', e)
  BY <1>1, UnlinkedChain, Zenon
<1>3. BlocksIn(chain') = held'[hmem_pool_id]
  <2>1. held'[hmem_pool_id] = (BlocksIn(chain') \cup {e.blk}) \ {e.blk}
    BY <1>1, <1>2, Zenon DEF Shows, Puts
  <2>2. e.blk \notin BlocksIn(chain')
    BY <1>2, Zenon DEF Shows
  <2> QED
    BY <2>1, <2>2, Zenon
<1>4. nentries' \in Int
  BY DEF HashInv, TableTypeOK
<1>5. TableTypeOK' /\ TableOK'
  BY <1>2, <1>3, <1>4, TableStays, Zenon
<1>6. PoolTypeOK' /\ PoolsOK'
  BY TablePool, Zenon DEF Puts
<1>7. Drops(e.key)
  <2>1. e.data \in Data
    BY <1>2, Zenon DEF Shows, Entry
  <2> QED
    BY <1>2, <2>1, Zenon DEF Shows, Drops
<1> QED
  BY <1>5, <1>6, <1>7, Zenon DEF HashInv

(* flush_hash_table.                                                       *)
LEMMA FlushStep ==
  ASSUME HashInv, state = "open", Puts(hmem_pool_id, Blocks), chain' = NoEntries,
         UNCHANGED <<next, own, hd_mcb, freed, state, hmem_pool_id, junk, nentries>>
  PROVE  HashInv' /\ \A k \in Key : LookupIn(chain', k) = Absent
<1> DEFINE h == hmem_pool_id
<1>1. BlocksIn(chain) = held[h]
  BY OpenTable, Zenon
<1>2. Blocks = held[h]
  BY <1>1, Zenon DEF Blocks, BlocksIn
<1>3. /\ mcb' \in [Id -> Pool] /\ held' \in [Id -> SUBSET Nat]
      /\ OthersSame(h)
      /\ Shape(mcb'[h], held'[h]) /\ Exact(mcb'[h], held'[h])
      /\ held'[h] = {} /\ accepted' \in BOOLEAN
  BY <1>2 DEF Puts
<1>4. /\ chain' \in ChainType /\ KeyPlaced(chain') /\ BlocksDistinct(chain')
      /\ BlocksIn(chain') = {} /\ \A k \in Key : LookupIn(chain', k) = Absent
  BY EmptyChains, Zenon
<1>5. nentries' \in Int
  BY DEF HashInv, TableTypeOK
<1>6. TableTypeOK' /\ TableOK'
  BY <1>3, <1>4, <1>5, TableStays, Zenon DEF WellFormed
<1>7. PoolTypeOK' /\ PoolsOK'
  BY <1>3, TablePool
<1> QED
  BY <1>4, <1>6, <1>7 DEF HashInv

(* A table that is not open has no entries.                                *)
LEMMA ClosedTable ==
  ASSUME chain' = NoEntries, state' \in {"none", "freed"}, junk' \subseteq Bucket,
         hmem_pool_id' \in Nat, nentries' \in Int
  PROVE  TableTypeOK' /\ TableOK' /\ \A k \in Key : LookupIn(chain', k) = Absent
<1>1. /\ chain' \in ChainType /\ KeyPlaced(chain') /\ BlocksDistinct(chain')
      /\ \A k \in Key : LookupIn(chain', k) = Absent
  BY EmptyChains, Zenon
<1>2. TableTypeOK'
  BY <1>1, Zenon DEF TableTypeOK, ChainType
<1>3. KeyPlaced(chain)' /\ BlocksDistinct(chain)'
  BY <1>1, Zenon DEF KeyPlaced, BlocksDistinct
<1>4. state' # "open"
  OBVIOUS
<1>5. TableOK'
  BY <1>3, <1>4, Zenon DEF TableOK
<1> QED
  BY <1>1, <1>2, <1>5, Zenon

(* destroy_hash_table.                                                     *)
LEMMA DestroyStep ==
  ASSUME HashInv, state = "open", state' = "none", chain' = NoEntries,
         mcb' \in [Id -> Pool], held' \in [Id -> SUBSET Nat], PoolsOK',
         freed' = freed \cup {hmem_pool_id},
         UNCHANGED <<next, own, hd_mcb, accepted, hmem_pool_id, junk, nentries>>
  PROVE  HashInv' /\ \A k \in Key : LookupIn(chain', k) = Absent
<1>1. hmem_pool_id \in Id /\ hmem_pool_id \in hd_mcb
  BY OpenTable, Zenon
<1>2. PoolTypeOK /\ PoolsOK /\ TableTypeOK
  BY Zenon DEF HashInv
<1>3. PoolTypeOK'
  BY <1>1, <1>2 DEF PoolTypeOK
<1>4. hmem_pool_id' \in Nat /\ junk' \subseteq Bucket /\ nentries' \in Int
  BY <1>2 DEF TableTypeOK
<1>5. TableTypeOK' /\ TableOK' /\ \A k \in Key : LookupIn(chain', k) = Absent
  BY <1>4, ClosedTable, Zenon
<1> QED
  BY <1>3, <1>5 DEF HashInv

(* create_hash_table.                                                      *)
LEMMA CreateStep ==
  ASSUME HashInv, create_hash_table,
         \/ /\ next' \in {next, next + 1} /\ next' \in 0 .. MaxPools
            /\ UNCHANGED <<hd_mcb, mcb>>
         \/ Created(next + 1) /\ next' \in 0 .. MaxPools
  PROVE  HashInv' /\ chain' = chain
<1> DEFINE p == next + 1
<1>0. /\ PoolTypeOK /\ PoolsOK /\ TableTypeOK /\ chain = NoEntries
      /\ UNCHANGED <<own, held, accepted>>
  BY DEF HashInv, TableOK, create_hash_table
<1>1. CASE next' \in {next, next + 1} /\ next' \in 0 .. MaxPools /\ UNCHANGED <<hd_mcb, mcb>>
  <2>1. UNCHANGED <<state, hmem_pool_id, chain, junk, nentries, freed>>
    BY <1>1 DEF create_hash_table, table
  <2>2. next <= next'
    BY <1>0, <1>1 DEF PoolTypeOK
  <2>3. PoolTypeOK' /\ PoolsOK'
    BY <1>0, <1>1, <2>1, <2>2, PoolsSame
  <2>4. TableTypeOK' /\ TableOK'
    BY <1>0, <2>1, ClosedTable DEF TableTypeOK, create_hash_table
  <2> QED
    BY <2>1, <2>3, <2>4 DEF HashInv
<1>2. CASE Created(p) /\ next' \in 0 .. MaxPools
  <2>1. /\ p \in Id /\ p \notin hd_mcb /\ hd_mcb' = hd_mcb \cup {p} /\ next' = p
        /\ mcb' \in [Id -> Pool] /\ \A q \in Id \ {p} : mcb'[q] = mcb[q]
        /\ Shape(mcb'[p], {}) /\ Exact(mcb'[p], {})
    BY <1>2, Zenon DEF Created
  <2> HIDE DEF p
  <2>2. p \notin own /\ p \notin freed /\ held[p] = {}
    BY <1>0, <2>1, Zenon DEF PoolTypeOK, PoolsOK
  <2>3. freed' = freed \/ freed' = freed \cup {p}
    BY <2>1, Zenon DEF create_hash_table, table
  <2>4. PoolTypeOK'
    <3>1. hd_mcb' \subseteq 1 .. next'
      BY <1>0, <2>1 DEF PoolTypeOK, p
    <3> QED
      BY <1>0, <1>2, <2>1, <2>3, <3>1, Zenon DEF PoolTypeOK
  <2>5. PoolsOK'
    <3>1. SUFFICES ASSUME NEW q \in Id
                   PROVE  /\ Shape(mcb'[q], held[q])
                          /\ NoSlack \/ q \notin own => Exact(mcb'[q], held[q])
                          /\ NoSlack /\ q \in own => Tight(mcb'[q])
                          /\ q \notin hd_mcb' => held[q] = {}
      BY <1>0, Zenon DEF PoolsOK
    <3>2. CASE q = p
      BY <2>1, <2>2, <3>2, SMTT(30)
    <3>3. CASE q # p
      BY <1>0, <2>1, <3>3 DEF PoolsOK
    <3> QED
      BY <3>2, <3>3
  <2>6. CASE /\ state' = "open" /\ hmem_pool_id' = next' /\ junk' \in SUBSET Bucket
             /\ nentries' = 0 /\ chain' = NoEntries /\ freed' = freed
    <3>1. /\ chain' \in ChainType /\ KeyPlaced(chain') /\ BlocksDistinct(chain')
          /\ BlocksIn(chain') = {}
      BY <2>6, EmptyChains, Zenon
    <3>2. hmem_pool_id' = p /\ p \in Nat
      BY <2>1, <2>6 DEF Id
    <3>3. TableTypeOK'
      BY <2>6, <3>1, <3>2 DEF TableTypeOK, ChainType
    <3>4. KeyPlaced(chain)' /\ BlocksDistinct(chain)'
      BY <3>1, Zenon DEF KeyPlaced, BlocksDistinct
    <3>5. Blocks' = {}
      BY <3>1, Zenon DEF Blocks, BlocksIn
    <3>6. /\ hmem_pool_id' \in hd_mcb' \ (own' \cup freed')
          /\ held'[hmem_pool_id'] = {}
      BY <1>0, <2>1, <2>2, <2>6, <3>2
    <3>7. TableOK'
      BY <2>6, <3>4, <3>5, <3>6, Zenon DEF TableOK
    <3> QED
      BY <1>0, <2>4, <2>5, <2>6, <3>3, <3>7 DEF HashInv
  <2>7. CASE state' = "freed" /\ UNCHANGED <<hmem_pool_id, chain, junk, nentries>>
    <3>1. TableTypeOK' /\ TableOK'
      BY <1>0, <2>7, ClosedTable DEF TableTypeOK
    <3> QED
      BY <2>4, <2>5, <2>7, <3>1 DEF HashInv
  <2>8. hd_mcb' # hd_mcb
    BY <2>1
  <2> QED
    BY <2>6, <2>7, <2>8 DEF create_hash_table
<1> QED
  BY <1>1, <1>2, Zenon

(* A step that leaves the table alone, and the table's pool if it has one. *)
LEMMA TableLeft ==
  ASSUME HashInv, PoolTypeOK', PoolsOK', ForeignSame, UNCHANGED table
  PROVE  HashInv' /\ chain' = chain
<1>1. UNCHANGED <<state, hmem_pool_id, chain, junk, nentries>>
  BY Zenon DEF table
<1>2. TableTypeOK'
  BY <1>1, Zenon DEF HashInv, TableTypeOK
<1>3. KeyPlaced(chain)' /\ BlocksDistinct(chain)' /\ Blocks' = Blocks
  <2>1. KeyPlaced(chain) /\ BlocksDistinct(chain)
    BY Zenon DEF HashInv, TableOK
  <2>2. KeyPlaced(chain') /\ BlocksDistinct(chain') /\ BlocksIn(chain') = BlocksIn(chain)
    BY <1>1, <2>1, Zenon
  <2>3. KeyPlaced(chain)' /\ BlocksDistinct(chain)'
    BY <2>2, Zenon DEF KeyPlaced, BlocksDistinct
  <2>4. Blocks' = BlocksIn(chain') /\ Blocks = BlocksIn(chain)
    BY Zenon DEF Blocks, BlocksIn
  <2> QED
    BY <2>2, <2>3, <2>4, Zenon
<1>4. CASE state = "open"
  <2>1. /\ hmem_pool_id \in hd_mcb \ own /\ hmem_pool_id \notin freed
        /\ Blocks = held[hmem_pool_id]
    BY <1>4 DEF HashInv, TableOK
  <2>2. /\ hmem_pool_id \in hd_mcb' \ (own' \cup freed')
        /\ held'[hmem_pool_id] = held[hmem_pool_id]
    BY <2>1 DEF ForeignSame
  <2>3. TableOK'
    BY <1>1, <1>3, <1>4, <2>1, <2>2, SMTT(30) DEF TableOK
  <2> QED
    BY <1>1, <1>2, <2>3 DEF HashInv
<1>5. CASE state # "open"
  <2>1. TableOK'
    BY <1>1, <1>3, <1>5 DEF HashInv, TableOK
  <2> QED
    BY <1>1, <1>2, <2>1 DEF HashInv
<1> QED
  BY <1>4, <1>5

(* A step after which the program is stopped, or that changes nothing.     *)
LEMMA NothingStep ==
  ASSUME HashInv, UNCHANGED <<poolVars, table>>
  PROVE  HashInv' /\ chain' = chain
<1>1. UNCHANGED <<next, own, hd_mcb, mcb, freed, held, accepted>> /\ UNCHANGED table
  BY DEF poolVars
<1>2. PoolTypeOK /\ PoolsOK /\ next' \in 0 .. MaxPools /\ next <= next'
  BY <1>1 DEF HashInv, PoolTypeOK
<1> QED
  BY <1>1, <1>2, PoolsSame, TableLeft

-----------------------------------------------------------------------------
(* The steps of the whole.                                                 *)

(* hash_tbl_add's alloc_block hands out a block of the table's pool.        *)
LEMMA TableTakes ==
  ASSUME Counting, HashInv, state = "open", PoolFault(hmem_pool_id) = "none",
         mcb[hmem_pool_id].fblks # 0, TakeBlock(hmem_pool_id)
  PROVE  Takes(hmem_pool_id)
<1> DEFINE h == hmem_pool_id
<1>1. /\ h \in Id /\ mcb \in [Id -> Pool] /\ held \in [Id -> SUBSET Nat]
      /\ Shape(mcb[h], held[h]) /\ Exact(mcb[h], held[h])
  BY OpenTable, Zenon
<1>2. mcb[h].array
  BY SMTT(60) DEF PoolFault
<1>3. mcb[h].free # {}
  <2>1. mcb[h] \in Pool
    BY <1>1, Zenon
  <2>2. mcb[h].fblks = Cardinality(mcb[h].free)
    BY <1>1, <1>2, <2>1, HeldFinite, ZenonT(60)
  <2> QED
    BY <2>2 DEF Counting, EmptyLaw
<1> QED
  BY <1>1, <1>2, <1>3, TakeKeeps, ZenonT(30) DEF Takes

(* free_blk on entries of the table takes them back.                       *)
LEMMA TablePuts ==
  ASSUME Counting, HashInv, state = "open", NEW S, S \subseteq held[hmem_pool_id],
         PutBlocks(hmem_pool_id, S)
  PROVE  Puts(hmem_pool_id, S)
<1> DEFINE h == hmem_pool_id
<1>1. /\ h \in Id /\ mcb \in [Id -> Pool] /\ held \in [Id -> SUBSET Nat]
      /\ Shape(mcb[h], held[h]) /\ Exact(mcb[h], held[h])
  BY OpenTable, Zenon
<1>2. mcb[h] \in Pool /\ held[h] \in SUBSET Nat /\ S \in SUBSET Nat
  BY <1>1, Zenon
<1>3. mcb[h].array \/ S = {}
  BY <1>1, <1>2, SMTT(60) DEF Shape, Pool
<1>4. IsFiniteSet(held[h])
  BY <1>1, <1>2, HeldFinite
<1>5. IsFiniteSet(S)
  BY <1>4, Zenon DEF Counting, SubsetLaw
<1> QED
  BY <1>1, <1>2, <1>3, <1>5, PutKeeps DEF Puts

(* HashInv is inductive, and every step is one of the abstract map.        *)
LEMMA HashStep ==
  ASSUME Counting, HashInv, [Next]_vars
  PROVE  HashInv' /\ MapStep
<1>1. CASE UNCHANGED vars
  BY <1>1, NothingStep DEF vars, MapStep
<1>2. ASSUME NEW what, Crash(what) PROVE HashInv' /\ MapStep
  BY <1>2, NothingStep DEF Crash, MapStep
<1>3. CASE create_hash_table
  <2>1. PoolTypeOK /\ mem_pool_create(Word * NBuckets, NBuckets)
    BY <1>3, Zenon DEF HashInv, create_hash_table
  <2>2. Word * NBuckets \in Nat \ {0} /\ NBuckets \in Nat \ {0}
    BY TableAssumption
  <2>3. \/ /\ next' \in {next, next + 1} /\ next' \in 0 .. MaxPools
           /\ UNCHANGED <<hd_mcb, mcb>>
        \/ Created(next + 1) /\ next' \in 0 .. MaxPools
    BY <2>1, <2>2, CreateKeeps, ZenonT(60)
  <2> QED
    BY <1>3, <2>3, CreateStep, Zenon DEF MapStep
<1>4. ASSUME NEW k \in Key, hash_tbl_delete(k) PROVE HashInv' /\ MapStep
  <2>1. CASE \E what : Crash(what)
    BY <1>2, <2>1
  <2>2. CASE /\ Usable(k) /\ find_hash_entry(k) # {}
             /\ Unlink(hash_index_gen[k], Lowest(find_hash_entry(k)))
             /\ UNCHANGED <<next, own, hd_mcb, freed, bad, state, hmem_pool_id, junk>>
    <3>1. PICK b, i, e : /\ b = hash_index_gen[k] /\ i = Lowest(find_hash_entry(k))
                         /\ e = chain[b][i]
      BY Zenon
    <3>2. state = "open" /\ b \in Bucket /\ Unlink(b, i)
      BY <2>2, <3>1, Zenon DEF Usable
    <3>3. i \in DOMAIN chain[b] /\ e.key = k /\ e.blk \in held[hmem_pool_id]
      BY <2>2, <3>1, FoundEntry, Zenon
    <3>4. PutBlocks(hmem_pool_id, {e.blk}) /\ RemovedAt(chain', chain, b, i)
      BY <3>1, <3>2, Zenon DEF Unlink, RemovedAt
    <3>5. {e.blk} \subseteq held[hmem_pool_id] /\ nentries' = nentries - 1
      BY <3>2, <3>3, Zenon DEF Unlink
    <3>6. Puts(hmem_pool_id, {e.blk})
      BY <3>2, <3>4, <3>5, TablePuts, Zenon
    <3>7. HashInv' /\ Drops(e.key)
      BY <2>2, <3>1, <3>2, <3>3, <3>4, <3>5, <3>6, UnlinkStep, Zenon
    <3> QED
      BY <3>3, <3>7, Zenon DEF MapStep
  <2> QED
    BY <1>4, <2>1, <2>2, SMTT(60) DEF hash_tbl_delete
<1>5. ASSUME NEW k \in Key, NEW d \in Data, hash_tbl_add(k, d) PROVE HashInv' /\ MapStep
  <2>1. CASE \E what : Crash(what)
    BY <1>2, <2>1, SMTT(30)
  <2>2. CASE /\ Usable(k) /\ find_hash_entry(k) = {}
             /\ PoolFault(hmem_pool_id) = "none" /\ mcb[hmem_pool_id].fblks # 0
             /\ Link(k, d)
             /\ UNCHANGED <<next, own, hd_mcb, freed, accepted, bad, state, hmem_pool_id, junk>>
    <3>1. state = "open" /\ TakeBlock(hmem_pool_id)
      BY <2>2, Zenon DEF Usable, Link
    <3>2. Takes(hmem_pool_id)
      BY <2>2, <3>1, TableTakes, Zenon
    <3>3. PICK b, e : /\ b = hash_index_gen[k]
                      /\ e = [key |-> k, data |-> d, blk |-> NextBlock(hmem_pool_id)]
      BY Zenon
    <3>4. e.key = k /\ e.data = d /\ e.blk = NextBlock(hmem_pool_id)
      BY <3>3, Zenon
    <3>5. NextBlock(hmem_pool_id) \in Nat
      BY <3>2, Zenon DEF Takes
    <3>6. e \in Entry
      BY <3>3, <3>5, Zenon DEF Entry
    <3>7. Appended(chain', chain, b, e) /\ nentries' = nentries + 1
      BY <2>2, <3>3, Zenon DEF Link, Appended
    <3>8. b \in Bucket /\ \A j \in DOMAIN chain[b] : chain[b][j].key # e.key
      BY <2>2, <3>3, <3>4, NotFound, Zenon
    <3>9. HashInv' /\ Adds(e.key, e.data)
      BY <2>2, <3>1, <3>2, <3>3, <3>4, <3>6, <3>7, <3>8, LinkStep, Zenon
    <3> QED
      BY <3>4, <3>9, Zenon DEF MapStep
  <2> QED
    BY <1>5, <2>1, <2>2 DEF hash_tbl_add
<1>6. state # "none" /\ FlushFault = "none" => state = "open"
  BY DEF FlushFault, HashInv, TableTypeOK
<1>7. CASE flush_hash_table
  <2>1. CASE \E what : Crash(what)
    BY <1>2, <2>1
  <2>2. CASE /\ state # "none" /\ FlushFault = "none" /\ PutBlocks(hmem_pool_id, Blocks)
             /\ chain' = NoEntries
             /\ UNCHANGED <<next, own, hd_mcb, freed, bad, state, hmem_pool_id, junk, nentries>>
    <3>1. state = "open" /\ Blocks = held[hmem_pool_id]
      BY <1>6, <2>2, SMTT(60) DEF HashInv, TableOK
    <3>2. Puts(hmem_pool_id, Blocks)
      BY <2>2, <3>1, TablePuts, SMTT(60)
    <3> QED
      BY <2>2, <3>1, <3>2, FlushStep, ZenonT(60) DEF MapStep
  <2> QED
    BY <1>7, <2>1, <2>2 DEF flush_hash_table
<1>8. CASE destroy_hash_table
  <2>1. CASE \E what : Crash(what)
    BY <1>2, <2>1
  <2>2. CASE /\ state # "none" /\ FlushFault = "none" /\ mem_pool_delete(hmem_pool_id)
             /\ state' = "none" /\ chain' = NoEntries
             /\ UNCHANGED <<next, own, hd_mcb, accepted, bad, hmem_pool_id, junk, nentries>>
    <3>1. state = "open" /\ PoolTypeOK /\ PoolsOK
      BY <1>6, <2>2 DEF HashInv
    <3>2. hmem_pool_id \in Id
      BY <3>1, OpenTable, Zenon
    <3>3. mcb' \in [Id -> Pool] /\ held' \in [Id -> SUBSET Nat] /\ PoolsOK'
      BY <2>2, <3>1, <3>2, DeleteKeeps, Zenon
    <3>4. freed' = freed \cup {hmem_pool_id}
      BY <2>2, Zenon DEF mem_pool_delete
    <3> QED
      BY <2>2, <3>1, <3>3, <3>4, DestroyStep, Zenon DEF MapStep
  <2> QED
    BY <1>8, <2>1, <2>2 DEF destroy_hash_table
<1>9. CASE AppCall /\ UNCHANGED table
  BY <1>9, AppKeeps, TableLeft DEF HashInv, MapStep
<1> QED
  BY <1>1, <1>3, <1>4, <1>5, <1>7, <1>8, <1>9, SMTT(60) DEF Next

(* No pool and no table.                                                   *)
LEMMA InitHash ==
  ASSUME Counting, Init
  PROVE  HashInv
<1>0. /\ next = 0 /\ own = {} /\ hd_mcb = {} /\ freed = {} /\ accepted = FALSE
      /\ mcb = [p \in Id |-> NoPool] /\ held = [p \in Id |-> {}]
      /\ state = "none" /\ hmem_pool_id = 0 /\ chain = NoEntries /\ junk = {} /\ nentries = 0
  BY Zenon DEF Init, PoolInit
<1>1. PoolTypeOK
  <2>1. mcb \in [Id -> Pool] /\ held \in [Id -> SUBSET Nat]
    BY <1>0, NoPoolShape, Zenon
  <2>2. next \in 0 .. MaxPools
    BY <1>0, PoolAssumption
  <2>3. hd_mcb \subseteq 1 .. next /\ own \subseteq hd_mcb /\ freed \subseteq hd_mcb
    BY <1>0, Zenon
  <2> QED
    BY <1>0, <2>1, <2>2, <2>3, Zenon DEF PoolTypeOK
<1>2. PoolsOK
  BY <1>0, NoPoolShape, Zenon DEF PoolsOK
<1>3. chain \in ChainType /\ KeyPlaced(chain) /\ BlocksDistinct(chain)
  BY <1>0, EmptyChains, Zenon
<1>4. TableTypeOK
  BY <1>0, <1>3 DEF TableTypeOK, ChainType
<1>5. TableOK
  BY <1>0, <1>3 DEF TableOK
<1> QED
  BY <1>1, <1>2, <1>4, <1>5, SMTT(60) DEF HashInv

-----------------------------------------------------------------------------
(* Counting, from the library.                                             *)
INSTANCE FiniteSetTheorems

(* A set of numbers has a lowest member. *)
LEMMA LowestMember ==
  ASSUME NEW S \in SUBSET Nat, S # {}
  PROVE  Lowest(S) \in S /\ \A y \in S : Lowest(S) <= y
<1>1. PICK x \in S : \A y \in S : ~(<<y, x>> \in OpToRel(<, Nat))
  BY NatLessThanWellFounded, WFMin, Zenon
<1>2. \A y \in S : x <= y
  <2>1. TAKE y \in S
  <2>2. ~(y < x)
    BY <1>1, Zenon DEF OpToRel
  <2> QED
    BY <2>2
<1>3. \E z \in S : \A y \in S : z <= y
  BY <1>2
<1> QED
  BY <1>3, Zenon DEF Lowest

(* As many blocks are in use as are not free. *)
LEMMA HeldCount ==
  ASSUME NEW n \in Nat, NEW s \in Nat \ {0}, NEW free \in SUBSET (0 .. n - 1),
         NEW h, h = BlocksOf(n, s, free)
  PROVE  /\ IsFiniteSet(h) /\ IsFiniteSet(free)
         /\ Cardinality(h) \in Nat /\ Cardinality(free) \in Nat
         /\ Cardinality(h) + Cardinality(free) = n
<1> DEFINE R == 0 .. n - 1
           U == R \ free
           f == [i \in U |-> i * s]
<1>0. h = {i * s : i \in U}
  BY DEF BlocksOf
<1>1. IsFiniteSet(R) /\ Cardinality(R) = n
  <2>1. n - 1 \in Int /\ 0 \in Int
    OBVIOUS
  <2>2. /\ IsFiniteSet(0 .. n - 1)
        /\ Cardinality(0 .. n - 1) = IF 0 > n - 1 THEN 0 ELSE (n - 1) - 0 + 1
    BY ONLY <2>1, FS_Interval, Zenon
  <2> QED
    BY <2>2
<1>2. IsFiniteSet(free) /\ IsFiniteSet(U)
  BY <1>1, FS_Subset, ZenonT(60)
<1>3. f \in Bijection(U, h)
  <2>1. f \in [U -> h]
    BY <1>0
  <2>2. \A i, j \in U : f[i] = f[j] => i = j
    <3>1. SUFFICES ASSUME NEW i \in U, NEW j \in U, i * s = j * s, i < j PROVE FALSE
      <4>1. \A i, j \in U : i < j \/ j < i \/ i = j
        OBVIOUS
      <4> QED
        BY <4>1
    <3>2. i * s + s <= j * s /\ i * s \in Nat /\ i \in Nat /\ j \in Nat
      BY <3>1, MulApart, SMTT(60)
    <3> QED
      BY <3>1, <3>2
  <2>3. \A y \in h : \E i \in U : f[i] = y
    BY <1>0
  <2> QED
    BY <2>1, <2>2, <2>3, SMTT(60) DEF Bijection, Injection, Surjection, IsInjective
<1>4. IsFiniteSet(h) /\ Cardinality(h) = Cardinality(U)
  BY <1>2, <1>3, FS_Bijection DEF ExistsBijection
<1>5. Cardinality(U) = n - Cardinality(R \cap free)
  BY <1>1, FS_Difference, Zenon
<1>6. R \cap free = free
  BY Zenon
<1>7. Cardinality(free) \in Nat /\ Cardinality(h) \in Nat
  BY <1>2, <1>4, FS_CardinalityType
<1>8. Cardinality(h) = n - Cardinality(free)
  BY <1>4, <1>5, <1>6, Zenon
<1> HIDE DEF R, U, f
<1> QED
  BY <1>2, <1>4, <1>7, <1>8, SMTT(60)

(* The facts the lemmas on the pools rest on. *)
LEMMA CountingHolds == Counting
<1>1. LowestLaw
  BY LowestMember, Zenon DEF LowestLaw
<1>2. HeldLaw
  BY HeldCount, Zenon DEF HeldLaw
<1>3. EmptyLaw
  BY FS_EmptySet, Zenon DEF EmptyLaw
<1>4. AddLaw
  BY FS_AddElement, Zenon DEF AddLaw
<1>5. SingletonLaw
  BY FS_Singleton, Zenon DEF SingletonLaw
<1>6. SubsetLaw
  BY FS_Subset, FS_CardinalityType, Zenon DEF SubsetLaw
<1>7. DifferenceLaw
  <2>1. SUFFICES ASSUME NEW S, NEW T, IsFiniteSet(S), T \subseteq S
                 PROVE  Cardinality(S \ T) = Cardinality(S) - Cardinality(T)
    BY Zenon DEF DifferenceLaw
  <2>2. S \cap T = T
    BY <2>1, Zenon
  <2> QED
    BY <2>1, <2>2, FS_Difference, Zenon
<1> QED
  BY <1>1, <1>2, <1>3, <1>4, <1>5, <1>6, <1>7, ZenonT(60) DEF Counting

-----------------------------------------------------------------------------
(* Theorems.                                                               *)

(* The inductive invariant.                                                *)
THEOREM HashInvariance ==
  Spec => []HashInv
<1>1. Init => HashInv
  BY InitHash, CountingHolds
<1>2. HashInv /\ [Next]_vars => HashInv'
  BY HashStep, CountingHolds
<1> QED
  BY <1>1, <1>2, PTL DEF Spec

(* Of a pool the program can use, mem_info.fblks and useblks, addr_blks    *)
(* and the blocks callers hold agree, whatever addresses are given to      *)
(* free_blk, when no request of the program leaves room for one more block *)
(* in the padding of a pool.                                               *)
THEOREM PoolsAlwaysAccounted ==
  ASSUME NoSlack
  PROVE  Spec => []Accounted
<1>1. HashInv => Accounted
  <2>1. SUFFICES ASSUME HashInv, NEW p \in UsablePools
                 PROVE  /\ mcb[p].fblks = Cardinality(mcb[p].free)
                        /\ mcb[p].useblks = Cardinality(held[p])
                        /\ held[p] = {i * mcb[p].size :
                                        i \in (0 .. mcb[p].nblks - 1) \ mcb[p].free}
    BY Zenon DEF Accounted
  <2>2. p \in Id /\ mcb[p].array
    BY <2>1, OwnId DEF UsablePools, PoolFault, HashInv
  <2>3. mcb[p] \in Pool /\ Shape(mcb[p], held[p]) /\ Exact(mcb[p], held[p])
    BY <2>1, <2>2, SMTT(60) DEF HashInv, PoolTypeOK, PoolsOK
  <2>4. mcb[p].fblks = Cardinality(mcb[p].free)
    BY <2>2, <2>3, HeldFinite, CountingHolds
  <2> QED
    BY <2>2, <2>3, <2>4 DEF Exact, Shape, BlocksOf
<1> QED
  BY <1>1, HashInvariance, PTL

(* Blocks that alloc_block has handed out never share a byte, lie in the   *)
(* memory of their pool, and are taken back by free_blk, for every request *)
(* and alignment and whatever addresses are given to free_blk.             *)
THEOREM BlocksAlwaysDisjoint ==
  Spec => []BlocksDisjoint
<1>1. HashInv => BlocksDisjoint
  <2>1. SUFFICES ASSUME HashInv, NEW p \in UsablePools, NEW x \in held[p]
                 PROVE  /\ ValidBlock(p, x) /\ x \div mcb[p].size \notin mcb[p].free
                        /\ \A y \in held[p] : x < y => x + mcb[p].size <= y
    BY DEF BlocksDisjoint
  <2>2. p \in Id
    BY <2>1, OwnId DEF UsablePools, HashInv
  <2>3. mcb[p] \in Pool /\ Shape(mcb[p], held[p])
    BY <2>1, <2>2 DEF HashInv, PoolTypeOK, PoolsOK
  <2> QED
    BY <2>2, <2>3, HeldBlock, ZenonT(60)
<1> QED
  BY <1>1, HashInvariance, PTL

(* The entries of an open table are always distinct blocks of its pool,    *)
(* and all that are in use.                                                *)
THEOREM EntriesAlwaysBlocksInUse ==
  Spec => []EntriesAreBlocksInUse
<1>1. HashInv => EntriesAreBlocksInUse
  BY DEF HashInv, TableOK, BlocksDistinct, EntriesAreBlocksInUse
<1> QED
  BY <1>1, HashInvariance, PTL

(* Every entry of the table is always in the bucket of its key, and the    *)
(* one find_hash_entry finds for it.                                       *)
THEOREM WalkAlwaysMatchesLookup ==
  Spec => []WalkMatchesLookup
<1>1. HashInv => WalkMatchesLookup
  <2>1. SUFFICES ASSUME HashInv, NEW b \in Bucket, NEW i \in DOMAIN chain[b]
                 PROVE  /\ hash_index_gen[chain[b][i].key] = b
                        /\ find_hash_entry(chain[b][i].key) = {i}
    BY Zenon DEF WalkMatchesLookup
  <2>2. chain \in ChainType /\ KeyPlaced(chain)
    BY <2>1 DEF HashInv, TableTypeOK, TableOK, ChainType
  <2>3. FoundIn(chain, chain[b][i].key) = {i}
    BY <2>2, LookupIs, Zenon
  <2>4. hash_index_gen[chain[b][i].key] = b
    BY <2>2, Zenon DEF KeyPlaced
  <2> QED
    BY <2>3, <2>4, Zenon DEF FoundIn, find_hash_entry
<1> QED
  BY <1>1, HashInvariance, PTL

(* The table implements the map of module Map: a lookup finds the data a   *)
(* key was first added with until the key is deleted or the table flushed. *)
THEOREM TableImplementsMap ==
  Spec => TableIsMap
<1> DEFINE M == [k \in Key |-> hash_tbl_lookup(k)]
<1>1. \A k : hash_tbl_lookup(k) = LookupIn(chain, k)
  BY Zenon DEF hash_tbl_lookup, LookupIn, FoundIn, find_hash_entry
<1>2. Init => Abstract!Init
  <2>1. SUFFICES ASSUME Init PROVE M = [k \in Key |-> Absent]
    BY DEF Abstract!Init
  <2>2. \A k \in Key : hash_tbl_lookup(k) = Absent
    BY <1>1, <2>1, EmptyChains, Zenon DEF Init
  <2> QED
    BY <2>2
<1>3. ASSUME HashInv, [Next]_vars PROVE [Abstract!Next]_M
  <2>1. \A k \in Key : M[k] = LookupIn(chain, k) /\ M'[k] = LookupIn(chain', k)
    <3>1. \A k : hash_tbl_lookup(k)' = LookupIn(chain', k)
      BY Zenon DEF hash_tbl_lookup, LookupIn, FoundIn, find_hash_entry
    <3> QED
      BY <1>1, <3>1
  <2>2. MapStep
    BY <1>3, HashStep, CountingHolds, SMTT(60)
  <2>3. CASE chain' = chain
    <3>1. \A k \in Key : hash_tbl_lookup(k)' = hash_tbl_lookup(k)
      BY <2>3 DEF hash_tbl_lookup, find_hash_entry
    <3> QED
      BY <3>1, SMTT(60)
  <2>4. CASE \A k \in Key : LookupIn(chain', k) = Absent
    BY <2>1, <2>4, ZenonT(60) DEF Abstract!Next, Abstract!Clear
  <2>5. CASE \E k \in Key, d \in Data : Adds(k, d)
    BY <2>1, <2>5, SMTT(60) DEF Adds, Abstract!Next, Abstract!Add, Abstract!Keeps
  <2>6. CASE \E k \in Key : Drops(k)
    BY <2>1, <2>6, TableAssumption DEF Drops, Abstract!Next, Abstract!Delete, Abstract!Keeps
  <2> QED
    BY <2>2, <2>3, <2>4, <2>5, <2>6, ZenonT(60) DEF MapStep
<1> QED
  BY <1>2, <1>3, HashInvariance, PTL DEF Spec, TableIsMap, Abstract!Spec
=============================================================================
