----------------------------- MODULE SfsProofs -----------------------------
(***************************************************************************)
(* Proofs about module Sfs, for any number of tasks, descriptors and       *)
(* priorities and for any program.                                         *)
(*                                                                         *)
(* First, what list_del, list_add and list_add_tail do to the lists when   *)
(* every task is linked at most once.  These lemmas speak of an arbitrary  *)
(* value L of the lists, so that they apply to the composed operations     *)
(* (list_del followed by list_add).                                        *)
(*                                                                         *)
(* Then what schedule(), the blocking and waking functions, spawn and exit *)
(* do to the queues, and which labels a task passes through.  The          *)
(* inductive invariant IInv is TypeOK with QueuesConsistent and Lifecycle: *)
(* the queues stay consistent only because a task that links itself is     *)
(* allocated, is not IDLE, and names a real descriptor.  Every action      *)
(* keeps IInv; the theorems follow, and last the lock of core/lock.c.      *)
(***************************************************************************)
EXTENDS SfsOs, TLAPS

-----------------------------------------------------------------------------
(* A counter stays a number when one is added or taken away. *)
LEMMA OneMoreOrLess ==
  /\ \A n \in Nat : n + 1 \in Nat
  /\ \A n \in Int : n + 1 \in Int /\ n - 1 \in Int /\ n + -1 \in Int
  OBVIOUS

-----------------------------------------------------------------------------
(* Sequences.                                                              *)

(* The length, the domain and the entries of a sequence. *)
LEMMA SeqLen ==
  ASSUME NEW S, NEW s \in Seq(S)
  PROVE  /\ Len(s) \in Nat /\ DOMAIN s = 1 .. Len(s)
         /\ \A i \in 1 .. Len(s) : s[i] \in S
         /\ s # <<>> => Len(s) # 0
  OBVIOUS

(* The first two entries of a sequence of at least two. *)
LEMMA SeqSecond ==
  ASSUME NEW S, NEW s \in Seq(S), s # <<>>, Len(s) # 1
  PROVE  /\ 1 \in 1 .. Len(s) /\ 2 \in 1 .. Len(s)
         /\ s[2] \in S /\ Head(s) = s[1]
<1>1. Len(s) \in Nat /\ Len(s) # 0
  BY SeqLen
<1>2. 1 \in 1 .. Len(s) /\ 2 \in 1 .. Len(s)
  BY <1>1
<1>3. s[2] \in S
  BY <1>2, SeqLen
<1>4. Head(s) = s[1]
  OBVIOUS
<1> QED
  BY <1>2, <1>3, <1>4

(* Two sequences, one behind the other. *)
LEMMA SeqConcat ==
  ASSUME NEW S, NEW s \in Seq(S), NEW t \in Seq(S)
  PROVE  /\ s \o t \in Seq(S) /\ Len(s \o t) = Len(s) + Len(t)
         /\ \A i \in 1 .. Len(s) + Len(t) :
              (s \o t)[i] = IF i <= Len(s) THEN s[i] ELSE t[i - Len(s)]
  OBVIOUS

(* The entries m to n of a sequence. *)
LEMMA SeqPart ==
  ASSUME NEW S, NEW s \in Seq(S), NEW m \in Int, NEW n \in Int, 1 <= m, n <= Len(s)
  PROVE  /\ SubSeq(s, m, n) \in Seq(S)
         /\ Len(SubSeq(s, m, n)) = IF m <= n THEN n - m + 1 ELSE 0
         /\ \A i \in 1 .. n - m + 1 : SubSeq(s, m, n)[i] = s[m + i - 1]
  OBVIOUS

(* A sequence with one more entry. *)
LEMMA SeqAppend ==
  ASSUME NEW S, NEW s \in Seq(S), NEW e \in S
  PROVE  /\ Append(s, e) \in Seq(S) /\ Len(Append(s, e)) = Len(s) + 1
         /\ \A i \in 1 .. Len(s) : Append(s, e)[i] = s[i]
         /\ Append(s, e)[Len(s) + 1] = e
  OBVIOUS

-----------------------------------------------------------------------------
(* The lists.                                                              *)


Lists == [ListId -> Seq(Task)]

(* No entry occurs twice, on one list or on two. *)
Once(L) ==
  \A l, m \in ListId :
    \A i \in 1 .. Len(L[l]), j \in 1 .. Len(L[m]) :
      L[l][i] = L[m][j] => l = m /\ i = j

(* From L to M only the links of t have changed. *)
OnlyMoves(L, M, t) ==
  \A u \in Task \ {t}, l \in ListId : Contains(M[l], u) <=> Contains(L[l], u)

(* M is L with t on no list. *)
Removed(L, M, t) ==
  /\ M \in Lists /\ Once(M)
  /\ \A l \in ListId : ~Contains(M[l], t)
  /\ OnlyMoves(L, M, t)

(* M is L with t on list c and on no other. *)
Moved(L, M, t, c) ==
  /\ M \in Lists /\ Once(M)
  /\ \A l \in ListId : Contains(M[l], t) <=> l = c
  /\ OnlyMoves(L, M, t)

(* RemoveFirst takes out one place of a sequence without repetitions.      *)
LEMMA RemoveFirstAt ==
  ASSUME NEW s \in Seq(Task), NEW e, NEW k \in 1 .. Len(s), s[k] = e,
         \A i \in 1 .. Len(s) : s[i] = e => i = k
  PROVE  /\ RemoveFirst(s, e) \in Seq(Task)
         /\ Len(RemoveFirst(s, e)) = Len(s) - 1
         /\ \A i \in 1 .. Len(s) - 1 :
              RemoveFirst(s, e)[i] = IF i < k THEN s[i] ELSE s[i + 1]
<1> DEFINE a == SubSeq(s, 1, k - 1)
           b == SubSeq(s, k + 1, Len(s))
<1>1. RemoveFirst(s, e) = a \o b
  <2>1. Contains(s, e)
    BY DEF Contains
  <2>2. k = CHOOSE i \in 1 .. Len(s) : s[i] = e /\ \A j \in 1 .. i - 1 : s[j] # e
    <3>1. \A j \in 1 .. k - 1 : s[j] # e
      BY SeqLen
    <3> QED
      BY <3>1
  <2> QED
    BY <2>1, <2>2, Zenon DEF RemoveFirst
<1>2. Len(s) \in Nat /\ \A i \in 1 .. Len(s) : s[i] \in Task
  BY SeqLen
<1>3. /\ a \in Seq(Task)
      /\ Len(a) = k - 1
      /\ \A i \in 1 .. k - 1 : a[i] = s[i]
  <2>1. \A i \in 1 .. k - 1 : s[i] \in Task
    BY <1>2
  <2> QED
    BY <1>2, <2>1, SeqPart, k - 1 \in Int, SMTT(60)
<1>4. /\ b \in Seq(Task)
      /\ Len(b) = Len(s) - k
      /\ \A i \in 1 .. Len(s) - k : b[i] = s[k + i]
  <2>1. \A i \in k + 1 .. Len(s) : s[i] \in Task
    BY <1>2
  <2>2. /\ b \in Seq(Task)
        /\ Len(b) = IF k + 1 <= Len(s) THEN Len(s) - (k + 1) + 1 ELSE 0
        /\ \A i \in 1 .. Len(s) - (k + 1) + 1 : b[i] = s[(k + 1) + i - 1]
    BY <1>2, <2>1, SeqPart, k + 1 \in Int, SMTT(60)
  <2> QED
    BY <1>2, <2>2
<1> HIDE DEF a, b
<1>5. /\ a \o b \in Seq(Task)
      /\ Len(a \o b) = Len(a) + Len(b)
      /\ \A i \in 1 .. Len(a) + Len(b) :
           (a \o b)[i] = IF i <= Len(a) THEN a[i] ELSE b[i - Len(a)]
  BY <1>3, <1>4, SeqConcat, Zenon
<1>6. Len(a \o b) = Len(s) - 1
  BY <1>2, <1>3, <1>4, <1>5
<1>7. ASSUME NEW i \in 1 .. Len(s) - 1
      PROVE  (a \o b)[i] = IF i < k THEN s[i] ELSE s[i + 1]
  <2>1. CASE i < k
    <3>1. i \in 1 .. Len(a) + Len(b) /\ i <= Len(a) /\ i \in 1 .. k - 1
      BY <1>2, <1>3, <1>4, <2>1
    <3>2. (a \o b)[i] = a[i] /\ a[i] = s[i]
      BY <1>3, <1>5, <3>1, Zenon
    <3> QED
      BY <2>1, <3>2, Zenon
  <2>2. CASE ~(i < k)
    <3>1. i - (k - 1) \in 1 .. Len(s) - k
      BY <1>2, <2>2
    <3>2. (a \o b)[i] = b[i - (k - 1)]
      BY <1>2, <1>3, <1>4, <1>5, <2>2, SMTT(60)
    <3>3. b[i - (k - 1)] = s[k + (i - (k - 1))]
      BY <1>4, <3>1
    <3> QED
      BY <1>2, <2>2, <3>2, <3>3
  <2> QED
    BY <2>1, <2>2, Zenon
<1> QED
  BY <1>1, <1>5, <1>6, <1>7

(* list_del takes t off the list it is on, if any, and leaves every other  *)
(* task where it is.                                                       *)
LEMMA ListDel ==
  ASSUME NEW L \in Lists, Once(L), NEW t \in Task
  PROVE  Removed(L, list_del(L, t), t)
<1> DEFINE D == list_del(L, t)
<1>0. ASSUME NEW l \in ListId
      PROVE  L[l] \in Seq(Task) /\ Len(L[l]) \in Nat /\ D[l] = RemoveFirst(L[l], t)
  BY SeqLen DEF Lists, list_del
<1>1. ASSUME NEW l \in ListId, NEW k \in 1 .. Len(L[l]), L[l][k] = t
      PROVE  /\ D[l] \in Seq(Task)
             /\ Len(D[l]) = Len(L[l]) - 1
             /\ \A i \in 1 .. Len(L[l]) - 1 :
                  D[l][i] = IF i < k THEN L[l][i] ELSE L[l][i + 1]
             /\ \A i \in 1 .. Len(L[l]) : L[l][i] = t => i = k
  <2>1. \A i \in 1 .. Len(L[l]) : L[l][i] = t => i = k
    BY <1>1 DEF Once
  <2>2. L[l] \in Seq(Task) /\ D[l] = RemoveFirst(L[l], t)
    BY <1>0
  <2>3. /\ RemoveFirst(L[l], t) \in Seq(Task)
        /\ Len(RemoveFirst(L[l], t)) = Len(L[l]) - 1
        /\ \A i \in 1 .. Len(L[l]) - 1 :
             RemoveFirst(L[l], t)[i] = IF i < k THEN L[l][i] ELSE L[l][i + 1]
    BY <1>1, <2>1, <2>2, RemoveFirstAt, Zenon
  <2> HIDE DEF D
  <2> QED
    BY <2>1, <2>2, <2>3, Zenon
<1>2. ASSUME NEW l \in ListId, ~Contains(L[l], t)
      PROVE  D[l] = L[l]
  BY <1>0, <1>2 DEF RemoveFirst, Contains
(* Every entry of the result was an entry of L, at a place that determines *)
(* and is determined by the new one, and it is not t.                      *)
<1> DEFINE Old(l, i) == IF \E k \in 1 .. i : L[l][k] = t THEN i + 1 ELSE i
<1>3. ASSUME NEW l \in ListId, NEW i \in 1 .. Len(D[l])
      PROVE  /\ Old(l, i) \in 1 .. Len(L[l])
             /\ D[l][i] = L[l][Old(l, i)]
             /\ D[l][i] # t
  <2>1. CASE Contains(L[l], t)
    <3>1. PICK k \in 1 .. Len(L[l]) : L[l][k] = t
      BY <2>1 DEF Contains
    <3>2. /\ Len(D[l]) = Len(L[l]) - 1
          /\ \A j \in 1 .. Len(L[l]) - 1 :
               D[l][j] = IF j < k THEN L[l][j] ELSE L[l][j + 1]
          /\ \A j \in 1 .. Len(L[l]) : L[l][j] = t => j = k
      BY <1>1, <3>1, Zenon
    <3>3. Len(L[l]) \in Nat /\ i \in 1 .. Len(L[l]) - 1
      <4> HIDE DEF D
      <4> QED
        BY <1>0, <3>2
    <3>4. CASE i < k
      <4>1. Old(l, i) = i
        <5> HIDE DEF D
        <5> QED
          BY <3>1, <3>2, <3>3, <3>4
      <4>2. i \in 1 .. Len(L[l]) /\ i # k
        BY <3>3, <3>4
      <4> HIDE DEF D, Old
      <4>3. D[l][i] = L[l][i] /\ L[l][i] # t
        BY <3>2, <3>3, <3>4, <4>2
      <4> QED
        BY <4>1, <4>2, <4>3
    <3>5. CASE ~(i < k)
      <4>1. Old(l, i) = i + 1
        BY <3>1, <3>3, <3>5
      <4>2. i + 1 \in 1 .. Len(L[l]) /\ i + 1 # k
        BY <3>3, <3>5
      <4> HIDE DEF D, Old
      <4>3. D[l][i] = L[l][i + 1] /\ L[l][i + 1] # t
        BY <3>2, <3>3, <3>5, <4>2
      <4> QED
        BY <4>1, <4>2, <4>3
    <3> QED
      BY <3>4, <3>5
  <2>2. CASE ~Contains(L[l], t)
    <3>1. D[l] = L[l] /\ i \in 1 .. Len(L[l])
      BY <1>2, <2>2
    <3>2. Old(l, i) = i
      BY <1>0, <3>1, <2>2 DEF Contains
    <3> QED
      BY <2>2, <3>1, <3>2 DEF Contains
  <2> QED
    BY <2>1, <2>2
<1>4. ASSUME NEW l \in ListId, NEW i \in 1 .. Len(D[l]), NEW j \in 1 .. Len(D[l]),
             Old(l, i) = Old(l, j)
      PROVE  i = j
  <2>1. i \in Nat /\ j \in Nat
    BY <1>0
  <2> QED
    BY <1>4, <2>1
<1>5. D \in Lists
  <2>1. \A l \in ListId : D[l] \in Seq(Task)
    BY <1>0, <1>1, <1>2 DEF Contains
  <2> QED
    BY <2>1 DEF Lists, list_del
<1>6. Once(D)
  <2> SUFFICES ASSUME NEW l \in ListId, NEW m \in ListId,
                      NEW i \in 1 .. Len(D[l]), NEW j \in 1 .. Len(D[m]),
                      D[l][i] = D[m][j]
               PROVE  l = m /\ i = j
    BY DEF Once
  <2>1. l = m /\ Old(l, i) = Old(m, j)
    <3>1. Old(l, i) \in 1 .. Len(L[l]) /\ D[l][i] = L[l][Old(l, i)]
      BY <1>3, Zenon
    <3>2. Old(m, j) \in 1 .. Len(L[m]) /\ D[m][j] = L[m][Old(m, j)]
      BY <1>3, Zenon
    <3> HIDE DEF Old, D
    <3>3. PICK x \in 1 .. Len(L[l]) : x = Old(l, i) /\ D[l][i] = L[l][x]
      BY <3>1, Zenon
    <3>4. PICK y \in 1 .. Len(L[m]) : y = Old(m, j) /\ D[m][j] = L[m][y]
      BY <3>2, Zenon
    <3>5. L[l][x] = L[m][y]
      BY <3>3, <3>4, Zenon
    <3>6. l = m /\ x = y
      BY <3>5, Zenon DEF Once
    <3> QED
      BY <3>3, <3>4, <3>6, Zenon
  <2> QED
    BY <1>4, <2>1
<1>7. \A l \in ListId : ~Contains(D[l], t)
  BY <1>3 DEF Contains
<1>8. ASSUME NEW u \in Task \ {t}, NEW l \in ListId
      PROVE  Contains(D[l], u) <=> Contains(L[l], u)
  <2>1. Contains(D[l], u) => Contains(L[l], u)
    BY <1>3, SMTT(60) DEF Contains
  <2>2. ASSUME NEW i \in 1 .. Len(L[l]), L[l][i] = u
        PROVE  Contains(D[l], u)
    <3>1. CASE Contains(L[l], t)
      <4>1. PICK k \in 1 .. Len(L[l]) : L[l][k] = t
        BY <3>1 DEF Contains
      <4>a. /\ Len(D[l]) = Len(L[l]) - 1
            /\ \A j \in 1 .. Len(L[l]) - 1 :
                 D[l][j] = IF j < k THEN L[l][j] ELSE L[l][j + 1]
        BY <1>1, <4>1, Zenon
      <4>b. Len(L[l]) \in Nat
        BY <1>0
      <4> HIDE DEF D
      <4>2. CASE i < k
        <5>1. i \in 1 .. Len(L[l]) - 1
          BY <4>1, <4>2, <4>b
        <5>2. i \in 1 .. Len(D[l]) /\ D[l][i] = u
          BY <2>2, <4>2, <4>a, <5>1
        <5> QED
          BY <5>2 DEF Contains
      <4>3. CASE ~(i < k)
        <5>1. i # k
          BY <2>2, <4>1
        <5>2. i - 1 \in 1 .. Len(L[l]) - 1 /\ ~(i - 1 < k) /\ (i - 1) + 1 = i
          BY <4>1, <4>3, <4>b, <5>1
        <5>3. i - 1 \in 1 .. Len(D[l]) /\ D[l][i - 1] = u
          BY <2>2, <4>a, <5>2
        <5> QED
          BY <5>3 DEF Contains
      <4> QED
        BY <4>2, <4>3
    <3>2. CASE ~Contains(L[l], t)
      BY <1>2, <2>2, <3>2 DEF Contains
    <3> QED
      BY <3>1, <3>2
  <2> QED
    BY <2>1, <2>2 DEF Contains
<1> QED
  BY <1>5, <1>6, <1>7, <1>8 DEF Removed, OnlyMoves

(* A task on no list that is put at the end of list c is then on c only.   *)
LEMMA ListAddTail ==
  ASSUME NEW L \in Lists, Once(L), NEW t \in Task, NEW c \in ListId,
         \A l \in ListId : ~Contains(L[l], t)
  PROVE  Moved(L, list_add_tail(L, c, t), t, c)
<1> DEFINE M == list_add_tail(L, c, t)
<1>1. /\ L[c] \in Seq(Task) /\ Len(L[c]) \in Nat
      /\ \A l \in ListId : M[l] = IF l = c THEN Append(L[c], t) ELSE L[l]
  BY SeqLen DEF Lists, list_add_tail
<1>2. /\ Append(L[c], t) \in Seq(Task)
      /\ Len(Append(L[c], t)) = Len(L[c]) + 1
      /\ \A i \in 1 .. Len(L[c]) : Append(L[c], t)[i] = L[c][i]
      /\ Append(L[c], t)[Len(L[c]) + 1] = t
  BY <1>1, SeqAppend
<1>3. M \in Lists
  BY <1>1, <1>2 DEF Lists, list_add_tail
<1> HIDE DEF M
<1>4. ASSUME NEW l \in ListId, NEW i \in 1 .. Len(M[l])
      PROVE  \/ l = c /\ i = Len(L[c]) + 1 /\ M[l][i] = t
             \/ i \in 1 .. Len(L[l]) /\ M[l][i] = L[l][i] /\ M[l][i] # t
  <2>1. CASE l = c
    <3>1. i \in 1 .. Len(L[c]) + 1 /\ M[c] = Append(L[c], t)
      BY <1>1, <1>2, <2>1, Zenon
    <3>2. CASE i = Len(L[c]) + 1
      BY <1>1, <1>2, <2>1, <3>1, <3>2
    <3>3. CASE i # Len(L[c]) + 1
      <4>1. i \in 1 .. Len(L[c])
        BY <1>1, <3>1, <3>3
      <4> QED
        BY <1>1, <1>2, <2>1, <3>1, <4>1 DEF Contains
    <3> QED
      BY <3>2, <3>3
  <2>2. CASE l # c
    BY <1>1, <2>2 DEF Contains
  <2> QED
    BY <2>1, <2>2
<1>5. Once(M)
  <2> SUFFICES ASSUME NEW l \in ListId, NEW m \in ListId,
                      NEW i \in 1 .. Len(M[l]), NEW j \in 1 .. Len(M[m]),
                      M[l][i] = M[m][j]
               PROVE  l = m /\ i = j
    BY DEF Once
  <2>1. \/ l = c /\ i = Len(L[c]) + 1 /\ M[l][i] = t
        \/ i \in 1 .. Len(L[l]) /\ M[l][i] = L[l][i] /\ M[l][i] # t
    BY <1>4
  <2>2. \/ m = c /\ j = Len(L[c]) + 1 /\ M[m][j] = t
        \/ j \in 1 .. Len(L[m]) /\ M[m][j] = L[m][j] /\ M[m][j] # t
    BY <1>4
  <2> QED
    BY <2>1, <2>2 DEF Once
<1>6. ASSUME NEW l \in ListId
      PROVE  Contains(M[l], t) <=> l = c
  <2>1. Contains(M[l], t) => l = c
    BY <1>4 DEF Contains
  <2>2. l = c => Contains(M[l], t)
    <3>1. Len(M[c]) = Len(L[c]) + 1 /\ M[c][Len(L[c]) + 1] = t
      BY <1>1, <1>2, Zenon
    <3>2. Len(L[c]) + 1 \in 1 .. Len(M[c])
      BY <1>1, <3>1
    <3> QED
      BY <3>1, <3>2 DEF Contains
  <2> QED
    BY <2>1, <2>2
<1>7. ASSUME NEW u \in Task \ {t}, NEW l \in ListId
      PROVE  Contains(M[l], u) <=> Contains(L[l], u)
  <2>1. Contains(M[l], u) => Contains(L[l], u)
    BY <1>4 DEF Contains
  <2>2. ASSUME NEW i \in 1 .. Len(L[l])
        PROVE  i \in 1 .. Len(M[l]) /\ M[l][i] = L[l][i]
    <3>1. CASE l = c
      <4>1. M[l] = Append(L[c], t) /\ Len(M[l]) = Len(L[c]) + 1 /\ i \in 1 .. Len(L[c])
        BY <1>1, <1>2, <3>1, Zenon
      <4>2. i \in 1 .. Len(M[l])
        BY <1>1, <4>1
      <4> QED
        BY <1>2, <3>1, <4>1, <4>2
    <3>2. CASE l # c
      BY <1>1, <3>2
    <3> QED
      BY <3>1, <3>2
  <2> QED
    BY <2>1, <2>2 DEF Contains
<1>8. Moved(L, M, t, c)
  BY <1>3, <1>5, <1>6, <1>7 DEF Moved, OnlyMoves
<1> QED
  BY <1>8 DEF M

(* The same of list_add, which puts t at the front.                        *)
LEMMA ListAdd ==
  ASSUME NEW L \in Lists, Once(L), NEW t \in Task, NEW c \in ListId,
         \A l \in ListId : ~Contains(L[l], t)
  PROVE  Moved(L, list_add(L, c, t), t, c)
<1> DEFINE M == list_add(L, c, t)
           s == <<t>> \o L[c]
<1>1. /\ L[c] \in Seq(Task) /\ Len(L[c]) \in Nat
      /\ \A l \in ListId : M[l] = IF l = c THEN s ELSE L[l]
  BY SeqLen DEF Lists, list_add
<1>2. <<t>> \in Seq(Task) /\ Len(<<t>>) = 1 /\ <<t>>[1] = t
  OBVIOUS
<1>3. /\ s \in Seq(Task)
      /\ Len(s) = 1 + Len(L[c])
      /\ \A i \in 1 .. 1 + Len(L[c]) : s[i] = IF i <= 1 THEN <<t>>[i] ELSE L[c][i - 1]
  BY <1>1, <1>2, SeqConcat
<1>4. s[1] = t /\ \A i \in 2 .. Len(s) : i - 1 \in 1 .. Len(L[c]) /\ s[i] = L[c][i - 1]
  BY <1>1, <1>2, <1>3
<1>5. M \in Lists
  BY <1>1, <1>3, Zenon DEF Lists, list_add
<1> HIDE DEF M, s
<1>6. ASSUME NEW l \in ListId, NEW i \in 1 .. Len(M[l])
      PROVE  \/ l = c /\ i = 1 /\ M[l][i] = t
             \/ l = c /\ i - 1 \in 1 .. Len(L[l]) /\ M[l][i] = L[l][i - 1] /\ M[l][i] # t
             \/ l # c /\ i \in 1 .. Len(L[l]) /\ M[l][i] = L[l][i] /\ M[l][i] # t
  <2>1. CASE l = c /\ i = 1
    BY <1>1, <1>4, <2>1
  <2>2. CASE l = c /\ i # 1
    <3>1. M[l] = s /\ i \in 2 .. Len(s)
      BY <1>1, <1>3, <2>2
    <3> QED
      BY <1>4, <2>2, <3>1 DEF Contains
  <2>3. CASE l # c
    BY <1>1, <2>3 DEF Contains
  <2> QED
    BY <2>1, <2>2, <2>3
<1>7. Once(M)
  <2> SUFFICES ASSUME NEW l \in ListId, NEW m \in ListId,
                      NEW i \in 1 .. Len(M[l]), NEW j \in 1 .. Len(M[m]),
                      M[l][i] = M[m][j]
               PROVE  l = m /\ i = j
    BY DEF Once
  <2>1. \/ l = c /\ i = 1 /\ M[l][i] = t
        \/ l = c /\ i - 1 \in 1 .. Len(L[l]) /\ M[l][i] = L[l][i - 1] /\ M[l][i] # t
        \/ l # c /\ i \in 1 .. Len(L[l]) /\ M[l][i] = L[l][i] /\ M[l][i] # t
    BY <1>6
  <2>2. \/ m = c /\ j = 1 /\ M[m][j] = t
        \/ m = c /\ j - 1 \in 1 .. Len(L[m]) /\ M[m][j] = L[m][j - 1] /\ M[m][j] # t
        \/ m # c /\ j \in 1 .. Len(L[m]) /\ M[m][j] = L[m][j] /\ M[m][j] # t
    BY <1>6
  <2>3. CASE M[l][i] = t
    BY <2>1, <2>2, <2>3
  <2>4. CASE M[l][i] # t
    <3>1. PICK x \in 1 .. Len(L[l]) : M[l][i] = L[l][x] /\ i = IF l = c THEN x + 1 ELSE x
      BY <2>1, <2>4
    <3>2. PICK y \in 1 .. Len(L[m]) : M[m][j] = L[m][y] /\ j = IF m = c THEN y + 1 ELSE y
      BY <2>2, <2>4
    <3>3. L[l][x] = L[m][y]
      BY <3>1, <3>2, Zenon
    <3>4. l = m /\ x = y
      BY <3>3, Zenon DEF Once
    <3> QED
      BY <3>1, <3>2, <3>4, Zenon
  <2> QED
    BY <2>3, <2>4
<1>8. ASSUME NEW l \in ListId
      PROVE  Contains(M[l], t) <=> l = c
  <2>1. Contains(M[l], t) => l = c
    BY <1>6 DEF Contains
  <2>2. l = c => Contains(M[l], t)
    <3>1. M[c][1] = t /\ 1 \in 1 .. Len(M[c])
      BY <1>1, <1>3, <1>4
    <3> QED
      BY <3>1 DEF Contains
  <2> QED
    BY <2>1, <2>2
<1>9. ASSUME NEW u \in Task \ {t}, NEW l \in ListId
      PROVE  Contains(M[l], u) <=> Contains(L[l], u)
  <2>1. Contains(M[l], u) => Contains(L[l], u)
    BY <1>6, Zenon DEF Contains
  <2>2. ASSUME NEW i \in 1 .. Len(L[l])
        PROVE  \E j \in 1 .. Len(M[l]) : M[l][j] = L[l][i]
    <3>1. CASE l = c
      <4>1. i + 1 \in 2 .. Len(s) /\ M[l] = s
        BY <1>1, <1>3, <3>1
      <4>2. s[i + 1] = L[c][(i + 1) - 1]
        BY <1>4, <4>1
      <4> QED
        BY <1>1, <3>1, <4>1, <4>2
    <3>2. CASE l # c
      BY <1>1, <3>2
    <3> QED
      BY <3>1, <3>2
  <2> QED
    BY <2>1, <2>2 DEF Contains
<1>10. Moved(L, M, t, c)
  BY <1>5, <1>7, <1>8, <1>9 DEF Moved, OnlyMoves
<1> QED
  BY <1>10 DEF M

(* Unlinking and linking again, as add_task_to_wait_Q, wait_on_fd, lock,   *)
(* rm_n_move_task_new_rq and wakeup_task do, moves t and nothing else.     *)
LEMMA ListMove ==
  ASSUME NEW L \in Lists, Once(L), NEW t \in Task, NEW c \in ListId
  PROVE  /\ Moved(L, list_add_tail(list_del(L, t), c, t), t, c)
         /\ Moved(L, list_add(list_del(L, t), c, t), t, c)
<1> DEFINE D == list_del(L, t)
<1>1. Removed(L, D, t)
  BY ListDel
<1> HIDE DEF D
<1>2. D \in Lists /\ Once(D) /\ \A l \in ListId : ~Contains(D[l], t)
  BY <1>1 DEF Removed
<1>3. Moved(D, list_add_tail(D, c, t), t, c)
  BY <1>2, ListAddTail
<1>4. Moved(D, list_add(D, c, t), t, c)
  BY <1>2, ListAdd
<1>5. ASSUME NEW M, Moved(D, M, t, c)
      PROVE  Moved(L, M, t, c)
  BY <1>1, <1>5 DEF Moved, Removed, OnlyMoves
<1>6. /\ Moved(L, list_add_tail(D, c, t), t, c)
      /\ Moved(L, list_add(D, c, t), t, c)
  BY <1>3, <1>4, <1>5
<1> QED
  BY <1>6 DEF D

-----------------------------------------------------------------------------
IInv == TypeOK /\ QueuesConsistent /\ Lifecycle

-----------------------------------------------------------------------------
(* What a change of one task's links does to the queue invariant.          *)

(* Lists, flags and allocation unchanged.                                  *)
LEMMA SameStep ==
  ASSUME QueuesConsistent, UNCHANGED <<list, onrq, alive>>
  PROVE  QueuesConsistent'
BY DEF QueuesConsistent, LinkedOnce, OnrqAgrees, FreedUnlinked, OnRunList, Linked

(* t moves to list c and its onrq says whether c is a run queue: what      *)
(* wakeup_task, add_task_to_wait_Q, wait_on_fd and lock do.                *)
LEMMA MoveStep ==
  ASSUME TypeOK, QueuesConsistent, NEW t \in alive \ {Idle}, NEW c \in ListId,
         Moved(list, list', t, c),
         onrq' = [onrq EXCEPT ![t] = (c \in Prio)], alive' = alive
  PROVE  QueuesConsistent'
<1>0. t \in Task /\ alive \subseteq Task /\ onrq \in [Task -> BOOLEAN]
  BY DEF TypeOK
<1>1. \A u \in Task \ {t}, l \in ListId : Linked(u, l)' <=> Linked(u, l)
  BY DEF Moved, OnlyMoves, Linked
<1>2. \A l \in ListId : Linked(t, l)' <=> l = c
  BY DEF Moved, Linked
<1>3. LinkedOnce'
  BY DEF Moved, Once, LinkedOnce
<1>4. OnrqAgrees'
  <2> SUFFICES ASSUME NEW u \in alive \ {Idle}
               PROVE  IF onrq'[u]
                      THEN /\ (\E q \in Prio : Linked(u, q)') \/ u = Main
                           /\ \A d \in Chan : ~Linked(u, d)'
                      ELSE \E d \in Chan : Linked(u, d)'
    BY DEF OnrqAgrees, OnRunList
  <2>1. CASE u = t
    BY <1>0, <1>2, <2>1, ChanAssumption, Zenon DEF ListId
  <2>2. CASE u # t
    BY <1>0, <1>1, <2>2 DEF QueuesConsistent, OnrqAgrees, OnRunList, ListId
  <2> QED
    BY <2>1, <2>2
<1>5. FreedUnlinked'
  BY <1>0, <1>1, TaskAssumption DEF QueuesConsistent, FreedUnlinked
<1> QED
  BY <1>3, <1>4, <1>5 DEF QueuesConsistent

(* A new task is linked on a run queue: what spawn_task does.              *)
LEMMA SpawnStep ==
  ASSUME TypeOK, QueuesConsistent, NEW t \in Task \ {Idle}, NEW c \in Prio,
         Moved(list, list', t, c),
         onrq' = [onrq EXCEPT ![t] = TRUE], alive' = alive \cup {t}
  PROVE  QueuesConsistent'
<1>0. alive \subseteq Task /\ onrq \in [Task -> BOOLEAN]
  BY Zenon DEF TypeOK
<1>1. \A u \in Task \ {t}, l \in ListId : Linked(u, l)' <=> Linked(u, l)
  BY DEF Moved, OnlyMoves, Linked
<1>2. \A l \in ListId : Linked(t, l)' <=> l = c
  BY DEF Moved, Linked
<1>3. LinkedOnce'
  BY DEF Moved, Once, LinkedOnce
<1>4. OnrqAgrees'
  <2> SUFFICES ASSUME NEW u \in (alive \cup {t}) \ {Idle}
               PROVE  IF onrq'[u]
                      THEN /\ (\E q \in Prio : Linked(u, q)') \/ u = Main
                           /\ \A d \in Chan : ~Linked(u, d)'
                      ELSE \E d \in Chan : Linked(u, d)'
    BY DEF OnrqAgrees, OnRunList
  <2>1. CASE u = t
    BY <1>0, <1>2, <2>1, ChanAssumption DEF ListId
  <2>2. CASE u # t
    BY <1>0, <1>1, <2>2 DEF QueuesConsistent, OnrqAgrees, OnRunList, ListId
  <2> QED
    BY <2>1, <2>2
<1>5. FreedUnlinked'
  BY <1>0, <1>1, TaskAssumption DEF QueuesConsistent, FreedUnlinked
<1> QED
  BY <1>3, <1>4, <1>5 DEF QueuesConsistent

(* A task is unlinked and freed: what task_exit does.                      *)
LEMMA ExitStep ==
  ASSUME TypeOK, QueuesConsistent, NEW t \in Task \ {Idle},
         Removed(list, list', t),
         onrq' = [onrq EXCEPT ![t] = FALSE], alive' = alive \ {t}
  PROVE  QueuesConsistent'
<1>0. alive \subseteq Task /\ onrq \in [Task -> BOOLEAN]
  BY Zenon DEF TypeOK
<1>1. \A u \in Task \ {t}, l \in ListId : Linked(u, l)' <=> Linked(u, l)
  BY DEF Removed, OnlyMoves, Linked
<1>2. \A l \in ListId : ~Linked(t, l)'
  BY DEF Removed, Linked
<1>3. LinkedOnce'
  BY DEF Removed, Once, LinkedOnce
<1>4. OnrqAgrees'
  <2> SUFFICES ASSUME NEW u \in (alive \ {t}) \ {Idle}
               PROVE  IF onrq'[u]
                      THEN /\ (\E q \in Prio : Linked(u, q)') \/ u = Main
                           /\ \A d \in Chan : ~Linked(u, d)'
                      ELSE \E d \in Chan : Linked(u, d)'
    BY DEF OnrqAgrees, OnRunList
  <2> QED
    BY <1>0, <1>1 DEF QueuesConsistent, OnrqAgrees, OnRunList, ListId
<1>5. FreedUnlinked'
  BY <1>0, <1>1, <1>2, TaskAssumption DEF QueuesConsistent, FreedUnlinked
<1> QED
  BY <1>3, <1>4, <1>5 DEF QueuesConsistent

-----------------------------------------------------------------------------
(* The kernel functions.                                                   *)

(* The first entry of a non-empty list is a task linked on it.             *)
LEMMA HeadLinked ==
  ASSUME TypeOK, NEW l \in ListId, list[l] # <<>>
  PROVE  Head(list[l]) \in Task /\ Linked(Head(list[l]), l)
<1>1. list[l] \in Seq(Task)
  BY DEF TypeOK
<1>2. Head(list[l]) = list[l][1] /\ 1 \in 1 .. Len(list[l])
  BY <1>1
<1> QED
  BY <1>1, <1>2 DEF Linked, Contains

(* Whatever is linked is allocated and not IDLE; on a run list it has its  *)
(* flag onrq set.                                                          *)
LEMMA LinkedAlive ==
  ASSUME TypeOK, QueuesConsistent, NEW t \in Task, NEW l \in ListId, Linked(t, l)
  PROVE  t \in alive \ {Idle} /\ (l \in Prio => onrq[t])
<1>1. t \in alive \ {Idle}
  BY TaskAssumption DEF QueuesConsistent, FreedUnlinked
<1>2. ASSUME l \in Prio, ~onrq[t]
      PROVE  FALSE
  <2>1. PICK c \in Chan : Linked(t, c)
    BY <1>1, <1>2 DEF QueuesConsistent, OnrqAgrees
  <2>2. l = c
    BY <2>1 DEF QueuesConsistent, LinkedOnce, Linked, Contains, ListId
  <2> QED
    BY <1>2, <2>2, ChanAssumption
<1> QED
  BY <1>1, <1>2

(* schedule() keeps the queues consistent and gives the CPU to an          *)
(* allocated task or leaves it where it is.                                *)
LEMMA ScheduleStep ==
  ASSUME IInv, schedule, UNCHANGED <<onrq, alive>>
  PROVE  /\ QueuesConsistent'
         /\ list' \in [ListId -> Seq(Task)]
         /\ current' \in Task
         /\ current' = current \/ current' \in alive
         /\ prio' \in [Task -> Prio] /\ hot' \in SUBSET Task
         /\ nxt_imm_task' \in Task \cup {None}
         /\ sched_need' \in BOOLEAN /\ masked' \in BOOLEAN /\ crashed' \in BOOLEAN
<1> USE DEF IInv
<1>1. CASE PicksNull \/ PicksFreed
  <2>1. UNCHANGED <<list, cpu>> /\ crashed' = TRUE
    BY <1>1 DEF schedule
  <2>2. QueuesConsistent'
    BY <2>1, SameStep
  <2> QED
    BY <2>1, <2>2 DEF cpu, TypeOK
<1>2. CASE ~PicksNull /\ ~PicksFreed
  <2>1. PICK e \in Task :
          /\ sched_need' = FALSE
          /\ UNCHANGED crashed
          /\ get_next_eligible_task_to_run(e)
          /\ IF e = current THEN UNCHANGED <<current, prio, hot, masked>>
             ELSE calculate_time_slice(e) /\ current' = e /\ masked' = FALSE
    BY <1>2 DEF schedule
  <2>2. /\ QueuesConsistent'
        /\ list' \in [ListId -> Seq(Task)]
        /\ e = current \/ e \in alive
        /\ nxt_imm_task' \in Task \cup {None}
    <3>1. CASE nrp = 0 /\ e = Idle /\ UNCHANGED <<list, nxt_imm_task>>
      <4>1. QueuesConsistent'
        BY <3>1, SameStep
      <4>2. Idle \in alive
        BY TaskAssumption DEF Lifecycle
      <4> QED
        BY <3>1, <4>1, <4>2 DEF TypeOK
    <3>2. CASE /\ nrp # 0 /\ nxt_imm_task # None
               /\ e = nxt_imm_task
               /\ nxt_imm_task' = IF current = nxt_imm_task THEN nxt_imm_task ELSE None
               /\ UNCHANGED list
      <4>1. QueuesConsistent'
        BY <3>2, SameStep
      <4>2. e \in alive
        BY <1>2, <3>2 DEF PicksFreed
      <4> QED
        BY <3>2, <4>1, <4>2 DEF TypeOK

           <3>3. CASE nrp # 0 /\ nxt_imm_task = None /\ next_task_ready_to_run(e) /\ UNCHANGED nxt_imm_task
      <4>1. PICK q \in Prio :
              /\ FirstReady(q)
              /\ e = Head(list[q])
              /\ list' = IF e = current THEN list
                         ELSE list_add_tail(list_del(list, e), prio[e], e)
        BY <3>3 DEF next_task_ready_to_run
      <4>2. q \in ListId /\ list[q] # <<>>
        BY <4>1 DEF FirstReady, ListId
      <4>3. Linked(e, q)
        BY <4>1, <4>2, HeadLinked
      <4>4. e \in alive \ {Idle} /\ onrq[e]
        BY <4>1, <4>2, <4>3, LinkedAlive
      <4>5. CASE e = current
        BY <3>3, <4>1, <4>5, SameStep DEF TypeOK
      <4>6. CASE e # current
        <5>1. list \in Lists /\ Once(list) /\ prio[e] \in Prio /\ prio[e] \in ListId
          BY DEF TypeOK, Lists, QueuesConsistent, LinkedOnce, Once, ListId
        <5>2. Moved(list, list', e, prio[e])
          BY <4>1, <4>6, <5>1, ListMove
        <5>3. onrq' = [onrq EXCEPT ![e] = (prio[e] \in Prio)]
          BY <4>4, <5>1, Zenon DEF TypeOK
        <5>4. QueuesConsistent'
          BY <4>4, <5>1, <5>2, <5>3, MoveStep, Zenon
        <5> QED
          BY <3>3, <4>4, <5>2, <5>4 DEF Moved, Lists, TypeOK
      <4> QED
        BY <4>5, <4>6
    <3> QED
      BY <2>1, <3>1, <3>2, <3>3 DEF get_next_eligible_task_to_run
  <2>3. prio' \in [Task -> Prio] /\ hot' \in SUBSET Task
    <3>1. LowPrio \in Prio
      BY PrioAssumption DEF LowPrio, Prio
    <3> QED
      BY <2>1, <3>1, Zenon DEF TypeOK, calculate_time_slice
  <2> QED
    BY <2>1, <2>2, <2>3, Zenon DEF TypeOK
<1> QED
  BY <1>1, <1>2

(* add_task_to_wait_Q on an allocated task.                                *)
LEMMA WaitStep ==
  ASSUME IInv, NEW t \in alive \ {Idle}, add_task_to_wait_Q(t), alive' = alive
  PROVE  /\ QueuesConsistent'
         /\ list' \in [ListId -> Seq(Task)] /\ onrq' \in [Task -> BOOLEAN]
         /\ nrp' \in Int /\ nwp' \in Int
<1> USE DEF IInv
<1>1. CASE ~onrq[t]
  <2>1. UNCHANGED queues
    BY <1>1 DEF add_task_to_wait_Q
  <2> QED
    BY <2>1, SameStep DEF queues, TypeOK
<1>2. CASE onrq[t]
  <2>1. /\ list' = list_add_tail(list_del(list, t), WQ, t)
        /\ onrq' = [onrq EXCEPT ![t] = FALSE]
        /\ nrp' = nrp - 1 /\ nwp' = nwp + 1
    BY <1>2 DEF add_task_to_wait_Q
  <2>2. list \in Lists /\ Once(list) /\ t \in Task /\ WQ \in ListId /\ WQ \notin Prio
    BY ChanAssumption DEF TypeOK, Lists, QueuesConsistent, LinkedOnce, Once, ListId, Chan
  <2>3. Moved(list, list', t, WQ)
    BY <2>1, <2>2, ListMove
  <2>4. onrq' = [onrq EXCEPT ![t] = (WQ \in Prio)]
    <3>1. (WQ \in Prio) = FALSE
      BY <2>2
    <3> QED
      BY <2>1, <3>1, Zenon
  <2>5. QueuesConsistent'
    BY <2>2, <2>3, <2>4, MoveStep, Zenon
  <2> QED
    BY <2>1, <2>3, <2>5, OneMoreOrLess, ZenonT(60) DEF Moved, Lists, TypeOK
<1> QED
  BY <1>1, <1>2

(* The queue part of wakeup_task on an allocated task.                     *)
LEMMA WakeStep ==
  ASSUME IInv, NEW t \in alive \ {Idle}, MoveToRunQ(t), alive' = alive
  PROVE  /\ QueuesConsistent'
         /\ list' \in [ListId -> Seq(Task)] /\ onrq' \in [Task -> BOOLEAN]
         /\ nrp' \in Int /\ nwp' \in Int
<1> USE DEF IInv
<1>1. CASE onrq[t]
  <2>1. UNCHANGED queues
    BY <1>1 DEF MoveToRunQ
  <2> QED
    BY <2>1, SameStep DEF queues, TypeOK
<1>2. CASE ~onrq[t]
  <2>1. /\ list' = list_add(list_del(list, t), prio[t], t)
        /\ onrq' = [onrq EXCEPT ![t] = TRUE]
        /\ nrp' = nrp + 1 /\ nwp' = nwp - 1
    BY <1>2 DEF MoveToRunQ
  <2>2. list \in Lists /\ Once(list) /\ t \in Task /\ prio[t] \in Prio /\ prio[t] \in ListId
    BY DEF TypeOK, Lists, QueuesConsistent, LinkedOnce, Once, ListId
  <2>3. Moved(list, list', t, prio[t])
    BY <2>1, <2>2, ListMove
  <2>4. onrq' = [onrq EXCEPT ![t] = (prio[t] \in Prio)]
    <3>1. (prio[t] \in Prio) = TRUE
      BY <2>2
    <3> QED
      BY <2>1, <3>1, Zenon
  <2>5. QueuesConsistent'
    BY <2>2, <2>3, <2>4, MoveStep, Zenon
  <2> QED
    BY <2>1, <2>3, <2>5, OneMoreOrLess, ZenonT(60) DEF Moved, Lists, TypeOK
<1> QED
  BY <1>1, <1>2

(* The immediate task is a task or None after a wake up.                   *)
LEMMA ImmediateStep ==
  ASSUME TypeOK, NEW t \in Task, BecomeImmediate(t)
  PROVE  nxt_imm_task' \in Task \cup {None}
BY DEF TypeOK, BecomeImmediate

(* wakeup_task on an allocated task.                                       *)
LEMMA WakeupStep ==
  ASSUME IInv, NEW t \in alive \ {Idle}, wakeup_task(t), alive' = alive
  PROVE  /\ QueuesConsistent'
         /\ list' \in [ListId -> Seq(Task)] /\ onrq' \in [Task -> BOOLEAN]
         /\ nrp' \in Int /\ nwp' \in Int
         /\ sched_need' \in BOOLEAN
         /\ nxt_imm_task' \in Task \cup {None}
<1>1. MoveToRunQ(t) /\ BecomeImmediate(t)
  BY DEF wakeup_task
<1>2. sched_need' \in BOOLEAN
  BY DEF wakeup_task
<1>3. t \in Task
  BY DEF IInv, TypeOK
<1> QED
  BY <1>1, <1>2, <1>3, WakeStep, ImmediateStep DEF IInv

-----------------------------------------------------------------------------
(* Labels and lifecycle.                                                   *)

(* Where CallSchedule goes on: a label of the same kind.                   *)
LEMMA RetLabel ==
  ASSUME NEW l \in DOMAIN Ret
  PROVE  /\ l \notin {"new", "dead", "idle"}
         /\ Ret[l] \in Label \ {"new", "dead", "idle"}
         /\ Ret[l] = "exited" <=> l = "exited"
         /\ Ret[l] \in {"io_read", "io_wait", "io_sched"} => l = "io_sched"
<1>1. l \in {"sched", "ev_sched", "io_sched", "lk_sched", "si_sched", "exited"}
  BY DEF Ret
<1>2. /\ Ret["sched"] = "run" /\ Ret["ev_sched"] = "ev_test"
      /\ Ret["io_sched"] = "io_read" /\ Ret["lk_sched"] = "lk_test"
      /\ Ret["si_sched"] = "si_scan" /\ Ret["exited"] = "exited"
  BY DEF Ret
<1> QED
  BY <1>1, <1>2, ZenonT(60) DEF Label

(* A task at a label of library or application code is allocated.          *)
LEMMA AtAlive ==
  ASSUME IInv, NEW t \in Task, NEW l, At(t, l), l \notin {"exited", "idle"}
  PROVE  t \in alive \ {Idle} /\ hnd = "none" /\ current = t /\ pc[t] = l
BY Zenon DEF IInv, At, Lifecycle

(* A step inside a task's own code keeps Lifecycle: only its label changes *)
(* and it does not end.                                                    *)
LEMMA LocalLife ==
  ASSUME IInv, NEW t \in alive \ {Idle}, NEW l \in Label \ {"new", "exited", "dead"},
         current = t, Goto(t, l), hnd = "none", hnd' = "none",
         UNCHANGED <<alive, current>>,
         armed'[Idle] = armed[Idle],
         l \in {"io_read", "io_wait", "io_sched"} => fd'[t] \in Fd,
         \A u \in Task \ {t} : fd'[u] = fd[u]
  PROVE  Lifecycle' /\ pc' \in [Task -> Label]
<1> USE DEF IInv
<1>1. pc \in [Task -> Label] /\ alive \subseteq Task
  BY Zenon DEF TypeOK
<1>2. pc' = [pc EXCEPT ![t] = l]
  BY DEF Goto
<1>3. pc' \in [Task -> Label] /\ pc'[t] = l /\ \A u \in Task \ {t} : pc'[u] = pc[u]
  BY <1>1, <1>2
<1>4. "none" \notin Fd
  BY ProgAssumption
<1> QED
  BY <1>1, <1>3, <1>4, TaskAssumption DEF Lifecycle

-----------------------------------------------------------------------------
(* One lemma per group of actions.                                         *)

(* Steps that touch no list: tests, timers, the event word, lock words.    *)
LEMMA QuietSteps ==
  ASSUME IInv, NEW t \in Task,
         \/ SleepArm(t) \/ wait_for_event(t) \/ EvTest(t) \/ EvReset(t)
         \/ IoRead(t) \/ lock(t) \/ LkTest(t) \/ LkLoad(t) \/ LkStore(t) \/ LkChk(t)
         \/ LkOwn(t) \/ unlock(t) \/ UlLoad(t) \/ UlStore(t) \/ UlChk(t) \/ UlOwn(t)
         \/ \E f \in Fd : tm_read(t, f)
  PROVE  IInv'
<1> USE DEF IInv
<1>1. QueuesConsistent' /\ UNCHANGED <<list, onrq, alive, current, hnd>>
  <2>1. UNCHANGED <<list, onrq, alive, current, hnd>>
    BY ZenonT(30) DEF SleepArm, wait_for_event, EvTest, EvReset, IoRead, lock, LkTest, LkLoad,
           LkStore, LkChk, LkOwn, unlock, UlLoad, UlStore, UlChk, UlOwn, Load, Store,
           tm_read, kernel, queues, cpu, pool
  <2> QED
    BY <2>1, SameStep
<1>2. PICK k \in Label \ {"exited", "idle", "new", "dead"},
           l \in Label \ {"new", "exited", "dead"} :
        /\ At(t, k) /\ Goto(t, l)
        /\ l \in {"io_read", "io_wait", "io_sched"} => fd'[t] \in Fd
        /\ \A u \in Task \ {t} : fd'[u] = fd[u]
        /\ t # Idle => armed'[Idle] = armed[Idle]
  <2>1. CASE SleepArm(t)
    <3>1. At(t, "run") /\ Goto(t, "sl_add") /\ UNCHANGED fd
      BY <2>1, ZenonT(30) DEF SleepArm, Calls, io
    <3>2. t # Idle => armed'[Idle] = armed[Idle]
      BY <2>1, TaskAssumption, Zenon DEF SleepArm, TypeOK
    <3>3. /\ "run" \in Label \ {"exited", "idle", "new", "dead"}
          /\ "sl_add" \in Label \ {"new", "exited", "dead"}
      BY DEF Label
    <3> QED
      BY <3>1, <3>2, <3>3, Zenon
  <2>2. CASE wait_for_event(t) \/ EvTest(t) \/ EvReset(t)
    BY <2>2, ZenonT(30) DEF wait_for_event, EvTest, EvReset, Calls, api, io, Label, TypeOK
  <2>3. CASE IoRead(t)
    BY <2>3, Zenon DEF IoRead, At, api, Label, TypeOK, Lifecycle
  <2>4. CASE lock(t) \/ LkTest(t) \/ LkChk(t) \/ LkOwn(t)
    BY <2>4, ZenonT(30) DEF lock, LkTest, LkChk, LkOwn, Calls, api, io, Label, TypeOK
  <2>5. CASE unlock(t) \/ UlChk(t) \/ UlOwn(t)
    BY <2>5, ZenonT(30) DEF unlock, UlChk, UlOwn, Calls, api, io, Label, TypeOK
  <2>7. CASE LkLoad(t) \/ LkStore(t) \/ UlLoad(t) \/ UlStore(t)
    BY <2>7, Zenon DEF LkLoad, LkStore, UlLoad, UlStore, Load, Store, api, io, Label, TypeOK
  <2>6. CASE \E f \in Fd : tm_read(t, f)
    BY <2>6, ZenonT(30) DEF tm_read, Calls, api, Label, TypeOK
  <2> QED
    BY <2>1, <2>2, <2>3, <2>4, <2>5, <2>6, <2>7, ZenonT(30)
<1>3. t \in alive \ {Idle} /\ hnd = "none" /\ current = t
  BY <1>2, AtAlive, ZenonT(30)
<1>4. Lifecycle' /\ pc' \in [Task -> Label]
  BY <1>1, <1>2, <1>3, LocalLife, Zenon
<1>5. TypeOK'
  <2>1. CASE SleepArm(t)
    <3>1. armed' \in [Task -> Nat]
      BY <2>1, OneMoreOrLess, Zenon DEF TypeOK, SleepArm
    <3> QED
      BY <1>4, <2>1, <3>1, ZenonT(60) DEF TypeOK, SleepArm, kernel, queues, cpu, pool, io, lk
  <2>2. CASE wait_for_event(t) \/ EvTest(t)
    BY <1>4, <2>2, ZenonT(30) DEF TypeOK, wait_for_event, EvTest, kernel, queues, cpu, pool,
        api, io, lk
  <2>6. CASE EvReset(t)
    <3>1. event' \in [Task -> BOOLEAN]
      BY <2>6, Zenon DEF TypeOK, EvReset
    <3> QED
      BY <1>4, <2>6, <3>1, ZenonT(60) DEF TypeOK, EvReset, kernel, queues, cpu, pool, io, lk
  <2>7. CASE IoRead(t)
    <3>1. avail' \in [Fd -> BOOLEAN]
      BY <2>7, Zenon DEF TypeOK, IoRead
    <3> QED
      BY <1>4, <2>7, <3>1, ZenonT(60) DEF TypeOK, IoRead, kernel, queues, cpu, pool, api, lk
  <2>8. CASE \E f \in Fd : tm_read(t, f)
    <3>1. fd' \in [Task -> Fd \cup {None}]
      BY <2>8 DEF TypeOK, tm_read
    <3> QED
      BY <1>4, <2>8, <3>1, ZenonT(60) DEF TypeOK, tm_read, kernel, queues, cpu, pool, api, lk
  <2>3. CASE lock(t) \/ LkTest(t) \/ LkOwn(t) \/ UlOwn(t)
    BY <1>4, <2>3, ZenonT(30) DEF TypeOK, lock, LkTest, LkOwn, UlOwn, kernel, queues, cpu, pool,
                      api, io, lk
  <2>4. CASE LkChk(t) \/ UlChk(t)
    <3>1. crashed' \in BOOLEAN
      <4>1. crashed' = TRUE \/ crashed' = crashed
        BY <2>4, Zenon DEF LkChk, UlChk
      <4> QED
        BY <4>1, Zenon DEF TypeOK
    <3> QED
      BY <1>4, <2>4, <3>1, Zenon DEF TypeOK, LkChk, UlChk, queues, cpu, pool, api, io, lk
  <2>5. CASE unlock(t)
    BY <1>4, <2>5 DEF TypeOK, unlock, kernel, queues, cpu, pool, api, io
  <2>9. CASE LkLoad(t) \/ LkStore(t) \/ UlLoad(t) \/ UlStore(t)
    <3>1. reg' \in [Task -> Int] /\ lockv' \in Int
      <4>1. reg \in [Task -> Int] /\ lockv \in Int
        BY DEF TypeOK
      <4>2. CASE LkLoad(t) \/ UlLoad(t)
        BY <4>1, <4>2 DEF LkLoad, UlLoad, Load
      <4>3. CASE LkStore(t) \/ UlStore(t)
        <5>1. reg' = [reg EXCEPT ![t] = 0] /\ (lockv' = reg[t] + 1 \/ lockv' = reg[t] + -1)
          BY <4>3, Zenon DEF LkStore, UlStore, Store
        <5>2. reg' \in [Task -> Int]
          BY <4>1, <5>1, SMTT(60)
        <5> QED
          BY <4>1, <5>1, <5>2, OneMoreOrLess, Zenon
      <4> QED
        BY <2>9, <4>2, <4>3
    <3>2. UNCHANGED <<kernel, api, hnd, io, owner, holders>>
      BY <2>9 DEF LkLoad, LkStore, UlLoad, UlStore, Load, Store
    <3> QED
      BY <1>4, <3>1, <3>2, Zenon DEF TypeOK, kernel, queues, cpu, pool, api, io
  <2> QED
    BY <2>1, <2>2, <2>3, <2>4, <2>5, <2>6, <2>7, <2>8, <2>9, ZenonT(60)
<1> QED
  BY <1>1, <1>4, <1>5

(* Steps that park the calling task.                                       *)
LEMMA ParkSteps ==
  ASSUME IInv, NEW t \in Task,
         SleepAdd(t) \/ sleep_forever(t) \/ EvAdd(t)
  PROVE  IInv'
<1> USE DEF IInv
<1>1. /\ add_task_to_wait_Q(t)
      /\ UNCHANGED <<cpu, pool, crashed, api, hnd, io, lk>>
      /\ \/ At(t, "sl_add") /\ Goto(t, "sched")
         \/ At(t, "run") /\ Goto(t, "sched")
         \/ At(t, "ev_add") /\ Goto(t, "ev_sched")
  BY Zenon DEF SleepAdd, sleep_forever, EvAdd, Calls
<1>2. t \in alive \ {Idle} /\ hnd = "none" /\ current = t
  BY <1>1, AtAlive
<1>3. UNCHANGED <<alive, current, hnd, armed, fd>>
  BY <1>1 DEF pool, cpu, api, io
<1>4. /\ QueuesConsistent'
      /\ list' \in [ListId -> Seq(Task)] /\ onrq' \in [Task -> BOOLEAN]
      /\ nrp' \in Int /\ nwp' \in Int
  BY <1>1, <1>2, <1>3, WaitStep, Zenon
<1>5. {"sched", "ev_sched"} \subseteq Label
  BY RetLabel DEF Label, Ret
<1>6. Lifecycle' /\ pc' \in [Task -> Label]
  BY <1>1, <1>2, <1>3, <1>5, LocalLife, ZenonT(30)
<1>7. TypeOK'
  BY <1>1, <1>4, <1>6, ZenonT(30) DEF TypeOK, cpu, pool, api, io, lk
<1> QED
  BY <1>4, <1>6, <1>7

(* wait_on_fd and the queueing part of lock().                             *)
LEMMA ChanSteps ==
  ASSUME IInv, NEW t \in Task, IoWait(t) \/ LkWait(t)
  PROVE  IInv'
<1> USE DEF IInv
<1>1. PICK c \in Chan :
        /\ list' = list_add_tail(list_del(list, t), c, t)
        /\ onrq' = [onrq EXCEPT ![t] = FALSE]
        /\ nrp' \in Int /\ nwp' \in Int
        /\ UNCHANGED <<current, nxt_imm_task, sched_need, prio, hot, pool, crashed, api,
                       hnd, io, lk>>
        /\ masked' \in BOOLEAN
        /\ \/ At(t, "io_wait") /\ Goto(t, "io_sched")
           \/ At(t, "lk_wait") /\ Goto(t, "lk_sched")
  <2>1. CASE IoWait(t)
    <3>1. fd[t] \in Chan
      BY <2>1, ZenonT(30) DEF IoWait, At, Lifecycle, Chan
    <3> QED
      BY <2>1, <3>1 DEF IoWait, wait_on_fd, cpu, TypeOK
  <2>2. CASE LkWait(t)
    <3>1. LKQ \in Chan
      BY DEF Chan
    <3> QED
      BY <2>2, <3>1 DEF LkWait, set_task_not_rq, TypeOK
  <2> QED
    BY <2>1, <2>2, Zenon
<1>2. t \in alive \ {Idle} /\ hnd = "none" /\ current = t
  BY <1>1, AtAlive
<1>3. UNCHANGED <<alive, current, hnd, armed, fd>>
  BY <1>1 DEF pool, api, io
<1>4. list \in Lists /\ Once(list) /\ c \in ListId /\ c \notin Prio
  BY ChanAssumption DEF TypeOK, Lists, QueuesConsistent, LinkedOnce, Once, ListId
<1>5. Moved(list, list', t, c)
  BY <1>1, <1>4, ListMove
<1>6. onrq' = [onrq EXCEPT ![t] = (c \in Prio)]
  <2>1. (c \in Prio) = FALSE
    BY <1>4
  <2> QED
    BY <1>1, <2>1, Zenon
<1>7. QueuesConsistent'
  BY <1>2, <1>3, <1>4, <1>5, <1>6, MoveStep, Zenon
<1>8. {"io_sched", "lk_sched"} \subseteq Label
  BY Zenon DEF Label, Ret
<1>9. At(t, "io_wait") => fd'[t] \in Fd
  BY <1>3, Zenon DEF At, Lifecycle
<1>10. Lifecycle' /\ pc' \in [Task -> Label]
  <2>1. CASE At(t, "io_wait") /\ Goto(t, "io_sched")
    BY <1>2, <1>3, <1>8, <1>9, <2>1, LocalLife, ZenonT(30)
  <2>2. CASE At(t, "lk_wait") /\ Goto(t, "lk_sched")
    BY <1>2, <1>3, <1>8, <2>2, LocalLife, Zenon
  <2> QED
    BY <1>1, <2>1, <2>2, SMTT(30)
<1>11. list' \in [ListId -> Seq(Task)]
  BY <1>5 DEF Moved, Lists
<1>12. TypeOK'
  BY <1>1, <1>10, <1>11, Zenon DEF TypeOK, pool, api, io, lk
<1> QED
  BY <1>7, <1>10, <1>12

(* Steps that wake one task: post_event, the end of unlock, the timer      *)
(* bottom half and wake_io_task.                                           *)
LEMMA WakeSteps ==
  ASSUME IInv, NEW t \in Task, NEW u \in Task,
         post_event(t, u) \/ UlWake(t) \/ SiFire(u) \/ \E f \in Fd : wake_io_task(f)
  PROVE  IInv'
<1> USE DEF IInv
<1>0. "none" \notin Fd /\ Fd \subseteq ListId /\ LKQ \in ListId /\ WQ \in ListId
      /\ alive \subseteq Task
  BY ProgAssumption, Zenon DEF ListId, Chan, TypeOK
<1>1. CASE post_event(t, u)
  <2>1. /\ wakeup_task(u) /\ find_task(u) /\ hnd = "none"
        /\ event' = [event EXCEPT ![u] = TRUE]
        /\ UNCHANGED <<current, prio, hot, masked, pool, crashed, pc, armed, irq, hnd, io, lk>>
    BY <1>1, ZenonT(30) DEF post_event, Calls, At
  <2>2. u \in alive \ {Idle}
    BY <1>0, <2>1, LinkedAlive, Zenon DEF find_task, OnRunList, ListId, Chan
  <2>3. alive' = alive
    BY <2>1, Zenon DEF pool
  <2>4. /\ QueuesConsistent'
        /\ list' \in [ListId -> Seq(Task)] /\ onrq' \in [Task -> BOOLEAN]
        /\ nrp' \in Int /\ nwp' \in Int
        /\ sched_need' \in BOOLEAN
        /\ nxt_imm_task' \in Task \cup {None}
    BY <2>1, <2>2, <2>3, WakeupStep
  <2>5. TypeOK'
    <3>1. event' \in [Task -> BOOLEAN]
      BY <2>1 DEF TypeOK
    <3> QED
      BY <2>1, <2>4, <3>1, Zenon DEF TypeOK, pool, io, lk
  <2>6. Lifecycle'
    BY <1>0, <2>1, Zenon DEF Lifecycle, pool, io
  <2> QED
    BY <2>4, <2>5, <2>6
<1>2. CASE UlWake(t)
  <2>1. /\ IF list[LKQ] # <<>>
           THEN wakeup_task(Head(list[LKQ]))
           ELSE UNCHANGED <<queues, sched_need, nxt_imm_task>>
        /\ At(t, "ul_wake") /\ Goto(t, "run")
        /\ UNCHANGED <<current, prio, hot, masked, pool, crashed, api, hnd, io, lk>>
    BY <1>2, Zenon DEF UlWake
  <2>2. UNCHANGED <<alive, current, hnd, armed, fd>>
    BY <2>1, ZenonT(30) DEF pool, api, io
  <2>3. /\ QueuesConsistent'
        /\ list' \in [ListId -> Seq(Task)] /\ onrq' \in [Task -> BOOLEAN]
        /\ nrp' \in Int /\ nwp' \in Int
        /\ sched_need' \in BOOLEAN
        /\ nxt_imm_task' \in Task \cup {None}
    <3>1. CASE list[LKQ] = <<>>
      <4>1. UNCHANGED <<queues, sched_need, nxt_imm_task>>
        BY <2>1, <3>1, ZenonT(30)
      <4> QED
        BY <2>2, <4>1, SameStep, Zenon DEF queues, TypeOK
    <3>2. CASE list[LKQ] # <<>>
      <4>1. Head(list[LKQ]) \in Task /\ Linked(Head(list[LKQ]), LKQ)
        BY <1>0, <3>2, HeadLinked, Zenon
      <4>2. Head(list[LKQ]) \in alive \ {Idle}
        BY <1>0, <4>1, LinkedAlive
      <4> QED
        BY <2>1, <2>2, <3>2, <4>2, WakeupStep, ZenonT(30)
    <3> QED
      BY <3>1, <3>2, Zenon
  <2>4. Lifecycle' /\ pc' \in [Task -> Label]
    <3>1. t \in alive \ {Idle} /\ hnd = "none" /\ current = t
      BY <2>1, AtAlive, Zenon
    <3>2. "run" \in Label
      BY DEF Label
    <3> QED
      BY <2>1, <2>2, <3>1, <3>2, LocalLife, ZenonT(30)
  <2>5. TypeOK'
    BY <2>1, <2>3, <2>4, ZenonT(30) DEF TypeOK, pool, api, io, lk
  <2> QED
    BY <2>3, <2>4, <2>5
<1>3. CASE SiFire(u)
  <2>1. /\ armed[u] > 0 /\ hnd = "none"
        /\ armed' = [armed EXCEPT ![u] = armed[u] - 1]
        /\ IF u \in alive
           THEN wakeup_task(u) /\ UNCHANGED <<current, prio, hot, masked, pool, crashed>>
           ELSE crashed' = TRUE /\ UNCHANGED <<queues, cpu, pool>>
        /\ UNCHANGED <<pc, event, irq, hnd, io, lk>>
    BY <1>3 DEF SiFire, At
  <2>2. u # Idle /\ armed' \in [Task -> Nat] /\ armed'[Idle] = 0
    <3>1. armed \in [Task -> Nat] /\ armed[Idle] = 0 /\ Idle \in Task
      BY TaskAssumption, Zenon DEF TypeOK, Lifecycle
    <3>2. armed[u] \in Nat /\ armed[u] > 0
      BY <2>1, <3>1
    <3>3. u # Idle /\ armed[u] - 1 \in Nat
      BY <3>1, <3>2
    <3> QED
      BY <2>1, <3>1, <3>3
  <2>3. CASE u \in alive
    <3>1. UNCHANGED <<alive, current>>
      BY <2>1, <2>3 DEF pool
    <3>2. /\ QueuesConsistent'
          /\ list' \in [ListId -> Seq(Task)] /\ onrq' \in [Task -> BOOLEAN]
          /\ nrp' \in Int /\ nwp' \in Int
          /\ sched_need' \in BOOLEAN
          /\ nxt_imm_task' \in Task \cup {None}
      BY <2>1, <2>2, <2>3, <3>1, WakeupStep
    <3>3. TypeOK'
      BY <2>1, <2>2, <2>3, <3>2, Zenon DEF TypeOK, pool, io, lk
    <3>4. Lifecycle'
      BY <1>0, <2>1, <2>2, <3>1, Zenon DEF Lifecycle, io
    <3> QED
      BY <3>2, <3>3, <3>4
  <2>4. CASE u \notin alive
    <3>1. QueuesConsistent'
      BY <2>1, <2>4, SameStep DEF queues, pool
    <3>2. TypeOK'
      BY <2>1, <2>2, <2>4, Zenon DEF TypeOK, queues, cpu, pool, io, lk
    <3>3. Lifecycle'
      BY <1>0, <2>1, <2>2, <2>4, Zenon DEF Lifecycle, queues, cpu, pool, io
    <3> QED
      BY <3>1, <3>2, <3>3
  <2> QED
    BY <2>3, <2>4, Zenon
<1>4. ASSUME NEW f \in Fd, wake_io_task(f)
      PROVE  IInv'
  <2>1. /\ hnd = f /\ wakeup_task(Head(list[f]))
        /\ hnd' = IF Len(list[f]) = 1 THEN "none" ELSE f
        /\ UNCHANGED <<current, prio, hot, masked, pool, crashed, pc, api, io, lk>>
    BY <1>4, Zenon DEF wake_io_task
  <2>2. list[f] # <<>> /\ f \in ListId
    BY <1>0, <2>1, Zenon DEF Lifecycle
  <2>3. Head(list[f]) \in Task /\ Linked(Head(list[f]), f)
    BY <2>2, HeadLinked, Zenon
  <2>4. Head(list[f]) \in alive \ {Idle}
    BY <2>2, <2>3, LinkedAlive, Zenon
  <2>5. alive' = alive
    BY <2>1 DEF pool
  <2>6. /\ QueuesConsistent'
        /\ list' \in [ListId -> Seq(Task)] /\ onrq' \in [Task -> BOOLEAN]
        /\ nrp' \in Int /\ nwp' \in Int
        /\ sched_need' \in BOOLEAN
        /\ nxt_imm_task' \in Task \cup {None}
    BY <2>1, <2>4, <2>5, WakeupStep
  <2>7. TypeOK'
    BY <2>1, <2>6, Zenon DEF TypeOK, pool, api, io, lk
  (* A second entry of the list is still linked on it. *)
  <2>8. ASSUME Len(list[f]) # 1
        PROVE  list'[f] # <<>>
    <3> DEFINE h == Head(list[f])
               v == list[f][2]
    <3>1. /\ 1 \in 1 .. Len(list[f]) /\ 2 \in 1 .. Len(list[f])
          /\ list[f][2] \in Task /\ h = list[f][1]
      <4>1. list[f] \in Seq(Task)
        BY <2>2, Zenon DEF TypeOK
      <4> QED
        BY <2>2, <2>8, <4>1, SeqSecond, Zenon
    <3>2. v \in Task /\ Linked(v, f)
      BY <3>1, Zenon DEF Linked, Contains
    <3>3. v # h
      <4>1. list[f][2] = list[f][1] => 2 = 1
        BY <2>2, <3>1, Zenon DEF QueuesConsistent, LinkedOnce
      <4>2. 2 # 1
        OBVIOUS
      <4>3. list[f][2] # list[f][1]
        BY <4>1, <4>2, Zenon
      <4>4. h = list[f][1]
        BY <3>1, Zenon
      <4> QED
        BY <4>3, <4>4, Zenon
    <3>4. CASE onrq[h]
      BY <2>1, <2>2, <3>4, Zenon DEF wakeup_task, MoveToRunQ, queues
    <3>5. CASE ~onrq[h]
      <4>1. list' = list_add(list_del(list, h), prio[h], h)
        BY <2>1, <3>5, Zenon DEF wakeup_task, MoveToRunQ
      <4>2. list \in Lists /\ Once(list) /\ prio[h] \in ListId
        BY <2>3, Zenon DEF TypeOK, Lists, QueuesConsistent, LinkedOnce, Once, ListId
      <4>3. Moved(list, list', h, prio[h])
        BY <2>3, <4>1, <4>2, ListMove
      <4>4. Contains(list'[f], v)
        BY <2>2, <3>2, <3>3, <4>3, ZenonT(30) DEF Moved, OnlyMoves, Linked
      <4> QED
        BY <4>4, SMTT(60) DEF Contains
    <3> QED
      BY <3>4, <3>5
  <2>9. Lifecycle'
    BY <1>0, <2>1, <2>5, <2>8, Zenon DEF Lifecycle, pool, api, io
  <2> QED
    BY <2>6, <2>7, <2>9
<1> QED
  BY <1>1, <1>2, <1>3, <1>4

(* spawn_task.                                                             *)
LEMMA SpawnSteps ==
  ASSUME IInv, NEW t \in Task, NEW u \in User, spawn_task(t, u)
  PROVE  IInv'
<1> USE DEF IInv
<1>1. /\ At(t, "run") /\ pc[u] = "new"
      /\ list' = list_add_tail(list, prio[u], u)
      /\ onrq' = [onrq EXCEPT ![u] = TRUE]
      /\ nrp' = nrp + 1 /\ sched_need' \in BOOLEAN /\ BecomeImmediate(u)
      /\ alive' = alive \cup {u} /\ task_count' = task_count + 1
      /\ pc' = [pc EXCEPT ![u] = "run"]
      /\ UNCHANGED <<nwp, current, prio, hot, masked, thr, crashed, api, hnd, io, lk>>
  BY ZenonT(30) DEF spawn_task, Calls, wakeup_new_task, Goto
<1>2. /\ u \in Task \ {Idle} /\ u \notin alive /\ hnd = "none" /\ u # current
      /\ "none" \notin Fd /\ Idle \in Task
  BY <1>1, TaskAssumption, ProgAssumption, ZenonT(30) DEF User, Lifecycle, At
<1>3. list \in Lists /\ Once(list) /\ prio[u] \in Prio /\ prio[u] \in ListId
  BY <1>2 DEF TypeOK, Lists, QueuesConsistent, LinkedOnce, Once, ListId
<1>4. \A l \in ListId : ~Contains(list[l], u)
  BY <1>2 DEF QueuesConsistent, FreedUnlinked, Linked
<1>5. Moved(list, list', u, prio[u])
  BY <1>1, <1>2, <1>3, <1>4, ListAddTail, Zenon
<1>6. QueuesConsistent'
  BY <1>1, <1>2, <1>3, <1>5, SpawnStep, Zenon
<1>7. pc' \in [Task -> Label] /\ pc'[u] = "run" /\ \A v \in Task \ {u} : pc'[v] = pc[v]
  BY <1>1, <1>2 DEF TypeOK, Label
<1>8. TypeOK'
  <2>1. list' \in [ListId -> Seq(Task)]
    BY <1>5, Zenon DEF Moved, Lists
  <2>2. nxt_imm_task' \in Task \cup {None}
    BY <1>1, <1>2, ImmediateStep, Zenon
  <2>3. onrq' \in [Task -> BOOLEAN] /\ alive' \in SUBSET Task
    BY <1>1, <1>2, Zenon DEF TypeOK
  <2>4. nrp' \in Int /\ task_count' \in Int
    BY <1>1 DEF TypeOK
  <2>5. UNCHANGED <<event, armed, irq, fd, avail, lockv, reg, owner, holders>>
    BY <1>1 DEF api, io, lk
  <2> QED
    BY <1>1, <1>7, <2>1, <2>2, <2>3, <2>4, <2>5, Zenon DEF TypeOK
<1>9. Lifecycle'
  <2>1. UNCHANGED <<current, hnd, armed, fd>> /\ current \in Task /\ alive \subseteq Task
    BY <1>1 DEF api, io, TypeOK
  <2> QED
    BY <1>1, <1>2, <1>7, <2>1, Zenon DEF Lifecycle
<1> QED
  BY <1>6, <1>8, <1>9

-----------------------------------------------------------------------------
(* Calls of schedule() from task code, from IDLE and from the tick.        *)
LEMMA ScheduleSteps ==
  ASSUME IInv, NEW t \in Task,
         CallSchedule(t) \/ cpu_yield(t) \/ idle_task \/ TickEnd
  PROVE  IInv'
<1> USE DEF IInv
<1>1. /\ UNCHANGED <<onrq, nrp, nwp, pool, api, io, lk>>
      /\ hnd' = "none"
      /\ schedule \/ UNCHANGED <<list, cpu, crashed>>
  BY Zenon DEF CallSchedule, cpu_yield, idle_task, TickEnd, At, Calls
<1>2. UNCHANGED <<alive, armed, fd>>
  BY <1>1 DEF pool, api, io
<1>3. /\ QueuesConsistent'
      /\ list' \in [ListId -> Seq(Task)]
      /\ current' \in Task
      /\ current' = current \/ current' \in alive
      /\ prio' \in [Task -> Prio] /\ hot' \in SUBSET Task
      /\ nxt_imm_task' \in Task \cup {None}
      /\ sched_need' \in BOOLEAN /\ masked' \in BOOLEAN /\ crashed' \in BOOLEAN
  <2>1. CASE schedule
    BY <1>1, <1>2, <2>1, ScheduleStep, Zenon
  <2>2. CASE UNCHANGED <<list, cpu, crashed>>
    <3>1. QueuesConsistent'
      BY <1>1, <1>2, <2>2, SameStep
    <3> QED
      BY <2>2, <3>1, Zenon DEF TypeOK, cpu
  <2> QED
    BY <1>1, <2>1, <2>2
<1>4. \/ pc' = pc
      \/ /\ current = t /\ pc[t] \in DOMAIN Ret
         /\ pc' = [pc EXCEPT ![t] = Ret[pc[t]]]
  BY DEF CallSchedule, cpu_yield, idle_task, TickEnd, At, Goto
<1>5. /\ pc' \in [Task -> Label]
      /\ \A u \in Task : pc'[u] \in {"new", "exited", "dead"} <=> pc[u] \in {"new", "exited",
          "dead"}
      /\ pc'[Idle] = "idle"
      /\ \A u \in Task : pc'[u] \in {"io_read", "io_wait", "io_sched"} => fd[u] \in Fd
      /\ pc'[current] \notin {"new", "dead"}
  <2>1. CASE pc' = pc
    BY <2>1, Zenon DEF TypeOK, Lifecycle
  <2>2. CASE /\ current = t /\ pc[t] \in DOMAIN Ret
             /\ pc' = [pc EXCEPT ![t] = Ret[pc[t]]]
    <3> DEFINE l == pc[t]
               r == Ret[l]
    <3>1. /\ l \notin {"new", "dead", "idle"}
          /\ r \in Label /\ r \notin {"new", "dead", "idle"}
          /\ r = "exited" <=> l = "exited"
          /\ r \in {"io_read", "io_wait", "io_sched"} => l = "io_sched"
      BY <2>2, RetLabel, Zenon
    <3> HIDE DEF r
    <3>2. pc' = [pc EXCEPT ![t] = r] /\ pc \in [Task -> Label] /\ t # Idle
      BY <2>2, <3>1, Zenon DEF TypeOK, Lifecycle, r
    <3>3. pc'[t] = r /\ \A u \in Task \ {t} : pc'[u] = pc[u]
      BY <3>2
    <3> QED
      BY <2>2, <3>1, <3>2, <3>3, TaskAssumption, Zenon DEF Lifecycle
  <2> QED
    BY <1>4, <2>1, <2>2
<1>6. TypeOK'
  BY <1>1, <1>3, <1>5, Zenon DEF TypeOK, pool, api, io, lk
<1>7. Lifecycle'
  BY <1>1, <1>2, <1>3, <1>5, ProgAssumption, Zenon DEF Lifecycle
<1> QED
  BY <1>3, <1>6, <1>7

(* Ends of tasks.                                                          *)
LEMMA ExitSteps ==
  ASSUME IInv, NEW t \in Task,
         clone_thread_exit(t) \/ \E u \in User : kill_task(t, u)
  PROVE  IInv'
<1> USE DEF IInv
<1>1. PICK p \in User, l \in {"exited", "dead"} :
        /\ task_exit(p) /\ pc' = [pc EXCEPT ![p] = l]
        /\ l = "dead" => p # current
        /\ hnd = "none"
        /\ UNCHANGED <<current, nxt_imm_task, sched_need, hot, masked, thr, crashed,
                       api, hnd, io, lk>>
  BY ZenonT(30) DEF clone_thread_exit, kill_task, Calls, At, Goto
<1>2. p \in Task \ {Idle, Main, Sirq} /\ "none" \notin Fd /\ current \in Task
      /\ alive \subseteq Task
  BY TaskAssumption, ProgAssumption, Zenon DEF User, TypeOK
<1>3. list \in Lists /\ Once(list)
  BY Zenon DEF TypeOK, Lists, QueuesConsistent, LinkedOnce, Once
<1>4. Removed(list, list', p)
  BY <1>1, <1>2, <1>3, ListDel DEF task_exit
<1>5. QueuesConsistent'
  BY <1>1, <1>2, <1>4, ExitStep, ZenonT(30) DEF task_exit
<1>6. pc' \in [Task -> Label] /\ pc'[p] = l /\ \A v \in Task \ {p} : pc'[v] = pc[v]
  <2>1. l \in Label
    BY Zenon DEF Label, Ret
  <2> QED
    BY <1>1, <1>2, <2>1 DEF TypeOK
<1>7. TypeOK'
  <2>1. list' \in [ListId -> Seq(Task)]
    BY <1>4 DEF Removed, Lists
  <2>2. /\ onrq' \in [Task -> BOOLEAN] /\ alive' \in SUBSET Task
        /\ prio' \in [Task -> Prio] /\ task_count' \in Int /\ UNCHANGED <<nrp, nwp>>
    <3>1. 0 \in Prio
      BY PrioAssumption DEF Prio
    <3>2. /\ onrq' = [onrq EXCEPT ![p] = FALSE] /\ alive' = alive \ {p}
          /\ prio' = [prio EXCEPT ![p] = 0] /\ task_count' = task_count - 1
          /\ UNCHANGED <<nrp, nwp>>
      BY <1>1 DEF task_exit
    <3>3. /\ onrq \in [Task -> BOOLEAN] /\ alive \in SUBSET Task
          /\ prio \in [Task -> Prio] /\ task_count \in Int
      BY Zenon DEF TypeOK
    <3>4. task_count' \in Int
      BY <3>2, <3>3
    <3>6. prio' \in [Task -> Prio]
      <4>1. prio' = [prio EXCEPT ![p] = 0] /\ prio \in [Task -> Prio]
        BY <3>2, <3>3
      <4> QED
        BY <3>1, <4>1, Zenon
    <3>5. onrq' \in [Task -> BOOLEAN] /\ alive' \in SUBSET Task
      BY <3>2, <3>3, Zenon
    <3> QED
      BY <3>2, <3>4, <3>5, <3>6
  <2> QED
    BY <1>1, <1>6, <2>1, <2>2, Zenon DEF TypeOK, api, io, lk
<1>8. Lifecycle'
  <2>1. UNCHANGED <<current, hnd, armed, fd>> /\ alive' = alive \ {p}
    BY <1>1 DEF api, io, task_exit
  <2> QED
    BY <1>1, <1>2, <1>6, <2>1, TaskAssumption, Zenon DEF Lifecycle
<1> QED
  BY <1>5, <1>7, <1>8

(* softirqd outside the timer handlers.                                    *)
LEMMA SoftirqSteps ==
  ASSUME IInv, SiScan \/ SiDone \/ SiAdd
  PROVE  IInv'
<1> USE DEF IInv
<1>0. {"si_act", "si_add", "si_sched"} \subseteq Label /\ Sirq \in Task
  BY TaskAssumption, Zenon DEF Label, Ret
<1>1. PICK k \in {"si_scan", "si_act", "si_add"}, l \in {"si_act", "si_add", "si_sched"} :
        At(Sirq, k) /\ Goto(Sirq, l)
  BY DEF SiScan, SiDone, SiAdd
<1>2. Sirq \in alive \ {Idle} /\ hnd = "none" /\ current = Sirq
  BY <1>0, <1>1, AtAlive, Zenon
<1>3. UNCHANGED <<alive, current, hnd, armed, fd>>
  BY DEF SiScan, SiDone, SiAdd, kernel, cpu, pool, api, io
<1>4. Lifecycle' /\ pc' \in [Task -> Label]
  BY <1>0, <1>1, <1>2, <1>3, LocalLife, Zenon
<1>5. CASE SiScan \/ SiDone
  <2>1. QueuesConsistent'
    BY <1>3, <1>5, SameStep DEF SiScan, SiDone, kernel, queues
  <2>2. TypeOK'
    BY <1>4, <1>5, Zenon DEF TypeOK, SiScan, SiDone, kernel, queues, cpu, pool, api, io, lk
  <2> QED
    BY <1>4, <2>1, <2>2, Zenon
<1>6. CASE SiAdd
  <2>1. add_task_to_wait_Q(Sirq) /\ UNCHANGED <<cpu, pool, crashed, api, hnd, io, lk>>
    BY <1>6 DEF SiAdd
  <2>2. /\ QueuesConsistent'
        /\ list' \in [ListId -> Seq(Task)] /\ onrq' \in [Task -> BOOLEAN]
        /\ nrp' \in Int /\ nwp' \in Int
    BY <1>2, <1>3, <2>1, WaitStep, Zenon
  <2>3. TypeOK'
    BY <1>4, <2>1, <2>2, ZenonT(60) DEF TypeOK, cpu, pool, api, io, lk
  <2> QED
    BY <1>4, <2>2, <2>3
<1> QED
  BY <1>5, <1>6, Zenon

(* SIGALRM before its schedule(), and the arrival of SIGIO.                *)
LEMMA SignalSteps ==
  ASSUME IInv,
         \/ \E pending \in BOOLEAN, used \in Usage : Tick(pending, used)
         \/ \E f \in Fd : SigIo(f)
  PROVE  IInv'
<1> USE DEF IInv
<1>0. {"none", "tick"} \cap Fd = {}
  BY ProgAssumption
<1>1. ASSUME NEW pending \in BOOLEAN, NEW used \in Usage, Tick(pending, used)
      PROVE  IInv'
  <2>1. /\ IF pending
           THEN MoveToRunQ(Sirq) /\ BecomeImmediate(Sirq)
           ELSE UNCHANGED <<queues, nxt_imm_task>>
        /\ irq' = (irq \/ pending)
        /\ account_task_time_stats(used)
        /\ sched_need' \in BOOLEAN
        /\ hnd' = "tick"
        /\ UNCHANGED <<current, prio, masked, pool, crashed, pc, event, armed, io, lk>>
    BY <1>1 DEF Tick
  <2>2. alive' = alive /\ Sirq \in alive \ {Idle} /\ Sirq \in Task
    <3>1. alive' = alive
      BY <2>1 DEF pool
    <3>2. Sirq \in alive /\ Sirq # Idle /\ Sirq \in Task
      BY TaskAssumption, Zenon DEF Lifecycle
    <3> QED
      BY <3>1, <3>2
  <2>3. /\ QueuesConsistent'
        /\ list' \in [ListId -> Seq(Task)] /\ onrq' \in [Task -> BOOLEAN]
        /\ nrp' \in Int /\ nwp' \in Int
        /\ nxt_imm_task' \in Task \cup {None}
    <3>1. CASE pending
      BY <2>1, <2>2, <3>1, WakeStep, ImmediateStep, Zenon
    <3>2. CASE ~pending
      <4>1. UNCHANGED <<queues, nxt_imm_task>>
        BY <2>1, <3>2, Zenon
      <4> QED
        BY <2>2, <4>1, SameStep, Zenon DEF queues, TypeOK
    <3> QED
      BY <3>1, <3>2
  <2>4. TypeOK'
    <3>1. hot' \in SUBSET Task
      BY <2>1 DEF TypeOK, account_task_time_stats
    <3>2. irq' \in BOOLEAN
      BY <2>1
    <3> QED
      BY <2>1, <2>3, <3>1, <3>2, Zenon DEF TypeOK, pool, io, lk
  <2>5. Lifecycle'
    BY <1>0, <2>1, <2>2, Zenon DEF Lifecycle, io
  <2> QED
    BY <2>3, <2>4, <2>5, Zenon
<1>2. ASSUME NEW f \in Fd, SigIo(f)
      PROVE  IInv'
  <2>1. QueuesConsistent'
    BY <1>2, SameStep, ZenonT(30) DEF SigIo, kernel, queues, pool
  <2>2. TypeOK'
    <3>1. avail' \in [Fd -> BOOLEAN] /\ hnd' \in {"none", "tick"} \cup Fd
      BY <1>2 DEF SigIo, TypeOK
    <3> QED
      BY <1>2, <3>1, ZenonT(30) DEF SigIo, TypeOK, kernel, queues, cpu, pool, api, lk
  <2>3. Lifecycle'
    BY <1>0, <1>2, Zenon DEF SigIo, Lifecycle, kernel, queues, cpu, pool, api
  <2> QED
    BY <2>1, <2>2, <2>3
<1> QED
  BY <1>1, <1>2

-----------------------------------------------------------------------------
(* tmlib_init leaves a state in which the invariant holds.                 *)
LEMMA InitIInv ==
  Init => IInv
<1> SUFFICES ASSUME Init PROVE IInv
  OBVIOUS
<1>1. /\ list \in [ListId -> Seq(Task)]
      /\ \A l \in ListId : list[l] = IF l = 1 THEN <<Sirq>> ELSE <<>>
  <2>1. <<Sirq>> \in Seq(Task) /\ <<>> \in Seq(Task)
    BY TaskAssumption
  <2> QED
    BY <2>1, PrioAssumption DEF Init, tmlib_init
<1>2. 1 \in Prio /\ 1 \in ListId
  BY PrioAssumption, SMTT(60) DEF Prio, ListId
<1>3. TypeOK
  <2>1. pc \in [Task -> Label]
    BY DEF Init, Label
  <2>4. onrq \in [Task -> BOOLEAN]
    BY DEF Init, tmlib_init
  <2>2. /\ prio \in [Task -> Prio] /\ hot \in SUBSET Task
        /\ nrp \in Int /\ nwp \in Int /\ task_count \in Int
        /\ alive \in SUBSET Task /\ current \in Task
        /\ nxt_imm_task \in Task \cup {None}
        /\ sched_need \in BOOLEAN /\ masked \in BOOLEAN /\ crashed \in BOOLEAN
    <3>1. /\ prio = BasePrio /\ hot = {} /\ nrp = 2 /\ nwp = 0 /\ task_count = 2
          /\ alive = {Idle, Main, Sirq} /\ current = Main /\ nxt_imm_task = Sirq
          /\ sched_need = FALSE /\ masked = FALSE /\ crashed = FALSE
      BY DEF Init, tmlib_init
    <3>2. hot \in SUBSET Task /\ alive \in SUBSET Task
      BY <3>1, TaskAssumption, Zenon
    <3>3. prio \in [Task -> Prio]
      BY <3>1, PrioAssumption
    <3>4. sched_need \in BOOLEAN /\ masked \in BOOLEAN /\ crashed \in BOOLEAN
      BY <3>1, Zenon
    <3>5. nrp \in Int /\ nwp \in Int /\ task_count \in Int
      BY <3>1
    <3> QED
      BY <3>1, <3>2, <3>3, <3>4, <3>5, TaskAssumption, Zenon
  <2>5. event \in [Task -> BOOLEAN] /\ avail \in [Fd -> BOOLEAN]
    BY DEF Init
  <2>6. thr \in [Task -> Nat]
    BY DEF Init, tmlib_init
  <2>3. /\ armed \in [Task -> Nat]
        /\ irq \in BOOLEAN /\ hnd \in {"none", "tick"} \cup Fd
        /\ fd \in [Task -> Fd \cup {None}]

                   /\ lockv \in Int /\ reg \in [Task -> Int] /\ owner \in Task \cup {None} /\ holders \in SUBSET Task
    <3>1. /\ armed = [t \in Task |-> 0] /\ irq = FALSE /\ hnd = "none"
          /\ fd = [t \in Task |-> None] /\ lockv = 0 /\ reg = [t \in Task |-> 0]
          /\ owner = None /\ holders = {}
      BY DEF Init
    <3>2. holders \in SUBSET Task
      BY <3>1, Zenon
    <3>3. irq \in BOOLEAN /\ hnd \in {"none", "tick"} \cup Fd /\ owner \in Task \cup {None}
      BY <3>1, Zenon
    <3>4. armed \in [Task -> Nat] /\ fd \in [Task -> Fd \cup {None}]
          /\ lockv \in Int /\ reg \in [Task -> Int]
      BY <3>1
    <3> QED
      BY <3>2, <3>3, <3>4
  <2> QED
    BY <1>1, <2>1, <2>2, <2>3, <2>4, <2>5, <2>6 DEF TypeOK
<1>4. \A t \in Task, l \in ListId : Linked(t, l) <=> t = Sirq /\ l = 1
  <2>1. \A t \in Task : Contains(<<Sirq>>, t) <=> t = Sirq
    BY DEF Contains
  <2>2. \A t \in Task : ~Contains(<<>>, t)
    BY DEF Contains
  <2> QED
    BY <1>1, <2>1, <2>2 DEF Linked
<1>5. LinkedOnce
  BY <1>1 DEF LinkedOnce
<1>6. OnrqAgrees
  BY <1>2, <1>4, TaskAssumption, ChanAssumption, Zenon
     DEF OnrqAgrees, OnRunList, Init, tmlib_init, ListId
<1>7. FreedUnlinked
  BY <1>4, TaskAssumption, Zenon DEF FreedUnlinked, Init, tmlib_init
<1>8. Lifecycle
  BY TaskAssumption, ProgAssumption DEF Lifecycle, Init, tmlib_init
<1> QED
  BY <1>3, <1>5, <1>6, <1>7, <1>8 DEF IInv, QueuesConsistent

(* Every step of the program keeps the invariant.                          *)
LEMMA NextIInv ==
  IInv /\ [Next]_vars => IInv'
<1> SUFFICES ASSUME IInv, [Next]_vars PROVE IInv'
  OBVIOUS
<1>1. CASE UNCHANGED vars
  <2>1. QueuesConsistent'
    BY <1>1, SameStep DEF IInv, vars, kernel, queues, pool
  <2>2. TypeOK'
    BY <1>1, ZenonT(30) DEF IInv, TypeOK, vars, kernel, queues, cpu, pool, api, io, lk
  <2>3. Lifecycle'
    BY <1>1, Zenon DEF IInv, Lifecycle, vars, kernel, queues, cpu, pool, api, io
  <2> QED
    BY <2>1, <2>2, <2>3 DEF IInv
<1>2. ASSUME NEW t \in Task, TaskStep(t)
      PROVE  IInv'
  <2>1. CASE CallSchedule(t)
    BY <2>1, ScheduleSteps
  <2>2. CASE SleepAdd(t) \/ EvAdd(t)
    BY <2>2, ParkSteps
  <2>3. CASE IoWait(t) \/ LkWait(t)
    BY <2>3, ChanSteps
  <2>4. CASE \/ EvTest(t) \/ EvReset(t) \/ IoRead(t) \/ LkTest(t)
             \/ LkLoad(t) \/ LkStore(t) \/ LkChk(t) \/ LkOwn(t)
             \/ UlLoad(t) \/ UlStore(t) \/ UlChk(t) \/ UlOwn(t)
    BY <2>4, QuietSteps
  <2>5. CASE UlWake(t)
    BY <2>5, WakeSteps, Zenon
  <2> QED
    BY <1>2, <2>1, <2>2, <2>3, <2>4, <2>5 DEF TaskStep
<1>3. ASSUME NEW t \in Task, Call(t)
      PROVE  IInv'
  <2>1. CASE \E u \in User : spawn_task(t, u)
    BY <2>1, SpawnSteps
  <2>2. CASE cpu_yield(t)
    BY <2>2, ScheduleSteps
  <2>3. CASE sleep_forever(t)
    BY <2>3, ParkSteps
  <2>4. CASE \/ SleepArm(t) \/ wait_for_event(t) \/ lock(t) \/ unlock(t)
             \/ \E f \in Fd : tm_read(t, f)
    BY <2>4, QuietSteps
  <2>5. CASE \E u \in Task : post_event(t, u)
    BY <2>5, WakeSteps
  <2>6. CASE clone_thread_exit(t) \/ \E u \in User : kill_task(t, u)
    BY <2>6, ExitSteps
  <2> QED
    BY <1>3, <2>1, <2>2, <2>3, <2>4, <2>5, <2>6 DEF Call
<1>4. CASE softirqd
  <2>1. CASE SiScan \/ SiDone \/ SiAdd
    BY <2>1, SoftirqSteps
  <2>2. CASE \E u \in Task : SiFire(u)
    BY <2>2, WakeSteps
  <2> QED
    BY <1>4, <2>1, <2>2 DEF softirqd
<1>5. CASE idle_task
  BY <1>5, ScheduleSteps, TaskAssumption
<1>6. CASE tick_tmr_intr
  <2>1. CASE TickEnd
    BY <2>1, ScheduleSteps, TaskAssumption
  <2>2. CASE \E pending \in BOOLEAN, used \in Usage : Tick(pending, used)
    BY <2>2, SignalSteps
  <2> QED
    BY <1>6, <2>1, <2>2 DEF tick_tmr_intr
<1>7. CASE io_interrupt
  <2>1. CASE \E f \in Fd : SigIo(f)
    BY <2>1, SignalSteps
  <2>2. CASE \E f \in Fd : wake_io_task(f)
    BY <2>2, WakeSteps, TaskAssumption
  <2> QED
    BY <1>7, <2>1, <2>2 DEF io_interrupt
<1>8. CASE Dead
  BY <1>1, <1>8 DEF Dead
<1> QED
  BY <1>1, <1>2, <1>3, <1>4, <1>5, <1>6, <1>7, <1>8 DEF Next

(* The inductive invariant holds of every reachable state.                 *)
THEOREM Invariance ==
  Spec => []IInv
BY InitIInv, NextIInv, PTL DEF Spec

(* Type correctness of the SFS model, for all constants.                   *)
THEOREM TypeCorrect ==
  Spec => []TypeOK
<1>1. IInv => TypeOK
  BY DEF IInv
<1> QED
  BY Invariance, <1>1, PTL

(* The run queues, the wait queue, the descriptor queues and the lock      *)
(* queue never share a task, never hold one twice or one that was freed,   *)
(* and the flag onrq says on which kind of list a task is: whatever the    *)
(* program calls and whenever SIGALRM and SIGIO arrive between calls.      *)
THEOREM QueuesAlwaysConsistent ==
  Spec => []QueuesConsistent
<1>1. IInv => QueuesConsistent
  BY DEF IInv
<1> QED
  BY Invariance, <1>1, PTL

(* A task is allocated from its spawn to its exit, and the CPU is on an    *)
(* allocated task or on one that is about to leave for good.               *)
THEOREM LifecycleHolds ==
  Spec => []Lifecycle
<1>1. IInv => Lifecycle
  BY DEF IInv
<1> QED
  BY Invariance, <1>1, PTL

-----------------------------------------------------------------------------
(* The lock.  OwnerIsPastLock is inductive together with TypeOK.           *)

(* A step that leaves owner and holders alone and takes no task out of     *)
(* unlock() keeps the property.                                            *)
LEMMA OwnerSame ==
  ASSUME OwnerIsPastLock, UNCHANGED <<owner, holders>>,
         \A u \in Task : /\ pc[u] \in {"ul_load", "ul_store", "ul_chk", "ul_own", "dead"}
                        => pc'[u] \in {"ul_load", "ul_store", "ul_chk", "ul_own", "dead"},
         owner \in Task \cup {None}
  PROVE  OwnerIsPastLock'
BY DEF OwnerIsPastLock

(* Every step keeps it.                                                    *)
LEMMA OwnerStep ==
  TypeOK /\ OwnerIsPastLock /\ [Next]_vars => OwnerIsPastLock'
<1> DEFINE U == {"ul_load", "ul_store", "ul_chk", "ul_own", "dead"}
<1> SUFFICES ASSUME TypeOK, OwnerIsPastLock, [Next]_vars
             PROVE  OwnerIsPastLock'
  OBVIOUS
<1>0. pc \in [Task -> Label] /\ owner \in Task \cup {None}
  BY DEF TypeOK
<1>1. ASSUME UNCHANGED <<pc, lk>>
      PROVE  OwnerIsPastLock'
  BY <1>1 DEF OwnerIsPastLock, lk
<1>2. ASSUME NEW t \in Task, NEW k, NEW l, pc[t] = k, pc' = [pc EXCEPT ![t] = l],
             UNCHANGED <<owner, holders>>, k \notin U \/ l \in U
      PROVE  OwnerIsPastLock'
  BY <1>0, <1>2, OwnerSame, Zenon
<1>3. ASSUME NEW t \in Task, TaskStep(t)
      PROVE  OwnerIsPastLock'
  <2>1. CASE CallSchedule(t)
    <3>1. pc[t] \notin U
      BY <2>1, Zenon DEF CallSchedule, Ret
    <3> QED
      BY <1>2, <2>1, <3>1, ZenonT(30) DEF CallSchedule, Goto, lk
  <2>2. CASE \/ SleepAdd(t) \/ EvTest(t) \/ EvAdd(t) \/ EvReset(t) \/ IoRead(t)
             \/ IoWait(t) \/ LkTest(t) \/ LkWait(t)
    <3>1. PICK l : pc' = [pc EXCEPT ![t] = l] /\ pc[t] \notin U
      BY <2>2, Zenon DEF SleepAdd, EvTest, EvAdd, EvReset, IoRead, IoWait, LkTest, LkWait, At,
          Goto
    <3>2. UNCHANGED <<owner, holders>>
      BY <2>2, ZenonT(30) DEF SleepAdd, EvTest, EvAdd, EvReset, IoRead, IoWait, LkTest, LkWait,
          lk
    <3> QED
      BY <1>2, <3>1, <3>2, ZenonT(30)
  <2>3. CASE LkLoad(t) \/ LkStore(t) \/ LkChk(t) \/ UlLoad(t) \/ UlStore(t) \/ UlChk(t)
    <3>1. PICK l : pc' = [pc EXCEPT ![t] = l] /\ (pc[t] \notin U \/ l \in U)
      BY <2>3, Zenon DEF LkLoad, LkStore, LkChk, UlLoad, UlStore, UlChk, Load, Store, At, Goto
    <3>2. UNCHANGED <<owner, holders>>
      BY <2>3, Zenon DEF LkLoad, LkStore, LkChk, UlLoad, UlStore, UlChk, Load, Store, lk
    <3> QED
      BY <1>2, <3>1, <3>2, ZenonT(30)
  <2>4. CASE LkOwn(t)
    BY <2>4, Zenon DEF LkOwn, OwnerIsPastLock
  <2>5. CASE UlOwn(t)
    BY <2>5, Zenon DEF UlOwn, OwnerIsPastLock
  <2>6. CASE UlWake(t)
    BY <1>2, <2>6, Zenon DEF UlWake, At, Goto, lk
  <2> QED
    BY <1>3, <2>1, <2>2, <2>3, <2>4, <2>5, <2>6 DEF TaskStep
<1>4. ASSUME NEW t \in Task, Call(t)
      PROVE  OwnerIsPastLock'
  <2>1. CASE \E u \in User : spawn_task(t, u)
    <3>1. PICK u \in User : spawn_task(t, u)
      BY <2>1, Zenon
    <3> QED
      BY <1>2, <3>1, Zenon DEF spawn_task, Goto, lk, User
  <2>2. CASE cpu_yield(t) \/ \E u \in Task : post_event(t, u)
    BY <1>1, <2>2, ZenonT(60) DEF cpu_yield, post_event
  <2>3. CASE \/ sleep_forever(t) \/ SleepArm(t) \/ wait_for_event(t) \/ lock(t)
             \/ clone_thread_exit(t) \/ \E f \in Fd : tm_read(t, f)
    <3>1. PICK l : pc' = [pc EXCEPT ![t] = l] /\ pc[t] \notin U
      BY <2>3, ZenonT(30) DEF sleep_forever, SleepArm, wait_for_event, lock, clone_thread_exit,
                  tm_read, Calls, At, Goto
    <3>2. UNCHANGED <<owner, holders>>
      BY <2>3 DEF sleep_forever, SleepArm, wait_for_event, lock, clone_thread_exit,
                  tm_read, lk
    <3> QED
      BY <1>2, <3>1, <3>2, Zenon
  <2>4. CASE unlock(t)
    <3>1. /\ owner = t /\ UNCHANGED owner /\ pc' = [pc EXCEPT ![t] = "ul_load"]
      BY <2>4 DEF unlock, Goto
    <3> QED
      BY <1>0, <3>1 DEF OwnerIsPastLock
  <2>5. CASE \E u \in User : kill_task(t, u)
    <3>1. PICK u \in User : kill_task(t, u)
      BY <2>5
    <3> QED
      BY <1>2, <3>1, Zenon DEF kill_task, Goto, lk, User
  <2> QED
    BY <1>4, <2>1, <2>2, <2>3, <2>4, <2>5 DEF Call
<1>5. CASE softirqd
  <2>1. CASE SiScan \/ SiDone \/ SiAdd
    <3>0. Sirq \in Task
      BY TaskAssumption
    <3>1. PICK l : pc' = [pc EXCEPT ![Sirq] = l] /\ pc[Sirq] \notin U
      BY <2>1 DEF SiScan, SiDone, SiAdd, At, Goto
    <3>2. UNCHANGED <<owner, holders>>
      BY <2>1 DEF SiScan, SiDone, SiAdd, lk
    <3> QED
      BY <1>2, <3>0, <3>1, <3>2, Zenon
  <2>2. CASE \E u \in Task : SiFire(u)
    BY <1>1, <2>2 DEF SiFire
  <2> QED
    BY <1>5, <2>1, <2>2 DEF softirqd
<1>6. CASE idle_task \/ tick_tmr_intr \/ io_interrupt
  BY <1>1, <1>6, Zenon DEF idle_task, tick_tmr_intr, io_interrupt, Tick, TickEnd, SigIo,
                    wake_io_task
<1>7. CASE Dead \/ UNCHANGED vars
  BY <1>1, <1>7 DEF Dead, vars
<1> QED
  BY <1>3, <1>4, <1>5, <1>6, <1>7 DEF Next

(* unlock() succeeds only for a task whose lock() has returned.            *)
THEOREM OwnerAlwaysPastLock ==
  Spec => []OwnerIsPastLock
<1>1. Init => OwnerIsPastLock
  BY DEF Init, OwnerIsPastLock
<1> QED
  BY <1>1, OwnerStep, TypeCorrect, PTL DEF Spec

-----------------------------------------------------------------------------
(* States from which only stuttering is possible.                          *)

(* A process killed by a signal takes no further step.                     *)
LEMMA CrashedStops ==
  ASSUME crashed, [Next]_vars
  PROVE  UNCHANGED vars
<1>1. \A t \in Task : ~TaskStep(t)
  BY ZenonT(30) DEF TaskStep, CallSchedule, SleepAdd, EvTest, EvAdd, EvReset, IoRead, IoWait,
      LkTest,
         LkWait, LkLoad, LkStore, LkChk, LkOwn, UlLoad, UlStore, UlChk, UlOwn, UlWake,
         Load, Store, At
<1>2. \A t \in Task : ~Call(t)
  BY ZenonT(30) DEF Call, spawn_task, cpu_yield, SleepArm, sleep_forever, wait_for_event,
      post_event,
         tm_read, lock, unlock, clone_thread_exit, kill_task, Calls, At
<1>3. ~softirqd /\ ~idle_task /\ ~tick_tmr_intr /\ ~io_interrupt
  BY Zenon DEF softirqd, SiScan, SiFire, SiDone, SiAdd, idle_task, tick_tmr_intr, TickEnd, Tick,
         io_interrupt, SigIo, wake_io_task, At
<1> QED
  BY <1>1, <1>2, <1>3 DEF Next, Dead

(* The library runs: no switch to OS threads has been made. *)
Running == hnd \notin {"os", "back"}

(* After the switch neither task code nor a handler gets the CPU.          *)
LEMMA OsStops ==
  ASSUME ~Running, [Next]_vars
  PROVE  UNCHANGED vars
<1>0. hnd \notin {"none", "tick"} \cup Fd
  BY SwitchersAssumption DEF Running
<1>1. \A t \in Task : ~TaskStep(t)
  BY <1>0, ZenonT(30) DEF TaskStep, CallSchedule, SleepAdd, EvTest, EvAdd, EvReset, IoRead,
      IoWait,
         LkTest, LkWait, LkLoad, LkStore, LkChk, LkOwn, UlLoad, UlStore, UlChk, UlOwn,
         UlWake, Load, Store, At
<1>2. \A t \in Task : ~Call(t)
  BY <1>0, ZenonT(30) DEF Call, spawn_task, cpu_yield, SleepArm, sleep_forever, wait_for_event,
         post_event, tm_read, lock, unlock, clone_thread_exit, kill_task, Calls, At
<1>3. ~softirqd /\ ~idle_task /\ ~tick_tmr_intr /\ ~io_interrupt
  BY <1>0, Zenon DEF softirqd, SiScan, SiFire, SiDone, SiAdd, idle_task, tick_tmr_intr, TickEnd,
         Tick, io_interrupt, SigIo, wake_io_task, At
<1> QED
  BY <1>1, <1>2, <1>3 DEF Next, Dead
=============================================================================
