------------------------------- MODULE RbTree -------------------------------
(***************************************************************************)
(* The red-black tree of cmn/rbtree.c as the timer code uses it: timer_add *)
(* and timer_del of TIMERS/src/update.c, and beside them the functions of  *)
(* the header that it does not call (rb_replace_node, iteration, and the   *)
(* rb_augment functions, for a caller that keeps the size of each subtree).*)
(*                                                                         *)
(* A side stands for the two mirrored halves of every function: what the   *)
(* code writes for left and for right is one definition for side s.  One   *)
(* iteration of a rebalancing loop is one step.                            *)
(***************************************************************************)
EXTENDS Integers, Sequences, FiniteSets

CONSTANTS
  Node,      \* every timer
  rt,        \* rt[n]: the time a timer is placed with; several may share it
  Nil        \* NULL

ASSUME TreeAssumption == IsFiniteSet(Node) /\ rt \in [Node -> Nat] /\ Nil \notin Node

Side == {"left", "right"}
Other(s) == IF s = "left" THEN "right" ELSE "left"
Link == Node \cup {Nil}

VARIABLES
  t,         \* root, links of each side, parents, and the nodes coloured red
  size,      \* the number of nodes below and at a node, which func maintains
  pc,        \* where the caller is: "idle" outside the functions
  x, p,      \* node and parent of the loop under way
  old,       \* the node timer_del removes
  deepest,   \* what rb_augment_erase_begin returned
  elems      \* history: nodes linked and not removed

vars == <<t, size, pc, x, p, old, deepest, elems>>

NoLinks == [n \in Node |-> Nil]

Init ==
  /\ t = [root |-> Nil, ch |-> [s \in Side |-> NoLinks], par |-> NoLinks, red |-> {}]
  /\ size = [n \in Node |-> 0]
  /\ pc = "idle" /\ x = Nil /\ p = Nil /\ old = Nil /\ deepest = Nil
  /\ elems = {}

-----------------------------------------------------------------------------
(* Links.                                                                  *)

IsRed(T, n) == n # Nil /\ n \in T.red
SideOf(T, q, n) == IF T.ch["left"][q] = n THEN "left" ELSE "right"

rb_set_parent(T, n, q) == IF n = Nil THEN T ELSE [T EXCEPT !.par[n] = q]

(* c takes the place of n below q, or at the root. *)
Replace(T, q, n, c) ==
  IF q = Nil THEN [T EXCEPT !.root = c] ELSE [T EXCEPT !.ch[SideOf(T, q, n)][q] = c]

(* Mutant: the parent of the subtree that changes sides is left. *)
RotateLosesParent(T, n, s) ==
  LET up    == T.ch[Other(s)][n]
      inner == T.ch[s][up]
      T1    == [T EXCEPT !.ch[Other(s)][n] = inner, !.ch[s][up] = n]
  IN  rb_set_parent(rb_set_parent(Replace(T1, T.par[n], n, up), up, T.par[n]), n, up)

(* __rb_rotate_left (s = "left") and __rb_rotate_right: n goes down on     *)
(* side s and its child of the other side comes up.                        *)
Rotate(T, n, s) ==
  LET up    == T.ch[Other(s)][n]
      inner == T.ch[s][up]
      T1    == [T EXCEPT !.ch[Other(s)][n] = inner, !.ch[s][up] = n]
      T2    == rb_set_parent(T1, inner, n)
  IN  rb_set_parent(rb_set_parent(Replace(T2, T.par[n], n, up), up, T.par[n]), n, up)

(* From n to the end along side s. *)
Descend(T, n, s) ==
  LET f[m \in Node] == IF T.ch[s][m] = Nil THEN m ELSE f[T.ch[s][m]] IN f[n]

rb_first(T) == IF T.root = Nil THEN Nil ELSE Descend(T, T.root, "left")
rb_last(T)  == IF T.root = Nil THEN Nil ELSE Descend(T, T.root, "right")

(* Mutant: goes up one level only. *)
NeighbourOneUp(T, n, s) ==
  IF T.par[n] = n THEN Nil
  ELSE IF T.ch[s][n] # Nil THEN Descend(T, T.ch[s][n], Other(s))
  ELSE T.par[n]

(* rb_next (s = "right") and rb_prev. *)
Neighbour(T, n, s) ==
  LET up[m \in Node] ==
        IF T.par[m] # Nil /\ T.ch[s][T.par[m]] = m THEN up[T.par[m]] ELSE T.par[m]
  IN  IF T.par[n] = n THEN Nil
      ELSE IF T.ch[s][n] # Nil THEN Descend(T, T.ch[s][n], Other(s))
      ELSE up[n]

rb_next(T, n) == Neighbour(T, n, "right")
rb_prev(T, n) == Neighbour(T, n, "left")

-----------------------------------------------------------------------------
(* Insertion.                                                              *)

(* timer_add goes right among equal times; timer_tree_walk stops there. *)
Direction(a, b) == IF a < b THEN "left" ELSE "right"

(* The node below which timer_add links one with time k. *)
Place(T, k) ==
  LET f[m \in Node] ==
        LET c == T.ch[Direction(k, rt[m])][m] IN IF c = Nil THEN m ELSE f[c]
  IN  IF T.root = Nil THEN Nil ELSE f[T.root]

(* A timer with this very time, the highest in the tree. *)
timer_tree_walk(k) ==
  LET f[m \in Link] ==
        IF m = Nil THEN Nil ELSE IF rt[m] = k THEN m ELSE f[t.ch[Direction(k, rt[m])][m]]
  IN  f[t.root]

(* rb_link_node: a red leaf. *)
rb_link_node(T, n, q) ==
  LET T1 == [T EXCEPT !.par[n] = q, !.red = @ \cup {n},
                      !.ch["left"][n] = Nil, !.ch["right"][n] = Nil]
  IN  IF q = Nil THEN [T1 EXCEPT !.root = n]
      ELSE [T1 EXCEPT !.ch[Direction(rt[n], rt[q])][q] = n]

timer_add(n) ==
  /\ pc = "idle" /\ n \notin elems
  /\ t' = rb_link_node(t, n, Place(t, rt[n]))
  /\ x' = n /\ deepest' = n
  /\ elems' = elems \cup {n}
  /\ pc' = "ins"
  /\ UNCHANGED <<size, p, old>>

(* One iteration for the red node n below a red parent: the tree and the   *)
(* node to go on with.                                                     *)
InsertIteration(T, n) ==
  LET q     == T.par[n]
      g     == T.par[q]
      s     == SideOf(T, g, q)
      uncle == T.ch[Other(s)][g]
      inner == T.ch[Other(s)][q] = n
      T1    == IF inner THEN Rotate(T, q, s) ELSE T
      top   == IF inner THEN n ELSE q
  IN  IF IsRed(T, uncle)
      THEN [tree |-> [T EXCEPT !.red = (@ \ {uncle, q}) \cup {g}], node |-> g]
      ELSE [tree |-> Rotate([T1 EXCEPT !.red = (@ \ {top}) \cup {g}], g, Other(s)),
            node |-> IF inner THEN q ELSE n]

rb_insert_color ==
  /\ pc = "ins"
  /\ \/ /\ IsRed(t, t.par[x])
        /\ LET r == InsertIteration(t, x) IN t' = r.tree /\ x' = r.node
        /\ UNCHANGED pc
     \/ /\ ~IsRed(t, t.par[x])
        /\ t' = [t EXCEPT !.red = @ \ {t.root}]
        /\ pc' = "aug_ins" /\ UNCHANGED x
  /\ UNCHANGED <<size, p, old, deepest, elems>>

-----------------------------------------------------------------------------
(* Removal.                                                                *)

(* rb_erase of a node with at most one child. *)
EraseSimple(T, n, child) ==
  Replace(rb_set_parent(T, child, T.par[n]), T.par[n], n, child)

(* rb_erase of a node with two: node, the next in order, takes its place   *)
(* and colour.                                                             *)
EraseInner(T, n, node) ==
  LET child == T.ch["right"][node]
      q     == T.par[node]
      T1    == Replace(T, T.par[n], n, node)
      T2    == IF q = n THEN T1
               ELSE rb_set_parent(
                      [rb_set_parent(T1, child, q) EXCEPT
                         !.ch["left"][q] = child,
                         !.ch["right"][node] = T.ch["right"][n]],
                      T.ch["right"][n], node)
      T3    == [T2 EXCEPT !.par[node] = T.par[n], !.ch["left"][node] = T.ch["left"][n],
                          !.red = IF n \in T.red THEN @ \cup {node} ELSE @ \ {node}]
  IN  rb_set_parent(T3, T.ch["left"][n], node)

HasBoth(T, n) == T.ch["left"][n] # Nil /\ T.ch["right"][n] # Nil

(* Mutant: the deepest node is always the parent. *)
BeginAtParent(T, n) == T.par[n]

rb_augment_erase_begin(T, n) ==
  LET l == T.ch["left"][n]  r == T.ch["right"][n]
      d == rb_next(T, n)
  IN  IF HasBoth(T, n)
      THEN IF T.ch["right"][d] # Nil THEN T.ch["right"][d]
           ELSE IF T.par[d] # n THEN T.par[d] ELSE d
      ELSE IF l # Nil THEN l ELSE IF r # Nil THEN r ELSE T.par[n]

(* timer_del and rb_erase: unlinking, up to the loop of __rb_erase_color. *)
rb_erase(n) ==
  /\ pc = "idle" /\ n \in elems
  /\ LET node  == IF HasBoth(t, n) THEN Descend(t, t.ch["right"][n], "left") ELSE n
         child == IF node = n /\ t.ch["left"][n] # Nil THEN t.ch["left"][n]
                  ELSE t.ch["right"][node]
     IN  /\ t' = IF node = n THEN EraseSimple(t, n, child) ELSE EraseInner(t, n, node)
         /\ x' = child
         /\ p' = IF node # n /\ t.par[node] = n THEN node ELSE t.par[node]
         /\ pc' = IF node \in t.red THEN "clear" ELSE "era"
  /\ old' = n
  /\ deepest' = rb_augment_erase_begin(t, n)
  /\ elems' = elems \ {n}
  /\ UNCHANGED size

(* Mutant: the far nephew is not painted black. *)
EraseIterationFarRed(T, n, q) ==
  LET s      == SideOf(T, q, n)
      o      == Other(s)
      T1     == IF IsRed(T, T.ch[o][q])
                THEN Rotate([T EXCEPT !.red = (@ \ {T.ch[o][q]}) \cup {q}], q, s) ELSE T
      other  == T1.ch[o][q]
      near   == T1.ch[s][other]
      far    == T1.ch[o][other]
      T2     == IF IsRed(T1, far) THEN T1
                ELSE Rotate([T1 EXCEPT !.red = (@ \ {near}) \cup {other}], other, o)
      top    == T2.ch[o][q]
      T3     == [T2 EXCEPT !.red = (IF q \in @ THEN @ \cup {top} ELSE @ \ {top}) \ {q}]
  IN  IF ~IsRed(T1, near) /\ ~IsRed(T1, far)
      THEN [tree |-> [T1 EXCEPT !.red = @ \cup {other}], node |-> q, done |-> FALSE]
      ELSE LET T4 == Rotate(T3, q, s) IN [tree |-> T4, node |-> T4.root, done |-> TRUE]

(* One iteration for n (or NULL) below q, whose side lacks a black node.   *)
EraseIteration(T, n, q) ==
  LET s      == SideOf(T, q, n)
      o      == Other(s)
      T1     == IF IsRed(T, T.ch[o][q])
                THEN Rotate([T EXCEPT !.red = (@ \ {T.ch[o][q]}) \cup {q}], q, s) ELSE T
      other  == T1.ch[o][q]
      near   == T1.ch[s][other]
      far    == T1.ch[o][other]
      T2     == IF IsRed(T1, far) THEN T1
                ELSE Rotate([T1 EXCEPT !.red = (@ \ {near}) \cup {other}], other, o)
      top    == T2.ch[o][q]
      T3     == [T2 EXCEPT !.red = (IF q \in @ THEN @ \cup {top} ELSE @ \ {top})
                                     \ {q, T2.ch[o][top]}]
  IN  IF ~IsRed(T1, near) /\ ~IsRed(T1, far)
      THEN [tree |-> [T1 EXCEPT !.red = @ \cup {other}], node |-> q, done |-> FALSE]
      ELSE LET T4 == Rotate(T3, q, s) IN [tree |-> T4, node |-> T4.root, done |-> TRUE]

rb_erase_color ==
  /\ pc = "era"
  /\ \/ /\ ~IsRed(t, x) /\ x # t.root
        /\ LET r == EraseIteration(t, x, p) IN
           /\ t' = IF r.done THEN [r.tree EXCEPT !.red = @ \ {r.node}] ELSE r.tree
           /\ x' = r.node
           /\ p' = IF r.done THEN p ELSE r.tree.par[r.node]
           /\ pc' = IF r.done THEN "clear" ELSE "era"
     \/ /\ IsRed(t, x) \/ x = t.root
        /\ t' = [t EXCEPT !.red = @ \ {x}]
        /\ pc' = "clear" /\ UNCHANGED <<x, p>>
  /\ UNCHANGED <<size, old, deepest, elems>>

(* RB_CLEAR_NODE, with which timer_del ends. *)
RB_CLEAR_NODE ==
  /\ pc = "clear"
  /\ t' = [t EXCEPT !.par[old] = old]
  /\ x' = deepest
  /\ pc' = IF deepest = Nil THEN "free" ELSE "aug"
  /\ UNCHANGED <<size, p, old, deepest, elems>>

(* The caller frees the node; tm_calloc gives it back cleared. *)
Free ==
  /\ pc = "free"
  /\ t' = [t EXCEPT !.par[old] = Nil, !.red = @ \ {old},
                    !.ch["left"][old] = Nil, !.ch["right"][old] = Nil]
  /\ size' = [size EXCEPT ![old] = 0]
  /\ pc' = "idle" /\ x' = Nil /\ p' = Nil /\ old' = Nil /\ deepest' = Nil
  /\ UNCHANGED elems

(* rb_replace_node by a node with the same time; the victim is freed. *)
rb_replace_node(v, n) ==
  /\ pc = "idle" /\ v \in elems /\ n \notin elems /\ rt[n] = rt[v]
  /\ LET l  == t.ch["left"][v]  r == t.ch["right"][v]
         T1 == rb_set_parent(rb_set_parent(Replace(t, t.par[v], v, n), l, n), r, n)
     IN  t' = [T1 EXCEPT !.ch["left"][n] = l, !.ch["right"][n] = r, !.par[n] = t.par[v],
                         !.red = IF v \in @ THEN @ \cup {n} ELSE @ \ {n}]
  /\ size' = [size EXCEPT ![n] = size[v]]
  /\ elems' = (elems \ {v}) \cup {n}
  /\ old' = v /\ pc' = "free"
  /\ UNCHANGED <<x, p, deepest>>

-----------------------------------------------------------------------------
(* Augmentation: func recomputes the size of a node from its children's.   *)

SizeOf(S, n) == IF n = Nil THEN 0 ELSE S[n]
func(S, n) == [S EXCEPT ![n] = 1 + SizeOf(S, t.ch["left"][n]) + SizeOf(S, t.ch["right"][n])]

(* rb_augment_insert starts at a child of the new node, if it has one. *)
rb_augment_insert ==
  /\ pc = "aug_ins"
  /\ x' = IF t.ch["left"][deepest] # Nil THEN t.ch["left"][deepest]
          ELSE IF t.ch["right"][deepest] # Nil THEN t.ch["right"][deepest] ELSE deepest
  /\ pc' = "aug"
  /\ UNCHANGED <<t, size, p, old, deepest, elems>>

(* One round of rb_augment_path: func for x and then for its sibling, or   *)
(* for x again if it is a left child without one.                          *)
rb_augment_path ==
  /\ pc = "aug"
  /\ LET q   == t.par[x]
         sib == IF t.ch["left"][q] = x /\ t.ch["right"][q] # Nil
                THEN t.ch["right"][q] ELSE t.ch["left"][q]
     IN  IF q = Nil
         THEN /\ size' = func(size, x)
              /\ x' = Nil /\ p' = Nil /\ deepest' = Nil
              /\ pc' = IF old = Nil THEN "idle" ELSE "free"
         ELSE /\ size' = IF sib = Nil THEN func(size, x) ELSE func(func(size, x), sib)
              /\ x' = q
              /\ UNCHANGED <<p, deepest, pc>>
  /\ UNCHANGED <<t, old, elems>>

Next ==
  \/ \E n \in Node : timer_add(n) \/ rb_erase(n)
  \/ \E v, n \in Node : rb_replace_node(v, n)
  \/ rb_insert_color \/ rb_erase_color \/ RB_CLEAR_NODE \/ Free
  \/ rb_augment_insert \/ rb_augment_path

Spec == Init /\ [][Next]_vars

-----------------------------------------------------------------------------
(* Properties.                                                             *)

(* The nodes below n from left to right. *)
InOrder(n) ==
  LET f[m \in Link] ==
        IF m = Nil THEN <<>> ELSE f[t.ch["left"][m]] \o <<m>> \o f[t.ch["right"][m]]
  IN  f[n]

(* At every point of an insertion, a removal or a replacement, rotations   *)
(* included, the tree holds the timers that are placed, each once, in the  *)
(* order of their times, and every link has its parent pointer.            *)
TreeSorted ==
  LET s == InOrder(t.root) IN
  /\ Len(s) = Cardinality(elems) /\ {s[i] : i \in 1 .. Len(s)} = elems
  /\ \A i \in 1 .. Len(s) - 1 : rt[s[i]] <= rt[s[i + 1]]
  /\ t.root # Nil => t.par[t.root] = Nil
  /\ \A n \in elems : \A d \in Side : t.ch[d][n] # Nil => t.par[t.ch[d][n]] = n

(* Every path down the tree has the same number of black nodes, counting one *)
(* more for the link <<child, parent>> where a removal left one too few.   *)
Balanced(short) ==
  LET heights[m \in Link] ==
        IF m = Nil THEN {0}
        ELSE UNION {{h + (IF <<t.ch[d][m], m>> = short THEN 1 ELSE 0)
                       + (IF m \in t.red THEN 0 ELSE 1) : h \in heights[t.ch[d][m]]} :
                    d \in Side}
  IN  Cardinality(heights[t.root]) = 1

(* Outside the loops the tree is red-black.  In the loop of an insertion   *)
(* its one defect is that x and its parent are red, or x the root; in the  *)
(* loop of a removal every path through x has one black node too few, and  *)
(* x may be red only as the loop ends, which paints it black.              *)
RedBlack ==
  /\ Balanced(IF pc = "era" THEN <<x, p>> ELSE <<Nil, Nil>>)
  /\ \A n \in elems \cap t.red :
       n = t.root \/ IsRed(t, t.par[n]) =>
         (pc = "ins" /\ x = n) \/ (pc = "era" /\ x \in {n, t.par[n]})

(* Every time the lock of the tree is free, timer_tree_walk finds a timer  *)
(* for a time exactly when one is placed there, however equal times are    *)
(* spread by rotations; and rb_next from rb_first, or rb_prev from         *)
(* rb_last, visits every timer in order and then ends.                     *)
WalkExact ==
  pc \in {"idle", "aug_ins", "aug", "free"} =>
    LET s == InOrder(t.root) IN
    /\ \A n \in Node :
         LET w == timer_tree_walk(rt[n]) IN
         IF \E m \in elems : rt[m] = rt[n] THEN w \in elems /\ rt[w] = rt[n] ELSE w = Nil
    /\ elems # {} => rb_first(t) = s[1] /\ rb_last(t) = s[Len(s)]
    /\ \A i \in 1 .. Len(s) :
         /\ rb_next(t, s[i]) = IF i = Len(s) THEN Nil ELSE s[i + 1]
         /\ rb_prev(t, s[i]) = IF i = 1 THEN Nil ELSE s[i - 1]
    /\ pc = "aug" /\ old # Nil => rb_next(t, old) = Nil

(* rb_augment_insert and rb_augment_erase_begin with rb_augment_erase_end  *)
(* reach every node whose subtree an insertion, a removal or a rotation    *)
(* changed: when they return every stored size is exact.                   *)
SizesExact == pc = "idle" => \A n \in elems : size[n] = Len(InOrder(n))
=============================================================================
