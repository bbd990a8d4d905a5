-------------------------------- MODULE Fifo --------------------------------
(***************************************************************************)
(* What message queues promise their callers: what a queue accepts is      *)
(* handed out once, in the order it was accepted, and at most N messages   *)
(* wait in it.                                                             *)
(***************************************************************************)
EXTENDS Integers, Sequences

CONSTANTS Queue, Msg, N

VARIABLE items

Init == items = [q \in Queue |-> <<>>]

Put(q, m) == Len(items[q]) < N /\ items' = [items EXCEPT ![q] = Append(@, m)]

Get(q) == items[q] # <<>> /\ items' = [items EXCEPT ![q] = Tail(@)]

Next == \E q \in Queue : Get(q) \/ \E m \in Msg : Put(q, m)

Spec == Init /\ [][Next]_items
=============================================================================
