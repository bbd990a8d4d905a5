-------------------------------- MODULE Map --------------------------------
(* A map from keys to data that keeps what it has: adding a key that is    *)
(* present changes nothing, and an addition may fail for want of memory.   *)
CONSTANTS Key, Data, Absent

VARIABLE m

Init == m = [k \in Key |-> Absent]

Keeps(k) == m'[k] = m[k]
Add(k, d) == m[k] = Absent /\ m'[k] = d /\ \A j \in Key \ {k} : Keeps(j)
Delete(k) == m[k] # Absent /\ m'[k] = Absent /\ \A j \in Key \ {k} : Keeps(j)
Clear == \A k \in Key : m'[k] = Absent

Next ==
  \/ \E k \in Key, d \in Data : Add(k, d)
  \/ \E k \in Key : Delete(k)
  \/ Clear

Spec == Init /\ [][Next]_m
=============================================================================
