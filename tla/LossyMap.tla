------------------------------ MODULE LossyMap ------------------------------
(***************************************************************************)
(* What a cache promises: a map that may forget.  What is put is there     *)
(* afterwards, what is there was put, and what is gone stays gone until it *)
(* is put again.                                                           *)
(***************************************************************************)
CONSTANTS Keys, Values, None

VARIABLE map

Init == map = [k \in Keys |-> None]

Forget == \A k \in Keys : map'[k] \in {map[k], None}

Put(k, v) ==
    /\ map'[k] = v
    /\ \A j \in Keys \ {k} : map'[j] \in {map[j], None}

Next ==
    /\ map' \in [Keys -> Values \cup {None}]
    /\ Forget \/ \E k \in Keys, v \in Values : Put(k, v)

Spec == Init /\ [][Next]_map
=============================================================================
