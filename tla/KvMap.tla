-------------------------------- MODULE KvMap --------------------------------
(***************************************************************************)
(* What a key-value store with a segment file promises: a map that only    *)
(* put and delete change, and a saved copy of it that a restart brings     *)
(* back.  Saving is not atomic: from the moment it begins until it ends    *)
(* there is no saved copy at all.                                          *)
(***************************************************************************)
CONSTANTS Key, Value,
          Absent   \* the value of a key that is not in the map

VARIABLES map, saved

Maps == [Key -> Value \cup {Absent}]
NoKeys == [k \in Key |-> Absent]

Init == map = NoKeys /\ saved = NoKeys

Put(k, v) == map' = [map EXCEPT ![k] = v] /\ UNCHANGED saved
Delete(k) == map' = [map EXCEPT ![k] = Absent] /\ UNCHANGED saved
BeginSave == saved' = NoKeys /\ UNCHANGED map
EndSave == saved' = map /\ UNCHANGED map
Restart == map' = saved /\ UNCHANGED saved

Next == \/ \E k \in Key : Delete(k) \/ \E v \in Value : Put(k, v)
        \/ BeginSave
        \/ EndSave
        \/ Restart

Spec == Init /\ [][Next]_<<map, saved>>
=============================================================================
