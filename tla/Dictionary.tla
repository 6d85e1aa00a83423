------------------------------ MODULE Dictionary ------------------------------
(***************************************************************************)
(* What a hash table promises: a partial map from keys to data, in which   *)
(* the data of a key stay where they are until the key is deleted, and no  *)
(* two keys share them.                                                    *)
(***************************************************************************)
EXTENDS Functions

CONSTANTS Keys, Places

VARIABLE data

Create(key) ==
    /\ key \notin DOMAIN data
    /\ \E place \in Places \ Range(data) :
          data' = [k \in DOMAIN data \cup {key} |->
                      IF k = key THEN place ELSE data[k]]

Delete(key) ==
    /\ key \in DOMAIN data
    /\ data' = Restrict(data, DOMAIN data \ {key})

Clear == data' = <<>>

Spec ==
    /\ data = <<>>
    /\ [][Clear \/ \E key \in Keys : Create(key) \/ Delete(key)]_data
=============================================================================
