----------------------------- MODULE ConfigMap -----------------------------
(***************************************************************************)
(* What firmware/src/config.h promises to its callers: a map from keys to  *)
(* values that survives power loss.  One operation is in progress at a     *)
(* time.  A write may lose the OLD value of its own key before the new one *)
(* is in (the implementation deletes first), and it may be refused, but it *)
(* never disturbs another key; neither do compaction, power loss and       *)
(* start-up, which are not visible here at all.                            *)
(*                                                                         *)
(* ConfigStore implements this specification.  The promise ends, as it     *)
(* does in the code, once power was lost while the value of a new entry    *)
(* was being programmed: `torn' records that.                              *)
(***************************************************************************)
CONSTANTS Keys,     \* the configuration keys
          Values,   \* the values they can have
          NoKey,    \* no operation is in progress
          NoValue   \* the key is not in the map

VARIABLES durable,  \* the map a start-up would find now
          key,      \* key of the operation in progress, or NoKey
          value,    \* value it stores, NoValue for a deletion
          before,   \* the map when that operation began
          result,   \* outcome of the last finished operation
          torn      \* power was lost while a value was half programmed

vars == <<durable, key, value, before, result, torn>>

Init == /\ durable = [k \in Keys |-> NoValue]
        /\ before = durable
        /\ key = NoKey
        /\ value = NoValue
        /\ result = "none"
        /\ torn = FALSE

(* An operation starts; it has not touched the map yet. *)
Begin == /\ key = NoKey
         /\ key' \in Keys
         /\ value' \in Values \cup {NoValue}
         /\ before' = durable
         /\ result' = "none"
         /\ UNCHANGED <<durable, torn>>

(* A write that finds the value in place, or that cannot fit, ends at once. *)
AtOnce == /\ key = NoKey
          /\ result' \in {"stored", "refused"}
          /\ result' = "stored" => \E k \in Keys : durable[k] \in Values
          /\ UNCHANGED <<durable, key, value, before, torn>>

(* The old value of the key goes, and only that. *)
Remove == /\ key # NoKey
          /\ durable = before
          /\ durable' = [before EXCEPT ![key] = NoValue]
          /\ UNCHANGED <<key, value, before, result, torn>>

(* The new value appears, in one step. *)
Store == /\ key # NoKey
         /\ value # NoValue
         /\ durable' = [before EXCEPT ![key] = value]
         /\ UNCHANGED <<key, value, before, result, torn>>

Finish(outcome) == /\ key # NoKey
                   /\ key' = NoKey
                   /\ value' = NoValue
                   /\ before' = durable
                   /\ result' = outcome
                   /\ UNCHANGED <<durable, torn>>

(* A write that says it succeeded did. *)
Stored == Finish("stored") /\ durable = [before EXCEPT ![key] = value]

(* A write that was refused changed nothing. *)
Refused == Finish("refused") /\ durable = before

(* A deletion is complete when it returns. *)
Deleted == Finish("deleted") /\ durable = [before EXCEPT ![key] = NoValue]

(* The operation is forgotten, what it did to the map so far is not. *)
PowerLoss == /\ key' = NoKey
             /\ value' = NoValue
             /\ before' = durable
             /\ result' = "none"
             /\ torn' \in BOOLEAN
             /\ torn => torn'
             /\ UNCHANGED durable

(* Nothing is promised any more. *)
Unspecified == torn /\ torn'

Next == \/ Begin \/ AtOnce \/ Remove \/ Store
        \/ Stored \/ Refused \/ Deleted
        \/ PowerLoss \/ Unspecified

Spec == Init /\ [][Next]_vars
=============================================================================
