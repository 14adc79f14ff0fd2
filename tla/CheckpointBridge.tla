-------------------------- MODULE CheckpointBridge --------------------------
(***************************************************************************)
(* Where the checkpoint of one idempotency key lives: the S3 object of     *)
(* CheckpointStore (src/iceguard/checkpoint_store.py) and, when a durable  *)
(* context is configured, its mirror kept by DurableCheckpointBridge       *)
(* (src/iceguard/durable.py).  Of a checkpoint only the record offset is   *)
(* ever read back to a purpose (the manifest SafeWriter stores is always   *)
(* empty), so a checkpoint is its offset.  Every failure of S3 or of the   *)
(* durable context is logged and swallowed: a failed save leaves the old   *)
(* checkpoint, a failed load looks like no checkpoint.  Only a checkpoint  *)
(* that was loaded and cannot be read raises.                              *)
(***************************************************************************)
EXTENDS Integers

CONSTANTS
    UseDurable,  \* protect() was given a durable context and a store
    Keyings      \* whether jobs with a key, without one, or both exist

ASSUME BridgeAssumption == UseDurable \in BOOLEAN /\ Keyings \subseteq BOOLEAN

VARIABLES
    store,    \* offset in the S3 checkpoint object, or NoCheckpoint
    durable,  \* offset in the durable context, or NoCheckpoint
    schema,   \* what the S3 object is to this version of the program
    keyed     \* there is an idempotency key or an aws_request_id

NoCheckpoint == -1

(* An older schema version, this one, a newer one, or no checkpoint at all *)
(* (bad JSON, a required field missing).                                   *)
Schemas == {"older", "current", "newer", "malformed"}

bridgeVars == <<store, durable, schema, keyed>>

BridgeInit ==
    /\ store = NoCheckpoint
    /\ durable = NoCheckpoint
    /\ schema = "current"
    /\ keyed \in Keyings

(* CheckpointStore.save: put_object, or a failure that changes nothing.    *)
(* Without a key _resolve_idempotency_key invents a new one for every      *)
(* call, so what is saved is never found again.                            *)
SaveStore(offset, ok) ==
    /\ store' = IF ok /\ keyed THEN offset ELSE store
    /\ schema' = IF ok /\ keyed THEN "current" ELSE schema
    /\ UNCHANGED <<durable, keyed>>

(* Another deployment of the program, or somebody's hand, replaces the     *)
(* object by one of another schema version that counts the same records.   *)
Replace ==
    /\ store # NoCheckpoint
    /\ schema' \in Schemas \ {"current"}
    /\ UNCHANGED <<store, durable, keyed>>

(* mutant: the mirror keeps the highest offset it was given *)
SaveDurableHighest(offset, ok) ==
    /\ durable' = IF ok /\ offset > durable THEN offset ELSE durable
    /\ UNCHANGED <<store, schema, keyed>>

(* The second half of DurableCheckpointBridge.save.                        *)
SaveDurable(offset, ok) ==
    /\ durable' = IF ok THEN offset ELSE durable
    /\ UNCHANGED <<store, schema, keyed>>

(* migrate_checkpoint_dict upgrades an older checkpoint and refuses a      *)
(* newer one, with the CheckpointCorruptionError a malformed one gets.     *)
Readable == schema \in {"older", "current"}

(* mutant: a checkpoint that cannot be read counts as none *)
NeverRefused(storeOk) == FALSE

(* The one failure CheckpointStore.load does not swallow.                  *)
Refused(storeOk) == storeOk /\ store # NoCheckpoint /\ ~Readable

(* DurableCheckpointBridge.load: S3 first, the durable context only when   *)
(* S3 has nothing to say.                                                  *)
Loaded(storeOk, durableOk) ==
    IF storeOk /\ store # NoCheckpoint /\ Readable THEN store
    ELSE IF UseDurable /\ durableOk THEN durable
    ELSE NoCheckpoint

(* CheckpointStore.delete.                                                 *)
DeleteStore(ok) ==
    /\ store' = IF ok /\ keyed THEN NoCheckpoint ELSE store
    /\ schema' = IF ok /\ keyed THEN "current" ELSE schema
    /\ UNCHANGED <<durable, keyed>>

(* DurableCheckpointBridge.clear_durable_checkpoint.                       *)
ClearDurable(ok) ==
    /\ durable' = IF ok THEN NoCheckpoint ELSE durable
    /\ UNCHANGED <<store, schema, keyed>>

=============================================================================
