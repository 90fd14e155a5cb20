------------------------- MODULE OnDiskDurability -------------------------
(***************************************************************************)
(* The mapping files under a power failure.  save_mapping and              *)
(* delete_mapping never call sync_all or sync_data, so the return of an    *)
(* operation says nothing about the storage device: the operating system   *)
(* writes the files back when it likes, and a power failure leaves what    *)
(* was written back.  `durable` is that content, one triple at a time.     *)
(***************************************************************************)
EXTENDS OnDiskKeyInfoManager

VARIABLE durable

durableVars == <<status, key_store, disk, pc, target, payload, acked, durable>>

DurableInit == Init /\ durable = disk

(* The kernel writes the current content of the file of t to the device.   *)
WriteBack(t) ==
    /\ durable' = [durable EXCEPT ![t] = disk[t]]
    /\ UNCHANGED vars

PowerFailure ==
    /\ status' = "down"
    /\ disk' = durable
    /\ Return
    /\ UNCHANGED <<key_store, acked, durable>>

DurableNext ==
    \/ Next /\ UNCHANGED durable
    \/ \E t \in KeyTriple : WriteBack(t)
    \/ PowerFailure

DurableSpec == DurableInit /\ [][DurableNext]_durableVars

---------------------------------------------------------------------------
(* However files are lost, the service never answers from a cache that     *)
(* disagrees with the files, but for a triple whose last modification      *)
(* failed: `new` reads everything again, insert and remove do the disk     *)
(* first.                                                                  *)
CacheAgreesWithDisk ==
    status = "up" =>
        \A t \in KeyTriple : acked[t] # Unsure => key_store[t] = disk[t]

(* A mapping that reached the device after its operation completed is not  *)
(* lost until the triple is modified again.                                *)
WrittenBackIsKept ==
    [][\A t \in KeyTriple :
          (acked[t] # Unsure /\ durable[t] = acked[t] /\ acked'[t] = acked[t])
              => durable'[t] = durable[t]]_durableVars

(* The inductive invariant behind the two: the cache disagrees with a file *)
(* only where a modification is under way or has failed, a modification    *)
(* that is about to return has left its file as it will say, and a file    *)
(* that the device and the last caller agree on has not changed since it   *)
(* was written back.                                                       *)
DurableIsCurrent ==
    \A t \in KeyTriple :
        acked[t] # Unsure /\ durable[t] = acked[t] => disk[t] = durable[t]

DurableInv ==
    /\ TypeOK
    /\ durable \in [KeyTriple -> Entry \cup {Torn}]
    /\ CacheAgreesWithDisk
    /\ DurableIsCurrent
    /\ pc # "idle" => acked[target] = Unsure
    /\ pc = "commit" => disk[target] = payload
    /\ pc = "uncache" => disk[target] = NoInfo
===========================================================================
