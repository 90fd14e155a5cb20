----------------------- MODULE OnDiskKeyInfoManager -----------------------
(***************************************************************************)
(* key_info_managers/on_disk_manager/mod.rs: the key info manager that     *)
(* keeps every mapping in a file of its own, with a cache in memory that   *)
(* serves all the reads.                                                   *)
(*                                                                         *)
(* Every file system call is a step of its own, so that it may fail and so *)
(* that the process may die between two of them.  The calls run under the  *)
(* write lock of KeyInfoManagerClient: at most one modification is under   *)
(* way, and no read overlaps it.                                           *)
(***************************************************************************)
CONSTANTS KeyTriple, KeyInfo,
          NoInfo,     (* no entry in the cache, no file on disk            *)
          Torn,       (* a file whose content is not a whole KeyInfo       *)
          Unsure,     (* no operation on the triple told its last state    *)
          NoTriple    (* no modification under way                         *)

ASSUME OnDiskAssumption ==
    /\ NoInfo \notin KeyInfo
    /\ Torn \notin KeyInfo \cup {NoInfo}
    /\ Unsure \notin KeyInfo \cup {NoInfo, Torn}
    /\ NoTriple \notin KeyTriple

VARIABLES
    status,     (* "down", "up", or "failed": `new` returned an error      *)
    key_store,  (* the cache; while the process is not up, its last value  *)
    disk,       (* content of the mapping files                            *)
    pc,         (* next file system call of the modification under way     *)
    target,     (* its key triple                                          *)
    payload,    (* the KeyInfo it inserts                                  *)
    acked       (* history: mapping of a triple as the last completed      *)
                (* operation on it told the caller                         *)

vars == <<status, key_store, disk, pc, target, payload, acked>>

Entry == KeyInfo \cup {NoInfo}

TypeOK ==
    /\ status \in {"down", "up", "failed"}
    /\ key_store \in [KeyTriple -> Entry]
    /\ disk \in [KeyTriple -> Entry \cup {Torn}]
    /\ pc \in {"idle", "mkdir", "unlink", "create", "write", "commit",
               "delete", "uncache"}
    /\ target \in KeyTriple \cup {NoTriple}
    /\ payload \in Entry
    /\ acked \in [KeyTriple -> Entry \cup {Unsure}]
    /\ pc # "idle" <=> target # NoTriple
    /\ pc # "idle" => status = "up"

Init ==
    /\ status = "down"
    /\ key_store = [t \in KeyTriple |-> NoInfo]
    /\ disk = [t \in KeyTriple |-> NoInfo]
    /\ pc = "idle"
    /\ target = NoTriple
    /\ payload = NoInfo
    /\ acked = [t \in KeyTriple |-> NoInfo]

Return ==
    /\ pc' = "idle"
    /\ target' = NoTriple
    /\ payload' = NoInfo

---------------------------------------------------------------------------
(* `new`.  One file that does not deserialize is enough for an error.      *)

Start_Empty ==   \* mutant: the files are not read
    /\ status # "up"
    /\ status' = "up"
    /\ key_store' = [t \in KeyTriple |-> NoInfo]
    /\ UNCHANGED <<disk, pc, target, payload, acked>>

Start ==
    /\ status # "up"
    /\ IF \E t \in KeyTriple : disk[t] = Torn
       THEN status' = "failed" /\ UNCHANGED key_store
       ELSE status' = "up" /\ key_store' = disk
    /\ UNCHANGED <<disk, pc, target, payload, acked>>

(* The process dies, at any point of a modification, or is stopped.        *)
Crash ==
    /\ status = "up"
    /\ status' = "down"
    /\ Return
    /\ UNCHANGED <<key_store, disk, acked>>

---------------------------------------------------------------------------
(* insert: save_mapping, then the cache.                                   *)

InsertBegin(t, i) ==
    /\ status = "up"
    /\ pc = "idle"
    /\ pc' = "mkdir"
    /\ target' = t
    /\ payload' = i
    /\ acked' = [acked EXCEPT ![t] = Unsure]
    /\ UNCHANGED <<status, key_store, disk>>

Mkdir ==
    /\ pc = "mkdir"
    /\ pc' = IF disk[target] # NoInfo THEN "unlink" ELSE "create"
    /\ UNCHANGED <<status, key_store, disk, target, payload, acked>>

Unlink_Directory ==   \* mutant: the whole provider directory is removed
    /\ pc = "unlink"
    /\ disk' = [t \in KeyTriple |-> NoInfo]
    /\ pc' = "create"
    /\ UNCHANGED <<status, key_store, target, payload, acked>>

Unlink ==
    /\ pc = "unlink"
    /\ disk' = [disk EXCEPT ![target] = NoInfo]
    /\ pc' = "create"
    /\ UNCHANGED <<status, key_store, target, payload, acked>>

Create ==
    /\ pc = "create"
    /\ disk' = [disk EXCEPT ![target] = Torn]
    /\ pc' = "write"
    /\ UNCHANGED <<status, key_store, target, payload, acked>>

Write ==
    /\ pc = "write"
    /\ disk' = [disk EXCEPT ![target] = payload]
    /\ pc' = "commit"
    /\ UNCHANGED <<status, key_store, target, payload, acked>>

(* A new mapping is answered Ok(None), an overwritten one Ok(Some(old));   *)
(* in both cases the caller knows that the triple now maps to payload.     *)
InsertCommit ==
    /\ pc = "commit"
    /\ key_store' = [key_store EXCEPT ![target] = payload]
    /\ acked' = [acked EXCEPT ![target] = payload]
    /\ Return
    /\ UNCHANGED <<status, disk>>

(* remove: delete_mapping, then the cache.                                 *)

RemoveBegin(t) ==
    /\ status = "up"
    /\ pc = "idle"
    /\ pc' = "delete"
    /\ target' = t
    /\ acked' = [acked EXCEPT ![t] = Unsure]
    /\ UNCHANGED <<status, key_store, disk, payload>>

Delete_Skipped ==   \* mutant: only the cache forgets the mapping
    /\ pc = "delete"
    /\ pc' = "uncache"
    /\ UNCHANGED <<status, key_store, disk, target, payload, acked>>

Delete ==
    /\ pc = "delete"
    /\ disk' = [disk EXCEPT ![target] = NoInfo]
    /\ pc' = "uncache"
    /\ UNCHANGED <<status, key_store, target, payload, acked>>

RemoveCommit ==
    /\ pc = "uncache"
    /\ key_store' = [key_store EXCEPT ![target] = NoInfo]
    /\ acked' = [acked EXCEPT ![target] = NoInfo]
    /\ Return
    /\ UNCHANGED <<status, disk>>

(* The `?` on each file system call: the caller gets an error, the cache   *)
(* is not touched and the file stays as the calls before left it.          *)
FileSystemError ==
    /\ pc \in {"mkdir", "unlink", "create", "write", "delete"}
    /\ Return
    /\ UNCHANGED <<status, key_store, disk, acked>>

---------------------------------------------------------------------------
Next ==
    \/ Start
    \/ Crash
    \/ \E t \in KeyTriple, i \in KeyInfo : InsertBegin(t, i)
    \/ Mkdir \/ Unlink \/ Create \/ Write \/ InsertCommit
    \/ \E t \in KeyTriple : RemoveBegin(t)
    \/ Delete \/ RemoveCommit
    \/ FileSystemError

Spec == Init /\ [][Next]_vars

---------------------------------------------------------------------------
(* What a completed operation told its caller is on disk, and it is what   *)
(* the cache serves, whatever fails or crashes on the other triples and    *)
(* however often the service restarts (insert, remove and new together).   *)
AckedIsKept ==
    \A t \in KeyTriple : acked[t] # Unsure =>
        /\ disk[t] = acked[t]
        /\ status = "up" => key_store[t] = acked[t]

(* The inductive invariant behind it: an operation that is about to return *)
(* has written what it will say, and nothing is acknowledged before.       *)
AckInv ==
    /\ AckedIsKept
    /\ pc # "idle" => acked[target] = Unsure
    /\ pc = "commit" => disk[target] = payload
    /\ pc = "uncache" => disk[target] = NoInfo

(* The files and the cache together implement the abstract store: a        *)
(* triple is in doubt exactly when its file and the cache disagree.        *)
Store == INSTANCE KeyInfoStore WITH
    mapping <- key_store,
    busy <- target,
    doubt <- {t \in KeyTriple : disk[t] # key_store[t]},
    serving <- (status = "up")

StoreSpec == Store!StoreSpec

(* To the providers each operation is one step (KeyInfoManagerClient): it  *)
(* takes effect when its last call of the file system has succeeded, and   *)
(* the lock keeps readers out until the cache has followed.  An overwrite  *)
(* that has lost the old file is by then one that failed, as far as        *)
(* anybody can tell.  A file that is torn has no mapping; what a dead      *)
(* process had in its cache does not count.                                *)
Readable == [t \in KeyTriple |-> IF disk[t] = Torn THEN NoInfo ELSE disk[t]]

Published ==
    IF status # "up" THEN Readable
    ELSE [t \in KeyTriple |->
             IF pc \in {"commit", "uncache"} /\ t = target THEN Readable[t] ELSE key_store[t]]

Client == INSTANCE KeyInfoManagerClient WITH
    NoId <- NoInfo,
    key_info <- Published,
    stored <- Readable

ClientNext ==
    \/ \E t \in KeyTriple, i \in KeyInfo : Client!InsertKeyInfo(t, i)
    \/ \E t \in KeyTriple : Client!InsertKeyInfoError(t) \/ Client!RemoveKeyInfo(t)
    \/ Client!ReloadWithout({})

ClientSpec == Client!KimInit /\ [][ClientNext]_<<Published, Readable>>
===========================================================================
