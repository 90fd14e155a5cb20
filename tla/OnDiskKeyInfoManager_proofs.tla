-------------------- MODULE OnDiskKeyInfoManager_proofs --------------------
(***************************************************************************)
(* Theorems about the on-disk key info manager, for every set of triples   *)
(* and of key information: what it acknowledges stays, it implements the   *)
(* abstract store, and what a power failure can and cannot take.           *)
(***************************************************************************)
EXTENDS OnDiskDurability, TLAPS

LEMMA Sentinels ==
    /\ NoInfo \notin KeyInfo
    /\ Torn \notin KeyInfo /\ Torn # NoInfo
    /\ Unsure \notin KeyInfo /\ Unsure # NoInfo /\ Unsure # Torn
    /\ NoTriple \notin KeyTriple
  BY OnDiskAssumption

(* The steps that only move the modification along its file system calls.  *)
FileStep == Mkdir \/ Unlink \/ Create \/ Write \/ Delete

(* The steps that end it.                                                  *)
EndStep == InsertCommit \/ RemoveCommit \/ FileSystemError \/ Crash

LEMMA NextCases ==
  ASSUME [Next]_vars
  PROVE  \/ Start \/ FileStep \/ EndStep \/ UNCHANGED vars
         \/ \E t \in KeyTriple, i \in KeyInfo : InsertBegin(t, i)
         \/ \E t \in KeyTriple : RemoveBegin(t)
  BY DEF Next, FileStep, EndStep

LEMMA InitTypeOK == Init => TypeOK
  BY Sentinels DEF Init, TypeOK, Entry

LEMMA NextTypeOK == TypeOK /\ [Next]_vars => TypeOK'
  <1> SUFFICES ASSUME TypeOK, [Next]_vars
               PROVE  TypeOK'
    OBVIOUS
  <1> USE Sentinels DEF TypeOK, Entry
  <1>1. CASE Start
    BY <1>1 DEF Start
  <1>2. CASE FileStep
    BY <1>2 DEF FileStep, Mkdir, Unlink, Create, Write, Delete
  <1>3. CASE EndStep
    BY <1>3 DEF EndStep, InsertCommit, RemoveCommit, FileSystemError, Crash, Return
  <1>4. ASSUME NEW t \in KeyTriple, NEW i \in KeyInfo, InsertBegin(t, i)
        PROVE  TypeOK'
    BY <1>4 DEF InsertBegin
  <1>5. ASSUME NEW t \in KeyTriple, RemoveBegin(t)
        PROVE  TypeOK'
    BY <1>5 DEF RemoveBegin
  <1>6. CASE UNCHANGED vars
    BY <1>6 DEF vars
  <1> QED
    BY <1>1, <1>2, <1>3, <1>4, <1>5, <1>6, NextCases

(* Every variable keeps its type: no torn file gets into the cache, and a  *)
(* modification is under way only while the manager serves (`new`, insert  *)
(* and remove).                                                            *)
THEOREM TypeCorrect == Spec => []TypeOK
  BY InitTypeOK, NextTypeOK, PTL DEF Spec
---------------------------------------------------------------------------
LEMMA AckStep == TypeOK /\ AckInv /\ [Next]_vars => AckInv'
  <1> SUFFICES ASSUME TypeOK, AckInv, [Next]_vars
               PROVE  AckInv'
    OBVIOUS
  <1> USE Sentinels DEF TypeOK, Entry, AckInv, AckedIsKept
  <1>1. CASE Start
    BY <1>1 DEF Start
  <1>2. CASE FileStep
    BY <1>2 DEF FileStep, Mkdir, Unlink, Create, Write, Delete
  <1>3. CASE EndStep
    BY <1>3 DEF EndStep, InsertCommit, RemoveCommit, FileSystemError, Crash, Return
  <1>4. ASSUME NEW t \in KeyTriple, NEW i \in KeyInfo, InsertBegin(t, i)
        PROVE  AckInv'
    BY <1>4 DEF InsertBegin
  <1>5. ASSUME NEW t \in KeyTriple, RemoveBegin(t)
        PROVE  AckInv'
    BY <1>5 DEF RemoveBegin
  <1>6. CASE UNCHANGED vars
    BY <1>6 DEF vars
  <1> QED
    BY <1>1, <1>2, <1>3, <1>4, <1>5, <1>6, NextCases

LEMMA Invariants == Spec => [](TypeOK /\ AckInv)
  <1>1. Init => AckInv
    BY DEF Init, AckInv, AckedIsKept
  <1> QED
    BY <1>1, InitTypeOK, NextTypeOK, AckStep, PTL DEF Spec

(* What insert and remove acknowledged stays on disk and in the cache,     *)
(* whatever calls of the file system fail afterwards and wherever the      *)
(* process dies.                                                           *)
THEOREM AckedKept == Spec => []AckedIsKept
  <1>1. AckInv => AckedIsKept
    BY DEF AckInv
  <1> QED
    BY <1>1, Invariants, PTL
---------------------------------------------------------------------------
(* Every step is a step of the abstract store or none.                     *)
LEMMA StepSimulation ==
  ASSUME TypeOK, AckInv, [Next]_vars
  PROVE  [Store!StoreNext]_(Store!storeVars)
  <1> DEFINE doubt == {t \in KeyTriple : disk[t] # key_store[t]}
  <1> USE Sentinels DEF TypeOK, Entry
  <1>1. CASE Start
    <2>1. CASE \E t \in KeyTriple : disk[t] = Torn
      BY <1>1, <2>1 DEF Start, Store!storeVars
    <2>2. CASE ~ \E t \in KeyTriple : disk[t] = Torn
      <3>1. Store!Restore
        BY <1>1, <2>2 DEF Start, Store!Restore
      <3> QED
        BY <3>1 DEF Store!StoreNext
    <2> QED
      BY <2>1, <2>2
  <1>2. CASE Mkdir \/ UNCHANGED vars
    BY <1>2 DEF Mkdir, vars, Store!storeVars
  <1>3. CASE Unlink \/ Create \/ Write \/ Delete
    <2>1. target \in KeyTriple
      BY <1>3 DEF Unlink, Create, Write, Delete
    <2>2. \A t \in KeyTriple \ {target} : disk'[t] = disk[t]
      BY <1>3 DEF Unlink, Create, Write, Delete
    <2>3. UNCHANGED <<key_store, target, status>>
      BY <1>3 DEF Unlink, Create, Write, Delete
    <2>4. doubt' \in {doubt \cup {target}, doubt \ {target}}
      BY <2>1, <2>2, <2>3
    <2>5. Store!Touch
      BY <2>1, <2>3, <2>4 DEF Store!Touch
    <2> QED
      BY <2>5 DEF Store!StoreNext
  <1>4. CASE InsertCommit
    <2>1. target \in KeyTriple /\ disk[target] = payload
      BY <1>4 DEF InsertCommit, AckInv
    <2>2. doubt' = doubt \ {target}
      BY <1>4, <2>1 DEF InsertCommit
    <2>3. /\ target # NoTriple
          /\ key_store' = [key_store EXCEPT ![target] = payload]
          /\ target' = NoTriple
          /\ status' = status
          /\ payload \in KeyInfo \cup {NoInfo}
      BY <1>4, <2>1 DEF InsertCommit, Return
    <2>4. \E v \in KeyInfo \cup {NoInfo} : Store!Apply(v)
      BY <2>2, <2>3 DEF Store!Apply
    <2> QED
      BY <2>4 DEF Store!StoreNext
  <1>5. CASE RemoveCommit
    <2>1. target \in KeyTriple /\ disk[target] = NoInfo
      BY <1>5 DEF RemoveCommit, AckInv
    <2>2. doubt' = doubt \ {target}
      BY <1>5, <2>1 DEF RemoveCommit
    <2>3. Store!Apply(NoInfo)
      BY <1>5, <2>1, <2>2 DEF RemoveCommit, Return, Store!Apply
    <2> QED
      BY <2>3 DEF Store!StoreNext
  <1>6. CASE FileSystemError
    <2>1. Store!Abandon
      BY <1>6 DEF FileSystemError, Return, Store!Abandon
    <2> QED
      BY <2>1 DEF Store!StoreNext
  <1>7. CASE Crash
    <2>1. Store!Stop
      BY <1>7 DEF Crash, Return, Store!Stop
    <2> QED
      BY <2>1 DEF Store!StoreNext
  <1>8. ASSUME NEW t \in KeyTriple, NEW i \in KeyInfo, InsertBegin(t, i)
        PROVE  Store!StoreNext
    <2>1. Store!Begin(t)
      BY <1>8 DEF InsertBegin, Store!Begin
    <2> QED
      BY <2>1 DEF Store!StoreNext
  <1>9. ASSUME NEW t \in KeyTriple, RemoveBegin(t)
        PROVE  Store!StoreNext
    <2>1. Store!Begin(t)
      BY <1>9 DEF RemoveBegin, Store!Begin
    <2> QED
      BY <2>1 DEF Store!StoreNext
  <1> QED
    <2> HIDE DEF TypeOK
    <2> QED
      BY <1>1, <1>2, <1>3, <1>4, <1>5, <1>6, <1>7, <1>8, <1>9, NextCases
      DEF FileStep, EndStep

(* The manager implements the persistent map of ManageKeyInfo: a triple is *)
(* in doubt exactly when its file and the cache disagree, and a restart    *)
(* changes no other.                                                       *)
THEOREM ImplementsStore == Spec => StoreSpec
  <1>1. Init => Store!StoreInit
    BY DEF Init, Store!StoreInit
  <1>2. TypeOK /\ AckInv /\ [Next]_vars => [Store!StoreNext]_(Store!storeVars)
    BY StepSimulation
  <1> QED
    BY <1>1, <1>2, Invariants, PTL DEF Spec, StoreSpec, Store!StoreSpec
---------------------------------------------------------------------------
(* While no last call has succeeded, what is published is the cache.       *)
LEMMA PublishedIsCache ==
  ASSUME TypeOK
  PROVE  /\ status = "up" /\ pc \notin {"commit", "uncache"} => Published = key_store
         /\ pc \in {"commit", "uncache"} =>
              Published = [key_store EXCEPT ![target] = Readable[target]]
  BY DEF Published, TypeOK, Readable

LEMMA PublishedIsCacheAfter ==
  ASSUME TypeOK'
  PROVE  /\ status' = "up" /\ pc' \notin {"commit", "uncache"} => Published' = key_store'
         /\ pc' \in {"commit", "uncache"} =>
              Published' = [key_store' EXCEPT ![target'] = Readable'[target']]
  BY DEF Published, TypeOK, Readable

LEMMA Served == ASSUME TypeOK, pc # "idle" PROVE status = "up" /\ target \in KeyTriple
  BY DEF TypeOK

(* Every step is one operation of the client, or none.                     *)
LEMMA ClientStep ==
  ASSUME TypeOK, AckInv, TypeOK', [Next]_vars
  PROVE  [ClientNext]_<<Published, Readable>>
  <1> USE Sentinels
  <1>1. CASE Start
    <2>1. disk' = disk /\ pc' = pc /\ status # "up" /\ pc = "idle"
      BY <1>1 DEF Start, TypeOK
    <2>2. Readable' = Readable /\ Published = Readable
      BY <2>1 DEF Readable, Published
    <2>3. Published' = Readable'
      <3>1. CASE \E t \in KeyTriple : disk[t] = Torn
        BY <1>1, <3>1 DEF Start, Published
      <3>2. CASE ~ \E t \in KeyTriple : disk[t] = Torn
        <4>1. status' = "up" /\ key_store' = disk'
          BY <1>1, <3>2 DEF Start
        <4>2. Readable' = disk'
          BY <2>1, <3>2 DEF Readable, TypeOK
        <4> QED
          BY <2>1, <4>1, <4>2, PublishedIsCacheAfter
      <3> QED
        BY <3>1, <3>2
    <2> QED
      BY <2>2, <2>3
  <1>2. CASE Crash
    <2>1. Readable' = Readable /\ Published' = Readable'
      BY <1>2 DEF Crash, Readable, Published
    <2>2. Readable = [t \in KeyTriple |-> IF t \in {} THEN NoInfo ELSE Readable[t]]
      BY DEF Readable
    <2>3. Client!ReloadWithout({})
      BY <2>1, <2>2 DEF Client!ReloadWithout
    <2> QED
      BY <2>3 DEF ClientNext
  <1>3. CASE Unlink \/ Create
    <2>1. /\ pc \in {"unlink", "create"} /\ pc' \in {"create", "write"}
          /\ status' = status /\ target' = target /\ key_store' = key_store
          /\ disk' = [disk EXCEPT ![target] = NoInfo] \/ disk' = [disk EXCEPT ![target] = Torn]
      BY <1>3 DEF Unlink, Create
    <2>2. status = "up" /\ target \in KeyTriple
      BY <2>1, Served
    <2>3. Published' = Published
      BY <2>1, <2>2, PublishedIsCache, PublishedIsCacheAfter
    <2>4. Readable' = [Readable EXCEPT ![target] = NoInfo]
      BY <2>1, <2>2 DEF Readable, TypeOK
    <2>5. Client!InsertKeyInfoError(target)
      BY <2>3, <2>4 DEF Client!InsertKeyInfoError
    <2> QED
      BY <2>2, <2>5 DEF ClientNext
  <1>4. CASE Write \/ Delete
    <2>1. /\ pc \in {"write", "delete"} /\ pc' \in {"commit", "uncache"}
          /\ status' = status /\ target' = target /\ key_store' = key_store
      BY <1>4 DEF Write, Delete
    <2>2. status = "up" /\ target \in KeyTriple
      BY <2>1, Served
    <2>3. /\ Published = key_store
          /\ Published' = [key_store EXCEPT ![target] = Readable'[target]]
      BY <2>1, <2>2, PublishedIsCache, PublishedIsCacheAfter
    <2>4. CASE Write
      <3>1. disk' = [disk EXCEPT ![target] = payload] /\ payload \in Entry
        BY <2>4 DEF Write, TypeOK
      <3>2. Readable' = [Readable EXCEPT ![target] = payload]
        BY <2>2, <3>1 DEF Readable, TypeOK, Entry
      <3>3. Readable'[target] = payload
        BY <2>2, <3>2 DEF Readable
      <3>4. CASE payload \in KeyInfo
        <4>1. Client!InsertKeyInfo(target, payload)
          BY <2>3, <3>2, <3>3 DEF Client!InsertKeyInfo
        <4> QED
          BY <2>2, <3>4, <4>1 DEF ClientNext
      <3>5. CASE payload = NoInfo
        <4>1. Client!RemoveKeyInfo(target)
          BY <2>3, <3>2, <3>3, <3>5 DEF Client!RemoveKeyInfo
        <4> QED
          BY <2>2, <4>1 DEF ClientNext
      <3> QED
        BY <3>1, <3>4, <3>5 DEF Entry
    <2>5. CASE Delete
      <3>1. disk' = [disk EXCEPT ![target] = NoInfo]
        BY <2>5 DEF Delete
      <3>2. Readable' = [Readable EXCEPT ![target] = NoInfo]
        BY <2>2, <3>1 DEF Readable, TypeOK
      <3>3. Readable'[target] = NoInfo
        BY <2>2, <3>2 DEF Readable
      <3>4. Client!RemoveKeyInfo(target)
        BY <2>3, <3>2, <3>3 DEF Client!RemoveKeyInfo
      <3> QED
        BY <2>2, <3>4 DEF ClientNext
    <2> QED
      BY <1>4, <2>4, <2>5
  <1>5. CASE InsertCommit \/ RemoveCommit
    <2>1. /\ pc \in {"commit", "uncache"} /\ pc' = "idle" /\ status' = status /\ disk' = disk
          /\ key_store' = [key_store EXCEPT ![target] = disk[target]]
      BY <1>5 DEF InsertCommit, RemoveCommit, Return, AckInv
    <2>2. status = "up" /\ target \in KeyTriple
      BY <2>1, Served
    <2>3. disk[target] # Torn
      BY <1>5 DEF InsertCommit, RemoveCommit, AckInv, TypeOK, Entry
    <2>4. Readable' = Readable /\ Readable[target] = disk[target]
      BY <2>1, <2>2, <2>3 DEF Readable
    <2>5. Published' = Published
      BY <2>1, <2>2, <2>4, PublishedIsCache, PublishedIsCacheAfter
    <2> QED
      BY <2>4, <2>5
  <1>6. CASE \/ Mkdir \/ FileSystemError
             \/ \E t \in KeyTriple, i \in KeyInfo : InsertBegin(t, i)
             \/ \E t \in KeyTriple : RemoveBegin(t)
    <2>1. /\ pc \notin {"commit", "uncache"} /\ pc' \notin {"commit", "uncache"}
          /\ status = "up" /\ status' = status /\ disk' = disk /\ key_store' = key_store
      BY <1>6 DEF Mkdir, FileSystemError, InsertBegin, RemoveBegin, Return, TypeOK
    <2>2. Readable' = Readable
      BY <2>1 DEF Readable
    <2>3. Published' = Published
      BY <2>1, PublishedIsCache, PublishedIsCacheAfter
    <2> QED
      BY <2>2, <2>3
  <1>7. CASE UNCHANGED vars
    BY <1>7 DEF vars, Readable, Published
  <1> QED
    BY <1>1, <1>2, <1>3, <1>4, <1>5, <1>6, <1>7, NextCases DEF FileStep, EndStep

(* The manager is what the providers take it for: each operation is one    *)
(* step that reaches memory and file together, or fails and is not seen.   *)
THEOREM ImplementsClient == Spec => ClientSpec
  <1>1. Init => Client!KimInit
    BY Sentinels DEF Init, Client!KimInit, Published, Readable
  <1>2. TypeOK /\ AckInv /\ TypeOK' /\ [Next]_vars => [ClientNext]_<<Published, Readable>>
    BY ClientStep
  <1> QED
    BY <1>1, <1>2, Invariants, PTL DEF Spec, ClientSpec
---------------------------------------------------------------------------
(* The same manager when a power failure may lose what was not written     *)
(* back (OnDiskDurability).                                                *)
LEMMA DurableNextCases ==
  ASSUME [DurableNext]_durableVars
  PROVE  \/ [Next]_vars /\ UNCHANGED durable
         \/ \E t \in KeyTriple : WriteBack(t)
         \/ PowerFailure
  BY DEF DurableNext, durableVars, vars

LEMMA InitDurableInv == DurableInit => DurableInv
  <1> SUFFICES ASSUME DurableInit
               PROVE  DurableInv
    OBVIOUS
  <1>1. TypeOK
    BY InitTypeOK DEF DurableInit
  <1> QED
    BY <1>1 DEF DurableInit, Init, DurableInv, CacheAgreesWithDisk, DurableIsCurrent, TypeOK

(* A step of the manager itself changes the file of its target only.       *)
LEMMA DurableManagerStep ==
  ASSUME DurableInv, [Next]_vars, UNCHANGED durable
  PROVE  DurableInv'
  <1>a. TypeOK /\ TypeOK'
    BY NextTypeOK DEF DurableInv
  <1> USE <1>a DEF DurableInv, CacheAgreesWithDisk, DurableIsCurrent
  <1>1. CASE Start
    BY <1>1 DEF Start, TypeOK
  <1>2. CASE FileStep
    BY <1>2 DEF FileStep, Mkdir, Unlink, Create, Write, Delete, TypeOK
  <1>3. CASE EndStep
    BY <1>3 DEF EndStep, InsertCommit, RemoveCommit, FileSystemError, Crash, Return, TypeOK
  <1>4. ASSUME NEW t \in KeyTriple, NEW i \in KeyInfo, InsertBegin(t, i)
        PROVE  DurableInv'
    BY <1>4 DEF InsertBegin, TypeOK
  <1>5. ASSUME NEW t \in KeyTriple, RemoveBegin(t)
        PROVE  DurableInv'
    BY <1>5 DEF RemoveBegin, TypeOK
  <1>6. CASE UNCHANGED vars
    BY <1>6 DEF vars
  <1> QED
    BY <1>1, <1>2, <1>3, <1>4, <1>5, <1>6, NextCases

LEMMA DurableStep == DurableInv /\ [DurableNext]_durableVars => DurableInv'
  <1> SUFFICES ASSUME DurableInv, [DurableNext]_durableVars
               PROVE  DurableInv'
    OBVIOUS
  <1>1. ASSUME NEW t \in KeyTriple, WriteBack(t)
        PROVE  DurableInv'
    BY <1>1 DEF WriteBack, vars, DurableInv, CacheAgreesWithDisk, DurableIsCurrent, TypeOK
  <1>2. CASE PowerFailure
    BY <1>2, Sentinels
    DEF PowerFailure, Return, DurableInv, CacheAgreesWithDisk, DurableIsCurrent, TypeOK, Entry
  <1> QED
    BY <1>1, <1>2, DurableManagerStep, DurableNextCases

LEMMA DurableInvHolds == DurableSpec => []DurableInv
  BY InitDurableInv, DurableStep, PTL DEF DurableSpec

(* Whatever a power failure loses, the service never answers from a cache  *)
(* that disagrees with the files of a triple whose last modification did   *)
(* not fail: `new` reads the files again, insert and remove do the disk    *)
(* first.                                                                  *)
THEOREM CacheAgrees == DurableSpec => []CacheAgreesWithDisk
  <1>1. DurableInv => CacheAgreesWithDisk
    BY DEF DurableInv
  <1> QED
    BY <1>1, DurableInvHolds, PTL

(* A mapping that reached the device after its operation completed stays   *)
(* there, through later write-backs and power failures, until the triple   *)
(* is modified again.                                                      *)
THEOREM WrittenBackKept == DurableSpec => WrittenBackIsKept
  <1>1. ASSUME DurableInv, [DurableNext]_durableVars, NEW t \in KeyTriple,
               acked[t] # Unsure, durable[t] = acked[t]
        PROVE  durable'[t] = durable[t]
    <2>1. disk[t] = durable[t]
      BY <1>1 DEF DurableInv, DurableIsCurrent
    <2>2. ASSUME NEW u \in KeyTriple, WriteBack(u)
          PROVE  durable'[t] = durable[t]
      BY <2>1, <2>2 DEF WriteBack
    <2> QED
      BY <1>1, <2>2, DurableNextCases DEF PowerFailure
  <1>2. DurableInv /\ [DurableNext]_durableVars =>
           [\A t \in KeyTriple :
              (acked[t] # Unsure /\ durable[t] = acked[t] /\ acked'[t] = acked[t])
                  => durable'[t] = durable[t]]_durableVars
    BY <1>1
  <1> QED
    BY <1>2, DurableInvHolds, PTL DEF DurableSpec, WrittenBackIsKept
===========================================================================
