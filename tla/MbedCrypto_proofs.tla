------------------------- MODULE MbedCrypto_proofs -------------------------
(***************************************************************************)
(* Theorems about the Mbed Crypto provider, for every number of threads,   *)
(* triples and ids, and whatever fails.                                    *)
(***************************************************************************)
EXTENDS MbedCrypto, TLAPS

(* The ids are the natural numbers between the limits; 0 is not one.       *)
LEMMA IdFacts ==
    /\ Id \subseteq Nat
    /\ NoId \in Nat /\ NoId \notin Id
    /\ \A n \in Nat : n >= IdMin /\ n <= IdMax => n \in Id
    /\ \A i \in Id : i >= IdMin /\ i <= IdMax
    /\ IdMin \in Id /\ IdMax \in Id
  BY MbedAssumption DEF Id, NoId

LEMMA InitTypeOK == Init => TypeOK
  BY IdFacts, MbedAssumption DEF Init, TypeOK, KimInit, KimTypeOK, RequestTypeOK,
                                 RequestInit

LEMMA Sentinels == NoTriple \notin KeyTriple /\ NoThread \notin Thread
  BY MbedAssumption

(* Whatever mappings a start drops, the map it builds is well typed.       *)
LEMMA ReloadType ==
  ASSUME KimTypeOK(Id), NEW bad, ReloadWithout(bad)
  PROVE  KimTypeOK(Id)'
  BY DEF KimTypeOK, ReloadWithout

(* The value fetch_add produces is an id unless it is past the limit.      *)
LEMMA NextCounter ==
  ASSUME TypeOK
  PROVE  /\ id_counter + 1 \in Nat /\ id_counter + 1 >= IdMin
         /\ ~(id_counter + 1 > IdMax) => id_counter + 1 \in Id
  <1>1. id_counter \in Nat /\ id_counter >= IdMin
    BY DEF TypeOK
  <1> QED
    BY <1>1, MbedAssumption DEF Id

(* A start leaves the counter at an id.                                    *)
LEMMA StartCounter ==
  ASSUME TypeOK, Start
  PROVE  id_counter' \in Nat /\ id_counter' >= IdMin
  <1>1. PICK max \in {IdMin} \cup {stored[t] : t \in {u \in KeyTriple : HasKey(stored[u])}} :
             id_counter' = max
    BY DEF Start
  <1>2. stored \in [KeyTriple -> Id \cup {NoId}]
    BY DEF TypeOK, KimTypeOK, RequestTypeOK
  <1>3. max \in Id
    BY <1>1, <1>2, IdFacts DEF HasKey
  <1> QED
    BY <1>1, <1>3, IdFacts

(* One step per kind of action: each keeps every variable in its range and *)
(* a request that goes on keeps its triple and its id.                     *)
LEMMA NextTypeOK == TypeOK /\ [Next]_vars => TypeOK'
  <1> USE Sentinels DEF TypeOK, KimTypeOK, NoId, kim, local, RequestTypeOK
  <1>1. ASSUME TypeOK, NEW th \in Thread, NEW t \in KeyTriple, Request(th, t)
        PROVE  TypeOK'
    <2>1. CASE CreateRefused(th, t) \/ NoSuchKey(th, t)
      BY <1>1, <2>1 DEF CreateRefused, NoSuchKey, Arrives, Refuse
    <2>2. CASE CreateBegin(th, t)
      BY <1>1, <2>2 DEF CreateBegin, Arrives, Goto, Begin
    <2>3. CASE DestroyBegin(th, t)
      BY <1>1, <2>3, IdFacts DEF DestroyBegin, Arrives, Goto, Exists, Begin
    <2>4. CASE UseBegin(th, t)
      BY <1>1, <2>4, IdFacts DEF UseBegin, Arrives, Goto, Exists, Begin
    <2> QED
      BY <1>1, <2>1, <2>2, <2>3, <2>4 DEF Request
  <1>2. ASSUME TypeOK, NEW th \in Thread, FetchAdd(th)
        PROVE  TypeOK'
    <2> DEFINE new == id_counter + 1
    <2>1. new \in Nat /\ new >= IdMin /\ (~(new > IdMax) => new \in Id)
      BY <1>2, NextCounter
    <2> HIDE DEF new
    <2>4. /\ pc[th] = "count"
          /\ pc' = [pc EXCEPT ![th] = IF new > IdMax THEN "saturate" ELSE "create_lock"]
          /\ key_id' = [key_id EXCEPT ![th] = new]
          /\ id_counter' = new
          /\ UNCHANGED <<status, key_info, stored, keys, mutex, triple, known>>
      BY <1>2 DEF FetchAdd, Goto, new
    <2> QED
      BY <1>2, <2>1, <2>4
  <1>3. ASSUME TypeOK, NEW th \in Thread, Saturate(th)
        PROVE  TypeOK'
    BY <1>3, MbedAssumption DEF Saturate, Return, Answer
  <1>4. ASSUME TypeOK, NEW th \in Thread,
               \/ Lock(th, "create_lock", "create")
               \/ Lock(th, "destroy_lock", "destroy")
               \/ Lock(th, "use_lock", "use")
        PROVE  TypeOK'
    BY <1>4 DEF Lock, Goto
  <1>5. ASSUME TypeOK, NEW th \in Thread, CreateKey(th)
        PROVE  TypeOK'
    BY <1>5 DEF CreateKey, Goto
  <1>6. ASSUME TypeOK, NEW th \in Thread,
  CreateKeyError(th) \/ Use(th) \/ RemoveTooLate(th)
                                  \/ RemoveError(th)
        PROVE  TypeOK'
    BY <1>6 DEF CreateKeyError, Use, RemoveTooLate, RemoveError, Return, Answer
  <1>7. ASSUME TypeOK, NEW th \in Thread, Insert(th)
        PROVE  TypeOK'
    BY <1>7 DEF Insert, InsertKeyInfo, Return, Answer
  <1>8. ASSUME TypeOK, NEW th \in Thread, InsertOverwrites(th)
        PROVE  TypeOK'
    BY <1>8 DEF InsertOverwrites, InsertKeyInfo, Goto
  <1>9. ASSUME TypeOK, NEW th \in Thread, InsertError(th)
        PROVE  TypeOK'
    BY <1>9 DEF InsertError, InsertKeyInfoError, Goto
  <1>10. ASSUME TypeOK, NEW th \in Thread, Rollback(th) \/ Destroy(th)
        PROVE  TypeOK'
    BY <1>10 DEF Rollback, Destroy, Return, Answer
  <1>11. ASSUME TypeOK, NEW th \in Thread, Remove(th)
        PROVE  TypeOK'
    BY <1>11 DEF Remove, RemoveKeyInfo, Goto
  <1>12. ASSUME TypeOK, Drain \/ Joined \/ Crash
         PROVE  TypeOK'
    BY <1>12, IdFacts DEF Drain, Joined, Crash, InsertKeyInfoError, StopArrivals,
                          JoinThreads, LoseThreads
  <1>13. ASSUME TypeOK, Start
         PROVE  TypeOK'
    <2>1. KimTypeOK(Id)'
      BY <1>13, ReloadType DEF Start
    <2>2. id_counter' \in Nat /\ id_counter' >= IdMin
      BY <1>13, StartCounter
    <2> QED
      BY <1>13, <2>1, <2>2 DEF Start
  <1>14. ASSUME TypeOK, StartError
         PROVE  TypeOK'
    <2>1. KimTypeOK(Id)'
      BY <1>14, ReloadType DEF StartError
    <2> QED
      BY <1>14, <2>1 DEF StartError
  <1>15. ASSUME TypeOK, UNCHANGED vars
         PROVE  TypeOK'
    BY <1>15 DEF vars
  <1> QED
    <2> HIDE DEF TypeOK
    <2> QED
      BY <1>1, <1>2, <1>3, <1>4, <1>5, <1>6, <1>7, <1>8, <1>9, <1>10, <1>11,
         <1>12, <1>13, <1>14, <1>15 DEF Next, Step

(* Every variable keeps its type; in particular a request past the counter *)
(* holds an id of the valid range, although the counter itself exceeds it. *)
THEOREM TypeCorrect == Spec => []TypeOK
  BY InitTypeOK, NextTypeOK, PTL DEF Spec

---------------------------------------------------------------------------
LEMMA InitIdInv == Init => IdInv
  <1> SUFFICES ASSUME Init PROVE IdInv
    OBVIOUS
  <1>1. TypeOK
    BY InitTypeOK
  <1> QED
    BY <1>1, MbedAssumption
    DEF Init, KimInit, NoId, IdInv, StoredAgrees, IdsBelowCounter, IdleWhenDown,
        MappingsInjective, MappedToOwnKey, IssuedIdsFresh, ReadIdsNotFresh,
        HeldKeyIsOwn, Creating, Reading, RequestInit

(* An id, or none, that is not above the counter.                          *)
LEMMA IdBounded ==
  ASSUME NEW i \in Id \cup {NoId}, NEW c \in Nat, i <= c
  PROVE  i \in Nat /\ i <= IdMax /\ i < c + 1
  BY MbedAssumption DEF Id, NoId

(* The mapped ids, and those of requests past create_key_id, are below the *)
(* value that the next fetch_add produces, and never above the limit.      *)
LEMMA IdsBounded ==
  ASSUME TypeOK, IdsBelowCounter
  PROVE  /\ id_counter \in Nat /\ id_counter < id_counter + 1
         /\ \A t \in KeyTriple : /\ key_info[t] \in Nat /\ key_info[t] <= IdMax
                                 /\ key_info[t] < id_counter + 1
         /\ \A th \in Thread :
               pc[th] \notin {"idle", "count", "saturate"} =>
                 /\ key_id[th] \in Nat /\ key_id[th] <= IdMax
                 /\ key_id[th] < id_counter + 1
  <1>1. id_counter \in Nat
    BY DEF TypeOK
  <1>2. ASSUME NEW t \in KeyTriple
        PROVE  /\ key_info[t] \in Nat /\ key_info[t] <= IdMax
               /\ key_info[t] < id_counter + 1
    <2>1. key_info[t] \in Id \cup {NoId} /\ key_info[t] <= id_counter
      BY DEF TypeOK, KimTypeOK, IdsBelowCounter, RequestTypeOK
    <2> QED
      BY <1>1, <2>1, IdBounded
  <1>3. ASSUME NEW th \in Thread, pc[th] \notin {"idle", "count", "saturate"}
        PROVE  /\ key_id[th] \in Nat /\ key_id[th] <= IdMax
               /\ key_id[th] < id_counter + 1
    <2>1. key_id[th] \in Id /\ key_id[th] <= id_counter
      BY <1>3 DEF TypeOK, IdsBelowCounter
    <2> QED
      BY <1>1, <2>1, IdBounded
  <1> QED
    <2>1. id_counter < id_counter + 1
      BY <1>1
    <2> QED
      BY <1>1, <1>2, <1>3, <2>1

(* The counter that a start computes bounds every mapping that it keeps.   *)
LEMMA StartBounds ==
  ASSUME TypeOK, Start
  PROVE  \A t \in KeyTriple : key_info'[t] <= id_counter'
  <1>1. PICK max \in {IdMin} \cup {stored[t] : t \in {u \in KeyTriple : HasKey(stored[u])}} :
           /\ \A id \in {IdMin} \cup {stored[t] : t \in {u \in KeyTriple : HasKey(stored[u])}} : id <= max
           /\ id_counter' = max
    BY DEF Start
  <1>2. id_counter' \in Nat
    BY StartCounter
  <1> SUFFICES ASSUME NEW t \in KeyTriple
               PROVE  key_info'[t] <= id_counter'
    OBVIOUS
  <1>3. key_info'[t] = IF t \in DeadTriples THEN NoId ELSE stored[t]
    BY DEF Start, ReloadWithout
  <1>4. CASE HasKey(stored[t])
    <2>1. t \notin DeadTriples
      BY <1>4 DEF DeadTriples
    <2> QED
      BY <1>1, <1>3, <1>4, <2>1
  <1>5. CASE ~HasKey(stored[t])
    <2>1. key_info'[t] = NoId
      BY <1>3, <1>5 DEF DeadTriples
    <2> QED
      BY <1>2, <2>1 DEF NoId
  <1> QED
    BY <1>4, <1>5

(* Each action keeps IdInv: a new id is above all ids in use, a full       *)
(* counter issues none, and a start sees no request in progress.           *)
LEMMA NextIdInv == IdInv /\ [Next]_vars => IdInv'
  <1> SUFFICES ASSUME IdInv, [Next]_vars
               PROVE  IdInv'
    OBVIOUS
  <1>a. TypeOK /\ TypeOK'
    BY NextTypeOK DEF IdInv
  <1> USE DEF TypeOK, KimTypeOK, NoId, kim, local, IdInv, StoredAgrees,
          IdsBelowCounter, IdleWhenDown, MappingsInjective, MappedToOwnKey,
          IssuedIdsFresh, ReadIdsNotFresh, HeldKeyIsOwn, Creating, Reading,
          RequestTypeOK
  <1>1. ASSUME NEW th \in Thread, NEW t \in KeyTriple, CreateRefused(th,
  t) \/ NoSuchKey(th, t)
        PROVE  IdInv'
    BY <1>a, <1>1 DEF CreateRefused, NoSuchKey, Refuse
  <1>2. ASSUME NEW th \in Thread, NEW t \in KeyTriple, CreateBegin(th, t)
        PROVE  IdInv'
    BY <1>a, <1>2 DEF CreateBegin, Goto, Arrives, Begin
  <1>3. ASSUME NEW th \in Thread, NEW t \in KeyTriple, DestroyBegin(th,
  t) \/ UseBegin(th, t)
        PROVE  IdInv'
    BY <1>a, <1>3 DEF DestroyBegin, UseBegin, Goto, Arrives, Exists, Begin
  <1>4. ASSUME NEW th \in Thread, FetchAdd(th)
        PROVE  IdInv'
    <2>1. id_counter' = id_counter + 1
      BY <1>4 DEF FetchAdd
    <2>2. /\ key_id' = [key_id EXCEPT ![th] = id_counter']
          /\ pc[th] = "count"
          /\ pc' \in { [pc EXCEPT ![th] = "saturate"],
                      [pc EXCEPT ![th] = "create_lock"] }
          /\ UNCHANGED <<status, key_info, stored, keys, triple>>
      BY <1>4, <2>1 DEF FetchAdd, Goto
    <2>3. /\ \A t \in KeyTriple : key_info[t] \in Nat /\ key_info[t] < id_counter'
          /\ \A other \in Thread : pc[other] \notin {"idle", "count", "saturate"} =>
                key_id[other] \in Nat /\ key_id[other] < id_counter'
          /\ id_counter' \in Nat
      BY <1>a, <2>1, IdsBounded DEF IdInv
    <2> HIDE DEF IdInv
    <2>4. IdsBelowCounter'
      BY <1>a, <2>1, <2>2, <2>3
    <2>5. StoredAgrees' /\ IdleWhenDown' /\ MappingsInjective' /\ MappedToOwnKey' /\ HeldKeyIsOwn'
      BY <1>a, <2>2 DEF IdInv
    <2>6. IssuedIdsFresh' /\ ReadIdsNotFresh'
      BY <1>a, <2>1, <2>2, <2>3 DEF IdInv
    <2> QED
      BY <1>a, <2>4, <2>5, <2>6 DEF IdInv
  <1>5. ASSUME NEW th \in Thread, Saturate(th)
        PROVE  IdInv'
    <2>1. /\ pc[th] = "saturate" /\ id_counter' = IdMax
          /\ pc' = [pc EXCEPT ![th] = "idle"]
          /\ triple' = [triple EXCEPT ![th] = NoTriple]
          /\ key_id' = [key_id EXCEPT ![th] = 0]
          /\ UNCHANGED <<status, key_info, stored, keys>>
      BY <1>5 DEF Saturate, Return, Answer
    <2>2. \A t \in KeyTriple : key_info[t] <= IdMax
      BY IdsBounded
    <2>3. \A other \in Thread : pc[other] \notin {"idle", "count", "saturate"} =>
             key_id[other] <= IdMax
      BY IdsBounded
    <2> HIDE DEF IdInv
    <2>4. IdsBelowCounter'
      BY <1>a, <2>1, <2>2, <2>3
    <2>5. StoredAgrees' /\ IdleWhenDown' /\ MappingsInjective' /\ MappedToOwnKey' /\ HeldKeyIsOwn'
      BY <1>a, <2>1 DEF IdInv
    <2>6. IssuedIdsFresh' /\ ReadIdsNotFresh'
      BY <1>a, <2>1 DEF IdInv
    <2> QED
      BY <1>a, <2>4, <2>5, <2>6 DEF IdInv
  <1>6. ASSUME NEW th \in Thread,
               \/ Lock(th, "create_lock", "create")
               \/ Lock(th, "destroy_lock", "destroy")
               \/ Lock(th, "use_lock", "use")
        PROVE  IdInv'
    BY <1>a, <1>6 DEF Lock, Goto
  <1>7. ASSUME NEW th \in Thread, CreateKey(th)
        PROVE  IdInv'
    BY <1>a, <1>7 DEF CreateKey, Goto
  <1>8. ASSUME NEW th \in Thread, CreateKeyError(th) \/ Use(th) \/ RemoveTooLate(th)
                                  \/ RemoveError(th)
        PROVE  IdInv'
    BY <1>a, <1>8 DEF CreateKeyError, Use, RemoveTooLate, RemoveError, Return, Answer
  <1>9. ASSUME NEW th \in Thread, Insert(th)
        PROVE  IdInv'
    BY <1>a, <1>9 DEF Insert, InsertKeyInfo, Return, Answer
  <1>10. ASSUME NEW th \in Thread, InsertOverwrites(th)
         PROVE  IdInv'
    BY <1>a, <1>10 DEF InsertOverwrites, InsertKeyInfo, Goto
  <1>11. ASSUME NEW th \in Thread, InsertError(th)
         PROVE  IdInv'
    BY <1>a, <1>11 DEF InsertError, InsertKeyInfoError, Goto
  <1>12. ASSUME NEW th \in Thread, Rollback(th) \/ Destroy(th)
         PROVE  IdInv'
    BY <1>a, <1>12 DEF Rollback, Destroy, Return, Answer
  <1>13. ASSUME NEW th \in Thread, Remove(th)
         PROVE  IdInv'
    <2>1. /\ key_info' = [key_info EXCEPT ![triple[th]] = 0]
          /\ stored' = [stored EXCEPT ![triple[th]] = 0]
          /\ pc[th] = "remove" /\ pc' = [pc EXCEPT ![th] = "destroy_lock"]
          /\ UNCHANGED <<status, keys, id_counter, mutex, triple, key_id>>
      BY <1>13 DEF Remove, RemoveKeyInfo, Goto
    <2>2. 0 <= id_counter
      BY <1>a
    <2> HIDE DEF IdInv
    <2>4. IdsBelowCounter'
      BY <1>a, <2>1, <2>2 DEF IdInv
    <2>5. StoredAgrees' /\ IdleWhenDown' /\ MappingsInjective' /\ MappedToOwnKey'
      BY <1>a, <2>1 DEF IdInv
    <2>6. IssuedIdsFresh' /\ ReadIdsNotFresh' /\ HeldKeyIsOwn'
      BY <1>a, <2>1, IdFacts DEF IdInv
    <2> QED
      BY <1>a, <2>4, <2>5, <2>6 DEF IdInv
  <1>14. CASE Drain \/ Joined \/ Crash
    BY <1>a, <1>14 DEF Drain, Joined, Crash, InsertKeyInfoError, StopArrivals,
                       JoinThreads, LoseThreads
  <1>15. CASE Start
    <2>1. /\ \A t \in KeyTriple : /\ key_info'[t] = stored'[t]
                                  /\ stored'[t] # 0 => /\ stored'[t] = key_info[t]
                                                       /\ stored'[t] = stored[t]
                                                       /\ HasKey(stored[t])
          /\ \A th \in Thread : pc'[th] = "idle" /\ pc[th] = "idle"
          /\ UNCHANGED <<keys, mutex, pc, triple, key_id>>
      BY <1>15 DEF Start, ReloadWithout, DeadTriples, HasKey
    <2>2. \A t \in KeyTriple : key_info'[t] <= id_counter'
      BY <1>15, StartBounds
    <2> HIDE DEF IdInv
    <2>4. IdsBelowCounter' /\ IdleWhenDown' /\ StoredAgrees'
      BY <1>a, <2>1, <2>2
    <2>5. MappingsInjective' /\ MappedToOwnKey'
      BY <1>a, <2>1 DEF IdInv
    <2>6. IssuedIdsFresh' /\ ReadIdsNotFresh' /\ HeldKeyIsOwn'
      BY <2>1
    <2> QED
      BY <1>a, <2>4, <2>5, <2>6 DEF IdInv
  <1>16. CASE StartError
    <2>1. /\ \A t \in KeyTriple : /\ key_info'[t] = stored'[t]
                                  /\ stored'[t] # 0 => stored'[t] = key_info[t]
          /\ \A th \in Thread : pc'[th] = "idle"
          /\ UNCHANGED <<status, keys, id_counter, mutex, pc, triple, key_id>>
      BY <1>16 DEF StartError, ReloadWithout
    <2>2. \A t \in KeyTriple : key_info'[t] <= id_counter'
      BY <1>a, <2>1
    <2> HIDE DEF IdInv
    <2>4. IdsBelowCounter' /\ IdleWhenDown' /\ StoredAgrees'
      BY <1>a, <2>1, <2>2 DEF IdInv
    <2>5. MappingsInjective' /\ MappedToOwnKey'
      BY <1>a, <2>1 DEF IdInv
    <2>6. IssuedIdsFresh' /\ ReadIdsNotFresh' /\ HeldKeyIsOwn'
      BY <2>1
    <2> QED
      BY <1>a, <2>4, <2>5, <2>6 DEF IdInv
  <1>17. CASE UNCHANGED vars
    BY <1>a, <1>17 DEF vars
  <1> QED
    BY <1>1, <1>2, <1>3, <1>4, <1>5, <1>6, <1>7, <1>8, <1>9, <1>10, <1>11,
       <1>12, <1>13, <1>14, <1>15, <1>16, <1>17 DEF Next, Step, Request

(* The three properties of the ids follow from their inductive invariant.   *)
LEMMA IdInvImplies ==
  ASSUME IdInv
  PROVE  MappingsInjective /\ MappedToOwnKey /\ IssuedIdsFresh
  BY DEF IdInv

(* The invariant holds whatever fails and wherever the process dies: the   *)
(* counter of create_key_id and its reconstruction in Provider::new keep   *)
(* the ids of requests, mappings and backend keys apart.                   *)
THEOREM IdsKeptApart == Spec => []IdInv
  BY InitIdInv, NextIdInv, PTL DEF Spec

(* Two triples never map to one key (create_key_id, Provider::new).        *)
THEOREM NoSharedKey == Spec => []MappingsInjective
  BY IdsKeptApart, IdInvImplies, PTL

(* The key a triple maps to was created for it, or is gone.                *)
THEOREM OwnKeyMapped == Spec => []MappedToOwnKey
  BY IdsKeptApart, IdInvImplies, PTL

(* The ids that create_key_id hands out are in nobody else's hands, also   *)
(* when the counter is at its limit.                                       *)
THEOREM FreshIdsIssued == Spec => []IssuedIdsFresh
  BY IdsKeptApart, IdInvImplies, PTL

---------------------------------------------------------------------------
(* A key of the backend that nothing refers to, and what a step that       *)
(* starts in IdInv leaves of it.                                           *)
Zombie(i) ==
    /\ keys[i] # NoTriple
    /\ \A t \in KeyTriple : Reached(t) # i
    /\ \A th \in Thread :
          key_id[th] = i => pc[th] \in {"saturate", "create_lock", "create"}

LEMMA NextZombie ==
  ASSUME IdInv, [Next]_vars, NEW i \in Id, Zombie(i)
  PROVE  keys'[i] = keys[i] /\ \A t \in KeyTriple : Reached(t)' # i
  <1>a. TypeOK /\ i # 0 /\ i \in Nat
    BY IdFacts DEF IdInv, NoId
  <1>b. /\ keys \in [Id -> KeyTriple \cup {NoTriple}]
        /\ key_info \in [KeyTriple -> Id \cup {NoId}]
        /\ stored \in [KeyTriple -> Id \cup {NoId}]
        /\ \A th \in Thread :
              pc[th] \notin {"idle", "count", "saturate"} => key_id[th] \in Id
        /\ \A th \in Thread : pc[th] # "idle" => triple[th] \in KeyTriple
    BY <1>a DEF TypeOK, KimTypeOK, RequestTypeOK
  <1>c. \A t \in KeyTriple : stored[t] # i /\ (status # "down" => key_info[t] # i)
    <2>1. \A t \in KeyTriple : stored[t] # 0 => stored[t] = key_info[t]
      BY DEF IdInv, StoredAgrees, NoId
    <2> QED
      BY <1>a, <2>1 DEF Zombie, Reached
  <1>d. \A th \in Thread : pc[th] # "idle" => status # "down"
    BY DEF IdInv, IdleWhenDown
  <1> USE <1>a, <1>b, <1>c, <1>d DEF Zombie, Reached, NoId, kim, local
  <1>1. ASSUME NEW th \in Thread, NEW t \in KeyTriple, Request(th, t)
        PROVE  UNCHANGED <<keys, kim, status>>
    BY <1>1 DEF Request, CreateRefused, CreateBegin, NoSuchKey, DestroyBegin, UseBegin,
                Begin, Refuse
  <1>2. ASSUME NEW th \in Thread,
               \/ FetchAdd(th) \/ Saturate(th) \/ CreateKeyError(th) \/ RemoveTooLate(th)
               \/ RemoveError(th) \/ Use(th) \/ Lock(th, "create_lock", "create")
               \/ Lock(th, "destroy_lock", "destroy") \/ Lock(th, "use_lock", "use")
        PROVE  UNCHANGED <<keys, kim, status>>
    BY <1>2 DEF FetchAdd, Saturate, CreateKeyError, RemoveTooLate, RemoveError, Use,
                Lock, Return, Answer
  <1>3. ASSUME NEW th \in Thread, CreateKey(th)
        PROVE  keys'[i] = keys[i] /\ UNCHANGED <<kim, status>>
    BY <1>3 DEF CreateKey, Goto
  <1>4. ASSUME NEW th \in Thread, Insert(th) \/ InsertOverwrites(th)
        PROVE  keys'[i] = keys[i] /\ \A t \in KeyTriple : Reached(t)' # i
    BY <1>4 DEF Insert, InsertOverwrites, InsertKeyInfo, Goto
  <1>5. ASSUME NEW th \in Thread, InsertError(th)
        PROVE  keys'[i] = keys[i] /\ \A t \in KeyTriple : Reached(t)' # i
    BY <1>5 DEF InsertError, InsertKeyInfoError, Goto
  <1>6. ASSUME NEW th \in Thread, Rollback(th) \/ Destroy(th)
        PROVE  keys'[i] = keys[i] /\ UNCHANGED <<kim, status>>
    BY <1>6 DEF Rollback, Destroy, Return, Answer
  <1>7. ASSUME NEW th \in Thread, Remove(th)
        PROVE  keys'[i] = keys[i] /\ \A t \in KeyTriple : Reached(t)' # i
    BY <1>7 DEF Remove, RemoveKeyInfo, Goto
  <1>8. ASSUME Drain \/ Joined \/ Crash
        PROVE  keys'[i] = keys[i] /\ \A t \in KeyTriple : Reached(t)' # i
    BY <1>8 DEF Drain, Joined, Crash, InsertKeyInfoError, StopArrivals, JoinThreads,
                LoseThreads
  <1>9. ASSUME Start \/ StartError
        PROVE  keys'[i] = keys[i] /\ \A t \in KeyTriple : Reached(t)' # i
    BY <1>9 DEF Start, StartError, ReloadWithout
  <1>10. ASSUME UNCHANGED vars
         PROVE  UNCHANGED <<keys, kim, status>>
    BY <1>10 DEF vars
  <1> QED
    BY <1>1, <1>2, <1>3, <1>4, <1>5, <1>6, <1>7, <1>8, <1>9, <1>10 DEF Next, Step

(* A key of the backend that lost its mapping is never mapped again and    *)
(* never changes, although its id may be issued again after a restart.     *)
THEOREM ZombiesUnreachable == Spec => ZombiesStayUnreachable
  <1>1. IdInv /\ [Next]_vars =>
          [\A i \in Id :
             ( /\ keys[i] # NoTriple
               /\ \A t \in KeyTriple : Reached(t) # i
               /\ \A th \in Thread :
                     key_id[th] = i => pc[th] \in {"saturate", "create_lock",
                     "create"} )
             => /\ keys'[i] = keys[i]
                /\ \A t \in KeyTriple : Reached(t)' # i]_vars
    BY NextZombie DEF Zombie
  <1> QED
    BY <1>1, IdsKeptApart, PTL DEF Spec, ZombiesStayUnreachable

---------------------------------------------------------------------------
LEMMA InitMappedInv == Init => MappedInv
  BY InitIdInv DEF MappedInv, HeldIdsNotOthers, DestroyedIdsUnmapped, Init, RequestInit,
                   Reading

(* Each action keeps held ids and destroyed ones away from the mappings:   *)
(* only an insertion maps an id, which is then nobody else's.              *)
LEMMA NextMappedInv == MappedInv /\ [Next]_vars => MappedInv'
  <1> SUFFICES ASSUME MappedInv, [Next]_vars
               PROVE  HeldIdsNotOthers' /\ DestroyedIdsUnmapped'
    BY NextIdInv DEF MappedInv
  <1>a. /\ IdInv /\ HeldIdsNotOthers /\ DestroyedIdsUnmapped
        /\ NoId \notin Id
        /\ key_info \in [KeyTriple -> Id \cup {NoId}]
        /\ DOMAIN pc = Thread /\ DOMAIN key_id = Thread /\ DOMAIN triple = Thread
        /\ \A th \in Thread : pc[th] # "idle" => triple[th] \in KeyTriple
        /\ \A th \in Thread :
              pc[th] \notin {"idle", "count", "saturate"} => key_id[th] \in Id
    BY IdFacts DEF MappedInv, IdInv, TypeOK, KimTypeOK, RequestTypeOK
  <1>b. MappingsInjective /\ IssuedIdsFresh /\ ReadIdsNotFresh /\ IdleWhenDown
    BY <1>a DEF IdInv
  <1> USE <1>a, <1>b DEF HeldIdsNotOthers, DestroyedIdsUnmapped, Reading, Creating
  <1>1. ASSUME NEW th \in Thread, NEW t \in KeyTriple, Request(th, t)
        PROVE  HeldIdsNotOthers' /\ DestroyedIdsUnmapped'
    <2>1. CASE CreateRefused(th, t) \/ NoSuchKey(th, t)
      BY <2>1 DEF CreateRefused, NoSuchKey, Refuse, kim
    <2>2. CASE CreateBegin(th, t)
      BY <2>2 DEF CreateBegin, Begin, Arrives, Goto, kim
    <2>3. CASE DestroyBegin(th, t) \/ UseBegin(th, t)
      BY <2>3 DEF DestroyBegin, UseBegin, Begin, Arrives, Goto, Exists, kim, MappingsInjective
    <2> QED
      BY <1>1, <2>1, <2>2, <2>3 DEF Request
  <1>2. ASSUME NEW th \in Thread, FetchAdd(th)
        PROVE  HeldIdsNotOthers' /\ DestroyedIdsUnmapped'
    <2>1. /\ pc[th] = "count"
          /\ pc' \in {[pc EXCEPT ![th] = "saturate"], [pc EXCEPT ![th] = "create_lock"]}
          /\ \A other \in Thread : other # th => key_id'[other] = key_id[other]
          /\ UNCHANGED <<key_info, triple>>
      BY <1>2 DEF FetchAdd, Goto, kim
    <2> QED
      BY <2>1
  <1>3. ASSUME NEW th \in Thread,
               \/ Saturate(th) \/ CreateKeyError(th) \/ Rollback(th) \/ RemoveTooLate(th)
               \/ RemoveError(th) \/ Destroy(th) \/ Use(th)
        PROVE  HeldIdsNotOthers' /\ DestroyedIdsUnmapped'
    <2>1. /\ \E k : Answer(th, k)
          /\ UNCHANGED key_info
      BY <1>3 DEF Saturate, CreateKeyError, Rollback, RemoveTooLate, RemoveError, Destroy,
                  Use, Return, kim
    <2>2. /\ pc' = [pc EXCEPT ![th] = "idle"]
          /\ \A other \in Thread : other # th =>
                key_id'[other] = key_id[other] /\ triple'[other] = triple[other]
      BY <2>1 DEF Answer
    <2> QED
      BY <2>1, <2>2
  <1>4. ASSUME NEW th \in Thread,
               \/ Lock(th, "create_lock", "create") \/ Lock(th, "destroy_lock", "destroy")
               \/ Lock(th, "use_lock", "use") \/ CreateKey(th)
        PROVE  HeldIdsNotOthers' /\ DestroyedIdsUnmapped'
    BY <1>4 DEF Lock, CreateKey, Goto, kim, local
  <1>5. ASSUME NEW th \in Thread, Insert(th) \/ InsertOverwrites(th)
        PROVE  HeldIdsNotOthers' /\ DestroyedIdsUnmapped'
    <2>1. /\ pc[th] = "insert" /\ triple[th] \in KeyTriple
          /\ key_info' = [key_info EXCEPT ![triple[th]] = key_id[th]]
          /\ \/ pc' = [pc EXCEPT ![th] = "idle"]
             \/ pc' = [pc EXCEPT ![th] = "rollback"] /\ UNCHANGED <<key_id, triple>>
          /\ \A other \in Thread : other # th =>
                key_id'[other] = key_id[other] /\ triple'[other] = triple[other]
      BY <1>5 DEF Insert, InsertOverwrites, InsertKeyInfo, Return, Answer, Goto, local
    <2>2. /\ \A t \in KeyTriple : key_info[t] # key_id[th]
          /\ \A other \in Thread \ {th} :
                Reading(other) \/ pc[other] = "rollback" => key_id[other] # key_id[th]
      BY <2>1 DEF IssuedIdsFresh, ReadIdsNotFresh
    <2> QED
      BY <2>1, <2>2
  <1>6. ASSUME NEW th \in Thread, InsertError(th)
        PROVE  HeldIdsNotOthers' /\ DestroyedIdsUnmapped'
    <2>1. \A t \in KeyTriple : key_info[t] # key_id[th]
      BY <1>6 DEF InsertError, Goto, IssuedIdsFresh
    <2> QED
      BY <1>6, <2>1 DEF InsertError, InsertKeyInfoError, Goto, local
  <1>7. ASSUME NEW th \in Thread, Remove(th)
        PROVE  HeldIdsNotOthers' /\ DestroyedIdsUnmapped'
    BY <1>7 DEF Remove, RemoveKeyInfo, Goto, local
  <1>8. ASSUME Drain \/ Joined \/ Crash \/ Start \/ StartError
        PROVE  HeldIdsNotOthers' /\ DestroyedIdsUnmapped'
    <2>1. CASE Drain
      BY <2>1 DEF Drain, StopArrivals, kim
    <2>2. CASE Joined \/ Crash \/ Start \/ StartError
      <3>1. \A th \in Thread : pc'[th] = "idle"
        BY <2>2 DEF Joined, JoinThreads, Crash, LoseThreads, Start, StartError, IdleWhenDown
      <3> QED
        BY <3>1
    <2> QED
      BY <1>8, <2>1, <2>2
  <1>9. ASSUME UNCHANGED vars
        PROVE  HeldIdsNotOthers' /\ DestroyedIdsUnmapped'
    BY <1>9 DEF vars, kim, local
  <1> QED
    BY <1>1, <1>2, <1>3, <1>4, <1>5, <1>6, <1>7, <1>8, <1>9 DEF Next, Step

(* One request about the triple itself is what takes a mapped key away.    *)
Taken(t) ==
    \E th \in Thread :
        /\ triple[th] = t
        /\ pc[th] \in {"insert", "rollback", "remove"}
        /\ pc'[th] # pc[th]

LEMMA NextMapped ==
  ASSUME MappedInv, [Next]_vars, NEW t \in KeyTriple, stored[t] # NoId, keys[stored[t]] = t
  PROVE  \/ stored'[t] = stored[t] /\ keys'[stored[t]] = t
         \/ Taken(t)
  <1> DEFINE i == stored[t]
             Stays == stored'[t] = i /\ keys'[i] = t
  <1>a. /\ IdInv /\ HeldIdsNotOthers /\ DestroyedIdsUnmapped
        /\ i \in Id /\ key_info[t] = i /\ t # NoTriple
        /\ stored \in [KeyTriple -> Id \cup {NoId}]
        /\ keys \in [Id -> KeyTriple \cup {NoTriple}]
        /\ DOMAIN pc = Thread
        /\ \A th \in Thread : pc[th] # "idle" => triple[th] \in KeyTriple
        /\ \A th \in Thread :
              pc[th] \notin {"idle", "count", "saturate"} => key_id[th] \in Id
    BY Sentinels DEF MappedInv, IdInv, TypeOK, KimTypeOK, RequestTypeOK, StoredAgrees
  <1> USE <1>a
  <1>1. ASSUME NEW th \in Thread,
               \/ \E u \in KeyTriple : Request(th, u)
               \/ FetchAdd(th) \/ Saturate(th) \/ CreateKeyError(th) \/ RemoveTooLate(th)
               \/ RemoveError(th) \/ Use(th) \/ Lock(th, "create_lock", "create")
               \/ Lock(th, "destroy_lock", "destroy") \/ Lock(th, "use_lock", "use")
        PROVE  Stays
    BY <1>1 DEF Request, CreateRefused, CreateBegin, NoSuchKey, DestroyBegin, UseBegin,
                FetchAdd, Saturate, CreateKeyError, RemoveTooLate, RemoveError, Use, Lock, kim
  <1>2. ASSUME NEW th \in Thread, CreateKey(th)
        PROVE  Stays
    BY <1>2 DEF CreateKey, Goto, kim
  <1>3. ASSUME NEW th \in Thread,
               \/ Insert(th) \/ InsertOverwrites(th) \/ InsertError(th) \/ Remove(th)
        PROVE  Stays \/ Taken(t)
    <2>1. /\ pc[th] \in {"insert", "remove"} /\ triple[th] \in KeyTriple
          /\ pc'[th] # pc[th] /\ keys' = keys
          /\ \A u \in KeyTriple : u # triple[th] => stored'[u] = stored[u]
      BY <1>3 DEF Insert, InsertOverwrites, InsertError, Remove, InsertKeyInfo,
                  InsertKeyInfoError, RemoveKeyInfo, Return, Answer, Goto
    <2> QED
      BY <2>1 DEF Taken
  <1>4. ASSUME NEW th \in Thread, Rollback(th)
        PROVE  Stays \/ Taken(t)
    <2>1. /\ pc[th] = "rollback" /\ pc'[th] # pc[th] /\ stored' = stored
          /\ keys' \in {keys, [keys EXCEPT ![key_id[th]] = NoTriple]}
      BY <1>4 DEF Rollback, Return, Answer, kim
    <2>2. key_id[th] = i => triple[th] = t
      BY <2>1 DEF HeldIdsNotOthers
    <2> QED
      BY <2>1, <2>2 DEF Taken
  <1>5. ASSUME NEW th \in Thread, Destroy(th)
        PROVE  Stays
    <2>1. /\ pc[th] = "destroy" /\ stored' = stored
          /\ keys' \in {keys, [keys EXCEPT ![key_id[th]] = NoTriple]}
      BY <1>5 DEF Destroy, kim
    <2>2. key_id[th] # i
      BY <2>1 DEF DestroyedIdsUnmapped
    <2> QED
      BY <2>1, <2>2
  <1>6. ASSUME Drain \/ Joined
        PROVE  Stays
    BY <1>6 DEF Drain, Joined, kim
  <1>7. ASSUME Crash
        PROVE  Stays \/ Taken(t)
    <2>1. CASE stored' = stored
      BY <1>7, <2>1 DEF Crash
    <2>2. CASE stored' # stored
      <3>1. PICK th \in Thread : pc[th] = "insert" /\ InsertKeyInfoError(triple[th])
        BY <1>7, <2>2 DEF Crash, kim
      <3>2. pc'[th] # pc[th] /\ keys' = keys
        BY <1>7, <3>1 DEF Crash, LoseThreads
      <3>3. \A u \in KeyTriple : u # triple[th] => stored'[u] = stored[u]
        BY <3>1 DEF InsertKeyInfoError
      <3> QED
        BY <3>1, <3>2, <3>3 DEF Taken
    <2> QED
      BY <2>1, <2>2
  <1>8. ASSUME Start \/ StartError
        PROVE  Stays
    <2>1. t \notin DeadTriples /\ keys' = keys
      BY <1>8 DEF DeadTriples, HasKey, Start, StartError
    <2>2. PICK bad \in SUBSET DeadTriples : ReloadWithout(bad)
      BY <1>8 DEF Start, StartError
    <2> QED
      BY <2>1, <2>2 DEF ReloadWithout
  <1>9. ASSUME UNCHANGED vars
        PROVE  Stays
    BY <1>9 DEF vars, kim
  <1> QED
    BY <1>1, <1>2, <1>3, <1>4, <1>5, <1>6, <1>7, <1>8, <1>9 DEF Next, Step

(* A key whose mapping is on disk keeps both, through races, failures,     *)
(* crashes and the reconstruction of the counter: the key that a request   *)
(* destroys after it removed a mapping, under an id that it had read       *)
(* before, is never a mapped one.                                          *)
THEOREM MappedKeysStay == Spec => MappedKeyStays
  <1>1. Spec => []MappedInv
    BY InitMappedInv, NextMappedInv, PTL DEF Spec
  <1>2. MappedInv /\ [Next]_vars =>
          [\A t \in KeyTriple :
             stored[t] # NoId /\ keys[stored[t]] = t =>
                \/ stored'[t] = stored[t] /\ keys'[stored[t]] = t
                \/ \E th \in Thread :
                      /\ triple[th] = t
                      /\ pc[th] \in {"insert", "rollback", "remove"}
                      /\ pc'[th] # pc[th]]_vars
    BY NextMapped DEF Taken
  <1> QED
    BY <1>1, <1>2, PTL DEF Spec, MappedKeyStays

---------------------------------------------------------------------------
(* What KeptInv adds to IdInv.                                             *)
Kept == OneRequestPerTriple /\ MappedKeysLive /\ DiskUpToDate /\ RequestsAgree /\ KnownIsStored

(* What a step may use of IdInv and of the types.                          *)
LEMMA KeptTypes ==
  ASSUME IdInv
  PROVE  /\ key_info \in [KeyTriple -> Id \cup {NoId}]
         /\ stored \in [KeyTriple -> Id \cup {NoId}]
         /\ keys \in [Id -> KeyTriple \cup {NoTriple}]
         /\ known \in [KeyTriple -> {"exists", "absent", "unsure"}]
         /\ DOMAIN pc = Thread
         /\ triple \in [Thread -> KeyTriple \cup {NoTriple}]
         /\ key_id \in [Thread -> Nat]
         /\ \A th \in Thread : pc[th] = "idle" <=> triple[th] = NoTriple
         /\ \A th \in Thread : pc[th] # "idle" => triple[th] \in KeyTriple /\ status # "down"
         /\ \A th \in Thread : pc[th] \notin {"idle", "count", "saturate"} => key_id[th] \in Id
         /\ NoId \notin Id /\ NoTriple \notin KeyTriple
  BY IdFacts, Sentinels
  DEF IdInv, TypeOK, KimTypeOK, RequestTypeOK, IdleWhenDown

(* A request begins: nobody else works on its triple.                      *)
LEMMA KeptRequest ==
  ASSUME ~Overlap, IdInv, Kept, NEW th \in Thread, NEW t \in KeyTriple, Request(th, t)
  PROVE  Kept'
  <1> USE KeptTypes DEF Kept, OneRequestPerTriple, MappedKeysLive, DiskUpToDate,
          RequestsAgree, KnownIsStored, Creating, Ending, kim
  <1>1. CASE CreateRefused(th, t) \/ NoSuchKey(th, t)
    BY <1>1 DEF CreateRefused, NoSuchKey, Refuse, Arrives, Exists
  <1>2. CASE CreateBegin(th, t)
    BY <1>2 DEF CreateBegin, Begin, Arrives, Goto, Exists
  <1>3. CASE DestroyBegin(th, t)
    BY <1>3 DEF DestroyBegin, Begin, Arrives, Goto, Exists
  <1>4. CASE UseBegin(th, t)
    BY <1>4 DEF UseBegin, Begin, Arrives, Goto, Exists
  <1> QED
    BY <1>1, <1>2, <1>3, <1>4 DEF Request

(* A request ends: what it says of its key, and the keys it leaves, agree  *)
(* with the mappings.                                                      *)
LEMMA KeptAnswer ==
  ASSUME IdInv, Kept, NEW th \in Thread, pc[th] # "idle", NEW k, Answer(th, k),
         UNCHANGED <<key_info, stored>>,
         k = "exists" => stored[triple[th]] # NoId,
         k = "absent" => stored[triple[th]] = NoId,
         \A t \in KeyTriple : stored[t] # NoId => keys'[stored[t]] = t
  PROVE  Kept'
  <1> USE KeptTypes DEF Kept, Answer
  <1>1. OneRequestPerTriple'
    BY DEF OneRequestPerTriple
  <1>2. MappedKeysLive' /\ DiskUpToDate'
    BY DEF MappedKeysLive, DiskUpToDate
  <1>3. RequestsAgree'
    BY DEF RequestsAgree, OneRequestPerTriple, Creating, Ending
  <1>4. KnownIsStored'
    BY DEF KnownIsStored
  <1> QED
    BY <1>1, <1>2, <1>3, <1>4

(* The creation that found no mapping is the only one, so the new mapping  *)
(* shadows none.                                                           *)
LEMMA KeptInsert ==
  ASSUME IdInv, Kept, NEW th \in Thread, Insert(th)
  PROVE  Kept'
  <1> DEFINE t == triple[th]
             i == key_id[th]
  <1>1. /\ pc[th] = "insert" /\ t \in KeyTriple /\ i \in Id /\ keys[i] = t
        /\ status # "down" /\ key_info = stored
    BY KeptTypes DEF Insert, IdInv, HeldKeyIsOwn, Kept, DiskUpToDate
  <1>2. /\ key_info' = [key_info EXCEPT ![t] = i]
        /\ stored' = [stored EXCEPT ![t] = i]
        /\ pc' = [pc EXCEPT ![th] = "idle"]
        /\ triple' = [triple EXCEPT ![th] = NoTriple]
        /\ key_id' = [key_id EXCEPT ![th] = NoId]
        /\ known' = [known EXCEPT ![t] = "exists"]
        /\ UNCHANGED <<status, keys>>
    BY DEF Insert, InsertKeyInfo, Return, Answer
  <1>3. \A other \in Thread \ {th} : Ending(other) => key_id[other] # i
    BY <1>1 DEF IdInv, IssuedIdsFresh, ReadIdsNotFresh, Creating, Reading, Ending
  <1>4. \A other \in Thread \ {th} : triple[other] # t
    BY <1>1, Sentinels DEF Kept, OneRequestPerTriple
  <1> HIDE DEF t, i
  <1> USE KeptTypes, <1>1, <1>2
  <1>5. OneRequestPerTriple'
    BY DEF Kept, OneRequestPerTriple
  <1>6. MappedKeysLive' /\ DiskUpToDate'
    BY DEF Kept, MappedKeysLive, DiskUpToDate
  <1>7. RequestsAgree'
    BY <1>3, <1>4 DEF Kept, RequestsAgree, Creating, Ending
  <1>8. KnownIsStored'
    BY DEF Kept, KnownIsStored
  <1> QED
    BY <1>5, <1>6, <1>7, <1>8 DEF Kept

(* Who removes a mapping has read it, so the key it goes on to destroy has *)
(* no mapping any more.                                                    *)
LEMMA KeptRemove ==
  ASSUME IdInv, Kept, NEW th \in Thread, Remove(th)
  PROVE  Kept'
  <1> DEFINE t == triple[th]
  <1>1. /\ pc[th] = "remove" /\ t \in KeyTriple /\ key_info[t] = key_id[th]
        /\ status # "down" /\ key_info = stored /\ known[t] = "unsure"
    BY KeptTypes DEF Remove, Goto, Kept, DiskUpToDate, RequestsAgree
  <1>2. /\ key_info' = [key_info EXCEPT ![t] = NoId]
        /\ stored' = [stored EXCEPT ![t] = NoId]
        /\ pc' = [pc EXCEPT ![th] = "destroy_lock"]
        /\ UNCHANGED <<status, keys, triple, key_id, known>>
    BY DEF Remove, RemoveKeyInfo, Goto, local
  <1>3. key_id[th] # NoId /\ \A u \in KeyTriple : stored'[u] # key_id[th]
    BY <1>1, <1>2, KeptTypes DEF IdInv, MappingsInjective
  <1> HIDE DEF t
  <1> USE KeptTypes, <1>1, <1>2
  <1>5. OneRequestPerTriple' /\ MappedKeysLive' /\ DiskUpToDate'
    BY DEF Kept, OneRequestPerTriple, MappedKeysLive, DiskUpToDate
  <1>7. RequestsAgree'
    <2> SUFFICES ASSUME NEW other \in Thread
                 PROVE  /\ pc'[other] \in {"count", "saturate"} \/ Creating(other)' \/ Ending(other)' =>
                              key_info'[triple[other]] = NoId
                        /\ Ending(other)' => \A u \in KeyTriple : stored'[u] # key_id[other]
                        /\ pc'[other] = "remove" => key_info'[triple[other]] = key_id[other]
                        /\ pc'[other] \notin {"idle", "use_lock", "use"} =>
                              known[triple[other]] = "unsure"
      BY DEF RequestsAgree
    <2>1. CASE other = th
      BY <2>1, <1>3 DEF t, Creating, Ending
    <2>2. CASE other # th
      <3>1. triple[other] # t /\ pc'[other] = pc[other]
        BY <2>2 DEF Kept, OneRequestPerTriple, t
      <3> QED
        BY <3>1, <1>3 DEF Kept, RequestsAgree, Creating, Ending
    <2> QED
      BY <2>1, <2>2
  <1>8. KnownIsStored'
    BY DEF Kept, KnownIsStored
  <1> QED
    BY <1>5, <1>7, <1>8 DEF Kept

(* A step of a request, before its end or with it.                         *)
LEMMA KeptStep ==
  ASSUME IdInv, Kept, NEW th \in Thread, Step(th)
  PROVE  Kept'
  <1> DEFINE Parts == /\ OneRequestPerTriple /\ MappedKeysLive /\ DiskUpToDate
                      /\ RequestsAgree /\ KnownIsStored
  <1>a. Parts /\ (Parts' => Kept')
    BY DEF Kept
  <1>b. \A t \in KeyTriple : stored[t] # NoId => keys[stored[t]] = t
    BY <1>a DEF MappedKeysLive
  <1>1. CASE FetchAdd(th)
    BY <1>1, <1>a, KeptTypes
    DEF FetchAdd, Goto, OneRequestPerTriple, MappedKeysLive, DiskUpToDate,
        RequestsAgree, KnownIsStored, Creating, Ending, kim
  <1>2. CASE Saturate(th) \/ CreateKeyError(th) \/ RemoveTooLate(th)
    <2>1. stored[triple[th]] = NoId /\ pc[th] # "idle"
      BY <1>2, <1>a, KeptTypes
      DEF Saturate, CreateKeyError, RemoveTooLate, Exists, RequestsAgree, DiskUpToDate,
          Creating
    <2> QED
      BY <1>2, <2>1, <1>b, KeptAnswer
      DEF Saturate, CreateKeyError, RemoveTooLate, Return, kim
  <1>3. CASE RemoveError(th)
    <2>1. stored[triple[th]] # NoId /\ pc[th] = "remove"
      BY <1>3, <1>a, KeptTypes DEF RemoveError, RequestsAgree, DiskUpToDate
    <2> QED
      BY <1>3, <2>1, <1>b, KeptAnswer DEF RemoveError, Return, kim
  <1>4. CASE Use(th)
    <2>1. /\ known[triple[th]] = "exists" => stored[triple[th]] # NoId
          /\ known[triple[th]] = "absent" => stored[triple[th]] = NoId
      BY <1>4, <1>a, KeptTypes DEF Use, KnownIsStored
    <2> QED
      BY <1>4, <2>1, <1>b, KeptAnswer DEF Use, Return, kim
  <1>5. CASE \/ Lock(th, "create_lock", "create")
             \/ Lock(th, "destroy_lock", "destroy")
             \/ Lock(th, "use_lock", "use")
    BY <1>5, <1>a, KeptTypes
    DEF Lock, Goto, OneRequestPerTriple, MappedKeysLive, DiskUpToDate,
        RequestsAgree, KnownIsStored, Creating, Ending, kim, local
  <1>6. CASE CreateKey(th)
    BY <1>6, <1>a, KeptTypes
    DEF CreateKey, Goto, OneRequestPerTriple, MappedKeysLive, DiskUpToDate,
        RequestsAgree, KnownIsStored, Creating, Ending, kim, local
  <1>7. CASE Insert(th)
    BY <1>7, KeptInsert
  <1>8. ~InsertOverwrites(th)
    BY <1>a DEF InsertOverwrites, Goto, Exists, RequestsAgree, Creating
  <1>9. CASE InsertError(th)
    BY <1>9, <1>a, KeptTypes
    DEF InsertError, InsertKeyInfoError, Goto, OneRequestPerTriple, MappedKeysLive,
        DiskUpToDate, RequestsAgree, KnownIsStored, Creating, Ending, local,
        IdInv, IssuedIdsFresh
  <1>10. CASE Rollback(th) \/ Destroy(th)
    <2>1. /\ Ending(th) /\ Answer(th, "absent") /\ UNCHANGED <<key_info, stored>>
          /\ keys' \in {keys, [keys EXCEPT ![key_id[th]] = NoTriple]}
      BY <1>10 DEF Rollback, Destroy, Return, kim, Ending
    <2>2. \A t \in KeyTriple : stored[t] # NoId => keys'[stored[t]] = t
      BY <2>1, <1>a, <1>b, KeptTypes DEF RequestsAgree
    <2>3. pc[th] # "idle" /\ stored[triple[th]] = NoId
      BY <2>1, <1>a, KeptTypes DEF Ending, RequestsAgree, DiskUpToDate
    <2> QED
      BY <2>1, <2>2, <2>3, KeptAnswer
  <1>11. CASE Remove(th)
    BY <1>11, KeptRemove
  <1> QED
    BY <1>1, <1>2, <1>3, <1>4, <1>5, <1>6, <1>7, <1>8, <1>9, <1>10, <1>11 DEF Step

(* A start finds a key for each mapping, so it drops none.                 *)
LEMMA KeptService ==
  ASSUME IdInv, Kept, Drain \/ Joined \/ Crash \/ Start \/ StartError
  PROVE  Kept'
  <1> USE KeptTypes DEF Kept, OneRequestPerTriple, MappedKeysLive, DiskUpToDate,
          RequestsAgree, KnownIsStored, Creating, Ending, kim, local
  <1>1. CASE Drain \/ Joined
    BY <1>1 DEF Drain, Joined, StopArrivals, JoinThreads
  <1>2. CASE Crash
    BY <1>2 DEF Crash, LoseThreads, InsertKeyInfoError
  <1>3. DeadTriples = {}
    BY DEF DeadTriples, HasKey
  <1>4. CASE Start \/ StartError
    <2>1. stored' = stored /\ key_info' = stored
      BY <1>3, <1>4 DEF Start, StartError, ReloadWithout
    <2> QED
      BY <1>4, <2>1 DEF Start, StartError, IdInv, IdleWhenDown
  <1> QED
    BY <1>1, <1>2, <1>4

LEMMA KeptInvHolds == ~Overlap /\ Spec => []KeptInv
  <1> SUFFICES ASSUME ~Overlap
               PROVE  Spec => []KeptInv
    OBVIOUS
  <1>1. Init => KeptInv
    BY InitIdInv, IdFacts
    DEF Init, KimInit, RequestInit, KeptInv, OneRequestPerTriple, MappedKeysLive,
        DiskUpToDate, RequestsAgree, KnownIsStored, Creating, Ending
  <1>2. KeptInv /\ [Next]_vars => KeptInv'
    <2> SUFFICES ASSUME KeptInv, [Next]_vars
                 PROVE  KeptInv'
      OBVIOUS
    <2>1. IdInv' /\ IdInv /\ Kept
      BY NextIdInv DEF KeptInv, Kept
    <2> SUFFICES Kept'
      BY <2>1 DEF KeptInv, Kept
    <2>2. CASE UNCHANGED vars
      <3>1. UNCHANGED <<status, key_info, stored, keys, pc, triple, key_id, known>>
        BY <2>2 DEF vars
      <3> QED
        BY <2>1, <3>1
        DEF Kept, OneRequestPerTriple, MappedKeysLive, DiskUpToDate,
            RequestsAgree, KnownIsStored, Creating, Ending
    <2>3. CASE \E th \in Thread : Step(th)
      BY <2>1, <2>3, KeptStep
    <2>4. CASE \E th \in Thread, t \in KeyTriple : Request(th, t)
      BY <2>1, <2>4, KeptRequest
    <2>5. CASE Drain \/ Joined \/ Crash \/ Start \/ StartError
      BY <2>1, <2>5, KeptService
    <2> QED
      BY <2>2, <2>3, <2>4, <2>5 DEF Next
  <1> QED
    BY <1>1, <1>2, PTL DEF Spec

(* A client that waits for its answers and was told that its key exists    *)
(* finds it, in this life of the service and the next ones.                *)
THEOREM AckedKeysUsable == ~Overlap /\ Spec => []AckedKeyUsable
  <1>1. KeptInv => AckedKeyUsable
    BY DEF KeptInv, MappedKeysLive, DiskUpToDate, KnownIsStored, AckedKeyUsable, Reached
  <1> QED
    BY <1>1, KeptInvHolds, PTL

---------------------------------------------------------------------------
(* The requests that answer for the key under their id.                    *)
Owns(th, i) ==
    pc[th] \in {"insert", "rollback", "destroy_lock", "destroy"} /\ key_id[th] = i

Abandoned(i) == \E th \in Thread : pc[th] \in {"destroy", "rollback"} /\ key_id[th] = i

(* A step of a request that leaves the mappings alone, and gives its key   *)
(* away only by trying to destroy it.                                      *)
LEMMA OwnedByRequest ==
  ASSUME IdInv, NEW th \in Thread, NEW i \in Id, HasOwner(i),
         UNCHANGED <<status, key_info, stored>>, keys'[i] = keys[i],
         \A other \in Thread \ {th} : pc'[other] = pc[other] /\ key_id'[other] = key_id[other],
         Owns(th, i) => Owns(th, i)'
  PROVE  HasOwner(i)'
  BY DEF HasOwner, Owns, Reached

LEMMA OwnedAfterStep ==
  ASSUME IdInv, Kept, NEW th \in Thread, Step(th), NEW i \in Id,
         keys[i] = NoTriple \/ HasOwner(i), keys'[i] # NoTriple
  PROVE  HasOwner(i)' \/ Abandoned(i)
  <1> USE KeptTypes
  <1>1. CASE FetchAdd(th)
    BY <1>1, OwnedByRequest DEF FetchAdd, Goto, kim, Owns
  <1>2. CASE Saturate(th) \/ CreateKeyError(th) \/ RemoveTooLate(th)
             \/ RemoveError(th) \/ Use(th)
    <2>1. /\ Answer(th, "absent") \/ Answer(th, "exists") \/ Answer(th, known[triple[th]])
          /\ pc[th] \in {"saturate", "create", "remove", "use"}
          /\ UNCHANGED <<key_info, stored, keys>>
      BY <1>2 DEF Saturate, CreateKeyError, RemoveTooLate, RemoveError, Use, Return, kim
    <2>2. /\ pc' = [pc EXCEPT ![th] = "idle"] /\ key_id' = [key_id EXCEPT ![th] = NoId]
          /\ UNCHANGED status
      BY <2>1 DEF Answer
    <2> QED
      BY <2>1, <2>2, OwnedByRequest DEF Owns
  <1>3. CASE \/ Lock(th, "create_lock", "create")
             \/ Lock(th, "destroy_lock", "destroy")
             \/ Lock(th, "use_lock", "use")
    BY <1>3, OwnedByRequest DEF Lock, Goto, kim, local, Owns
  <1>4. CASE CreateKey(th)
    <2>1. /\ pc' = [pc EXCEPT ![th] = "insert"] /\ pc[th] = "create"
          /\ keys' = [keys EXCEPT ![key_id[th]] = triple[th]] /\ keys[key_id[th]] = NoTriple
          /\ UNCHANGED <<status, key_info, stored, key_id>>
      BY <1>4 DEF CreateKey, Goto, kim, local
    <2>2. CASE key_id[th] = i
      BY <2>1, <2>2 DEF HasOwner
    <2>3. CASE key_id[th] # i
      BY <2>1, <2>3, OwnedByRequest DEF Owns
    <2> QED
      BY <2>2, <2>3
  <1>5. CASE Insert(th)
    <2>1. /\ pc[th] = "insert" /\ triple[th] \in KeyTriple /\ status # "down"
          /\ keys[key_id[th]] = triple[th] /\ key_info[triple[th]] = NoId
      BY <1>5 DEF Insert, Exists, IdInv, HeldKeyIsOwn
    <2>2. /\ key_info' = [key_info EXCEPT ![triple[th]] = key_id[th]]
          /\ pc' = [pc EXCEPT ![th] = "idle"] /\ key_id' = [key_id EXCEPT ![th] = NoId]
          /\ UNCHANGED <<status, keys>>
      BY <1>5 DEF Insert, InsertKeyInfo, Return, Answer
    <2>3. CASE key_id[th] = i
      BY <2>1, <2>2, <2>3 DEF HasOwner, Reached
    <2>4. CASE \E other \in Thread \ {th} : Owns(other, i)
      BY <2>2, <2>4 DEF HasOwner, Owns
    <2>5. CASE Reached(keys[i]) = i /\ keys[i] # NoTriple
      <3>1. keys[i] \in KeyTriple /\ keys[i] # triple[th]
        BY <2>1, <2>5 DEF Reached
      <3> QED
        BY <2>1, <2>2, <2>5, <3>1 DEF HasOwner, Reached
    <2> QED
      BY <2>2, <2>3, <2>4, <2>5 DEF HasOwner, Owns
  <1>6. ~InsertOverwrites(th)
    BY DEF InsertOverwrites, Goto, Exists, Kept, RequestsAgree, Creating
  <1>7. CASE InsertError(th)
    <2>1. /\ pc' = [pc EXCEPT ![th] = "rollback"]
          /\ UNCHANGED <<status, key_info, keys, key_id>>
          /\ pc[th] = "insert" /\ status # "down"
      BY <1>7 DEF InsertError, InsertKeyInfoError, Goto, local
    <2> QED
      BY <2>1 DEF HasOwner, Reached
  <1>8. CASE Rollback(th) \/ Destroy(th)
    <2>1. /\ pc[th] \in {"rollback", "destroy"}
          /\ pc' = [pc EXCEPT ![th] = "idle"] /\ key_id' = [key_id EXCEPT ![th] = NoId]
          /\ keys' \in {keys, [keys EXCEPT ![key_id[th]] = NoTriple]}
          /\ UNCHANGED <<status, key_info, stored>>
      BY <1>8 DEF Rollback, Destroy, Return, Answer, kim
    <2>2. CASE key_id[th] = i
      BY <2>1, <2>2 DEF Abandoned
    <2>3. CASE key_id[th] # i
      BY <2>1, <2>3, OwnedByRequest DEF Owns
    <2> QED
      BY <2>2, <2>3
  <1>9. CASE Remove(th)
    <2>1. /\ pc[th] = "remove" /\ triple[th] \in KeyTriple /\ status # "down"
          /\ key_info[triple[th]] = key_id[th]
      BY <1>9 DEF Remove, Goto, Kept, RequestsAgree
    <2>2. /\ key_info' = [key_info EXCEPT ![triple[th]] = NoId]
          /\ pc' = [pc EXCEPT ![th] = "destroy_lock"]
          /\ UNCHANGED <<status, keys, key_id>>
      BY <1>9 DEF Remove, RemoveKeyInfo, Goto, local
    <2>3. CASE keys[i] = triple[th] /\ Reached(keys[i]) = i
      BY <2>1, <2>2, <2>3 DEF HasOwner, Reached
    <2>4. CASE keys[i] # triple[th] /\ Reached(keys[i]) = i
      <3>1. keys[i] \in KeyTriple
        BY <2>2
      <3> QED
        BY <2>1, <2>2, <2>4, <3>1 DEF HasOwner, Reached
    <2>5. CASE \E other \in Thread : Owns(other, i)
      BY <2>1, <2>2, <2>5 DEF HasOwner, Owns
    <2> QED
      BY <2>2, <2>3, <2>4, <2>5 DEF HasOwner, Owns
  <1> QED
    BY <1>1, <1>2, <1>3, <1>4, <1>5, <1>6, <1>7, <1>8, <1>9 DEF Step

LEMMA OwnedAfterService ==
  ASSUME IdInv, Kept, Drain \/ Joined \/ Crash \/ Start \/ StartError, NEW i \in Id,
         keys[i] = NoTriple \/ HasOwner(i), keys'[i] # NoTriple
  PROVE  HasOwner(i)' \/ status' = "down"
  <1> USE KeptTypes
  <1>1. CASE Drain
    BY <1>1 DEF Drain, StopArrivals, HasOwner, Reached, kim
  <1>2. CASE Joined \/ Crash
    BY <1>2 DEF Joined, Crash, JoinThreads, LoseThreads
  <1>3. CASE Start \/ StartError
    <2>1. DeadTriples = {}
      BY DEF DeadTriples, HasKey, Kept, MappedKeysLive
    <2>2. stored' = stored /\ key_info' = stored
      BY <1>3, <2>1 DEF Start, StartError, ReloadWithout
    <2>3. status = "down" /\ UNCHANGED <<keys, pc, key_id>>
      BY <1>3 DEF Start, StartError, local
    <2>4. \A th \in Thread : pc[th] = "idle"
      BY <2>3 DEF IdInv, IdleWhenDown
    <2> QED
      BY <2>2, <2>3, <2>4 DEF HasOwner, Reached
  <1> QED
    BY <1>1, <1>2, <1>3

(* No error of the key info manager leaves a key behind: a key without a   *)
(* mapping is in the hands of a request, until the process dies or the     *)
(* backend refuses to destroy it.                                          *)
THEOREM KeysHaveOwners == ~Overlap /\ Spec => OrphansOnlyFromFailures
  <1>1. ASSUME KeptInv, [Next]_vars, NEW i \in Id,
               keys[i] = NoTriple \/ HasOwner(i), keys'[i] # NoTriple
        PROVE  HasOwner(i)' \/ status' = "down" \/ Abandoned(i)
    <2>1. IdInv /\ Kept
      BY <1>1 DEF KeptInv, Kept
    <2>2. CASE UNCHANGED vars
      BY <1>1, <2>2 DEF vars, HasOwner, Reached
    <2>3. ASSUME NEW th \in Thread, NEW t \in KeyTriple, Request(th, t)
          PROVE  HasOwner(i)'
      <3>1. /\ UNCHANGED <<status, key_info, stored, keys>>
            /\ pc[th] = "idle"
            /\ \A other \in Thread \ {th} : pc'[other] = pc[other] /\ key_id'[other] = key_id[other]
        BY <2>1, <2>3, KeptTypes
        DEF Request, CreateRefused, CreateBegin, NoSuchKey, DestroyBegin, UseBegin,
            Refuse, Begin, Arrives, Goto, kim
      <3>2. HasOwner(i)
        BY <1>1, <3>1
      <3> QED
        BY <2>1, <3>1, <3>2, OwnedByRequest DEF Owns
    <2>4. CASE \E th \in Thread : Step(th)
      BY <1>1, <2>1, <2>4, OwnedAfterStep
    <2>5. CASE Drain \/ Joined \/ Crash \/ Start \/ StartError
      BY <1>1, <2>1, <2>5, OwnedAfterService
    <2> QED
      BY <1>1, <2>2, <2>3, <2>4, <2>5 DEF Next
  <1>2. KeptInv /\ [Next]_vars =>
           [\A i \in Id :
              (keys[i] = NoTriple \/ HasOwner(i)) /\ keys'[i] # NoTriple =>
                 \/ HasOwner(i)'
                 \/ status' = "down"
                 \/ \E th \in Thread :
                       pc[th] \in {"destroy", "rollback"} /\ key_id[th] = i]_vars
    BY <1>1 DEF Abandoned
  <1> QED
    BY <1>2, KeptInvHolds, PTL DEF Spec, OrphansOnlyFromFailures

---------------------------------------------------------------------------
(* For clients that wait, the map a client sees is the map on disk.        *)
LEMMA KeyMap ==
  ASSUME IdInv, Kept, IdInv', Kept'
  PROVE  KeyOf = stored /\ KeyOf' = stored'
  <1>1. KeyOf = stored
    BY KeptTypes DEF KeyOf, Reached, Kept, MappedKeysLive, DiskUpToDate
  <1>2. stored' \in [KeyTriple -> Id \cup {NoId}]
    BY DEF IdInv, TypeOK, KimTypeOK
  <1>3. KeyOf' = stored'
    BY <1>2 DEF KeyOf, Reached, Kept, MappedKeysLive, DiskUpToDate
  <1> QED
    BY <1>1, <1>3

LEMMA KindFacts ==
  ASSUME IdInv, NEW th \in Thread
  PROVE  /\ KindOf[th] = "idle" <=> pc[th] = "idle"
         /\ pc[th] \in CreateSteps => KindOf[th] = "create"
         /\ pc[th] = "remove" => KindOf[th] = "destroy"
         /\ pc[th] \in UseSteps => KindOf[th] = "use"
         /\ pc[th] \in {"rollback", "destroy_lock", "destroy"} => KindOf[th] = "end"
  BY KeptTypes DEF KindOf, RequestKinds, CreateSteps, UseSteps

(* A step of th changes the kind of its own request only.                  *)
LEMMA KindStep ==
  ASSUME IdInv, NEW th \in Thread, NEW to, pc' = [pc EXCEPT ![th] = to]
  PROVE  /\ to = "idle" => KindOf' = [KindOf EXCEPT ![th] = "idle"]
         /\ to \in CreateSteps => KindOf' = [KindOf EXCEPT ![th] = "create"]
         /\ to = "remove" => KindOf' = [KindOf EXCEPT ![th] = "destroy"]
         /\ to \in UseSteps => KindOf' = [KindOf EXCEPT ![th] = "use"]
         /\ to \in {"rollback", "destroy_lock", "destroy"} =>
               KindOf' = [KindOf EXCEPT ![th] = "end"]
  BY DEF IdInv, TypeOK, RequestTypeOK, KindOf, RequestKinds, CreateSteps, UseSteps

(* The end of a request with an answer that is true of the map.            *)
LEMMA AnswerImplements ==
  ASSUME IdInv, IdInv', Kept, Kept', NEW th \in Thread, pc[th] # "idle",
         NEW k, Answer(th, k), stored' = stored,
         \/ k = "exists" /\ stored[triple[th]] # NoId
         \/ k = "absent" /\ stored[triple[th]] = NoId
         \/ pc[th] \in UseSteps /\ k = known[triple[th]]
  PROVE  Keys!Answer(th, k)
  <1>1. KeyOf = stored /\ KeyOf' = stored
    BY KeyMap
  <1>2. KindOf' = [KindOf EXCEPT ![th] = "idle"] /\ KindOf[th] # "idle"
    BY KindStep, KindFacts DEF Answer
  <1>3. pc[th] \in UseSteps => KindOf[th] = "use"
    BY KindFacts
  <1> QED
    BY <1>1, <1>2, <1>3 DEF Keys!Answer, Keys!End, Keys!Tell, Keys!True, Answer

(* A request arrives, and is refused or begins.                            *)
LEMMA RequestImplements ==
  ASSUME ~Overlap, IdInv, IdInv', Kept, Kept', NEW th \in Thread, NEW t \in KeyTriple,
         Request(th, t)
  PROVE  Keys!KeyStoreNext
  <1>1. KeyOf = stored /\ KeyOf' = stored'
    BY KeyMap
  <1>2. status = "up" /\ UNCHANGED <<status, key_info, stored>> /\ Keys!Arrives(th, t)
    BY KindFacts
    DEF Request, CreateRefused, CreateBegin, NoSuchKey, DestroyBegin, UseBegin,
        Refuse, Begin, Arrives, kim, Keys!Arrives
  <1>3. stored = key_info
    BY <1>2 DEF Kept, DiskUpToDate
  <1> USE <1>1, <1>2, <1>3
  <1>4. CASE CreateRefused(th, t)
    <2>1. Keys!Refuse(th, t, "exists")
      BY <1>4 DEF CreateRefused, Refuse, Exists, KindOf, RequestKinds, Keys!Refuse,
                  Keys!Tell, Keys!True, Keys!requests
    <2> QED
      BY <2>1 DEF Keys!KeyStoreNext
  <1>5. CASE NoSuchKey(th, t)
    <2>1. Keys!Refuse(th, t, "absent")
      BY <1>5 DEF NoSuchKey, Refuse, Exists, KindOf, RequestKinds, Keys!Refuse,
                  Keys!Tell, Keys!True, Keys!requests
    <2> QED
      BY <2>1 DEF Keys!KeyStoreNext
  <1>6. CASE CreateBegin(th, t)
    <2>1. KindOf' = [KindOf EXCEPT ![th] = "create"]
      BY <1>6, KindStep DEF CreateBegin, Begin, Goto, CreateSteps
    <2>2. Keys!Begin(th, t, "create")
      BY <1>6, <2>1 DEF CreateBegin, Begin, Keys!Begin, Keys!Tell
    <2> QED
      BY <2>2 DEF Keys!KeyStoreNext
  <1>7. CASE DestroyBegin(th, t)
    <2>1. KindOf' = [KindOf EXCEPT ![th] = "destroy"]
      BY <1>7, KindStep DEF DestroyBegin, Begin, Goto
    <2>2. Keys!Begin(th, t, "destroy")
      BY <1>7, <2>1 DEF DestroyBegin, Begin, Keys!Begin, Keys!Tell
    <2> QED
      BY <2>2 DEF Keys!KeyStoreNext
  <1>8. CASE UseBegin(th, t)
    <2>1. KindOf' = [KindOf EXCEPT ![th] = "use"]
      BY <1>8, KindStep DEF UseBegin, Begin, Goto, UseSteps
    <2>2. Keys!Begin(th, t, "use")
      BY <1>8, <2>1, KeptTypes DEF UseBegin, Begin, Keys!Begin
    <2> QED
      BY <2>2 DEF Keys!KeyStoreNext
  <1> QED
    BY <1>4, <1>5, <1>6, <1>7, <1>8 DEF Request

(* The steps between the begin of a request and its effect, or between its *)
(* effect and its answer, are stutters of the store.                       *)
LEMMA StepImplements ==
  ASSUME IdInv, IdInv', Kept, Kept', NEW th \in Thread, Step(th)
  PROVE  Keys!KeyStoreNext \/ UNCHANGED Keys!storeVars
  <1>1. KeyOf = stored /\ KeyOf' = stored'
    BY KeyMap
  <1>2. pc[th] # "idle" /\ triple[th] \in KeyTriple /\ stored = key_info
    BY KeptTypes
    DEF Kept, DiskUpToDate, Step, FetchAdd, Saturate, Lock, CreateKey, CreateKeyError,
        Insert, InsertOverwrites, InsertError, Rollback, Remove, RemoveTooLate,
        RemoveError, Destroy, Use, Goto
  <1>3. ASSUME NEW k \in {"exists", "absent", "unsure"}, Keys!Answer(th, k)
        PROVE  Keys!KeyStoreNext
    BY <1>3 DEF Keys!KeyStoreNext
  <1>5. CASE FetchAdd(th)
    <2>1. KindOf' = KindOf
      BY <1>5, KindStep, KindFacts, KeptTypes
      DEF FetchAdd, Goto, KindOf, RequestKinds, CreateSteps, UseSteps
    <2> QED
      BY <1>1, <1>5, <2>1 DEF FetchAdd, kim, Keys!storeVars
  <1>6. CASE Saturate(th) \/ CreateKeyError(th) \/ Rollback(th) \/ Destroy(th)
    <2>1. Answer(th, "absent") /\ stored' = stored /\ stored[triple[th]] = NoId
      BY <1>2, <1>6 DEF Saturate, CreateKeyError, Rollback, Destroy, Return, kim, Kept,
                        RequestsAgree, Creating, Ending
    <2> QED
      BY <1>2, <1>3, <2>1, AnswerImplements
  <1>7. CASE RemoveTooLate(th)
    <2>1. Answer(th, "absent") /\ stored' = stored /\ stored[triple[th]] = NoId
      BY <1>2, <1>7 DEF RemoveTooLate, Return, Exists, kim
    <2> QED
      BY <1>2, <1>3, <2>1, AnswerImplements
  <1>8. CASE RemoveError(th)
    <2>1. Answer(th, "exists") /\ stored' = stored /\ stored[triple[th]] # NoId
      BY <1>2, <1>8, KeptTypes DEF RemoveError, Return, kim, Kept, RequestsAgree
    <2> QED
      BY <1>2, <1>3, <2>1, AnswerImplements
  <1>9. CASE Use(th)
    <2>1. Answer(th, known[triple[th]]) /\ stored' = stored /\ pc[th] \in UseSteps
      BY <1>9 DEF Use, Return, kim, UseSteps
    <2>2. known[triple[th]] \in {"exists", "absent", "unsure"}
      BY <1>2 DEF IdInv, TypeOK, RequestTypeOK
    <2> QED
      BY <1>2, <1>3, <2>1, <2>2, AnswerImplements
  <1>10. CASE \/ Lock(th, "create_lock", "create") \/ CreateKey(th)
              \/ Lock(th, "destroy_lock", "destroy") \/ Lock(th, "use_lock", "use")
    <2>1. KindOf' = KindOf
      BY <1>10, KindStep, KindFacts, KeptTypes
      DEF Lock, CreateKey, Goto, KindOf, RequestKinds, CreateSteps, UseSteps
    <2> QED
      BY <1>1, <1>10, <2>1 DEF Lock, CreateKey, kim, local, Keys!storeVars
  <1>11. CASE Insert(th)
    <2> DEFINE i == key_id[th]
    <2>1. /\ pc[th] = "insert" /\ i \in Id /\ Answer(th, "exists")
          /\ stored' = [stored EXCEPT ![triple[th]] = i] /\ stored[triple[th]] = NoId
      BY <1>2, <1>11, KeptTypes DEF Insert, InsertKeyInfo, Return, Exists
    <2>2. \A t \in KeyTriple : stored[t] # i
      BY <1>2, <2>1 DEF IdInv, IssuedIdsFresh, Creating
    <2>3. KindOf[th] = "create" /\ KindOf' = [KindOf EXCEPT ![th] = "idle"]
      BY <2>1, KindFacts, KindStep DEF Answer, CreateSteps
    <2>4. Keys!Create(th, i)
      BY <1>1, <2>1, <2>2, <2>3 DEF Keys!Create, Keys!End, Keys!Tell, Answer
    <2> QED
      BY <2>1, <2>4 DEF Keys!KeyStoreNext
  <1>12. ~InsertOverwrites(th)
    BY DEF InsertOverwrites, Goto, Exists, Kept, RequestsAgree, Creating
  <1>13. CASE InsertError(th)
    <2>1. /\ pc[th] = "insert" /\ pc' = [pc EXCEPT ![th] = "rollback"]
          /\ stored' \in {stored, [stored EXCEPT ![triple[th]] = NoId]}
          /\ stored[triple[th]] = NoId /\ UNCHANGED <<status, triple, known>>
      BY <1>2, <1>13 DEF InsertError, InsertKeyInfoError, Goto, local, Kept,
                         RequestsAgree, Creating
    <2>2. stored' = stored
      BY <1>2, <2>1, KeptTypes
    <2>3. KindOf[th] = "create" /\ KindOf' = [KindOf EXCEPT ![th] = "end"]
      BY <2>1, KindFacts, KindStep DEF CreateSteps
    <2>4. Keys!GiveUp(th)
      BY <1>1, <2>1, <2>2, <2>3 DEF Keys!GiveUp
    <2> QED
      BY <2>4 DEF Keys!KeyStoreNext
  <1>14. CASE Remove(th)
    <2>1. /\ pc[th] = "remove" /\ pc' = [pc EXCEPT ![th] = "destroy_lock"]
          /\ stored' = [stored EXCEPT ![triple[th]] = NoId]
          /\ UNCHANGED <<status, triple, known>>
      BY <1>14 DEF Remove, RemoveKeyInfo, Goto, local
    <2>2. KindOf[th] = "destroy" /\ KindOf' = [KindOf EXCEPT ![th] = "end"]
      BY <2>1, KindFacts, KindStep
    <2>3. Keys!Destroy(th)
      BY <1>1, <2>1, <2>2 DEF Keys!Destroy
    <2> QED
      BY <2>3 DEF Keys!KeyStoreNext
  <1> QED
    BY <1>5, <1>6, <1>7, <1>8, <1>9, <1>10, <1>11, <1>12, <1>13, <1>14 DEF Step

(* The service stops, dies and starts around an unchanged map.             *)
LEMMA ServiceImplements ==
  ASSUME IdInv, IdInv', Kept, Kept', Drain \/ Joined \/ Crash \/ Start \/ StartError
  PROVE  Keys!KeyStoreNext
  <1>1. KeyOf = stored /\ KeyOf' = stored'
    BY KeyMap
  <1>2. CASE Drain
    <2>1. Keys!Drain
      BY <1>1, <1>2 DEF Drain, StopArrivals, kim, KindOf, RequestKinds, Keys!Drain,
                        Keys!requests
    <2> QED
      BY <2>1 DEF Keys!KeyStoreNext
  <1>3. CASE Joined
    <2>1. Keys!Join
      BY <1>1, <1>3 DEF Joined, JoinThreads, kim, KindOf, RequestKinds, Keys!Join,
                        Keys!requests
    <2> QED
      BY <2>1 DEF Keys!KeyStoreNext
  <1>4. CASE Crash
    <2>1. stored' = stored
      <3>1. ASSUME NEW th \in Thread, pc[th] = "insert", InsertKeyInfoError(triple[th])
            PROVE  stored' = stored
        BY <3>1, KeptTypes DEF InsertKeyInfoError, Kept, RequestsAgree, Creating,
                               DiskUpToDate
      <3> QED
        BY <1>4, <3>1 DEF Crash, kim
    <2>2. KindOf' = [th \in Thread |-> "idle"]
      BY <1>4 DEF Crash, LoseThreads, KindOf, RequestKinds
    <2>3. Keys!Crash
      BY <1>1, <1>4, <2>1, <2>2 DEF Crash, LoseThreads, Keys!Crash
    <2> QED
      BY <2>3 DEF Keys!KeyStoreNext
  <1>5. CASE Start \/ StartError
    <2>1. DeadTriples = {}
      BY KeptTypes DEF DeadTriples, HasKey, Kept, MappedKeysLive
    <2>2. stored' = stored
      BY <1>5, <2>1, KeptTypes DEF Start, StartError, ReloadWithout
    <2>3. KindOf' = KindOf /\ UNCHANGED <<triple, known>> /\ status = "down"
          /\ status' \in {"up", "down"}
      BY <1>5 DEF Start, StartError, local, KindOf, RequestKinds
    <2>4. \E lost \in SUBSET KeyTriple :
             /\ TRUE => lost = {}
             /\ stored' = [t \in KeyTriple |-> IF t \in lost THEN NoId ELSE stored[t]]
      <3> WITNESS {} \in SUBSET KeyTriple
      <3> QED
        BY <2>2, KeptTypes
    <2>5. Keys!Start
      BY <1>1, <2>3, <2>4 DEF Keys!Start, Keys!requests
    <2> QED
      BY <2>5 DEF Keys!KeyStoreNext
  <1> QED
    BY <1>2, <1>3, <1>4, <1>5

(* To clients that wait for their answers the provider is one durable map  *)
(* from triples to keys, whatever fails and wherever the process dies: a   *)
(* request changes the key of its own triple only, once and with a fresh   *)
(* key, and every answer is true when it is given.                         *)
THEOREM ImplementsKeyStore == ~Overlap /\ Spec => KeyStoreSpec
  <1> SUFFICES ASSUME ~Overlap
               PROVE  Spec => KeyStoreSpec
    OBVIOUS
  <1>1. Init => Keys!KeyStoreInit
    BY IdFacts DEF Init, KimInit, RequestInit, Keys!KeyStoreInit, KindOf, RequestKinds,
                   KeyOf, Reached
  <1>2. KeptInv /\ KeptInv' /\ [Next]_vars => [Keys!KeyStoreNext]_Keys!storeVars
    <2> SUFFICES ASSUME KeptInv, KeptInv', [Next]_vars
                 PROVE  Keys!KeyStoreNext \/ UNCHANGED Keys!storeVars
      OBVIOUS
    <2>1. IdInv /\ IdInv' /\ Kept /\ Kept'
      BY DEF KeptInv, Kept
    <2>2. CASE UNCHANGED vars
      BY <2>2 DEF vars, KindOf, RequestKinds, KeyOf, Reached, Keys!storeVars
    <2>3. CASE Next
      BY <2>1, <2>3, RequestImplements, StepImplements, ServiceImplements DEF Next
    <2> QED
      BY <2>2, <2>3
  <1> QED
    BY <1>1, <1>2, KeptInvHolds, PTL DEF Spec, KeyStoreSpec, Keys!KeyStoreSpec

(* What an answer said of a key stays true until the next request about    *)
(* it; in particular a destroyed key does not come back, in this life of   *)
(* the service or a later one.                                             *)
THEOREM AnswersStayTrue == ~Overlap /\ Spec => []AnswersHold
  <1>1. KeptInv => AnswersHold
    <2> SUFFICES ASSUME KeptInv PROVE AnswersHold
      OBVIOUS
    <2>1. IdInv /\ Kept
      BY DEF KeptInv, Kept
    <2>2. KeyOf = stored
      BY <2>1, KeptTypes DEF KeyOf, Reached, Kept, MappedKeysLive, DiskUpToDate
    <2> QED
      BY <2>1, <2>2 DEF Kept, KnownIsStored, AnswersHold, Keys!AnswersHold
  <1> QED
    BY <1>1, KeptInvHolds, PTL
============================================================================
