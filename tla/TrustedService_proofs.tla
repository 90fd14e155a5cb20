------------------------ MODULE TrustedService_proofs ------------------------
(***************************************************************************)
(* Theorems about the Trusted Service provider, for every number of        *)
(* threads, triples and ids, with overlapping requests, calls that fail    *)
(* before or after the secure world executed them, and crashes.            *)
(***************************************************************************)
EXTENDS TrustedService, TLAPS

(* The ids are the natural numbers between the limits; NoId is below them. *)
LEMMA IdFacts ==
  ASSUME TrustedServiceAssumption
  PROVE  /\ KeyId \subseteq Nat
         /\ NoId \in Nat /\ NoId \notin KeyId
         /\ \A n \in Nat : n >= IdMin /\ ~(n > IdMax) => n \in KeyId
         /\ \A i \in KeyId : i >= IdMin /\ i <= IdMax
         /\ IdMin \in KeyId /\ IdMax \in KeyId
         /\ \A n \in Nat : n >= IdMin => NoId <= n
  BY DEF TrustedServiceAssumption, KeyId

LEMMA Sentinels ==
  ASSUME TrustedServiceAssumption
  PROVE  NoTriple \notin KeyTriple /\ NoId \in Nat
  BY DEF TrustedServiceAssumption

LEMMA InitTypeOK ==
  ASSUME TrustedServiceAssumption, Init
  PROVE  TypeOK
  BY IdFacts, Sentinels DEF Init, TypeOK, KimInit, KimTypeOK, RequestTypeOK, RequestInit

(* The value fetch_add produces is an id unless it is past the limit.      *)
LEMMA NextCounter ==
  ASSUME TrustedServiceAssumption, TypeOK
  PROVE  /\ id_counter + 1 \in Nat /\ id_counter + 1 >= IdMin
         /\ ~(id_counter + 1 > IdMax) => id_counter + 1 \in KeyId
  <1>1. id_counter \in Nat /\ id_counter >= IdMin /\ IdMin \in Nat
    BY DEF TypeOK, TrustedServiceAssumption
  <1>2. id_counter + 1 \in Nat /\ id_counter + 1 >= IdMin
    BY <1>1
  <1> QED
    BY <1>2, IdFacts

(* What a start leaves: the stored mappings, and a counter above them.     *)
LEMMA StartFacts ==
  ASSUME TrustedServiceAssumption, TypeOK, Start
  PROVE  /\ id_counter' \in Nat /\ id_counter' >= IdMin
         /\ KimTypeOK(KeyId)'
         /\ \A t \in KeyTriple : /\ stored'[t] = stored[t] /\ key_info'[t] = stored[t]
                                 /\ key_info'[t] <= id_counter'
  <1> DEFINE mapped == {stored[t] : t \in KeyTriple} \ {NoId}
  <1>1. PICK max \in {IdMin} \cup mapped :
             (\A id \in mapped : id <= max) /\ id_counter' = max
    BY DEF Start
  <1>2. stored \in [KeyTriple -> KeyId \cup {NoId}]
    BY DEF TypeOK, KimTypeOK
  <1>3. max \in KeyId
    BY <1>1, <1>2, IdFacts
  <1>4. id_counter' \in Nat /\ id_counter' >= IdMin
    BY <1>1, <1>3, IdFacts
  <1>5. KimTypeOK(KeyId)' /\ \A t \in KeyTriple : stored'[t] = stored[t] /\ key_info'[t] = stored[t]
    BY <1>2 DEF Start, ReloadWithout, KimTypeOK
  <1>6. ASSUME NEW t \in KeyTriple
        PROVE  key_info'[t] <= id_counter'
    <2>1. CASE stored[t] = NoId
      BY <1>4, <1>5, <2>1, IdFacts
    <2>2. CASE stored[t] # NoId
      BY <1>1, <1>5, <2>2
    <2> QED
      BY <2>1, <2>2
  <1> QED
    BY <1>4, <1>5, <1>6

(* What a call of the secure world may do to the keys.                     *)
LEMMA CallType ==
  ASSUME TypeOK, NEW th \in Thread,
         \/ Calls(WithKey(th)) \/ CallFails(WithKey(th))
         \/ Calls(WithoutKey(th)) \/ CallFails(WithoutKey(th))
         \/ UNCHANGED keys
  PROVE  keys' \in [KeyId -> KeyTriple \cup {NoTriple}]
  BY DEF TypeOK, RequestTypeOK, Calls, CallFails, WithKey, WithoutKey

(* One step per kind of action: each keeps every variable in its range and *)
(* a request that goes on keeps its triple and its id.                     *)
LEMMA NextTypeOK ==
  ASSUME TrustedServiceAssumption, TypeOK, [Next]_vars
  PROVE  TypeOK'
  <1> USE Sentinels DEF TypeOK, KimTypeOK, kim, local, RequestTypeOK
  <1>1. ASSUME NEW th \in Thread, NEW t \in KeyTriple, Request(th, t)
        PROVE  TypeOK'
    <2>1. CASE CreateRefused(th, t) \/ NoSuchKey(th, t)
      BY <2>1 DEF CreateRefused, NoSuchKey, Arrives, Refuse
    <2>2. CASE CreateBegin(th, t)
      BY <2>2 DEF CreateBegin, Arrives, Goto, Begin
    <2>3. CASE DestroyBegin(th, t)
      BY <2>3, IdFacts DEF DestroyBegin, Arrives, Goto, Exists, Begin
    <2>4. CASE UseBegin(th, t)
      BY <2>4, IdFacts DEF UseBegin, Arrives, Goto, Exists, Begin
    <2> QED
      BY <1>1, <2>1, <2>2, <2>3, <2>4 DEF Request
  <1>2. ASSUME NEW th \in Thread, FetchAdd(th)
        PROVE  TypeOK'
    <2> DEFINE new == id_counter + 1
    <2>1. new \in Nat /\ new >= IdMin /\ (~(new > IdMax) => new \in KeyId)
      BY NextCounter
    <2> HIDE DEF new
    <2>2. /\ pc[th] = "count"
          /\ pc' = [pc EXCEPT ![th] = IF new > IdMax THEN "saturate" ELSE "create"]
          /\ key_id' = [key_id EXCEPT ![th] = new]
          /\ id_counter' = new
          /\ UNCHANGED <<status, key_info, stored, keys, triple, known>>
      BY <1>2 DEF FetchAdd, Goto, new
    <2> QED
      BY <2>1, <2>2
  <1>3. ASSUME NEW th \in Thread, Saturate(th)
        PROVE  TypeOK'
    BY <1>3 DEF Saturate, Answer, TrustedServiceAssumption
  <1>4. ASSUME NEW th \in Thread, CreateKey(th)
        PROVE  TypeOK'
    <2>1. keys' \in [KeyId -> KeyTriple \cup {NoTriple}]
      BY <1>4, CallType DEF CreateKey
    <2> QED
      BY <1>4, <2>1 DEF CreateKey, Goto
  <1>5. ASSUME NEW th \in Thread, CreateKeyError(th) \/ Rollback(th) \/ Destroy(th)
        PROVE  TypeOK'
    <2>1. keys' \in [KeyId -> KeyTriple \cup {NoTriple}]
      BY <1>5, CallType DEF CreateKeyError, Rollback, Destroy
    <2>2. Answer(th, "absent") /\ UNCHANGED <<key_info, stored, id_counter>> /\ pc[th] # "idle"
      BY <1>5 DEF CreateKeyError, Rollback, Destroy
    <2> QED
      BY <2>1, <2>2 DEF Answer
  <1>6. ASSUME NEW th \in Thread, Use(th) \/ RemoveTooLate(th) \/ RemoveError(th)
        PROVE  TypeOK'
    BY <1>6 DEF Use, RemoveTooLate, RemoveError, Answer
  <1>7. ASSUME NEW th \in Thread, Insert(th)
        PROVE  TypeOK'
    BY <1>7 DEF Insert, InsertKeyInfo, Answer
  <1>8. ASSUME NEW th \in Thread, InsertOverwrites(th)
        PROVE  TypeOK'
    BY <1>8 DEF InsertOverwrites, InsertKeyInfo, Goto
  <1>9. ASSUME NEW th \in Thread, InsertError(th)
        PROVE  TypeOK'
    BY <1>9 DEF InsertError, InsertKeyInfoError, Goto
  <1>10. ASSUME NEW th \in Thread, Remove(th)
         PROVE  TypeOK'
    BY <1>10 DEF Remove, RemoveKeyInfo, Goto
  <1>11. ASSUME Drain \/ Joined \/ Crash
         PROVE  TypeOK'
    BY <1>11, IdFacts DEF Drain, Joined, Crash, InsertKeyInfoError, StopArrivals,
                          JoinThreads, LoseThreads
  <1>12. ASSUME Start
         PROVE  TypeOK'
    <2>1. KimTypeOK(KeyId)' /\ id_counter' \in Nat /\ id_counter' >= IdMin
      BY <1>12, StartFacts
    <2> QED
      BY <1>12, <2>1 DEF Start
  <1>13. ASSUME UNCHANGED vars
         PROVE  TypeOK'
    BY <1>13 DEF vars
  <1> QED
    <2> HIDE DEF TypeOK
    <2> QED
      BY <1>1, <1>2, <1>3, <1>4, <1>5, <1>6, <1>7, <1>8, <1>9, <1>10, <1>11, <1>12,
         <1>13 DEF Next, Step

(* Types.  A request past create_key_id holds an id of the valid range,    *)
(* although the counter itself may exceed it.                              *)
THEOREM TypeCorrect ==
  ASSUME TrustedServiceAssumption
  PROVE  Spec => []TypeOK
  <1>1. Init => TypeOK
    BY InitTypeOK
  <1>2. TypeOK /\ [Next]_vars => TypeOK'
    BY NextTypeOK
  <1> QED
    BY <1>1, <1>2, PTL DEF Spec

(* The ids of mappings and of requests past create_key_id never exceed the *)
(* limit and are below the value of the next fetch_add.                    *)
LEMMA IdsBounded ==
  ASSUME TrustedServiceAssumption, TypeOK, IdsBelowCounter, status # "down"
  PROVE  /\ id_counter \in Nat /\ IdMax \in Nat
         /\ \A t \in KeyTriple : /\ key_info[t] \in Nat /\ key_info[t] <= IdMax
                                 /\ key_info[t] < id_counter + 1
                                 /\ key_info[t] <= id_counter + 1
         /\ \A th \in Thread : HoldsId(th) =>
                 /\ key_id[th] \in Nat /\ key_id[th] <= IdMax
                 /\ key_id[th] < id_counter + 1
                 /\ key_id[th] <= id_counter + 1
  <1>1. id_counter \in Nat /\ IdMax \in Nat
    BY DEF TypeOK, TrustedServiceAssumption
  <1>2. ASSUME NEW i \in KeyId \cup {NoId}, i <= id_counter
        PROVE  i \in Nat /\ i <= IdMax /\ i < id_counter + 1 /\ i <= id_counter + 1
    <2>1. i \in Nat /\ i <= IdMax
      BY <1>1, IdFacts
    <2> QED
      BY <1>1, <1>2, <2>1
  <1>3. ASSUME NEW t \in KeyTriple
        PROVE  key_info[t] \in KeyId \cup {NoId} /\ key_info[t] <= id_counter
    BY DEF TypeOK, KimTypeOK, IdsBelowCounter
  <1>4. ASSUME NEW th \in Thread, HoldsId(th)
        PROVE  key_id[th] \in KeyId /\ key_id[th] <= id_counter
    BY <1>4 DEF TypeOK, HoldsId, IdsBelowCounter
  <1> QED
    BY <1>1, <1>2, <1>3, <1>4

(* A call about the id of a request leaves other keys alone, and its own   *)
(* key is that of its triple or gone: no mapping and no other request of   *)
(* another triple has the id.                                              *)
LEMMA KeyCalled ==
  ASSUME SecureIdInv, NEW th \in Thread, HoldsId(th),
         \/ keys' = keys
         \/ keys' = WithKey(th)
         \/ keys' = WithoutKey(th)
  PROVE  /\ \A t \in KeyTriple :
               key_info[t] # NoId => keys'[key_info[t]] \in {t, NoTriple}
         /\ \A other \in Thread :
               pc[other] \in {"insert", "rollback", "remove", "destroy", "use"} =>
                  keys'[key_id[other]] \in {triple[other], NoTriple}
         /\ keys[key_id[th]] = NoTriple => keys'[key_id[th]] \in {triple[th], NoTriple}
  <1> USE DEF SecureIdInv, TypeOK, KimTypeOK, RequestTypeOK, HoldsId
  <1>1. key_id[th] \in KeyId
    OBVIOUS
  <1>2. ASSUME NEW t \in KeyTriple, key_info[t] # NoId
        PROVE  keys'[key_info[t]] \in {t, NoTriple}
    BY <1>1, <1>2 DEF SecureKeyIsOwn, OneUserPerId, WithKey, WithoutKey
  <1>3. ASSUME NEW other \in Thread,
               pc[other] \in {"insert", "rollback", "remove", "destroy", "use"}
        PROVE  keys'[key_id[other]] \in {triple[other], NoTriple}
    BY <1>1, <1>3 DEF KeyOfRequest, OneUserPerId, WithKey, WithoutKey
  <1>4. keys[key_id[th]] = NoTriple => keys'[key_id[th]] \in {triple[th], NoTriple}
    BY <1>1 DEF WithKey, WithoutKey
  <1> QED
    BY <1>2, <1>3, <1>4

(* The part of the invariant that does not mention keys.                   *)
Ids == IdleWhenDown /\ StoredAgrees /\ IdsBelowCounter /\ OneUserPerId

(* A new id is above all those in use, and a full counter issues none.     *)
LEMMA FetchAddIds ==
  ASSUME TrustedServiceAssumption, SecureIdInv, NEW th \in Thread, FetchAdd(th)
  PROVE  Ids' /\ KeyOfRequest' /\ SecureKeyIsOwn'
  <1> DEFINE new == id_counter + 1
  <1>1. /\ pc[th] = "count"
        /\ \/ pc' = [pc EXCEPT ![th] = "saturate"]
           \/ pc' = [pc EXCEPT ![th] = "create"]
        /\ key_id' = [key_id EXCEPT ![th] = new]
        /\ id_counter' = new
        /\ UNCHANGED <<status, key_info, stored, keys, triple>>
    BY DEF FetchAdd, Goto, kim
  <1>2. status # "down"
    BY <1>1 DEF SecureIdInv, IdleWhenDown
  <1>3. /\ new \in Nat
        /\ \A t \in KeyTriple : key_info[t] < new /\ key_info[t] <= new /\ key_info[t] \in Nat
        /\ \A other \in Thread : HoldsId(other) =>
              key_id[other] < new /\ key_id[other] <= new /\ key_id[other] \in Nat
    BY <1>2, IdsBounded DEF SecureIdInv
  <1>4. new <= new /\ \A i \in Nat : i < new => i # new
    BY <1>3
  <1> HIDE DEF new
  <1> USE DEF SecureIdInv, TypeOK, KimTypeOK, RequestTypeOK, HoldsId
  <1>5. IdleWhenDown' /\ StoredAgrees'
    BY <1>1, <1>2 DEF IdleWhenDown, StoredAgrees
  <1>6. IdsBelowCounter'
    BY <1>1, <1>3, <1>4 DEF IdsBelowCounter
  <1>7. OneUserPerId'
    BY <1>1, <1>3, <1>4 DEF OneUserPerId
  <1>8. KeyOfRequest' /\ SecureKeyIsOwn'
    BY <1>1 DEF KeyOfRequest, SecureKeyIsOwn
  <1> QED
    BY <1>5, <1>6, <1>7, <1>8 DEF Ids

(* The store at the limit may lower the counter, but never below an id.    *)
LEMMA SaturateIds ==
  ASSUME TrustedServiceAssumption, SecureIdInv, NEW th \in Thread, Saturate(th)
  PROVE  Ids' /\ KeyOfRequest' /\ SecureKeyIsOwn'
  <1>1. /\ pc[th] = "saturate" /\ id_counter' = IdMax
        /\ pc' = [pc EXCEPT ![th] = "idle"]
        /\ triple' = [triple EXCEPT ![th] = NoTriple]
        /\ key_id' = [key_id EXCEPT ![th] = NoId]
        /\ UNCHANGED <<status, key_info, stored, keys>>
    BY DEF Saturate, Answer, kim
  <1>2. status # "down"
    BY <1>1 DEF SecureIdInv, IdleWhenDown
  <1>3. /\ \A t \in KeyTriple : key_info[t] <= IdMax
        /\ \A other \in Thread : HoldsId(other) => key_id[other] <= IdMax
    BY <1>2, IdsBounded DEF SecureIdInv
  <1> USE DEF SecureIdInv, TypeOK, KimTypeOK, RequestTypeOK, HoldsId
  <1>4. IdleWhenDown' /\ StoredAgrees' /\ OneUserPerId'
    BY <1>1, <1>2 DEF IdleWhenDown, StoredAgrees, OneUserPerId
  <1>5. IdsBelowCounter'
    BY <1>1, <1>3 DEF IdsBelowCounter
  <1>6. KeyOfRequest' /\ SecureKeyIsOwn'
    BY <1>1 DEF KeyOfRequest, SecureKeyIsOwn
  <1> QED
    BY <1>4, <1>5, <1>6 DEF Ids

(* A start reads a part of the mappings again, and no request is there.    *)
LEMMA StartIds ==
  ASSUME TrustedServiceAssumption, SecureIdInv, Start
  PROVE  Ids' /\ KeyOfRequest' /\ SecureKeyIsOwn'
  <1>1. /\ \A t \in KeyTriple : /\ stored'[t] = stored[t] /\ key_info'[t] = stored[t]
                                /\ key_info'[t] <= id_counter'
    BY StartFacts DEF SecureIdInv
  <1>2. /\ UNCHANGED <<keys, pc, triple, key_id>> /\ status = "down" /\ status' = "up"
        /\ \A th \in Thread : pc[th] = "idle"
    BY DEF Start, local, SecureIdInv, IdleWhenDown
  <1>3. \A t \in KeyTriple : key_info'[t] # NoId => key_info'[t] = key_info[t]
    BY <1>1 DEF SecureIdInv, StoredAgrees
  <1>4. IdleWhenDown' /\ StoredAgrees' /\ IdsBelowCounter'
    BY <1>1, <1>2 DEF IdleWhenDown, StoredAgrees, IdsBelowCounter, HoldsId
  <1>5. OneUserPerId'
    BY <1>2, <1>3 DEF SecureIdInv, OneUserPerId, HoldsId
  <1>6. KeyOfRequest' /\ SecureKeyIsOwn'
    BY <1>2, <1>3 DEF SecureIdInv, KeyOfRequest, SecureKeyIsOwn
  <1> QED
    BY <1>4, <1>5, <1>6 DEF Ids

(* Each action keeps the ids of mappings and requests apart.               *)
LEMMA NextSecureIdInv ==
  ASSUME TrustedServiceAssumption, SecureIdInv, [Next]_vars
  PROVE  SecureIdInv'
  <1>a. TypeOK /\ TypeOK'
    BY NextTypeOK DEF SecureIdInv
  <1>b. SUFFICES Ids' /\ KeyOfRequest' /\ SecureKeyIsOwn'
    BY <1>a DEF SecureIdInv, Ids
  <1>c. NoId \in Nat /\ NoId <= id_counter
    BY <1>a, IdFacts DEF TypeOK
  <1> USE DEF TypeOK, KimTypeOK, RequestTypeOK, kim, local, SecureIdInv, Ids, HoldsId
  <1> USE DEF StoredAgrees, IdsBelowCounter, IdleWhenDown, OneUserPerId, KeyOfRequest,
              SecureKeyIsOwn
  <1>1. ASSUME NEW th \in Thread, NEW t \in KeyTriple, Request(th, t)
        PROVE  Ids' /\ KeyOfRequest' /\ SecureKeyIsOwn'
    <2>1. CASE CreateRefused(th, t) \/ NoSuchKey(th, t)
      BY <1>a, <2>1 DEF CreateRefused, NoSuchKey, Refuse
    <2>2. CASE CreateBegin(th, t)
      BY <1>a, <2>2 DEF CreateBegin, Begin, Arrives, Goto
    <2>3. CASE DestroyBegin(th, t)
      BY <1>a, <2>3 DEF DestroyBegin, Begin, Arrives, Goto, Exists
    <2>4. CASE UseBegin(th, t)
      BY <1>a, <2>4 DEF UseBegin, Begin, Arrives, Goto, Exists
    <2> QED
      BY <1>1, <2>1, <2>2, <2>3, <2>4 DEF Request
  <1>2. ASSUME NEW th \in Thread, FetchAdd(th)
        PROVE  Ids' /\ KeyOfRequest' /\ SecureKeyIsOwn'
    BY <1>2, FetchAddIds
  <1>3. ASSUME NEW th \in Thread, Saturate(th)
        PROVE  Ids' /\ KeyOfRequest' /\ SecureKeyIsOwn'
    BY <1>3, SaturateIds
  <1>4. ASSUME NEW th \in Thread, CreateKey(th)
        PROVE  Ids' /\ KeyOfRequest' /\ SecureKeyIsOwn'
    <2>1. /\ pc[th] = "create" /\ pc' = [pc EXCEPT ![th] = "insert"]
          /\ keys[key_id[th]] = NoTriple /\ keys' = WithKey(th)
          /\ UNCHANGED <<status, key_info, stored, id_counter, triple, key_id>>
      BY <1>4 DEF CreateKey, Goto, Calls
    <2>2. /\ \A t \in KeyTriple :
               key_info[t] # NoId => keys'[key_info[t]] \in {t, NoTriple}
          /\ \A other \in Thread :
               pc[other] \in {"insert", "rollback", "remove", "destroy", "use"} =>
                  keys'[key_id[other]] \in {triple[other], NoTriple}
          /\ keys'[key_id[th]] \in {triple[th], NoTriple}
      BY <2>1, KeyCalled
    <2>3. Ids'
      BY <1>a, <2>1
    <2> QED
      BY <1>a, <2>1, <2>2, <2>3
  <1>5. ASSUME NEW th \in Thread, CreateKeyError(th) \/ Rollback(th) \/ Destroy(th)
        PROVE  Ids' /\ KeyOfRequest' /\ SecureKeyIsOwn'
    <2>1. /\ HoldsId(th)
          /\ \/ keys' = keys \/ keys' = WithKey(th) \/ keys' = WithoutKey(th)
      BY <1>5 DEF CreateKeyError, Rollback, Destroy, Calls, CallFails
    <2>2. /\ pc' = [pc EXCEPT ![th] = "idle"]
          /\ triple' = [triple EXCEPT ![th] = NoTriple]
          /\ key_id' = [key_id EXCEPT ![th] = NoId]
          /\ UNCHANGED <<status, key_info, stored, id_counter>>
      BY <1>5 DEF CreateKeyError, Rollback, Destroy, Answer
    <2>3. /\ \A t \in KeyTriple :
               key_info[t] # NoId => keys'[key_info[t]] \in {t, NoTriple}
          /\ \A other \in Thread :
               pc[other] \in {"insert", "rollback", "remove", "destroy", "use"} =>
                  keys'[key_id[other]] \in {triple[other], NoTriple}
      BY <2>1, KeyCalled
    <2>4. Ids'
      BY <1>a, <2>2
    <2> QED
      BY <1>a, <2>2, <2>3, <2>4
  <1>6. ASSUME NEW th \in Thread, Use(th) \/ RemoveTooLate(th) \/ RemoveError(th)
        PROVE  Ids' /\ KeyOfRequest' /\ SecureKeyIsOwn'
    BY <1>a, <1>6 DEF Use, RemoveTooLate, RemoveError, Answer
  <1>7. ASSUME NEW th \in Thread, Insert(th)
        PROVE  Ids' /\ KeyOfRequest' /\ SecureKeyIsOwn'
    BY <1>a, <1>7 DEF Insert, InsertKeyInfo, Answer
  <1>8. ASSUME NEW th \in Thread, InsertOverwrites(th)
        PROVE  Ids' /\ KeyOfRequest' /\ SecureKeyIsOwn'
    BY <1>a, <1>8 DEF InsertOverwrites, InsertKeyInfo, Goto
  <1>9. ASSUME NEW th \in Thread, InsertError(th)
        PROVE  Ids' /\ KeyOfRequest' /\ SecureKeyIsOwn'
    BY <1>a, <1>9 DEF InsertError, InsertKeyInfoError, Goto
  <1>10. ASSUME NEW th \in Thread, Remove(th)
         PROVE  Ids' /\ KeyOfRequest' /\ SecureKeyIsOwn'
    BY <1>a, <1>c, <1>10, IdFacts DEF Remove, RemoveKeyInfo, Goto
  <1>11. ASSUME Drain \/ Joined \/ Crash
         PROVE  Ids' /\ KeyOfRequest' /\ SecureKeyIsOwn'
    BY <1>a, <1>11 DEF Drain, Joined, Crash, InsertKeyInfoError, StopArrivals,
                       JoinThreads, LoseThreads
  <1>12. ASSUME Start
         PROVE  Ids' /\ KeyOfRequest' /\ SecureKeyIsOwn'
    BY <1>12, StartIds
  <1>13. ASSUME UNCHANGED vars
         PROVE  Ids' /\ KeyOfRequest' /\ SecureKeyIsOwn'
    BY <1>a, <1>13 DEF vars
  <1> QED
    BY <1>1, <1>2, <1>3, <1>4, <1>5, <1>6, <1>7, <1>8, <1>9, <1>10, <1>11, <1>12,
       <1>13 DEF Next, Step

(* The inductive invariant: ids in use are below the counter, and the id   *)
(* of a mapping or a request is nobody else's.                             *)
THEOREM IdsKeptApart ==
  ASSUME TrustedServiceAssumption
  PROVE  Spec => []SecureIdInv
  <1>1. Init => SecureIdInv
    <2> SUFFICES ASSUME Init PROVE SecureIdInv
      OBVIOUS
    <2>1. TypeOK
      BY InitTypeOK
    <2> QED
      BY <2>1 DEF Init, RequestInit, KimInit, SecureIdInv, IdleWhenDown, StoredAgrees,
                  IdsBelowCounter, OneUserPerId, KeyOfRequest, SecureKeyIsOwn, HoldsId
  <1>2. SecureIdInv /\ [Next]_vars => SecureIdInv'
    BY NextSecureIdInv
  <1> QED
    BY <1>1, <1>2, PTL DEF Spec

(* No mapping and no request leads to the key of another triple.           *)
THEOREM SecureKeysOwn ==
  ASSUME TrustedServiceAssumption
  PROVE  Spec => []SecureKeyIsOwn
  <1>1. SecureIdInv => SecureKeyIsOwn
    BY DEF SecureIdInv
  <1> QED
    BY <1>1, IdsKeptApart, PTL
---------------------------------------------------------------------------
(* Each action keeps new ids private and destroyed ones unmapped.          *)
LEMMA NextLeadsInv ==
  ASSUME TrustedServiceAssumption, LeadsInv, [Next]_vars
  PROVE  LeadsInv'
  <1>a. SecureIdInv /\ SecureIdInv' /\ NewIdsPrivate /\ DestroyedIdsUnmapped
    BY NextSecureIdInv DEF LeadsInv
  <1>b. SUFFICES NewIdsPrivate' /\ DestroyedIdsUnmapped'
    BY <1>a DEF LeadsInv
  <1>c. /\ TypeOK /\ NoId \notin KeyId
        /\ \A th \in Thread : HoldsId(th) => key_id[th] \in KeyId
    BY <1>a, IdFacts DEF SecureIdInv, TypeOK, HoldsId
  <1>d. /\ key_info \in [KeyTriple -> KeyId \cup {NoId}]
        /\ DOMAIN pc = Thread /\ DOMAIN key_id = Thread
        /\ \A th \in Thread : pc[th] # "idle" => triple[th] \in KeyTriple
    BY <1>c DEF TypeOK, KimTypeOK, RequestTypeOK
  <1> USE <1>a, <1>c, <1>d DEF NewIdsPrivate, DestroyedIdsUnmapped, HoldsId
  <1>1. ASSUME NEW th \in Thread, NEW t \in KeyTriple, Request(th, t)
        PROVE  NewIdsPrivate' /\ DestroyedIdsUnmapped'
    BY <1>1 DEF Request, CreateRefused, CreateBegin, NoSuchKey, DestroyBegin, UseBegin,
                Refuse, Begin, Arrives, Goto, Exists, kim
  <1>2. ASSUME NEW th \in Thread, FetchAdd(th)
        PROVE  NewIdsPrivate' /\ DestroyedIdsUnmapped'
    <2> DEFINE new == id_counter + 1
    <2>1. /\ pc[th] = "count"
          /\ \/ pc' = [pc EXCEPT ![th] = "saturate"]
             \/ pc' = [pc EXCEPT ![th] = "create"]
          /\ key_id' = [key_id EXCEPT ![th] = new]
          /\ UNCHANGED <<status, key_info>>
      BY <1>2 DEF FetchAdd, Goto, kim
    <2>2. status # "down"
      BY <2>1 DEF SecureIdInv, IdleWhenDown
    <2>3. /\ \A t \in KeyTriple : key_info[t] # new
          /\ \A other \in Thread : HoldsId(other) => key_id[other] # new
      <3>1. /\ \A t \in KeyTriple : key_info[t] < new /\ key_info[t] \in Nat
            /\ \A other \in Thread : HoldsId(other) => key_id[other] < new /\ key_id[other] \in Nat
        BY <2>2, IdsBounded DEF SecureIdInv
      <3> QED
        BY <3>1
    <2> HIDE DEF new
    <2> QED
      BY <2>1, <2>3
  <1>3. ASSUME NEW th \in Thread,
               \/ Saturate(th) \/ CreateKeyError(th) \/ Rollback(th) \/ Destroy(th)
               \/ Use(th) \/ RemoveTooLate(th) \/ RemoveError(th)
        PROVE  NewIdsPrivate' /\ DestroyedIdsUnmapped'
    <2>1. /\ \E k : Answer(th, k)
          /\ UNCHANGED key_info
      BY <1>3 DEF Saturate, CreateKeyError, Rollback, Destroy, Use, RemoveTooLate,
                  RemoveError, kim
    <2>2. /\ pc' = [pc EXCEPT ![th] = "idle"]
          /\ key_id' = [key_id EXCEPT ![th] = NoId]
      BY <2>1 DEF Answer
    <2> QED
      BY <2>1, <2>2
  <1>4. ASSUME NEW th \in Thread, CreateKey(th) \/ InsertError(th)
        PROVE  NewIdsPrivate' /\ DestroyedIdsUnmapped'
    BY <1>4 DEF CreateKey, InsertError, InsertKeyInfoError, Goto, kim, local
  <1>5. ASSUME NEW th \in Thread, Insert(th) \/ InsertOverwrites(th)
        PROVE  NewIdsPrivate' /\ DestroyedIdsUnmapped'
    BY <1>5 DEF Insert, InsertOverwrites, InsertKeyInfo, Answer, Goto, local
  <1>6. ASSUME NEW th \in Thread, Remove(th)
        PROVE  NewIdsPrivate' /\ DestroyedIdsUnmapped'
    <2>1. /\ pc[th] = "remove" /\ triple[th] \in KeyTriple
          /\ pc' = [pc EXCEPT ![th] = "destroy"]
          /\ key_info' = [key_info EXCEPT ![triple[th]] = NoId]
          /\ UNCHANGED key_id
      BY <1>6 DEF Remove, RemoveKeyInfo, Goto, local
    <2>2. \A t \in KeyTriple : key_info'[t] # key_id[th]
      BY <2>1 DEF SecureIdInv, OneUserPerId
    <2> QED
      BY <2>1, <2>2
  <1>7. ASSUME Drain \/ Joined \/ Crash \/ Start
        PROVE  NewIdsPrivate' /\ DestroyedIdsUnmapped'
    <2>1. CASE Drain \/ Joined
      BY <2>1 DEF Drain, Joined, StopArrivals, JoinThreads, kim
    <2>2. CASE Crash \/ Start
      <3>1. \A th \in Thread : pc'[th] = "idle"
        BY <2>2 DEF Crash, Start, LoseThreads, SecureIdInv, IdleWhenDown
      <3> QED
        BY <3>1
    <2> QED
      BY <1>7, <2>1, <2>2
  <1>8. ASSUME UNCHANGED vars
        PROVE  NewIdsPrivate' /\ DestroyedIdsUnmapped'
    BY <1>8 DEF vars
  <1> QED
    BY <1>1, <1>2, <1>3, <1>4, <1>5, <1>6, <1>7, <1>8 DEF Next, Step

LEMMA InitLeadsInv ==
  ASSUME TrustedServiceAssumption, Init
  PROVE  LeadsInv
  <1>1. TypeOK
    BY InitTypeOK
  <1> QED
    BY <1>1 DEF Init, RequestInit, KimInit, LeadsInv, NewIdsPrivate, DestroyedIdsUnmapped,
                SecureIdInv, IdleWhenDown, StoredAgrees, IdsBelowCounter, OneUserPerId,
                KeyOfRequest, SecureKeyIsOwn, HoldsId

(* While a mapping stays, a lost or failed call, a crash or a destruction  *)
(* never takes its key away: only the rollback of a creation of the same   *)
(* name does, which has overwritten the mapping with its own id.           *)
THEOREM DeadMappingsRolledBack ==
  ASSUME TrustedServiceAssumption
  PROVE  Spec => DeadMappingsFromRollback
  <1>1. Init => LeadsInv
    BY InitLeadsInv
  <1>2. LeadsInv /\ [Next]_vars => LeadsInv'
    BY NextLeadsInv
  <1>3. ASSUME LeadsInv, [Next]_vars, NEW t \in KeyTriple, Leads(t), key_info'[t] = key_info[t]
        PROVE  Leads(t)' \/ \E th \in Thread : pc[th] = "rollback" /\ triple[th] = t
    <2> DEFINE i == key_info[t]
    <2>1. /\ i \in KeyId /\ keys[i] = t /\ t # NoTriple
          /\ keys \in [KeyId -> KeyTriple \cup {NoTriple}]
          /\ \A th \in Thread : HoldsId(th) => key_id[th] \in KeyId
      BY <1>3, IdFacts
      DEF Leads, LeadsInv, SecureIdInv, TypeOK, KimTypeOK, HoldsId, TrustedServiceAssumption
    <2>2. keys'[i] = t => Leads(t)'
      BY <1>3 DEF Leads
    <2>3. ASSUME keys' # keys
          PROVE  \E th \in Thread : CreateKey(th) \/ CreateKeyError(th) \/ Rollback(th) \/ Destroy(th)
      BY <1>3, <2>3
      DEF Next, Step, Request, CreateRefused, CreateBegin, NoSuchKey, DestroyBegin, UseBegin,
          FetchAdd, Saturate, Insert, InsertOverwrites, InsertError, Remove, RemoveTooLate,
          RemoveError, Use, Drain, Joined, Crash, Start, vars
    <2>4. ASSUME NEW th \in Thread, CreateKey(th) \/ CreateKeyError(th)
          PROVE  keys'[i] = t
      <3>1. HoldsId(th)
        BY <2>4 DEF CreateKey, CreateKeyError, Goto, HoldsId
      <3>2. CASE keys[key_id[th]] = NoTriple
        <4>1. keys' \in {keys, WithKey(th)}
          BY <2>4, <3>2 DEF CreateKey, CreateKeyError, Calls, CallFails
        <4> QED
          BY <2>1, <3>1, <3>2, <4>1 DEF WithKey
      <3>3. CASE keys[key_id[th]] # NoTriple
        <4>1. keys' = keys
          BY <2>4, <3>3 DEF CreateKey, CreateKeyError
        <4> QED
          BY <2>1, <4>1
      <3> QED
        BY <3>2, <3>3
    <2>5. ASSUME NEW th \in Thread, Rollback(th)
          PROVE  keys'[i] = t \/ triple[th] = t
      <3>1. pc[th] = "rollback" /\ (keys' = keys \/ keys' = WithoutKey(th))
        BY <2>5 DEF Rollback, Calls, CallFails
      <3>2. i = key_id[th] => triple[th] = t
        BY <1>3, <3>1 DEF LeadsInv, SecureIdInv, OneUserPerId, HoldsId
      <3> QED
        BY <1>3, <2>1, <3>1, <3>2 DEF WithoutKey
    <2>6. ASSUME NEW th \in Thread, Destroy(th)
          PROVE  keys'[i] = t
      <3>1. pc[th] = "destroy" /\ (keys' = keys \/ keys' = WithoutKey(th))
        BY <2>6 DEF Destroy, Calls, CallFails
      <3>2. i # key_id[th]
        BY <1>3, <3>1 DEF LeadsInv, DestroyedIdsUnmapped
      <3> QED
        BY <2>1, <3>1, <3>2 DEF WithoutKey
    <2>7. \A th \in Thread : Rollback(th) => pc[th] = "rollback"
      BY DEF Rollback
    <2> QED
      BY <2>1, <2>2, <2>3, <2>4, <2>5, <2>6, <2>7
  <1>4. LeadsInv /\ [Next]_vars => [LeadsUntilRolledBack]_vars
    BY <1>3 DEF LeadsUntilRolledBack
  <1> QED
    BY <1>1, <1>2, <1>4, PTL DEF Spec, DeadMappingsFromRollback
---------------------------------------------------------------------------
(* For clients that wait for their answers: what KeptInv adds.             *)
Kept == /\ OneRequestPerTriple /\ MappedKeysLive /\ DiskUpToDate /\ RequestsAgree
        /\ KnownIsStored

(* What a step may use of the types and of the ids.                        *)
LEMMA KeptTypes ==
  ASSUME TrustedServiceAssumption, KeptInv
  PROVE  /\ stored \in [KeyTriple -> KeyId \cup {NoId}]
         /\ key_info \in [KeyTriple -> KeyId \cup {NoId}]
         /\ keys \in [KeyId -> KeyTriple \cup {NoTriple}]
         /\ known \in [KeyTriple -> {"exists", "absent", "unsure"}]
         /\ triple \in [Thread -> KeyTriple \cup {NoTriple}]
         /\ DOMAIN pc = Thread /\ DOMAIN key_id = Thread
         /\ \A th \in Thread : pc[th] # "idle" <=> triple[th] # NoTriple
         /\ \A th \in Thread : pc[th] # "idle" => triple[th] \in KeyTriple /\ status # "down"
         /\ \A th \in Thread : HoldsId(th) => key_id[th] \in KeyId
         /\ NoId \notin KeyId /\ NoTriple \notin KeyTriple
         /\ \A t \in KeyTriple : stored[t] # NoId => stored[t] = key_info[t]
  BY IdFacts, Sentinels
  DEF KeptInv, LeadsInv, SecureIdInv, TypeOK, KimTypeOK, RequestTypeOK, IdleWhenDown, HoldsId,
      StoredAgrees

LEMMA KeptParts ==
  ASSUME KeptInv
  PROVE  Kept /\ NewIdsPrivate /\ DestroyedIdsUnmapped /\ OneUserPerId
  BY DEF KeptInv, Kept, LeadsInv, SecureIdInv

(* What creations and destructions of keys do to the keys of others: none  *)
(* that is mapped or about to be mapped is created over or destroyed.      *)
LEMMA KeptKeys ==
  ASSUME TrustedServiceAssumption, KeptInv, NEW th \in Thread,
         CreateKey(th) \/ CreateKeyError(th) \/ Rollback(th) \/ Destroy(th)
  PROVE  /\ \A t \in KeyTriple : stored[t] # NoId => keys'[stored[t]] = t
         /\ \A other \in Thread \ {th} :
               pc[other] = "insert" => keys'[key_id[other]] = triple[other]
  <1> USE KeptTypes, KeptParts DEF Kept
  <1>1. HoldsId(th) /\ key_id[th] \in KeyId
    BY DEF CreateKey, CreateKeyError, Rollback, Destroy, Goto, HoldsId
  <1>2. CASE CreateKey(th) \/ CreateKeyError(th)
    <2>1. keys' = keys \/ (keys[key_id[th]] = NoTriple /\ keys' = WithKey(th))
      BY <1>2 DEF CreateKey, CreateKeyError, Calls, CallFails
    <2>2. ASSUME NEW i \in KeyId, keys[i] # NoTriple
          PROVE  keys'[i] = keys[i]
      BY <1>1, <2>1, <2>2 DEF WithKey
    <2>3. ASSUME NEW t \in KeyTriple, stored[t] # NoId
          PROVE  keys'[stored[t]] = t
      BY <2>2, <2>3 DEF MappedKeysLive
    <2>4. ASSUME NEW other \in Thread \ {th}, pc[other] = "insert"
          PROVE  keys'[key_id[other]] = triple[other]
      BY <2>2, <2>4 DEF RequestsAgree, HoldsId
    <2> QED
      BY <2>3, <2>4
  <1>3. CASE Rollback(th) \/ Destroy(th)
    <2>1. /\ pc[th] \in {"rollback", "destroy"} /\ status # "down"
          /\ keys' = keys \/ keys' = WithoutKey(th)
      BY <1>3 DEF Rollback, Destroy, Calls, CallFails
    <2>2. ASSUME NEW i \in KeyId, i # key_id[th]
          PROVE  keys'[i] = keys[i]
      BY <1>1, <2>1, <2>2 DEF WithoutKey
    <2>3. ASSUME NEW t \in KeyTriple, stored[t] # NoId
          PROVE  keys'[stored[t]] = t
      <3>1. stored[t] = key_info[t] /\ key_info[triple[th]] = NoId
        BY <2>1, <2>3 DEF RequestsAgree
      <3>2. stored[t] # key_id[th]
        BY <1>1, <2>3, <3>1 DEF OneUserPerId
      <3> QED
        BY <2>2, <2>3, <3>2 DEF MappedKeysLive
    <2>4. ASSUME NEW other \in Thread \ {th}, pc[other] = "insert"
          PROVE  keys'[key_id[other]] = triple[other]
      <3>1. key_id[other] # key_id[th] /\ key_id[other] \in KeyId
        BY <1>1, <2>4 DEF NewIdsPrivate, HoldsId
      <3> QED
        BY <2>2, <2>4, <3>1 DEF RequestsAgree
    <2> QED
      BY <2>3, <2>4
  <1> QED
    BY <1>2, <1>3

(* The end of a request whose answer is true of the map on disk.           *)
LEMMA KeptEnds ==
  ASSUME TrustedServiceAssumption, KeptInv, NEW th \in Thread, pc[th] # "idle", NEW k,
         Answer(th, k), UNCHANGED <<key_info, stored>>,
         k = "exists" => stored[triple[th]] # NoId,
         k = "absent" => stored[triple[th]] = NoId,
         \A t \in KeyTriple : stored[t] # NoId => keys'[stored[t]] = t,
         \A other \in Thread \ {th} :
            pc[other] = "insert" => keys'[key_id[other]] = triple[other]
  PROVE  Kept'
  <1> USE KeptTypes, KeptParts DEF Kept, Answer
  <1>1. OneRequestPerTriple'
    BY DEF OneRequestPerTriple
  <1>2. MappedKeysLive' /\ DiskUpToDate'
    BY DEF MappedKeysLive, DiskUpToDate
  <1>3. RequestsAgree'
    <2>1. \A other \in Thread : pc'[other] # "idle" =>
             /\ other # th /\ pc'[other] = pc[other] /\ triple'[other] = triple[other]
             /\ key_id'[other] = key_id[other] /\ known'[triple[other]] = known[triple[other]]
      BY DEF OneRequestPerTriple
    <2> QED
      BY <2>1 DEF RequestsAgree
  <1>4. KnownIsStored'
    BY DEF KnownIsStored
  <1> QED
    BY <1>1, <1>2, <1>3, <1>4

(* Each step of a request keeps the maps, the keys and the requests in     *)
(* agreement.                                                              *)
LEMMA KeptStep ==
  ASSUME TrustedServiceAssumption, KeptInv, NEW th \in Thread, Step(th)
  PROVE  Kept'
  <1> USE KeptTypes, KeptParts DEF Kept
  <1>1. CASE FetchAdd(th)
    <2>1. /\ pc[th] = "count"
          /\ \/ pc' = [pc EXCEPT ![th] = "saturate"]
             \/ pc' = [pc EXCEPT ![th] = "create"]
          /\ \A other \in Thread \ {th} : key_id'[other] = key_id[other]
          /\ UNCHANGED <<status, key_info, stored, keys, triple, known>>
      BY <1>1 DEF FetchAdd, Goto, kim
    <2> QED
      BY <2>1 DEF OneRequestPerTriple, MappedKeysLive, DiskUpToDate, RequestsAgree, KnownIsStored
  <1>2. CASE CreateKey(th)
    <2>1. /\ pc[th] = "create" /\ pc' = [pc EXCEPT ![th] = "insert"] /\ keys' = WithKey(th)
          /\ UNCHANGED <<status, key_info, stored, triple, key_id, known>>
      BY <1>2 DEF CreateKey, Goto, kim, local, Calls
    <2>2. keys'[key_id[th]] = triple[th]
      BY <2>1 DEF WithKey, HoldsId
    <2> QED
      BY <1>2, <2>1, <2>2, KeptKeys
      DEF OneRequestPerTriple, MappedKeysLive, DiskUpToDate, RequestsAgree, KnownIsStored
  <1>3. CASE CreateKeyError(th) \/ Rollback(th) \/ Destroy(th)
    <2>1. /\ Answer(th, "absent") /\ pc[th] \in {"create", "rollback", "destroy"}
          /\ UNCHANGED <<key_info, stored>>
      BY <1>3 DEF CreateKeyError, Rollback, Destroy, kim
    <2>2. stored[triple[th]] = NoId
      BY <2>1 DEF RequestsAgree, DiskUpToDate
    <2> QED
      BY <1>3, <2>1, <2>2, KeptKeys, KeptEnds
  <1>4. CASE Saturate(th) \/ RemoveTooLate(th)
    <2>1. /\ Answer(th, "absent") /\ pc[th] # "idle" /\ UNCHANGED <<key_info, stored, keys>>
          /\ stored[triple[th]] = NoId
      BY <1>4 DEF Saturate, RemoveTooLate, Exists, kim, RequestsAgree, DiskUpToDate
    <2> QED
      BY <2>1, KeptEnds DEF MappedKeysLive, RequestsAgree
  <1>5. CASE RemoveError(th)
    <2>1. /\ Answer(th, "exists") /\ pc[th] # "idle" /\ UNCHANGED <<key_info, stored, keys>>
          /\ stored[triple[th]] # NoId
      BY <1>5 DEF RemoveError, kim, RequestsAgree, DiskUpToDate, HoldsId
    <2> QED
      BY <2>1, KeptEnds DEF MappedKeysLive, RequestsAgree
  <1>6. CASE Use(th)
    <2>1. /\ Answer(th, known[triple[th]]) /\ pc[th] # "idle"
          /\ UNCHANGED <<key_info, stored, keys>>
      BY <1>6 DEF Use, kim
    <2> QED
      BY <2>1, KeptEnds DEF MappedKeysLive, RequestsAgree, KnownIsStored
  <1>7. CASE Insert(th)
    <2> DEFINE t == triple[th]
               i == key_id[th]
    <2>1. /\ pc[th] = "insert" /\ t \in KeyTriple /\ i \in KeyId /\ keys[i] = t
          /\ known' = [known EXCEPT ![t] = "exists"]
          /\ pc' = [pc EXCEPT ![th] = "idle"] /\ triple' = [triple EXCEPT ![th] = NoTriple]
          /\ key_id' = [key_id EXCEPT ![th] = NoId]
          /\ key_info' = [key_info EXCEPT ![t] = i] /\ stored' = [stored EXCEPT ![t] = i]
          /\ UNCHANGED <<status, keys>>
      BY <1>7 DEF Insert, InsertKeyInfo, Answer, RequestsAgree, HoldsId
    <2>2. \A other \in Thread : pc'[other] # "idle" =>
             /\ other # th /\ pc'[other] = pc[other] /\ triple'[other] = triple[other]
             /\ key_id'[other] = key_id[other] /\ triple[other] # t
      BY <2>1 DEF OneRequestPerTriple
    <2>3. OneRequestPerTriple' /\ MappedKeysLive' /\ DiskUpToDate' /\ KnownIsStored'
      BY <2>1 DEF OneRequestPerTriple, MappedKeysLive, DiskUpToDate, KnownIsStored
    <2>4. RequestsAgree'
      BY <2>1, <2>2 DEF RequestsAgree
    <2> QED
      BY <2>3, <2>4
  <1>8. CASE InsertError(th)
    <2>1. /\ pc[th] = "insert" /\ pc' = [pc EXCEPT ![th] = "rollback"] /\ stored' = stored
          /\ UNCHANGED <<status, key_info, keys, triple, key_id, known>>
      BY <1>8 DEF InsertError, InsertKeyInfoError, Goto, local, RequestsAgree, DiskUpToDate
    <2> QED
      BY <2>1 DEF OneRequestPerTriple, MappedKeysLive, DiskUpToDate, RequestsAgree, KnownIsStored
  <1>9. ~InsertOverwrites(th)
    BY DEF InsertOverwrites, Goto, Exists, RequestsAgree
  <1>10. CASE Remove(th)
    <2> DEFINE t == triple[th]
    <2>1. /\ pc[th] = "remove" /\ t \in KeyTriple /\ pc' = [pc EXCEPT ![th] = "destroy"]
          /\ key_info' = [key_info EXCEPT ![t] = NoId] /\ stored' = [stored EXCEPT ![t] = NoId]
          /\ UNCHANGED <<status, keys, triple, key_id, known>>
      BY <1>10 DEF Remove, RemoveKeyInfo, Goto, local
    <2>2. \A other \in Thread \ {th} : pc[other] # "idle" => triple[other] # t
      BY <2>1 DEF OneRequestPerTriple
    <2>3. OneRequestPerTriple' /\ MappedKeysLive' /\ DiskUpToDate' /\ KnownIsStored'
      BY <2>1 DEF OneRequestPerTriple, MappedKeysLive, DiskUpToDate, KnownIsStored, RequestsAgree
    <2>4. RequestsAgree'
      BY <2>1, <2>2 DEF RequestsAgree
    <2> QED
      BY <2>3, <2>4
  <1> QED
    BY <1>1, <1>2, <1>3, <1>4, <1>5, <1>6, <1>7, <1>8, <1>9, <1>10 DEF Step

LEMMA KeptRequest ==
  ASSUME TrustedServiceAssumption, ~Overlap, KeptInv, NEW th \in Thread, NEW t \in KeyTriple,
         Request(th, t)
  PROVE  Kept'
  <1> USE KeptTypes, KeptParts DEF Kept, Arrives
  <1>1. CASE CreateRefused(th, t) \/ NoSuchKey(th, t)
    BY <1>1 DEF CreateRefused, NoSuchKey, Refuse, Exists, kim, OneRequestPerTriple,
                MappedKeysLive, DiskUpToDate, RequestsAgree, KnownIsStored
  <1>2. CASE CreateBegin(th, t) \/ DestroyBegin(th, t) \/ UseBegin(th, t)
    <2>1. PICK to \in {"count", "remove", "use"} :
             /\ pc[th] = "idle" /\ status = "up" /\ (\A other \in Thread : triple[other] # t)
             /\ pc' = [pc EXCEPT ![th] = to] /\ triple' = [triple EXCEPT ![th] = t]
             /\ \A other \in Thread \ {th} : key_id'[other] = key_id[other]
             /\ to = "remove" => key_id'[th] = key_info[t]
             /\ to = "count" => key_info[t] = NoId
             /\ known' = [known EXCEPT ![t] = IF to = "use" THEN known[t] ELSE "unsure"]
             /\ UNCHANGED <<status, key_info, stored, keys>>
      BY <1>2 DEF CreateBegin, DestroyBegin, UseBegin, Begin, Goto, Exists, kim
    <2>2. OneRequestPerTriple' /\ MappedKeysLive' /\ DiskUpToDate'
      BY <2>1 DEF OneRequestPerTriple, MappedKeysLive, DiskUpToDate
    <2>3. RequestsAgree'
      BY <2>1 DEF RequestsAgree
    <2>4. KnownIsStored'
      BY <2>1 DEF KnownIsStored
    <2> QED
      BY <2>2, <2>3, <2>4
  <1> QED
    BY <1>1, <1>2 DEF Request

(* A crash in an insertion may lose no mapping, as there was none.         *)
LEMMA KeptService ==
  ASSUME TrustedServiceAssumption, KeptInv, Drain \/ Joined \/ Crash \/ Start
  PROVE  Kept' /\ stored' = stored
  <1> USE KeptTypes, KeptParts DEF Kept
  <1>1. CASE Drain \/ Joined
    BY <1>1 DEF Drain, Joined, StopArrivals, JoinThreads, kim, OneRequestPerTriple,
                MappedKeysLive, DiskUpToDate, RequestsAgree, KnownIsStored
  <1>2. CASE Crash
    <2>1. stored' = stored
      <3>1. ASSUME NEW th \in Thread, pc[th] = "insert", InsertKeyInfoError(triple[th])
            PROVE  stored' = stored
        BY <3>1 DEF InsertKeyInfoError, RequestsAgree, DiskUpToDate
      <3> QED
        BY <1>2, <3>1 DEF Crash, kim
    <2>2. /\ status' = "down" /\ \A th \in Thread : pc'[th] = "idle" /\ triple'[th] = NoTriple
          /\ keys' = keys
          /\ \A t \in KeyTriple : known'[t] # "unsure" => known'[t] = known[t]
      BY <1>2 DEF Crash, LoseThreads
    <2> QED
      BY <2>1, <2>2
      DEF OneRequestPerTriple, MappedKeysLive, DiskUpToDate, RequestsAgree, KnownIsStored
  <1>3. CASE Start
    <2>1. stored' = stored /\ key_info' = stored
      BY <1>3 DEF Start, ReloadWithout
    <2>2. UNCHANGED <<keys, pc, triple, key_id, known>> /\ \A th \in Thread : pc[th] = "idle"
      BY <1>3 DEF Start, local
    <2> QED
      BY <2>1, <2>2
      DEF OneRequestPerTriple, MappedKeysLive, DiskUpToDate, RequestsAgree, KnownIsStored
  <1> QED
    BY <1>1, <1>2, <1>3

(* For clients that wait for their answers: the mappings, the keys of the  *)
(* secure world, the requests in progress and what the clients were told   *)
(* agree, whatever call fails or is executed without an answer.            *)
THEOREM MappingsKept ==
  ASSUME TrustedServiceAssumption
  PROVE  ~Overlap /\ Spec => []KeptInv
  <1> SUFFICES ASSUME ~Overlap
               PROVE  Spec => []KeptInv
    OBVIOUS
  <1>1. Init => KeptInv
    <2> SUFFICES ASSUME Init PROVE KeptInv
      OBVIOUS
    <2>1. Kept
      BY DEF Init, KimInit, RequestInit, Kept, OneRequestPerTriple, MappedKeysLive,
             DiskUpToDate, RequestsAgree, KnownIsStored
    <2> QED
      BY <2>1, InitLeadsInv DEF KeptInv, Kept
  <1>2. KeptInv /\ [Next]_vars => KeptInv'
    <2> SUFFICES ASSUME KeptInv, [Next]_vars
                 PROVE  Kept' /\ LeadsInv'
      BY DEF KeptInv, Kept
    <2>1. LeadsInv'
      BY NextLeadsInv DEF KeptInv
    <2>2. CASE UNCHANGED vars
      BY <2>1, <2>2 DEF vars, KeptInv, Kept, OneRequestPerTriple, MappedKeysLive, DiskUpToDate,
                  RequestsAgree, KnownIsStored
    <2>3. CASE Next
      BY <2>1, <2>3, KeptStep, KeptRequest, KeptService DEF Next
    <2> QED
      BY <2>1, <2>2, <2>3
  <1> QED
    BY <1>1, <1>2, PTL DEF Spec
---------------------------------------------------------------------------
(* For clients that wait, the map a client sees is the map on disk.        *)
LEMMA KeyMap ==
  ASSUME TrustedServiceAssumption, KeptInv, KeptInv'
  PROVE  KeyOf = stored /\ KeyOf' = stored'
  <1>1. KeyOf = stored
    BY KeptTypes DEF KeyOf, Reached, KeptInv, MappedKeysLive, DiskUpToDate
  <1>2. stored' \in [KeyTriple -> KeyId \cup {NoId}]
    BY DEF KeptInv, LeadsInv, SecureIdInv, TypeOK, KimTypeOK
  <1>3. KeyOf' = stored'
    BY <1>2 DEF KeyOf, Reached, KeptInv, MappedKeysLive, DiskUpToDate
  <1> QED
    BY <1>1, <1>3

LEMMA KindFacts ==
  ASSUME TrustedServiceAssumption, KeptInv, NEW th \in Thread
  PROVE  /\ KindOf[th] = "idle" <=> pc[th] = "idle"
         /\ pc[th] \in CreateSteps => KindOf[th] = "create"
         /\ pc[th] = "remove" => KindOf[th] = "destroy"
         /\ pc[th] = "use" => KindOf[th] = "use"
  BY KeptTypes DEF KindOf, RequestKinds, CreateSteps

(* A step of th changes the kind of its own request only, and not always.  *)
LEMMA KindStep ==
  ASSUME TrustedServiceAssumption, KeptInv, NEW th \in Thread, NEW to,
         pc' = [pc EXCEPT ![th] = to]
  PROVE  /\ to = "idle" => KindOf' = [KindOf EXCEPT ![th] = "idle"]
         /\ to \in CreateSteps => KindOf' = [KindOf EXCEPT ![th] = "create"]
         /\ to = "remove" => KindOf' = [KindOf EXCEPT ![th] = "destroy"]
         /\ to = "use" => KindOf' = [KindOf EXCEPT ![th] = "use"]
         /\ to \in {"rollback", "destroy"} => KindOf' = [KindOf EXCEPT ![th] = "end"]
         /\ pc[th] \in CreateSteps /\ to \in CreateSteps => KindOf' = KindOf
  BY KeptTypes DEF KindOf, RequestKinds, CreateSteps

(* The end of a request with an answer that is true of the map.            *)
LEMMA AnswerImplements ==
  ASSUME TrustedServiceAssumption, KeptInv, KeptInv', NEW th \in Thread, pc[th] # "idle",
         NEW k \in {"exists", "absent", "unsure"}, Answer(th, k), stored' = stored,
         \/ k = "exists" /\ stored[triple[th]] # NoId
         \/ k = "absent" /\ stored[triple[th]] = NoId
         \/ pc[th] = "use" /\ k = known[triple[th]]
  PROVE  Keys!KeyStoreNext
  <1>1. KeyOf = stored /\ KeyOf' = stored
    BY KeyMap
  <1>2. KindOf' = [KindOf EXCEPT ![th] = "idle"] /\ KindOf[th] # "idle"
    BY KindStep, KindFacts DEF Answer
  <1>3. pc[th] = "use" => KindOf[th] = "use"
    BY KindFacts
  <1>4. Keys!Answer(th, k)
    BY <1>1, <1>2, <1>3 DEF Keys!Answer, Keys!End, Keys!Tell, Keys!True, Answer
  <1> QED
    BY <1>4 DEF Keys!KeyStoreNext

(* A request arrives, and is refused or begins.                            *)
LEMMA RequestImplements ==
  ASSUME TrustedServiceAssumption, ~Overlap, KeptInv, KeptInv', NEW th \in Thread,
         NEW t \in KeyTriple, Request(th, t)
  PROVE  Keys!KeyStoreNext
  <1>1. KeyOf = stored /\ KeyOf' = stored'
    BY KeyMap
  <1>2. status = "up" /\ UNCHANGED <<status, key_info, stored>> /\ Keys!Arrives(th, t)
    BY KindFacts
    DEF Request, CreateRefused, CreateBegin, NoSuchKey, DestroyBegin, UseBegin,
        Refuse, Begin, Arrives, kim, Keys!Arrives
  <1>3. stored = key_info
    BY <1>2 DEF KeptInv, DiskUpToDate
  <1> USE <1>1, <1>2, <1>3
  <1>4. CASE CreateRefused(th, t)
    <2>1. Keys!Refuse(th, t, "exists")
      BY <1>4 DEF CreateRefused, Refuse, Exists, KindOf, RequestKinds, Keys!Refuse,
                  Keys!Tell, Keys!True, Keys!requests
    <2> QED
      BY <2>1 DEF Keys!KeyStoreNext
  <1>5. CASE NoSuchKey(th, t)
    <2>1. Keys!Refuse(th, t, "absent")
      BY <1>5 DEF NoSuchKey, Refuse, Exists, KindOf, RequestKinds, Keys!Refuse,
                  Keys!Tell, Keys!True, Keys!requests
    <2> QED
      BY <2>1 DEF Keys!KeyStoreNext
  <1>6. CASE CreateBegin(th, t)
    <2>1. KindOf' = [KindOf EXCEPT ![th] = "create"]
      BY <1>6, KindStep DEF CreateBegin, Begin, Goto, CreateSteps
    <2>2. Keys!Begin(th, t, "create")
      BY <1>6, <2>1 DEF CreateBegin, Begin, Keys!Begin, Keys!Tell
    <2> QED
      BY <2>2 DEF Keys!KeyStoreNext
  <1>7. CASE DestroyBegin(th, t)
    <2>1. KindOf' = [KindOf EXCEPT ![th] = "destroy"]
      BY <1>7, KindStep DEF DestroyBegin, Begin, Goto
    <2>2. Keys!Begin(th, t, "destroy")
      BY <1>7, <2>1 DEF DestroyBegin, Begin, Keys!Begin, Keys!Tell
    <2> QED
      BY <2>2 DEF Keys!KeyStoreNext
  <1>8. CASE UseBegin(th, t)
    <2>1. KindOf' = [KindOf EXCEPT ![th] = "use"]
      BY <1>8, KindStep DEF UseBegin, Begin, Goto
    <2>2. Keys!Begin(th, t, "use")
      BY <1>8, <2>1, KeptTypes DEF UseBegin, Begin, Keys!Begin
    <2> QED
      BY <2>2 DEF Keys!KeyStoreNext
  <1> QED
    BY <1>4, <1>5, <1>6, <1>7, <1>8 DEF Request

(* The steps between the begin of a request and its effect, or between its *)
(* effect and its answer, are stutters of the store.                       *)
LEMMA StepImplements ==
  ASSUME TrustedServiceAssumption, KeptInv, KeptInv', NEW th \in Thread, Step(th)
  PROVE  Keys!KeyStoreNext \/ UNCHANGED Keys!storeVars
  <1>1. KeyOf = stored /\ KeyOf' = stored'
    BY KeyMap
  <1>2. /\ pc[th] # "idle" /\ triple[th] \in KeyTriple /\ stored = key_info
        /\ known[triple[th]] \in {"exists", "absent", "unsure"}
    BY KeptTypes
    DEF KeptInv, DiskUpToDate, Step, FetchAdd, Saturate, CreateKey, CreateKeyError, Insert,
        InsertOverwrites, InsertError, Rollback, Remove, RemoveTooLate, RemoveError, Destroy,
        Use, Goto
  <1>3. CASE Saturate(th) \/ CreateKeyError(th) \/ Rollback(th) \/ Destroy(th)
    <2>1. Answer(th, "absent") /\ stored' = stored /\ stored[triple[th]] = NoId
      BY <1>2, <1>3 DEF Saturate, CreateKeyError, Rollback, Destroy, kim, KeptInv, RequestsAgree
    <2> QED
      BY <1>2, <2>1, AnswerImplements
  <1>4. CASE RemoveTooLate(th)
    <2>1. Answer(th, "absent") /\ stored' = stored /\ stored[triple[th]] = NoId
      BY <1>2, <1>4 DEF RemoveTooLate, Exists, kim
    <2> QED
      BY <1>2, <2>1, AnswerImplements
  <1>5. CASE RemoveError(th)
    <2>1. Answer(th, "exists") /\ stored' = stored /\ stored[triple[th]] # NoId
      BY <1>2, <1>5, KeptTypes DEF RemoveError, kim, KeptInv, RequestsAgree, HoldsId
    <2> QED
      BY <1>2, <2>1, AnswerImplements
  <1>6. CASE Use(th)
    <2>1. Answer(th, known[triple[th]]) /\ stored' = stored /\ pc[th] = "use"
      BY <1>6 DEF Use, kim
    <2> QED
      BY <1>2, <2>1, AnswerImplements
  <1>7. CASE FetchAdd(th) \/ CreateKey(th)
    <2>1. /\ \E to \in CreateSteps : pc[th] \in CreateSteps /\ pc' = [pc EXCEPT ![th] = to]
          /\ UNCHANGED <<status, stored, triple, known>>
      BY <1>7 DEF FetchAdd, CreateKey, Goto, CreateSteps, kim, local
    <2>2. KindOf' = KindOf
      BY <2>1, KindStep
    <2> QED
      BY <1>1, <2>1, <2>2 DEF Keys!storeVars
  <1>8. CASE Insert(th)
    <2> DEFINE i == key_id[th]
    <2>1. /\ pc[th] = "insert" /\ i \in KeyId /\ Answer(th, "exists")
          /\ stored' = [stored EXCEPT ![triple[th]] = i] /\ stored[triple[th]] = NoId
      BY <1>2, <1>8, KeptTypes DEF Insert, InsertKeyInfo, Exists, HoldsId
    <2>2. \A t \in KeyTriple : stored[t] # i
      BY <1>2, <2>1, KeptParts DEF NewIdsPrivate
    <2>3. KindOf[th] = "create" /\ KindOf' = [KindOf EXCEPT ![th] = "idle"]
      BY <2>1, KindFacts, KindStep DEF Answer, CreateSteps
    <2>4. Keys!Create(th, i)
      BY <1>1, <2>1, <2>2, <2>3 DEF Keys!Create, Keys!End, Keys!Tell, Answer
    <2> QED
      BY <2>1, <2>4 DEF Keys!KeyStoreNext
  <1>9. ~InsertOverwrites(th)
    BY DEF InsertOverwrites, Goto, Exists, KeptInv, RequestsAgree
  <1>10. CASE InsertError(th)
    <2>1. /\ pc[th] = "insert" /\ pc' = [pc EXCEPT ![th] = "rollback"]
          /\ stored' \in {stored, [stored EXCEPT ![triple[th]] = NoId]}
          /\ stored[triple[th]] = NoId /\ UNCHANGED <<status, triple, known>>
      BY <1>2, <1>10 DEF InsertError, InsertKeyInfoError, Goto, local, KeptInv, RequestsAgree
    <2>2. stored' = stored
      BY <1>2, <2>1, KeptTypes
    <2>3. KindOf[th] = "create" /\ KindOf' = [KindOf EXCEPT ![th] = "end"]
      BY <2>1, KindFacts, KindStep DEF CreateSteps
    <2>4. Keys!GiveUp(th)
      BY <1>1, <2>1, <2>2, <2>3 DEF Keys!GiveUp
    <2> QED
      BY <2>4 DEF Keys!KeyStoreNext
  <1>11. CASE Remove(th)
    <2>1. /\ pc[th] = "remove" /\ pc' = [pc EXCEPT ![th] = "destroy"]
          /\ stored' = [stored EXCEPT ![triple[th]] = NoId]
          /\ UNCHANGED <<status, triple, known>>
      BY <1>11 DEF Remove, RemoveKeyInfo, Goto, local
    <2>2. KindOf[th] = "destroy" /\ KindOf' = [KindOf EXCEPT ![th] = "end"]
      BY <2>1, KindFacts, KindStep
    <2>3. Keys!Destroy(th)
      BY <1>1, <2>1, <2>2 DEF Keys!Destroy
    <2> QED
      BY <2>3 DEF Keys!KeyStoreNext
  <1> QED
    BY <1>3, <1>4, <1>5, <1>6, <1>7, <1>8, <1>9, <1>10, <1>11 DEF Step

(* The service stops, dies and starts around an unchanged map.             *)
LEMMA ServiceImplements ==
  ASSUME TrustedServiceAssumption, KeptInv, KeptInv', Drain \/ Joined \/ Crash \/ Start
  PROVE  Keys!KeyStoreNext
  <1>1. KeyOf = stored /\ KeyOf' = stored
    BY KeyMap, KeptService
  <1>2. CASE Drain
    <2>1. Keys!Drain
      BY <1>1, <1>2 DEF Drain, StopArrivals, KindOf, RequestKinds, Keys!Drain, Keys!requests
    <2> QED
      BY <2>1 DEF Keys!KeyStoreNext
  <1>3. CASE Joined
    <2>1. Keys!Join
      BY <1>1, <1>3 DEF Joined, JoinThreads, KindOf, RequestKinds, Keys!Join, Keys!requests
    <2> QED
      BY <2>1 DEF Keys!KeyStoreNext
  <1>4. CASE Crash
    <2>1. KindOf' = [th \in Thread |-> "idle"]
      BY <1>4 DEF Crash, LoseThreads, KindOf, RequestKinds
    <2>2. Keys!Crash
      BY <1>1, <1>4, <2>1 DEF Crash, LoseThreads, Keys!Crash
    <2> QED
      BY <2>2 DEF Keys!KeyStoreNext
  <1>5. CASE Start
    <2>1. KindOf' = KindOf /\ UNCHANGED <<triple, known>> /\ status = "down" /\ status' = "up"
      BY <1>5 DEF Start, local, KindOf, RequestKinds
    <2>2. \E gone \in SUBSET KeyTriple :
             /\ TRUE => gone = {}
             /\ stored = [t \in KeyTriple |-> IF t \in gone THEN NoId ELSE stored[t]]
      <3> WITNESS {} \in SUBSET KeyTriple
      <3> QED
        BY KeptTypes
    <2>3. Keys!Start
      BY <1>1, <2>1, <2>2 DEF Keys!Start, Keys!requests
    <2> QED
      BY <2>3 DEF Keys!KeyStoreNext
  <1> QED
    BY <1>2, <1>3, <1>4, <1>5

(* To clients that wait for their answers the provider is one durable map  *)
(* from triples to keys, although a creation and a destruction are calls   *)
(* of their own to the secure world and to the key info manager, and each  *)
(* of them may fail after it was executed.                                 *)
THEOREM ImplementsKeyStore ==
  ASSUME TrustedServiceAssumption
  PROVE  ~Overlap /\ Spec => KeyStoreSpec
  <1> SUFFICES ASSUME ~Overlap
               PROVE  Spec => KeyStoreSpec
    OBVIOUS
  <1>1. Init => Keys!KeyStoreInit
    BY DEF Init, KimInit, RequestInit, Keys!KeyStoreInit, KindOf, RequestKinds, KeyOf, Reached
  <1>2. KeptInv /\ KeptInv' /\ [Next]_vars => [Keys!KeyStoreNext]_Keys!storeVars
    <2> SUFFICES ASSUME KeptInv, KeptInv', [Next]_vars
                 PROVE  Keys!KeyStoreNext \/ UNCHANGED Keys!storeVars
      OBVIOUS
    <2>1. CASE UNCHANGED vars
      BY <2>1 DEF vars, KindOf, RequestKinds, KeyOf, Reached, Keys!storeVars
    <2>2. CASE Next
      BY <2>2, RequestImplements, StepImplements, ServiceImplements DEF Next
    <2> QED
      BY <2>1, <2>2
  <1> QED
    BY <1>1, <1>2, MappingsKept, PTL DEF Spec, KeyStoreSpec, Keys!KeyStoreSpec

(* What an answer said of a key stays true until the next request about    *)
(* its triple, over crashes and restarts that rebuild the counter from the *)
(* mappings alone.                                                         *)
THEOREM AnswersStayTrue ==
  ASSUME TrustedServiceAssumption
  PROVE  ~Overlap /\ Spec => []AnswersHold
  <1>1. KeptInv => AnswersHold
    BY KeptTypes
    DEF KeptInv, KnownIsStored, MappedKeysLive, DiskUpToDate, KeyOf, Reached, AnswersHold,
        Keys!AnswersHold
  <1> QED
    BY <1>1, MappingsKept, PTL
===============================================================================
