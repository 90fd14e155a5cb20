---------------------------- MODULE Pkcs11_proofs ----------------------------
(***************************************************************************)
(* Theorems about the PKCS 11 provider, for every number of threads,       *)
(* triples and ids, with overlapping requests and whatever fails.          *)
(***************************************************************************)
EXTENDS Pkcs11, TLAPS

LEMMA Sentinels ==
  ASSUME Pkcs11Assumption
  PROVE  NoTriple \notin KeyTriple /\ NoId \notin Id
  BY DEF Pkcs11Assumption

LEMMA InitTypeOK ==
  ASSUME Pkcs11Assumption, Init
  PROVE  TypeOK
  BY Sentinels DEF Init, TypeOK, KimInit, KimTypeOK, RequestTypeOK, RequestInit

(* Whatever mappings a start drops, the map it builds is well typed.       *)
LEMMA ReloadType ==
  ASSUME KimTypeOK(Id), NEW bad, ReloadWithout(bad)
  PROVE  KimTypeOK(Id)'
  BY DEF KimTypeOK, ReloadWithout

(* The ids that a start records are ids.                                   *)
LEMMA MappedType ==
  ASSUME KimTypeOK(Id)
  PROVE  MappedIds \subseteq Id
  BY DEF KimTypeOK, MappedIds, HasObject

(* One step per kind of action: each keeps every variable in its range and *)
(* a request that goes on keeps its triple and its id.                     *)
LEMMA NextTypeOK ==
  ASSUME Pkcs11Assumption, TypeOK, [Next]_vars
  PROVE  TypeOK'
  <1> USE Sentinels DEF TypeOK, KimTypeOK, RequestTypeOK, kim, local, token
  <1>1. ASSUME NEW th \in Thread, NEW t \in KeyTriple, Request(th, t)
        PROVE  TypeOK'
    <2>1. CASE CreateRefused(th, t) \/ NoSuchKey(th, t)
      BY <2>1 DEF CreateRefused, NoSuchKey, Arrives, Refuse
    <2>2. CASE CreateBegin(th, t)
      BY <2>2 DEF CreateBegin, Arrives, Goto, Begin
    <2>3. CASE DestroyBegin(th, t) \/ UseBegin(th, t)
      BY <2>3 DEF DestroyBegin, UseBegin, Arrives, Goto, Exists, Begin
    <2>4. CASE ExportBegin(th, t) \/ SoftwareBegin(th, t)
      BY <2>4 DEF ExportBegin, SoftwareBegin, Arrives, Goto, Exists, Begin
    <2> QED
      BY <1>1, <2>1, <2>2, <2>3, <2>4 DEF Request
  <1>2. ASSUME NEW th \in Thread, NEW k \in {"exists", "absent", "unsure"},
               pc[th] # "idle", Answer(th, k), UNCHANGED <<token, local_ids>>,
               KimTypeOK(Id)', psa_key' \in [Thread -> BOOLEAN]
        PROVE  TypeOK'
    BY <1>2 DEF Answer
  <1>3. ASSUME NEW th \in Thread,
               \/ SessionError(th) \/ CreateError(th) \/ RemoveTooLate(th)
               \/ RemoveError(th) \/ DestroyError(th) \/ LookupTooLate(th)
        PROVE  TypeOK'
    <2>1. /\ pc[th] # "idle"
          /\ Answer(th, "absent") \/ Answer(th, "exists")
          /\ UNCHANGED <<key_info, stored, objects, leftovers, local_ids, psa_key>>
      BY <1>3 DEF SessionError, CreateError, RemoveTooLate, RemoveError, DestroyError,
                  LookupTooLate
    <2> QED
      BY <1>2, <2>1
  <1>4. ASSUME NEW th \in Thread, Use(th) \/ SoftwareError(th) \/ SoftwareRemove(th)
        PROVE  TypeOK'
    <2>1. /\ pc[th] # "idle" /\ Answer(th, known[triple[th]])
          /\ UNCHANGED <<key_info, stored, objects, leftovers, local_ids>>
          /\ psa_key' = psa_key \/ psa_key' = [psa_key EXCEPT ![th] = FALSE]
      BY <1>4 DEF Use, SoftwareError, SoftwareRemove
    <2>2. known[triple[th]] \in {"exists", "absent", "unsure"}
      BY <2>1
    <2> QED
      BY <1>2, <2>1, <2>2
  <1>5. ASSUME NEW th \in Thread, CreateKeyId(th)
        PROVE  TypeOK'
    BY <1>5 DEF CreateKeyId, Goto
  <1>6. ASSUME NEW th \in Thread, CreateObjects(th)
        PROVE  TypeOK'
    <2>1. PICK classes \in {Class, {"public"}} :
             objects' = objects \cup [id : {key_id[th]}, class : classes, owner : {triple[th]}]
      BY <1>6 DEF CreateObjects
    <2>2. pc[th] = "create" /\ key_id[th] \in Id /\ triple[th] \in KeyTriple
      BY <1>6 DEF CreateObjects, Goto
    <2>3. objects' \subseteq Object
      BY <2>1, <2>2 DEF Object, Class
    <2> QED
      BY <1>6, <2>3 DEF CreateObjects, Goto
  <1>7. ASSUME NEW th \in Thread, Insert(th)
        PROVE  TypeOK'
    BY <1>7 DEF Insert, InsertKeyInfo, Answer
  <1>8. ASSUME NEW th \in Thread, InsertOverwrites(th)
        PROVE  TypeOK'
    BY <1>8 DEF InsertOverwrites, InsertKeyInfo, Goto
  <1>9. ASSUME NEW th \in Thread, InsertError(th)
        PROVE  TypeOK'
    BY <1>9 DEF InsertError, InsertKeyInfoError, Goto
  <1>10. ASSUME NEW th \in Thread, Rollback(th) \/ DestroySecond(th)
         PROVE  TypeOK'
    <2>1. /\ objects' \subseteq objects /\ pc[th] # "idle" /\ Answer(th, "absent")
          /\ UNCHANGED <<key_info, stored, leftovers, local_ids, psa_key>>
      BY <1>10 DEF Rollback, DestroySecond, OwnObjects, Found
    <2> QED
      BY <2>1 DEF Answer
  <1>11. ASSUME NEW th \in Thread, Remove(th)
         PROVE  TypeOK'
    BY <1>11 DEF Remove, RemoveKeyInfo, Goto
  <1>12. ASSUME NEW th \in Thread, DestroyFirst(th)
         PROVE  TypeOK'
    BY <1>12 DEF DestroyFirst, Goto
  <1>13. ASSUME NEW th \in Thread,
                \/ Attributes(th) \/ SoftwareExport(th) \/ SoftwareImport(th)
                \/ SoftwareUse(th)
         PROVE  TypeOK'
    BY <1>13 DEF Attributes, SoftwareExport, SoftwareImport, SoftwareUse, Goto
  <1>14. ASSUME NEW th \in Thread, Lookup(th, "lookup", "use") \/ Lookup(th, "sw_lookup", "sw_find")
         PROVE  TypeOK'
    BY <1>14 DEF Lookup, Goto, Exists
  <1>15. ASSUME Drain \/ Joined \/ Crash
         PROVE  TypeOK'
    <2>1. CASE Drain \/ Joined
      BY <2>1 DEF Drain, Joined, StopArrivals, JoinThreads
    <2>2. CASE Crash
      <3>1. KimTypeOK(Id)'
        BY <2>2 DEF Crash, InsertKeyInfoError
      <3>2. /\ status' = "down" /\ local_ids' = {} /\ UNCHANGED <<objects, leftovers>>
            /\ pc' = [th \in Thread |-> "idle"]
            /\ triple' = [th \in Thread |-> NoTriple]
            /\ key_id' = [th \in Thread |-> NoId]
            /\ psa_key' = [th \in Thread |-> FALSE]
            /\ known' \in [KeyTriple -> {"exists", "absent", "unsure"}]
        BY <2>2 DEF Crash, LoseThreads
      <3> QED
        BY <3>1, <3>2
    <2> QED
      BY <1>15, <2>1, <2>2
  <1>16. ASSUME Start
         PROVE  TypeOK'
    <2>1. KimTypeOK(Id)' /\ local_ids' \subseteq Id
      BY <1>16, ReloadType, MappedType DEF Start
    <2>2. leftovers' \subseteq Id
      BY <1>16 DEF Start
    <2> QED
      BY <1>16, <2>1, <2>2 DEF Start
  <1>17. ASSUME StartError
         PROVE  TypeOK'
    <2>1. KimTypeOK(Id)'
      BY <1>17, ReloadType DEF StartError
    <2> QED
      BY <1>17, <2>1 DEF StartError
  <1>18. ASSUME UNCHANGED vars
         PROVE  TypeOK'
    BY <1>18 DEF vars
  <1> QED
    <2> HIDE DEF TypeOK
    <2> QED
      BY <1>1, <1>3, <1>4, <1>5, <1>6, <1>7, <1>8, <1>9, <1>10, <1>11, <1>12, <1>13,
         <1>14, <1>15, <1>16, <1>17, <1>18 DEF Next, Step

(* Types.  The steps that work on a key have its id.                       *)
THEOREM TypeCorrect ==
  ASSUME Pkcs11Assumption
  PROVE  Spec => []TypeOK
  <1>1. Init => TypeOK
    BY InitTypeOK
  <1>2. TypeOK /\ [Next]_vars => TypeOK'
    BY NextTypeOK
  <1> QED
    BY <1>1, <1>2, PTL DEF Spec

---------------------------------------------------------------------------
(* Which objects are under the ids in use: unless it was without a mapping *)
(* at a start, an object's id is taken, and whoever refers to the id means *)
(* the triple the object was created for.                                  *)
OwnersAgree ==
    \A o \in objects : o.id \notin leftovers =>
        /\ status # "down" => o.id \in local_ids
        /\ \A t \in KeyTriple : key_info[t] = o.id => t = o.owner
        /\ \A th \in Thread : HoldsId(th) /\ key_id[th] = o.id => triple[th] = o.owner

(* Everything but the types.                                               *)
Ids == StoredAgrees /\ IdleWhenDown /\ IdsRecorded /\ NewIdsPrivate /\ IdsNeverShared

TokenInv == TypeOK /\ Ids /\ OwnersAgree

(* Steps that end a request, and change neither mappings nor recorded ids. *)
LEMMA Ends ==
  ASSUME Pkcs11Assumption, TokenInv, NEW th \in Thread, NEW k, Answer(th, k),
         pc[th] # "idle",
         objects' \subseteq objects, UNCHANGED <<kim, leftovers, local_ids>>
  PROVE  Ids' /\ OwnersAgree'
  <1>1. /\ pc' = [pc EXCEPT ![th] = "idle"]
        /\ triple' = [triple EXCEPT ![th] = NoTriple]
        /\ key_id' = [key_id EXCEPT ![th] = NoId]
        /\ UNCHANGED <<status, key_info, stored, leftovers, local_ids>>
    BY DEF Answer, kim
  <1> USE DEF TokenInv, TypeOK, RequestTypeOK, KimTypeOK, HoldsId, Creating
  <1>2. Ids'
    BY <1>1 DEF Ids, StoredAgrees, IdleWhenDown, IdsRecorded, NewIdsPrivate, IdsNeverShared
  <1>3. OwnersAgree'
    BY <1>1 DEF OwnersAgree
  <1> QED
    BY <1>2, <1>3

(* Steps that go on with the id that the thread has.                       *)
LEMMA GoesOn ==
  ASSUME Pkcs11Assumption, TokenInv, NEW th \in Thread, NEW to,
         pc' = [pc EXCEPT ![th] = to], HoldsId(th), to \notin {"create", "insert"},
         to \notin {"idle", "create_id", "lookup", "sw_lookup"},
         objects' \subseteq objects,
         UNCHANGED <<status, kim, leftovers, local_ids, triple, key_id>>
  PROVE  Ids' /\ OwnersAgree'
  <1> USE DEF TokenInv, TypeOK, RequestTypeOK, KimTypeOK, HoldsId, Creating, kim
  <1>1. Ids'
    BY DEF Ids, StoredAgrees, IdleWhenDown, IdsRecorded, NewIdsPrivate, IdsNeverShared
  <1>2. OwnersAgree'
    BY DEF OwnersAgree
  <1> QED
    BY <1>1, <1>2

(* A request begins, with a mapped id or with none yet.                    *)
LEMMA Begins ==
  ASSUME Pkcs11Assumption, TokenInv, NEW th \in Thread, NEW t \in KeyTriple, Request(th, t)
  PROVE  Ids' /\ OwnersAgree'
  <1> USE DEF TokenInv, TypeOK, RequestTypeOK, KimTypeOK, HoldsId, Creating
  <1>1. CASE CreateRefused(th, t) \/ NoSuchKey(th, t)
    <2>1. UNCHANGED <<status, key_info, stored, objects, leftovers, local_ids, pc, triple, key_id>>
      BY <1>1 DEF CreateRefused, NoSuchKey, Refuse, kim, token
    <2> QED
      BY <2>1 DEF Ids, StoredAgrees, IdleWhenDown, IdsRecorded, NewIdsPrivate,
                  IdsNeverShared, OwnersAgree
  <1>2. ASSUME NEW to \in {"create_id", "lookup", "sw_lookup"}, NEW k,
               Begin(th, t, to, NoId, k),
               UNCHANGED <<kim, objects, leftovers, local_ids>>
        PROVE  Ids' /\ OwnersAgree'
    <2>1. /\ status = "up" /\ pc[th] = "idle" /\ pc' = [pc EXCEPT ![th] = to]
          /\ triple' = [triple EXCEPT ![th] = t] /\ key_id' = [key_id EXCEPT ![th] = NoId]
          /\ UNCHANGED <<status, key_info, stored, objects, leftovers, local_ids>>
      BY <1>2 DEF Begin, Arrives, Goto, kim
    <2>2. Ids'
      BY <2>1 DEF Ids, StoredAgrees, IdleWhenDown, IdsRecorded, NewIdsPrivate, IdsNeverShared
    <2>3. OwnersAgree'
      BY <2>1 DEF OwnersAgree
    <2> QED
      BY <2>2, <2>3
  <1>3. CASE CreateBegin(th, t)
    BY <1>2, <1>3 DEF CreateBegin, token
  <1>4. CASE ExportBegin(th, t) \/ SoftwareBegin(th, t)
    BY <1>2, <1>4 DEF ExportBegin, SoftwareBegin, token
  <1>5. CASE DestroyBegin(th, t) \/ UseBegin(th, t)
    <2>1. /\ status = "up" /\ key_info[t] # NoId /\ pc[th] = "idle"
          /\ \/ pc' = [pc EXCEPT ![th] = "remove"]
             \/ pc' = [pc EXCEPT ![th] = "attributes"]
          /\ triple' = [triple EXCEPT ![th] = t] /\ key_id' = [key_id EXCEPT ![th] = key_info[t]]
          /\ UNCHANGED <<status, key_info, stored, objects, leftovers, local_ids>>
      BY <1>5 DEF DestroyBegin, UseBegin, Begin, Arrives, Goto, Exists, kim, token
    <2>2. StoredAgrees' /\ IdleWhenDown' /\ IdsNeverShared' /\ IdsRecorded'
      BY <2>1 DEF Ids, StoredAgrees, IdleWhenDown, IdsRecorded, IdsNeverShared
    <2>3. NewIdsPrivate'
      BY <2>1 DEF Ids, NewIdsPrivate
    <2>4. OwnersAgree'
      BY <2>1 DEF OwnersAgree
    <2> QED
      BY <2>2, <2>3, <2>4 DEF Ids
  <1> QED
    BY <1>1, <1>3, <1>4, <1>5 DEF Request

(* create_key_id: all ids in use are recorded, so the new one is nobody's. *)
LEMMA Draws ==
  ASSUME Pkcs11Assumption, TokenInv, NEW th \in Thread, CreateKeyId(th)
  PROVE  Ids' /\ OwnersAgree'
  <1> USE DEF TokenInv, TypeOK, RequestTypeOK, KimTypeOK, HoldsId, Creating
  <1>1. PICK id \in Id \ local_ids :
           /\ key_id' = [key_id EXCEPT ![th] = id]
           /\ local_ids' = local_ids \cup {id}
    BY DEF CreateKeyId
  <1>2. /\ pc[th] = "create_id" /\ pc' = [pc EXCEPT ![th] = "create"]
        /\ UNCHANGED <<status, key_info, stored, objects, leftovers, triple>>
    BY DEF CreateKeyId, Goto, kim, token
  <1>3. status # "down"
    BY <1>2 DEF Ids, IdleWhenDown
  <1>4. /\ \A t \in KeyTriple : key_info[t] # id
        /\ \A other \in Thread : HoldsId(other) => key_id[other] # id
        /\ \A o \in objects : o.id \notin leftovers => o.id # id
    BY <1>1, <1>3, Sentinels DEF Ids, IdsRecorded, OwnersAgree
  <1>5. StoredAgrees' /\ IdleWhenDown' /\ IdsNeverShared'
    BY <1>2, <1>3 DEF Ids, StoredAgrees, IdleWhenDown, IdsNeverShared
  <1>6. IdsRecorded' /\ NewIdsPrivate'
    BY <1>1, <1>2, <1>3, <1>4 DEF Ids, IdsRecorded, NewIdsPrivate
  <1>7. OwnersAgree'
    BY <1>1, <1>2, <1>3, <1>4 DEF OwnersAgree
  <1> QED
    BY <1>5, <1>6, <1>7 DEF Ids

(* New objects carry the id that only their creation has.                  *)
LEMMA Creates ==
  ASSUME Pkcs11Assumption, TokenInv, NEW th \in Thread, CreateObjects(th)
  PROVE  Ids' /\ OwnersAgree'
  <1> USE DEF TokenInv, TypeOK, RequestTypeOK, KimTypeOK, HoldsId, Creating
  <1>1. PICK classes \in {Class, {"public"}} :
           objects' = objects \cup [id : {key_id[th]}, class : classes, owner : {triple[th]}]
    BY DEF CreateObjects
  <1>2. /\ pc[th] = "create" /\ pc' = [pc EXCEPT ![th] = "insert"]
        /\ UNCHANGED <<status, key_info, stored, leftovers, local_ids, triple, key_id>>
    BY DEF CreateObjects, Goto, kim, local
  <1>3. status # "down"
    BY <1>2 DEF Ids, IdleWhenDown
  <1>4. Ids'
    BY <1>2, <1>3 DEF Ids, StoredAgrees, IdleWhenDown, IdsRecorded, NewIdsPrivate, IdsNeverShared
  <1>5. ASSUME NEW o \in objects', o \notin objects
        PROVE  o.id = key_id[th] /\ o.owner = triple[th]
    <2>1. o \in [id : {key_id[th]}, class : classes, owner : {triple[th]}]
      BY <1>1, <1>5
    <2> QED
      BY <2>1
  <1>6. /\ key_id[th] \in local_ids
        /\ \A t \in KeyTriple : key_info[t] # key_id[th]
        /\ \A other \in Thread \ {th} : HoldsId(other) => key_id[other] # key_id[th]
    BY <1>2, <1>3 DEF Ids, IdsRecorded, NewIdsPrivate
  <1>7. ASSUME NEW o \in objects', o.id \notin leftovers
        PROVE  /\ o.id \in local_ids
               /\ \A t \in KeyTriple : key_info[t] = o.id => t = o.owner
               /\ \A other \in Thread :
                     HoldsId(other) /\ key_id[other] = o.id => triple[other] = o.owner
    <2>1. CASE o \in objects
      BY <1>3, <1>7, <2>1 DEF OwnersAgree
    <2>2. CASE o.id = key_id[th] /\ o.owner = triple[th]
      BY <1>6, <2>2
    <2> QED
      BY <1>5, <2>1, <2>2
  <1>8. OwnersAgree'
    BY <1>2, <1>7 DEF OwnersAgree
  <1> QED
    BY <1>4, <1>8

(* An insertion hands the private id over to the mapping.                  *)
LEMMA Inserts ==
  ASSUME Pkcs11Assumption, TokenInv, NEW th \in Thread, Insert(th) \/ InsertOverwrites(th)
  PROVE  Ids' /\ OwnersAgree'
  <1> USE DEF TokenInv, TypeOK, RequestTypeOK, KimTypeOK, HoldsId, Creating
  <1> DEFINE t == triple[th]
             c == key_id[th]
  <1>1. /\ pc[th] = "insert" /\ t \in KeyTriple /\ c \in Id
        /\ key_info' = [key_info EXCEPT ![t] = c]
        /\ stored' = [stored EXCEPT ![t] = c]
        /\ \/ /\ pc' = [pc EXCEPT ![th] = "idle"]
              /\ triple' = [triple EXCEPT ![th] = NoTriple]
              /\ key_id' = [key_id EXCEPT ![th] = NoId]
           \/ pc' = [pc EXCEPT ![th] = "rollback"] /\ UNCHANGED <<triple, key_id>>
        /\ UNCHANGED <<status, objects, leftovers, local_ids>>
    BY Sentinels DEF Insert, InsertOverwrites, InsertKeyInfo, Answer, Goto, token, local
  <1>2. status # "down"
    BY <1>1 DEF Ids, IdleWhenDown
  <1>3. /\ c \in local_ids
        /\ \A u \in KeyTriple : key_info[u] # c
        /\ \A other \in Thread \ {th} : HoldsId(other) => key_id[other] # c
    BY <1>1, <1>2 DEF Ids, IdsRecorded, NewIdsPrivate
  <1>4. StoredAgrees' /\ IdleWhenDown'
    BY <1>1, <1>2 DEF Ids, StoredAgrees, IdleWhenDown
  <1>5. IdsRecorded'
    BY <1>1, <1>2, <1>3 DEF Ids, IdsRecorded
  <1>6. NewIdsPrivate'
    BY <1>1, <1>3 DEF Ids, NewIdsPrivate
  <1>7. IdsNeverShared'
    BY <1>1, <1>3 DEF Ids, IdsNeverShared
  <1>8. OwnersAgree'
    BY <1>1, <1>2 DEF OwnersAgree
  <1> QED
    BY <1>4, <1>5, <1>6, <1>7, <1>8 DEF Ids

(* Mappings vanish, from the disk or from both.                            *)
LEMMA Vanishes ==
  ASSUME Pkcs11Assumption, TokenInv, NEW th \in Thread, InsertError(th) \/ Remove(th)
  PROVE  Ids' /\ OwnersAgree'
  <1> USE DEF TokenInv, TypeOK, RequestTypeOK, KimTypeOK, HoldsId, Creating
  <1>1. /\ pc[th] \in {"insert", "remove"}
        /\ \/ pc' = [pc EXCEPT ![th] = "rollback"]
           \/ pc' = [pc EXCEPT ![th] = "destroy"]
        /\ \A t \in KeyTriple : /\ key_info'[t] = key_info[t] \/ key_info'[t] = NoId
                                /\ stored'[t] # NoId => /\ stored'[t] = stored[t]
                                                       /\ key_info'[t] = key_info[t]
        /\ UNCHANGED <<status, objects, leftovers, local_ids, triple, key_id>>
    BY DEF InsertError, Remove, InsertKeyInfoError, RemoveKeyInfo, Goto, token, local
  <1>2. StoredAgrees' /\ IdleWhenDown'
    BY <1>1 DEF Ids, StoredAgrees, IdleWhenDown
  <1>3. IdsRecorded' /\ IdsNeverShared'
    BY <1>1 DEF Ids, IdsRecorded, IdsNeverShared
  <1>4. NewIdsPrivate'
    BY <1>1, Sentinels DEF Ids, NewIdsPrivate
  <1>5. OwnersAgree'
    BY <1>1, Sentinels DEF OwnersAgree, Object
  <1> QED
    BY <1>2, <1>3, <1>4, <1>5 DEF Ids

(* get_key_id in the middle of a request.                                  *)
LEMMA LooksUp ==
  ASSUME Pkcs11Assumption, TokenInv, NEW th \in Thread,
         Lookup(th, "lookup", "use") \/ Lookup(th, "sw_lookup", "sw_find")
  PROVE  Ids' /\ OwnersAgree'
  <1> USE DEF TokenInv, TypeOK, RequestTypeOK, KimTypeOK, HoldsId, Creating
  <1>1. /\ pc[th] \in {"lookup", "sw_lookup"} /\ triple[th] \in KeyTriple
        /\ key_info[triple[th]] # NoId
        /\ \/ pc' = [pc EXCEPT ![th] = "use"]
           \/ pc' = [pc EXCEPT ![th] = "sw_find"]
        /\ key_id' = [key_id EXCEPT ![th] = key_info[triple[th]]]
        /\ UNCHANGED <<status, key_info, stored, objects, leftovers, local_ids, triple>>
    BY Sentinels DEF Lookup, Goto, Exists, kim, token
  <1>2. status # "down"
    BY <1>1 DEF Ids, IdleWhenDown
  <1>3. StoredAgrees' /\ IdleWhenDown' /\ IdsRecorded' /\ IdsNeverShared'
    BY <1>1, <1>2 DEF Ids, StoredAgrees, IdleWhenDown, IdsRecorded, IdsNeverShared
  <1>4. NewIdsPrivate'
    BY <1>1 DEF Ids, NewIdsPrivate
  <1>5. OwnersAgree'
    BY <1>1 DEF OwnersAgree
  <1> QED
    BY <1>3, <1>4, <1>5 DEF Ids

(* The provider goes down, in order or not.                                *)
LEMMA GoesDown ==
  ASSUME Pkcs11Assumption, TokenInv, Drain \/ Joined \/ Crash
  PROVE  Ids' /\ OwnersAgree'
  <1> USE DEF TokenInv, TypeOK, RequestTypeOK, KimTypeOK, HoldsId, Creating
  <1>1. CASE Drain
    BY <1>1 DEF Drain, StopArrivals, kim, token, Ids, StoredAgrees, IdleWhenDown, IdsRecorded,
                NewIdsPrivate, IdsNeverShared, OwnersAgree
  <1>2. CASE Joined \/ Crash
    <2>1. /\ status' = "down" /\ UNCHANGED <<key_info, objects, leftovers>>
          /\ \A th \in Thread : pc'[th] = "idle"
      BY <1>2 DEF Joined, Crash, JoinThreads, LoseThreads, InsertKeyInfoError, kim, token
    <2>2. \A t \in KeyTriple : stored'[t] # NoId => stored'[t] = stored[t]
      BY <1>2 DEF Joined, Crash, InsertKeyInfoError, kim
    <2>3. Ids'
      BY <2>1, <2>2 DEF Ids, StoredAgrees, IdleWhenDown, IdsRecorded, NewIdsPrivate, IdsNeverShared
    <2>4. OwnersAgree'
      BY <2>1 DEF OwnersAgree
    <2> QED
      BY <2>3, <2>4
  <1> QED
    BY <1>1, <1>2

(* Provider::new: the ids of the mappings it keeps are recorded; an object *)
(* under any other id is left over.                                        *)
LEMMA Starts ==
  ASSUME Pkcs11Assumption, TokenInv, Start
  PROVE  Ids' /\ OwnersAgree'
  <1> USE DEF TokenInv, TypeOK, RequestTypeOK, KimTypeOK, HoldsId, Creating
  <1>1. /\ status = "down" /\ local_ids' = MappedIds /\ UNCHANGED <<objects, pc, triple, key_id>>
        /\ leftovers' = {o.id : o \in objects} \cap (leftovers \cup (Id \ MappedIds))
        /\ \A th \in Thread : pc[th] = "idle"
    BY DEF Start, local, Ids, IdleWhenDown
  <1>2. \A t \in KeyTriple :
           /\ stored'[t] = IF t \in DeadTriples THEN NoId ELSE stored[t]
           /\ key_info'[t] = stored'[t]
    BY DEF Start, ReloadWithout
  <1>3. \A t \in KeyTriple : key_info'[t] # NoId =>
           key_info'[t] = stored[t] /\ key_info'[t] = key_info[t] /\ HasObject(stored[t])
    BY <1>2 DEF DeadTriples, Ids, StoredAgrees
  <1>4. StoredAgrees' /\ IdleWhenDown' /\ NewIdsPrivate'
    BY <1>1, <1>2 DEF StoredAgrees, IdleWhenDown, NewIdsPrivate
  <1>5. IdsRecorded' /\ IdsNeverShared'
    BY <1>1, <1>3 DEF Ids, IdsRecorded, IdsNeverShared, MappedIds
  <1>6. OwnersAgree'
    <2> SUFFICES ASSUME NEW o \in objects, o.id \notin leftovers'
                 PROVE  /\ o.id \in local_ids'
                        /\ \A t \in KeyTriple : key_info'[t] = o.id => t = o.owner
      BY <1>1 DEF OwnersAgree
    <2>1. o.id \in Id
      BY DEF Object
    <2>2. o.id \in MappedIds /\ o.id \notin leftovers
      BY <1>1, <2>1
    <2> QED
      BY <1>1, <1>3, <2>1, <2>2, Sentinels DEF OwnersAgree
  <1> QED
    BY <1>4, <1>5, <1>6 DEF Ids

(* Provider::new gives up, after some of the removals.                     *)
LEMMA StartsNot ==
  ASSUME Pkcs11Assumption, TokenInv, StartError
  PROVE  Ids' /\ OwnersAgree'
  <1> USE DEF TokenInv, TypeOK, RequestTypeOK, KimTypeOK, HoldsId, Creating
  <1>1. /\ status = "down"
        /\ UNCHANGED <<status, objects, leftovers, pc, triple, key_id>>
        /\ \A th \in Thread : pc[th] = "idle"
    BY DEF StartError, local, token, Ids, IdleWhenDown
  <1>2. \A t \in KeyTriple :
           /\ key_info'[t] = stored'[t]
           /\ key_info'[t] # NoId => key_info'[t] = key_info[t]
    BY DEF StartError, ReloadWithout, Ids, StoredAgrees
  <1>3. Ids'
    BY <1>1, <1>2 DEF Ids, StoredAgrees, IdleWhenDown, IdsRecorded, NewIdsPrivate, IdsNeverShared
  <1>4. OwnersAgree'
    BY <1>1, <1>2, Sentinels DEF OwnersAgree, Object
  <1> QED
    BY <1>3, <1>4

(* Each action keeps the ids of triples and requests apart.                *)
LEMMA NextTokenInv ==
  ASSUME Pkcs11Assumption, TokenInv, [Next]_vars
  PROVE  TokenInv'
  <1>a. TypeOK'
    BY NextTypeOK DEF TokenInv
  <1>b. SUFFICES Ids' /\ OwnersAgree'
    BY <1>a DEF TokenInv
  <1>1. ASSUME NEW th \in Thread,
               \/ SessionError(th) \/ CreateError(th) \/ Rollback(th) \/ RemoveTooLate(th)
               \/ RemoveError(th) \/ DestroySecond(th) \/ DestroyError(th)
               \/ LookupTooLate(th) \/ Use(th) \/ SoftwareError(th) \/ SoftwareRemove(th)
        PROVE  Ids' /\ OwnersAgree'
    <2>1. /\ \E k : Answer(th, k)
          /\ pc[th] # "idle"
          /\ objects' \subseteq objects
          /\ UNCHANGED <<kim, leftovers, local_ids>>
      BY <1>1 DEF SessionError, CreateError, Rollback, RemoveTooLate, RemoveError,
                  DestroySecond, DestroyError, LookupTooLate, Use, SoftwareError,
                  SoftwareRemove, OwnObjects, Found, token
    <2> QED
      BY <2>1, Ends
  <1>2. ASSUME NEW th \in Thread,
               \/ DestroyFirst(th) \/ Attributes(th) \/ SoftwareExport(th)
               \/ SoftwareImport(th) \/ SoftwareUse(th)
        PROVE  Ids' /\ OwnersAgree'
    <2>1. /\ \E to \in {"destroy_second", "use", "sw_import", "sw_use", "sw_remove"} :
                pc' = [pc EXCEPT ![th] = to]
          /\ HoldsId(th)
          /\ objects' \subseteq objects
          /\ UNCHANGED <<status, kim, leftovers, local_ids, triple, key_id>>
      BY <1>2 DEF DestroyFirst, Attributes, SoftwareExport, SoftwareImport, SoftwareUse,
                  Goto, Found, HoldsId, local, token
    <2> QED
      BY <2>1, GoesOn
  <1>3. ASSUME UNCHANGED vars
        PROVE  Ids' /\ OwnersAgree'
    BY <1>3 DEF vars, kim, token, local, TokenInv, Ids, StoredAgrees, IdleWhenDown,
                IdsRecorded, NewIdsPrivate, IdsNeverShared, OwnersAgree, HoldsId, Creating
  <1> QED
    BY <1>1, <1>2, <1>3, Begins, Draws, Creates, Inserts, Vanishes, LooksUp, GoesDown,
       Starts, StartsNot DEF Next, Step

LEMMA TokenInvHolds ==
  ASSUME Pkcs11Assumption
  PROVE  Spec => []TokenInv
  <1>1. Init => TokenInv
    <2> SUFFICES ASSUME Init PROVE TokenInv
      OBVIOUS
    <2>1. TypeOK
      BY InitTypeOK
    <2> QED
      BY <2>1 DEF Init, RequestInit, KimInit, TokenInv, Ids, StoredAgrees, IdleWhenDown,
                  IdsRecorded, NewIdsPrivate, IdsNeverShared, OwnersAgree, Creating
  <1>2. TokenInv /\ [Next]_vars => TokenInv'
    BY NextTokenInv
  <1> QED
    BY <1>1, <1>2, PTL DEF Spec

(* Every id in use is recorded, and no two triples share one: whatever     *)
(* overlaps, fails or crashes.                                             *)
THEOREM IdsKeptApart ==
  ASSUME Pkcs11Assumption
  PROVE  Spec => []IdInv
  <1>1. TokenInv => IdInv
    BY DEF TokenInv, Ids, IdInv
  <1> QED
    BY <1>1, TokenInvHolds, PTL

(* What a request finds in the token under its id was made for its triple, *)
(* or was without a mapping at a start.                                    *)
THEOREM FoundObjectsOwn ==
  ASSUME Pkcs11Assumption
  PROVE  Spec => []FoundObjectIsOwn
  <1>1. TokenInv => FoundObjectIsOwn
    BY DEF TokenInv, OwnersAgree, FoundObjectIsOwn, Found, HoldsId
  <1> QED
    BY <1>1, TokenInvHolds, PTL

(* Requests release the public keys they copied to PSA Crypto.             *)
THEOREM VolatileKeysGone ==
  ASSUME Pkcs11Assumption
  PROVE  Spec => []VolatileKeysReleased
  <1>1. Init => VolatileKeysReleased
    BY DEF Init, VolatileKeysReleased
  <1>2. ASSUME TypeOK, VolatileKeysReleased, [Next]_vars
        PROVE  VolatileKeysReleased'
    <2> USE DEF TypeOK, RequestTypeOK, VolatileKeysReleased
    <2>1. ASSUME NEW th \in Thread, NEW t \in KeyTriple, Request(th, t)
          PROVE  VolatileKeysReleased'
      BY <1>2, <2>1 DEF Request, CreateRefused, CreateBegin, NoSuchKey, DestroyBegin, UseBegin,
                        ExportBegin, SoftwareBegin, Refuse, Begin, Arrives, Goto
    <2>2. ASSUME NEW th \in Thread, Step(th), ~SoftwareImport(th), ~SoftwareUse(th),
                 ~SoftwareRemove(th)
          PROVE  VolatileKeysReleased'
      <3>1. /\ psa_key' = psa_key /\ pc[th] \notin {"sw_use", "sw_remove"}
            /\ \A other \in Thread \ {th} : pc'[other] = pc[other]
        BY <1>2, <2>2 DEF Step, SessionError, CreateKeyId, CreateObjects, CreateError, Insert,
              InsertOverwrites, InsertError, Rollback, Remove, RemoveTooLate, RemoveError,
              DestroyFirst, DestroySecond, DestroyError, Attributes, Lookup, LookupTooLate,
              Use, SoftwareExport, SoftwareError, Answer, Goto
      <3> QED
        BY <1>2, <3>1
    <2>3. ASSUME NEW th \in Thread, SoftwareImport(th) \/ SoftwareUse(th) \/ SoftwareRemove(th)
          PROVE  VolatileKeysReleased'
      BY <1>2, <2>3 DEF SoftwareImport, SoftwareUse, SoftwareRemove, Goto, Answer
    <2>4. ASSUME Drain \/ Joined \/ Crash \/ Start \/ StartError \/ UNCHANGED vars
          PROVE  VolatileKeysReleased'
      BY <1>2, <2>4 DEF Drain, Joined, Crash, Start, StartError, StopArrivals, JoinThreads,
                        LoseThreads, vars
    <2> QED
      BY <1>2, <2>1, <2>2, <2>3, <2>4 DEF Next
  <1> QED
    BY <1>1, <1>2, TypeCorrect, PTL DEF Spec
---------------------------------------------------------------------------
(* For clients that wait for their answers: the parts of KeptInv.          *)
Kept == /\ OneRequestPerTriple /\ MappedObjectsLive /\ DiskUpToDate
        /\ RequestsAgree /\ OneObjectLeft /\ KnownIsStored

Ending(th) == pc[th] \in {"rollback", "destroy", "destroy_second"}

(* What a step may use of TokenInv and of the types.                       *)
LEMMA KeptTypes ==
  ASSUME Pkcs11Assumption, TokenInv
  PROVE  /\ key_info \in [KeyTriple -> Id \cup {NoId}]
         /\ stored \in [KeyTriple -> Id \cup {NoId}]
         /\ objects \subseteq Object
         /\ known \in [KeyTriple -> {"exists", "absent", "unsure"}]
         /\ DOMAIN pc = Thread
         /\ triple \in [Thread -> KeyTriple \cup {NoTriple}]
         /\ key_id \in [Thread -> Id \cup {NoId}]
         /\ \A th \in Thread : pc[th] = "idle" <=> triple[th] = NoTriple
         /\ \A th \in Thread : pc[th] # "idle" => triple[th] \in KeyTriple /\ status # "down"
         /\ \A th \in Thread : HoldsId(th) => key_id[th] \in Id
         /\ NoId \notin Id /\ NoTriple \notin KeyTriple
  BY Sentinels DEF TokenInv, Ids, TypeOK, KimTypeOK, RequestTypeOK, IdleWhenDown, HoldsId

(* Objects go from under the id of one request only, which no mapping and  *)
(* no creation shares with it.                                             *)
LEMMA KeptObjects ==
  ASSUME Pkcs11Assumption, TokenInv, Kept, NEW th \in Thread,
         objects' \subseteq objects, UNCHANGED leftovers,
         objects' = objects \/ ( /\ Ending(th)
                                /\ \A o \in objects \ objects' : o.id = key_id[th] )
  PROVE  /\ \A t \in KeyTriple : stored[t] # NoId =>
               \E o \in objects' : o.id = stored[t] /\ o.owner = t
         /\ \A other \in Thread : pc[other] = "insert" =>
               \E o \in objects' : o.id = key_id[other] /\ o.owner = triple[other]
         /\ \A other \in Thread :
               pc[other] = "destroy_second" /\ key_id[other] \notin leftovers =>
                  \A o, p \in objects' :
                     o.id = key_id[other] /\ p.id = key_id[other] => o = p
  <1>1. ASSUME NEW t \in KeyTriple, stored[t] # NoId
        PROVE  \E o \in objects' : o.id = stored[t] /\ o.owner = t
    <2>1. PICK o \in objects : o.id = stored[t] /\ o.owner = t
      BY <1>1 DEF Kept, MappedObjectsLive, HasOwn
    <2>2. Ending(th) => stored[t] # key_id[th]
      BY DEF Kept, RequestsAgree, Ending
    <2>3. o \in objects'
      BY <2>1, <2>2
    <2> QED
      BY <2>1, <2>3
  <1>2. ASSUME NEW other \in Thread, pc[other] = "insert"
        PROVE  \E o \in objects' : o.id = key_id[other] /\ o.owner = triple[other]
    <2>1. PICK o \in objects : o.id = key_id[other] /\ o.owner = triple[other]
      BY <1>2 DEF Kept, RequestsAgree, HasOwn
    <2>2. Ending(th) => key_id[th] # key_id[other]
      BY <1>2 DEF TokenInv, Ids, NewIdsPrivate, Creating, HoldsId, Ending
    <2>3. o \in objects'
      BY <2>1, <2>2
    <2> QED
      BY <2>1, <2>3
  <1>3. \A o \in objects : o.class \in Class
    BY KeptTypes DEF Object
  <1> QED
    BY <1>1, <1>2, <1>3 DEF Kept, OneObjectLeft, Found

(* A request ends.                                                         *)
LEMMA KeptEnds ==
  ASSUME Pkcs11Assumption, TokenInv, Kept, NEW th \in Thread, NEW k, Answer(th, k),
         pc[th] # "idle", UNCHANGED <<key_info, stored, leftovers>>,
         objects' \subseteq objects,
         objects' = objects \/ ( /\ Ending(th)
                                /\ \A o \in objects \ objects' : o.id = key_id[th] ),
         k = "exists" => stored[triple[th]] # NoId,
         k = "absent" => stored[triple[th]] = NoId
  PROVE  Kept'
  <1>1. /\ pc' = [pc EXCEPT ![th] = "idle"]
        /\ triple' = [triple EXCEPT ![th] = NoTriple]
        /\ key_id' = [key_id EXCEPT ![th] = NoId]
        /\ known' = [known EXCEPT ![triple[th]] = k]
        /\ UNCHANGED <<status, key_info, stored, leftovers>>
        /\ triple[th] \in KeyTriple
    BY KeptTypes DEF Answer
  <1> USE KeptTypes, <1>1
  <1>2. OneRequestPerTriple' /\ DiskUpToDate' /\ KnownIsStored'
    BY DEF Kept, OneRequestPerTriple, DiskUpToDate, KnownIsStored
  <1>3. MappedObjectsLive'
    BY KeptObjects DEF MappedObjectsLive, HasOwn
  <1>4. \A other \in Thread : pc'[other] # "idle" =>
           /\ other # th /\ triple[other] # triple[th]
           /\ pc'[other] = pc[other] /\ triple'[other] = triple[other]
           /\ key_id'[other] = key_id[other] /\ known'[triple[other]] = known[triple[other]]
    BY DEF Kept, OneRequestPerTriple
  <1>5. RequestsAgree'
    BY <1>4, KeptObjects DEF Kept, RequestsAgree, HasOwn
  <1>6. OneObjectLeft'
    BY <1>4, KeptObjects DEF OneObjectLeft, Found
  <1> QED
    BY <1>2, <1>3, <1>5, <1>6 DEF Kept

(* A request goes on to a step that holds its id, if any, for nobody to    *)
(* destroy.                                                                *)
LEMMA KeptGoesOn ==
  ASSUME Pkcs11Assumption, TokenInv, Kept, NEW th \in Thread, pc[th] # "idle",
         NEW to, pc' = [pc EXCEPT ![th] = to],
         \A other \in Thread \ {th} : key_id'[other] = key_id[other],
         \/ to \in {"use", "sw_find", "sw_import", "sw_use", "sw_remove"}
         \/ to = "create" /\ pc[th] = "create_id",
         UNCHANGED <<status, key_info, stored, objects, leftovers, triple, known>>
  PROVE  Kept'
  <1> USE KeptTypes
  <1>1. OneRequestPerTriple' /\ DiskUpToDate' /\ KnownIsStored'
    BY DEF Kept, OneRequestPerTriple, DiskUpToDate, KnownIsStored
  <1>2. MappedObjectsLive'
    BY DEF Kept, MappedObjectsLive, HasOwn
  <1>3. RequestsAgree'
    BY DEF Kept, RequestsAgree, HasOwn
  <1>4. OneObjectLeft'
    BY DEF Kept, OneObjectLeft, Found
  <1> QED
    BY <1>1, <1>2, <1>3, <1>4 DEF Kept

(* A request begins: nobody else works on its triple.                      *)
LEMMA KeptRequest ==
  ASSUME Pkcs11Assumption, ~Overlap, TokenInv, Kept, NEW th \in Thread, NEW t \in KeyTriple,
         Request(th, t)
  PROVE  Kept'
  <1> USE KeptTypes
  <1>1. ASSUME NEW k \in {"exists", "absent"}, Refuse(th, t, k), k = "exists" <=> Exists(t),
               UNCHANGED <<kim, token>>
        PROVE  Kept'
    <2>1. /\ status = "up" /\ known' = [known EXCEPT ![t] = k]
          /\ \A other \in Thread : triple[other] # t
          /\ k = "exists" <=> key_info[t] # NoId
          /\ UNCHANGED <<status, key_info, stored, objects, leftovers, pc, triple, key_id>>
      BY <1>1 DEF Refuse, Arrives, Exists, kim, token
    <2>2. OneRequestPerTriple' /\ DiskUpToDate' /\ KnownIsStored'
      BY <2>1 DEF Kept, OneRequestPerTriple, DiskUpToDate, KnownIsStored
    <2>3. MappedObjectsLive' /\ OneObjectLeft'
      BY <2>1 DEF Kept, MappedObjectsLive, OneObjectLeft, HasOwn, Found
    <2>4. RequestsAgree'
      BY <2>1 DEF Kept, RequestsAgree, HasOwn
    <2> QED
      BY <2>2, <2>3, <2>4 DEF Kept
  <1>2. ASSUME NEW to \in {"create_id", "remove", "attributes", "lookup", "sw_lookup"},
               NEW id, NEW k \in {"unsure", known[t]}, Begin(th, t, to, id, k),
               to = "create_id" => ~Exists(t) /\ k = "unsure",
               to = "remove" => id = key_info[t] /\ k = "unsure",
               UNCHANGED <<kim, token>>
        PROVE  Kept'
    <2>1. /\ status = "up" /\ known' = [known EXCEPT ![t] = k]
          /\ \A other \in Thread : triple[other] # t
          /\ pc[th] = "idle" /\ pc' = [pc EXCEPT ![th] = to]
          /\ triple' = [triple EXCEPT ![th] = t]
          /\ key_id' = [key_id EXCEPT ![th] = id]
          /\ UNCHANGED <<status, key_info, stored, objects, leftovers>>
      BY <1>2 DEF Begin, Arrives, Goto, kim, token
    <2>2. OneRequestPerTriple' /\ DiskUpToDate' /\ KnownIsStored'
      BY <2>1 DEF Kept, OneRequestPerTriple, DiskUpToDate, KnownIsStored
    <2>3. MappedObjectsLive' /\ OneObjectLeft'
      BY <2>1 DEF Kept, MappedObjectsLive, OneObjectLeft, HasOwn, Found
    <2>4. RequestsAgree'
      BY <1>2, <2>1 DEF Kept, RequestsAgree, HasOwn, Exists
    <2> QED
      BY <2>2, <2>3, <2>4 DEF Kept
  <1>3. CASE CreateRefused(th, t) \/ NoSuchKey(th, t)
    BY <1>1, <1>3 DEF CreateRefused, NoSuchKey
  <1>4. CASE CreateBegin(th, t)
    BY <1>2, <1>4 DEF CreateBegin
  <1>5. CASE DestroyBegin(th, t)
    BY <1>2, <1>5 DEF DestroyBegin
  <1>6. CASE UseBegin(th, t) \/ ExportBegin(th, t) \/ SoftwareBegin(th, t)
    BY <1>2, <1>6 DEF UseBegin, ExportBegin, SoftwareBegin
  <1> QED
    BY <1>3, <1>4, <1>5, <1>6 DEF Request

(* New objects: they go to their owner, under an id that no destruction    *)
(* works on.                                                               *)
LEMMA KeptCreate ==
  ASSUME Pkcs11Assumption, TokenInv, Kept, NEW th \in Thread, CreateObjects(th)
  PROVE  Kept'
  <1> USE KeptTypes
  <1>1. PICK classes \in {Class, {"public"}} :
           objects' = objects \cup [id : {key_id[th]}, class : classes, owner : {triple[th]}]
    BY DEF CreateObjects
  <1>2. /\ pc[th] = "create" /\ pc' = [pc EXCEPT ![th] = "insert"]
        /\ UNCHANGED <<status, key_info, stored, leftovers, triple, key_id, known>>
    BY DEF CreateObjects, Goto, kim, local
  <1>3. \E o \in objects' : o.id = key_id[th] /\ o.owner = triple[th]
    <2> DEFINE o == [id |-> key_id[th], class |-> "public", owner |-> triple[th]]
    <2>1. o \in objects'
      BY <1>1 DEF Class
    <2>2. o.id = key_id[th] /\ o.owner = triple[th]
      OBVIOUS
    <2> QED
      BY <2>1, <2>2
  <1>4. \A other \in Thread \ {th} : HoldsId(other) => key_id[other] # key_id[th]
    BY <1>2 DEF TokenInv, Ids, NewIdsPrivate, Creating
  <1>5. \A o \in objects' \ objects : o.id = key_id[th]
    BY <1>1
  <1>6. objects \subseteq objects'
    BY <1>1
  <1>7. OneRequestPerTriple' /\ DiskUpToDate' /\ KnownIsStored'
    BY <1>2 DEF Kept, OneRequestPerTriple, DiskUpToDate, KnownIsStored
  <1>8. MappedObjectsLive'
    BY <1>2, <1>6 DEF Kept, MappedObjectsLive, HasOwn
  <1>9. RequestsAgree'
    BY <1>2, <1>3, <1>6 DEF Kept, RequestsAgree, HasOwn
  <1>10. OneObjectLeft'
    BY <1>2, <1>4, <1>5 DEF Kept, OneObjectLeft, Found, HoldsId
  <1> QED
    BY <1>7, <1>8, <1>9, <1>10 DEF Kept

(* The creation that found no mapping is the only one, so the new mapping  *)
(* shadows none.                                                           *)
LEMMA KeptInsert ==
  ASSUME Pkcs11Assumption, TokenInv, Kept, NEW th \in Thread, Insert(th)
  PROVE  Kept'
  <1> DEFINE t == triple[th]
             i == key_id[th]
  <1>1. /\ pc[th] = "insert" /\ t \in KeyTriple /\ i \in Id /\ HasOwn(t, i)
        /\ status # "down" /\ key_info = stored
    BY KeptTypes DEF Insert, Kept, DiskUpToDate, RequestsAgree, HoldsId
  <1>2. /\ key_info' = [key_info EXCEPT ![t] = i]
        /\ stored' = [stored EXCEPT ![t] = i]
        /\ pc' = [pc EXCEPT ![th] = "idle"]
        /\ triple' = [triple EXCEPT ![th] = NoTriple]
        /\ key_id' = [key_id EXCEPT ![th] = NoId]
        /\ known' = [known EXCEPT ![t] = "exists"]
        /\ UNCHANGED <<status, objects, leftovers>>
    BY DEF Insert, InsertKeyInfo, Answer, token
  <1>3. \A other \in Thread \ {th} : HoldsId(other) => key_id[other] # i
    BY <1>1 DEF TokenInv, Ids, NewIdsPrivate, Creating
  <1>4. \A other \in Thread \ {th} : triple[other] # t
    BY <1>1, KeptTypes DEF Kept, OneRequestPerTriple
  <1> HIDE DEF t, i
  <1> USE KeptTypes, <1>1, <1>2
  <1>5. OneRequestPerTriple' /\ DiskUpToDate' /\ KnownIsStored'
    BY DEF Kept, OneRequestPerTriple, DiskUpToDate, KnownIsStored
  <1>6. MappedObjectsLive' /\ OneObjectLeft'
    BY DEF Kept, MappedObjectsLive, OneObjectLeft, HasOwn, Found
  <1>7. RequestsAgree'
    BY <1>3, <1>4 DEF Kept, RequestsAgree, HasOwn, HoldsId
  <1> QED
    BY <1>5, <1>6, <1>7 DEF Kept

(* A failed insertion may have lost a file only where there was none.      *)
LEMMA KeptInsertError ==
  ASSUME Pkcs11Assumption, TokenInv, Kept, NEW th \in Thread, InsertError(th)
  PROVE  Kept'
  <1> USE KeptTypes
  <1>1. /\ pc[th] = "insert" /\ pc' = [pc EXCEPT ![th] = "rollback"]
        /\ triple[th] \in KeyTriple /\ status # "down" /\ key_info[triple[th]] = NoId
        /\ UNCHANGED <<status, key_info, objects, leftovers, triple, key_id, known>>
    BY DEF InsertError, InsertKeyInfoError, Goto, token, local, Kept, RequestsAgree
  <1>2. stored' = stored
    BY <1>1 DEF InsertError, InsertKeyInfoError, Kept, DiskUpToDate
  <1>3. \A t \in KeyTriple : key_info[t] # key_id[th]
    BY <1>1 DEF TokenInv, Ids, NewIdsPrivate, Creating
  <1>4. OneRequestPerTriple' /\ DiskUpToDate' /\ KnownIsStored'
    BY <1>1, <1>2 DEF Kept, OneRequestPerTriple, DiskUpToDate, KnownIsStored
  <1>5. MappedObjectsLive' /\ OneObjectLeft'
    BY <1>1, <1>2 DEF Kept, MappedObjectsLive, OneObjectLeft, HasOwn, Found
  <1>6. RequestsAgree'
    BY <1>1, <1>2, <1>3 DEF Kept, RequestsAgree, DiskUpToDate, HasOwn
  <1> QED
    BY <1>4, <1>5, <1>6 DEF Kept

(* Who removes a mapping has read it, so the objects it goes on to destroy *)
(* have no mapping any more.                                               *)
LEMMA KeptRemove ==
  ASSUME Pkcs11Assumption, TokenInv, Kept, NEW th \in Thread, Remove(th)
  PROVE  Kept'
  <1> DEFINE t == triple[th]
  <1>1. /\ pc[th] = "remove" /\ t \in KeyTriple /\ key_info[t] = key_id[th]
        /\ status # "down" /\ key_info = stored /\ known[t] = "unsure"
        /\ key_id[th] \in Id
    BY KeptTypes DEF Remove, Goto, Kept, DiskUpToDate, RequestsAgree, HoldsId
  <1>2. /\ key_info' = [key_info EXCEPT ![t] = NoId]
        /\ stored' = [stored EXCEPT ![t] = NoId]
        /\ pc' = [pc EXCEPT ![th] = "destroy"]
        /\ UNCHANGED <<status, objects, leftovers, triple, key_id, known>>
    BY DEF Remove, RemoveKeyInfo, Goto, token, local
  <1>3. \A u \in KeyTriple : stored'[u] # key_id[th]
    BY <1>1, <1>2, KeptTypes DEF TokenInv, Ids, IdsNeverShared
  <1>4. \A other \in Thread \ {th} : triple[other] # t
    BY <1>1, KeptTypes DEF Kept, OneRequestPerTriple
  <1> USE KeptTypes, <1>1, <1>2
  <1>5. \A other \in Thread \ {th} : pc[other] # "idle" =>
           triple[other] # t /\ key_info'[triple[other]] = key_info[triple[other]]
    BY <1>4
  <1> HIDE DEF t
  <1>6. OneRequestPerTriple' /\ DiskUpToDate' /\ KnownIsStored'
    BY DEF Kept, OneRequestPerTriple, DiskUpToDate, KnownIsStored
  <1>7. MappedObjectsLive' /\ OneObjectLeft'
    BY DEF Kept, MappedObjectsLive, OneObjectLeft, HasOwn, Found
  <1>8. RequestsAgree'
    <2> SUFFICES ASSUME NEW other \in Thread
                 PROVE  /\ pc'[other] \in {"create_id", "create", "insert", "rollback", "destroy",
                                           "destroy_second"} =>
                              key_info'[triple[other]] = NoId
                        /\ pc'[other] = "insert" => HasOwn(triple[other], key_id[other])
                        /\ pc'[other] \in {"rollback", "destroy", "destroy_second"} =>
                              \A u \in KeyTriple : stored'[u] # key_id[other]
                        /\ pc'[other] = "remove" => key_info'[triple[other]] = key_id[other]
                        /\ pc'[other] \in {"create_id", "create", "insert", "rollback", "remove",
                                           "destroy", "destroy_second"} =>
                              known[triple[other]] = "unsure"
      BY DEF RequestsAgree, HasOwn
    <2>1. CASE other = th
      BY <2>1, <1>3 DEF t
    <2>2. CASE other # th
      <3>1. pc[other] # "idle" => key_info'[triple[other]] = key_info[triple[other]]
        BY <2>2, <1>5
      <3>2. pc'[other] = pc[other]
        BY <2>2
      <3>3. \A u \in KeyTriple : stored'[u] # stored[u] => stored'[u] = NoId
        OBVIOUS
      <3>4. pc[other] \in {"rollback", "destroy", "destroy_second"} => key_id[other] # NoId
        BY DEF HoldsId
      <3> QED
        BY <3>1, <3>2, <3>3, <3>4 DEF Kept, RequestsAgree
    <2> QED
      BY <2>1, <2>2
  <1> QED
    BY <1>6, <1>7, <1>8 DEF Kept

(* Of the two objects of a pair, the first one goes.                       *)
LEMMA KeptDestroyFirst ==
  ASSUME Pkcs11Assumption, TokenInv, Kept, NEW th \in Thread, DestroyFirst(th)
  PROVE  Kept'
  <1> USE KeptTypes
  <1>1. /\ pc[th] = "destroy" /\ pc' = [pc EXCEPT ![th] = "destroy_second"]
        /\ UNCHANGED <<status, key_info, stored, leftovers, triple, key_id, known>>
    BY DEF DestroyFirst, Goto, kim, local
  <1>2. PICK x \in objects : x.id = key_id[th] /\ objects' = objects \ {x}
    BY DEF DestroyFirst, Found
  <1>3. Ending(th) /\ \A o \in objects \ objects' : o.id = key_id[th]
    BY <1>1, <1>2 DEF Ending
  <1>4. objects' \subseteq objects
    BY <1>2
  <1>5. OneRequestPerTriple' /\ DiskUpToDate' /\ KnownIsStored'
    BY <1>1 DEF Kept, OneRequestPerTriple, DiskUpToDate, KnownIsStored
  <1>6. MappedObjectsLive'
    BY <1>1, <1>3, <1>4, KeptObjects DEF MappedObjectsLive, HasOwn
  <1>7. RequestsAgree'
    BY <1>1, <1>3, <1>4, KeptObjects DEF Kept, RequestsAgree, HasOwn
  <1>8. ASSUME key_id[th] \notin leftovers, NEW o \in objects', NEW p \in objects',
               o.id = key_id[th], p.id = key_id[th]
        PROVE  o = p
    <2>1. HoldsId(th)
      BY <1>1 DEF HoldsId
    <2>2. o.owner = triple[th] /\ p.owner = triple[th] /\ x.owner = triple[th]
      BY <1>2, <1>4, <1>8, <2>1 DEF TokenInv, OwnersAgree
    <2>3. o \in Object /\ p \in Object /\ x \in Object
      BY <1>2, <1>4
    <2>4. o.class # x.class /\ p.class # x.class
      BY <1>2, <1>8, <2>2, <2>3 DEF Object
    <2>5. o.class = p.class
      BY <2>3, <2>4 DEF Object, Class
    <2> QED
      BY <1>8, <2>2, <2>3, <2>5 DEF Object
  <1>9. OneObjectLeft'
    <2> SUFFICES ASSUME NEW other \in Thread, pc'[other] = "destroy_second",
                        key_id[other] \notin leftovers, NEW o \in objects', NEW p \in objects',
                        o.id = key_id[other], p.id = key_id[other]
                 PROVE  o = p
      BY <1>1 DEF OneObjectLeft, Found
    <2>1. CASE other = th
      BY <1>8, <2>1
    <2>2. CASE other # th
      BY <1>1, <1>3, <1>4, <2>2, KeptObjects
    <2> QED
      BY <2>1, <2>2
  <1> QED
    BY <1>5, <1>6, <1>7, <1>9 DEF Kept

(* A step of a request, before its end or with it.                         *)
LEMMA KeptStep ==
  ASSUME Pkcs11Assumption, TokenInv, Kept, NEW th \in Thread, Step(th)
  PROVE  Kept'
  <1> USE KeptTypes
  <1>1. CASE SessionError(th) \/ CreateError(th) \/ RemoveTooLate(th) \/ DestroyError(th)
             \/ LookupTooLate(th)
    <2>1. /\ Answer(th, "absent") /\ pc[th] # "idle"
          /\ UNCHANGED <<key_info, stored, leftovers, objects>>
      BY <1>1 DEF SessionError, CreateError, RemoveTooLate, DestroyError, LookupTooLate,
                  kim, token
    <2>2. stored[triple[th]] = NoId
      BY <1>1 DEF SessionError, CreateError, RemoveTooLate, DestroyError, LookupTooLate,
                  Exists, Kept, RequestsAgree, DiskUpToDate
    <2> QED
      BY <2>1, <2>2, KeptEnds
  <1>2. CASE RemoveError(th)
    <2>1. /\ Answer(th, "exists") /\ pc[th] # "idle" /\ stored[triple[th]] # NoId
          /\ UNCHANGED <<key_info, stored, leftovers, objects>>
      BY <1>2 DEF RemoveError, kim, token, Kept, RequestsAgree, DiskUpToDate, HoldsId
    <2> QED
      BY <2>1, KeptEnds
  <1>3. CASE Use(th) \/ SoftwareError(th) \/ SoftwareRemove(th)
    <2>1. /\ Answer(th, known[triple[th]]) /\ pc[th] # "idle"
          /\ UNCHANGED <<key_info, stored, leftovers, objects>>
      BY <1>3 DEF Use, SoftwareError, SoftwareRemove, kim, token
    <2>2. /\ known[triple[th]] = "exists" => stored[triple[th]] # NoId
          /\ known[triple[th]] = "absent" => stored[triple[th]] = NoId
      BY <2>1 DEF Kept, KnownIsStored
    <2> QED
      BY <2>1, <2>2, KeptEnds
  <1>4. CASE Rollback(th) \/ DestroySecond(th)
    <2>1. /\ Answer(th, "absent") /\ pc[th] # "idle" /\ Ending(th)
          /\ UNCHANGED <<key_info, stored, leftovers>>
          /\ objects' \subseteq objects
          /\ \A o \in objects \ objects' : o.id = key_id[th]
      BY <1>4 DEF Rollback, DestroySecond, OwnObjects, Found, Ending, kim
    <2>2. stored[triple[th]] = NoId
      BY <2>1 DEF Ending, Kept, RequestsAgree, DiskUpToDate
    <2> QED
      BY <2>1, <2>2, KeptEnds
  <1>5. CASE \/ Attributes(th) \/ Lookup(th, "lookup", "use")
             \/ Lookup(th, "sw_lookup", "sw_find") \/ SoftwareExport(th)
             \/ SoftwareImport(th) \/ SoftwareUse(th)
    <2>1. /\ pc[th] # "idle"
          /\ \E to \in {"use", "sw_find", "sw_import", "sw_use", "sw_remove"} :
                pc' = [pc EXCEPT ![th] = to]
          /\ \A other \in Thread \ {th} : key_id'[other] = key_id[other]
          /\ UNCHANGED <<status, key_info, stored, objects, leftovers, triple, known>>
      BY <1>5 DEF Attributes, Lookup, SoftwareExport, SoftwareImport, SoftwareUse, Goto,
                  kim, token, local
    <2> QED
      BY <2>1, KeptGoesOn
  <1>6. CASE CreateKeyId(th)
    <2>1. /\ pc[th] = "create_id" /\ pc' = [pc EXCEPT ![th] = "create"]
          /\ \A other \in Thread \ {th} : key_id'[other] = key_id[other]
          /\ UNCHANGED <<status, key_info, stored, objects, leftovers, triple, known>>
      BY <1>6 DEF CreateKeyId, Goto, kim, token
    <2> QED
      BY <2>1, KeptGoesOn
  <1>7. ~InsertOverwrites(th)
    BY DEF InsertOverwrites, Goto, Exists, Kept, RequestsAgree
  <1> QED
    BY <1>1, <1>2, <1>3, <1>4, <1>5, <1>6, <1>7, KeptCreate, KeptInsert, KeptInsertError,
       KeptRemove, KeptDestroyFirst DEF Step

(* A start finds an object for each mapping, so it drops none.             *)
LEMMA NoDeadTriples ==
  ASSUME Pkcs11Assumption, TokenInv, Kept
  PROVE  DeadTriples = {}
  <1>1. \A t \in KeyTriple : stored[t] # NoId => HasObject(stored[t])
    BY KeptTypes DEF Kept, MappedObjectsLive, HasOwn, HasObject, Found, Object
  <1> QED
    BY <1>1 DEF DeadTriples

LEMMA KeptService ==
  ASSUME Pkcs11Assumption, TokenInv, Kept, Drain \/ Joined \/ Crash \/ Start \/ StartError
  PROVE  Kept'
  <1> USE KeptTypes
  <1>1. CASE Drain
    BY <1>1 DEF Drain, StopArrivals, kim, token, Kept, OneRequestPerTriple, MappedObjectsLive,
                DiskUpToDate, RequestsAgree, OneObjectLeft, KnownIsStored, HasOwn, Found
  <1>2. CASE Joined
    BY <1>2 DEF Joined, JoinThreads, kim, token, Kept, OneRequestPerTriple, MappedObjectsLive,
                DiskUpToDate, RequestsAgree, OneObjectLeft, KnownIsStored, HasOwn, Found
  <1>3. CASE Crash
    <2>1. /\ status' = "down" /\ \A th \in Thread : pc'[th] = "idle" /\ triple'[th] = NoTriple
          /\ UNCHANGED <<key_info, objects, leftovers>>
          /\ \A t \in KeyTriple : known'[t] # "unsure" =>
                known'[t] = known[t] /\ \A th \in Thread : triple[th] # t
      BY <1>3 DEF Crash, LoseThreads, InsertKeyInfoError, kim, token
    <2>2. \A t \in KeyTriple : stored'[t] # NoId => stored'[t] = stored[t]
      BY <1>3 DEF Crash, InsertKeyInfoError, kim
    <2>3. \A t \in KeyTriple : (\A th \in Thread : triple[th] # t) => stored'[t] = stored[t]
      BY <1>3 DEF Crash, InsertKeyInfoError, kim
    <2> QED
      BY <2>1, <2>2, <2>3
      DEF Kept, OneRequestPerTriple, MappedObjectsLive, DiskUpToDate, RequestsAgree,
          OneObjectLeft, KnownIsStored, HasOwn
  <1>4. CASE Start \/ StartError
    <2>1. stored' = stored /\ key_info' = stored
      BY <1>4, NoDeadTriples DEF Start, StartError, ReloadWithout
    <2>2. /\ status = "down" /\ UNCHANGED <<objects, pc, triple, key_id, known>>
          /\ \A th \in Thread : pc[th] = "idle"
      BY <1>4 DEF Start, StartError, token, local
    <2> QED
      BY <2>1, <2>2
      DEF Kept, OneRequestPerTriple, MappedObjectsLive, DiskUpToDate, RequestsAgree,
          OneObjectLeft, KnownIsStored, HasOwn
  <1> QED
    BY <1>1, <1>2, <1>3, <1>4

LEMMA KeptHolds ==
  ASSUME Pkcs11Assumption, ~Overlap
  PROVE  Spec => [](TokenInv /\ Kept)
  <1>1. Init => Kept
    BY DEF Init, KimInit, RequestInit, Kept, OneRequestPerTriple, MappedObjectsLive,
           DiskUpToDate, RequestsAgree, OneObjectLeft, KnownIsStored
  <1>2. ASSUME TokenInv, Kept, [Next]_vars
        PROVE  Kept'
    <2>1. CASE UNCHANGED vars
      <3>1. UNCHANGED <<status, key_info, stored, objects, leftovers, pc, triple, key_id, known>>
        BY <2>1 DEF vars
      <3> QED
        BY <1>2, <3>1
        DEF Kept, OneRequestPerTriple, MappedObjectsLive, DiskUpToDate, RequestsAgree,
            OneObjectLeft, KnownIsStored, HasOwn, Found
    <2>2. CASE \E th \in Thread : Step(th)
      BY <1>2, <2>2, KeptStep
    <2>3. CASE \E th \in Thread, t \in KeyTriple : Request(th, t)
      BY <1>2, <2>3, KeptRequest
    <2>4. CASE Drain \/ Joined \/ Crash \/ Start \/ StartError
      BY <1>2, <2>4, KeptService
    <2> QED
      BY <1>2, <2>1, <2>2, <2>3, <2>4 DEF Next
  <1> QED
    BY <1>1, <1>2, TokenInvHolds, PTL DEF Spec

(* A client that waits for its answers and was told that its key exists    *)
(* finds an object of its own, under a mapping that survives a restart.    *)
THEOREM AckedObjectsFound ==
  ASSUME Pkcs11Assumption, ~Overlap
  PROVE  Spec => []AckedObjectFound
  <1>1. ASSUME TokenInv, Kept
        PROVE  AckedObjectFound
    BY <1>1 DEF Kept, MappedObjectsLive, DiskUpToDate, KnownIsStored, AckedObjectFound,
                Reached, HasOwn
  <1> QED
    BY <1>1, KeptHolds, PTL
---------------------------------------------------------------------------
(* The request that answers for an object.                                 *)
CaresFor(th, o) ==
    /\ pc[th] \in {"insert", "rollback", "destroy", "destroy_second"}
    /\ key_id[th] = o.id /\ triple[th] = o.owner

Refused(o) ==
    \E th \in Thread : triple[th] = o.owner /\ (pc[th] = "rollback" \/ DestroyError(th))

(* A step that changes neither the mappings nor another request.           *)
LEMMA CaredByRequest ==
  ASSUME NEW th \in Thread, NEW o, Cared(o), UNCHANGED <<status, key_info, stored>>,
         \A other \in Thread \ {th} :
            /\ pc'[other] = pc[other] /\ key_id'[other] = key_id[other]
            /\ triple'[other] = triple[other],
         CaresFor(th, o) => CaresFor(th, o)'
  PROVE  Cared(o)'
  BY DEF Cared, CaresFor, Reached

(* The steps of a request after which an object may have no mapping.       *)
LEMMA CaredAfterStep ==
  ASSUME Pkcs11Assumption, TokenInv, Kept, NEW th \in Thread, Step(th),
         NEW o \in objects', o \notin objects \/ Cared(o)
  PROVE  Cared(o)' \/ o.id \in leftovers \/ Refused(o)
  <1> USE KeptTypes
  <1>1. CASE SessionError(th) \/ CreateError(th) \/ RemoveTooLate(th) \/ LookupTooLate(th)
             \/ RemoveError(th) \/ Use(th) \/ SoftwareError(th) \/ SoftwareRemove(th)
    <2>1. /\ \E k : Answer(th, k)
          /\ pc[th] \notin {"insert", "rollback", "destroy", "destroy_second"}
          /\ UNCHANGED <<key_info, stored, objects>>
      BY <1>1 DEF SessionError, CreateError, RemoveTooLate, LookupTooLate, RemoveError, Use,
                  SoftwareError, SoftwareRemove, kim, token
    <2>2. /\ pc' = [pc EXCEPT ![th] = "idle"] /\ key_id' = [key_id EXCEPT ![th] = NoId]
          /\ triple' = [triple EXCEPT ![th] = NoTriple] /\ UNCHANGED status
      BY <2>1 DEF Answer
    <2> QED
      BY <2>1, <2>2, CaredByRequest DEF CaresFor
  <1>2. CASE \/ Attributes(th) \/ Lookup(th, "lookup", "use")
             \/ Lookup(th, "sw_lookup", "sw_find") \/ SoftwareExport(th)
             \/ SoftwareImport(th) \/ SoftwareUse(th) \/ CreateKeyId(th)
    <2>1. /\ pc[th] \notin {"insert", "rollback", "destroy", "destroy_second"}
          /\ \A other \in Thread \ {th} :
                pc'[other] = pc[other] /\ key_id'[other] = key_id[other]
          /\ UNCHANGED <<status, key_info, stored, objects, triple>>
      BY <1>2 DEF Attributes, Lookup, SoftwareExport, SoftwareImport, SoftwareUse, CreateKeyId,
                  Goto, kim, token, local
    <2> QED
      BY <2>1, CaredByRequest DEF CaresFor
  <1>3. CASE CreateObjects(th)
    <2>1. /\ pc[th] = "create" /\ pc' = [pc EXCEPT ![th] = "insert"]
          /\ UNCHANGED <<status, key_info, stored, triple, key_id>>
      BY <1>3 DEF CreateObjects, Goto, kim, local
    <2>2. o \notin objects => o.id = key_id[th] /\ o.owner = triple[th]
      BY <1>3 DEF CreateObjects
    <2>3. CASE o \notin objects
      BY <2>1, <2>2, <2>3 DEF Cared
    <2>4. CASE Cared(o)
      BY <2>1, <2>4, CaredByRequest DEF CaresFor
    <2> QED
      BY <2>3, <2>4
  <1>4. CASE Insert(th)
    <2>1. /\ pc[th] = "insert" /\ triple[th] \in KeyTriple /\ status # "down"
          /\ key_info[triple[th]] = NoId
          /\ key_info' = [key_info EXCEPT ![triple[th]] = key_id[th]]
          /\ pc' = [pc EXCEPT ![th] = "idle"] /\ key_id' = [key_id EXCEPT ![th] = NoId]
          /\ triple' = [triple EXCEPT ![th] = NoTriple]
          /\ UNCHANGED <<status, objects>>
      BY <1>4 DEF Insert, Exists, InsertKeyInfo, Answer, token
    <2>2. o.id \in Id /\ o.owner \in KeyTriple
      BY <2>1 DEF Object
    <2>3. CASE Reached(o.owner) = o.id
      BY <2>1, <2>2, <2>3 DEF Cared, Reached
    <2>4. CASE CaresFor(th, o)
      BY <2>1, <2>2, <2>4 DEF Cared, CaresFor, Reached
    <2>5. CASE \E other \in Thread \ {th} : CaresFor(other, o)
      BY <2>1, <2>5 DEF Cared, CaresFor
    <2> QED
      BY <2>1, <2>3, <2>4, <2>5 DEF Cared, CaresFor
  <1>5. ~InsertOverwrites(th)
    BY DEF InsertOverwrites, Goto, Exists, Kept, RequestsAgree
  <1>6. CASE InsertError(th)
    <2>1. /\ pc[th] = "insert" /\ pc' = [pc EXCEPT ![th] = "rollback"] /\ status # "down"
          /\ UNCHANGED <<status, key_info, objects, triple, key_id>>
      BY <1>6 DEF InsertError, InsertKeyInfoError, Goto, token, local
    <2> QED
      BY <2>1 DEF Cared, Reached
  <1>7. CASE Rollback(th) \/ DestroyError(th)
    <2>1. /\ objects' \subseteq objects
          /\ Answer(th, "absent")
          /\ UNCHANGED <<key_info, stored>>
      BY <1>7 DEF Rollback, DestroyError, OwnObjects, Found, kim, token
    <2>a. /\ pc' = [pc EXCEPT ![th] = "idle"] /\ key_id' = [key_id EXCEPT ![th] = NoId]
          /\ triple' = [triple EXCEPT ![th] = NoTriple]
          /\ UNCHANGED status
      BY <2>1 DEF Answer
    <2>b. pc[th] = "rollback" \/ DestroyError(th)
      BY <1>7 DEF Rollback
    <2>2. CASE CaresFor(th, o)
      BY <2>b, <2>2 DEF CaresFor, Refused
    <2>3. CASE ~CaresFor(th, o)
      BY <2>1, <2>a, <2>3, CaredByRequest
    <2> QED
      BY <2>1, <2>2, <2>3
  <1>8. CASE Remove(th)
    <2>1. /\ pc[th] = "remove" /\ triple[th] \in KeyTriple /\ status # "down"
          /\ key_info[triple[th]] = key_id[th]
          /\ key_info' = [key_info EXCEPT ![triple[th]] = NoId]
          /\ pc' = [pc EXCEPT ![th] = "destroy"]
          /\ UNCHANGED <<status, objects, triple, key_id>>
      BY <1>8 DEF Remove, RemoveKeyInfo, Goto, Kept, RequestsAgree, token, local
    <2>2. o.owner \in KeyTriple
      BY <2>1 DEF Object
    <2>3. CASE Reached(o.owner) = o.id /\ o.owner = triple[th]
      BY <2>1, <2>3 DEF Cared, Reached
    <2>4. CASE Reached(o.owner) = o.id /\ o.owner # triple[th]
      BY <2>1, <2>2, <2>4 DEF Cared, Reached
    <2>5. CASE \E other \in Thread : CaresFor(other, o)
      BY <2>1, <2>5 DEF Cared, CaresFor
    <2> QED
      BY <2>1, <2>3, <2>4, <2>5 DEF Cared, CaresFor
  <1>9. CASE DestroyFirst(th)
    <2>1. /\ pc[th] = "destroy" /\ pc' = [pc EXCEPT ![th] = "destroy_second"]
          /\ objects' \subseteq objects
          /\ UNCHANGED <<status, key_info, stored, triple, key_id>>
      BY <1>9 DEF DestroyFirst, Goto, kim, local
    <2> QED
      BY <2>1 DEF Cared, Reached
  <1>10. CASE DestroySecond(th)
    <2>1. /\ pc[th] = "destroy_second" /\ objects' \subseteq objects
          /\ pc' = [pc EXCEPT ![th] = "idle"] /\ key_id' = [key_id EXCEPT ![th] = NoId]
          /\ triple' = [triple EXCEPT ![th] = NoTriple]
          /\ UNCHANGED <<status, key_info, stored>>
      BY <1>10 DEF DestroySecond, Answer, kim
    <2>2. CASE CaresFor(th, o) /\ o.id \notin leftovers
      <3>1. o \in Found(key_id[th], Class)
        BY <2>1, <2>2 DEF CaresFor, Found, Object
      <3>2. \A x \in Found(key_id[th], Class) : x = o
        BY <2>1, <2>2, <3>1 DEF CaresFor, Kept, OneObjectLeft
      <3>3. o \notin objects'
        BY <1>10, <3>1, <3>2 DEF DestroySecond
      <3> QED
        BY <3>3
    <2>3. CASE ~CaresFor(th, o)
      BY <2>1, <2>3, CaredByRequest
    <2> QED
      BY <2>2, <2>3
  <1> QED
    BY <1>1, <1>2, <1>3, <1>4, <1>5, <1>6, <1>7, <1>8, <1>9, <1>10 DEF Step

LEMMA CaredAfterService ==
  ASSUME Pkcs11Assumption, TokenInv, Kept, Drain \/ Joined \/ Crash \/ Start \/ StartError,
         NEW o \in objects', o \notin objects \/ Cared(o)
  PROVE  Cared(o)' \/ status' = "down"
  <1> USE KeptTypes
  <1>1. CASE Drain
    BY <1>1 DEF Drain, StopArrivals, Cared, Reached, kim, token
  <1>2. CASE Joined \/ Crash
    BY <1>2 DEF Joined, Crash, JoinThreads, LoseThreads
  <1>3. CASE Start \/ StartError
    <2>1. stored' = stored /\ key_info' = stored
      BY <1>3, NoDeadTriples DEF Start, StartError, ReloadWithout
    <2>2. /\ status = "down" /\ UNCHANGED <<objects, pc, triple, key_id>>
          /\ \A th \in Thread : pc[th] = "idle"
      BY <1>3 DEF Start, StartError, token, local
    <2> QED
      BY <2>1, <2>2 DEF Cared, Reached
  <1> QED
    BY <1>1, <1>2, <1>3

(* An object of the token that a mapping or a request answers for keeps    *)
(* one of them, unless the process dies or the token refuses: its objects  *)
(* are never forgotten by an error of the key info manager or an           *)
(* interleaving of requests.                                               *)
THEOREM ObjectsLostByToken ==
  ASSUME Pkcs11Assumption, ~Overlap
  PROVE  Spec => ObjectsLostByTokenOnly
  <1>1. ASSUME TokenInv, Kept, [Next]_vars, NEW o \in objects', o \notin objects \/ Cared(o)
        PROVE  Cared(o)' \/ status' = "down" \/ o.id \in leftovers \/ Refused(o)
    <2>1. CASE UNCHANGED vars
      BY <1>1, <2>1 DEF vars, Cared, Reached
    <2>2. ASSUME NEW th \in Thread, NEW t \in KeyTriple, Request(th, t)
          PROVE  Cared(o)'
      <3>1. /\ UNCHANGED <<status, key_info, stored, objects>>
            /\ pc[th] = "idle"
            /\ \A other \in Thread \ {th} :
                  /\ pc'[other] = pc[other] /\ key_id'[other] = key_id[other]
                  /\ triple'[other] = triple[other]
        BY <1>1, <2>2, KeptTypes
        DEF Request, CreateRefused, CreateBegin, NoSuchKey, DestroyBegin, UseBegin,
            ExportBegin, SoftwareBegin, Refuse, Begin, Arrives, Goto, kim, token
      <3> QED
        BY <1>1, <3>1, CaredByRequest DEF CaresFor
    <2>3. CASE \E th \in Thread : Step(th)
      BY <1>1, <2>3, CaredAfterStep
    <2>4. CASE Drain \/ Joined \/ Crash \/ Start \/ StartError
      BY <1>1, <2>4, CaredAfterService
    <2> QED
      BY <1>1, <2>1, <2>2, <2>3, <2>4 DEF Next
  <1>2. TokenInv /\ Kept /\ [Next]_vars => [ObjectsKeptOrRefused]_vars
    BY <1>1 DEF ObjectsKeptOrRefused, Refused
  <1> QED
    BY <1>2, KeptHolds, PTL DEF Spec, ObjectsLostByTokenOnly
---------------------------------------------------------------------------
(* For clients that wait, the map a client sees is the map on disk.        *)
LEMMA KeyMap ==
  ASSUME Pkcs11Assumption, TokenInv, Kept, TokenInv', Kept'
  PROVE  KeyOf = stored /\ KeyOf' = stored'
  <1>1. KeyOf = stored
    BY KeptTypes DEF KeyOf, Reached, Kept, MappedObjectsLive, DiskUpToDate
  <1>2. stored' \in [KeyTriple -> Id \cup {NoId}]
    BY DEF TokenInv, Ids, TypeOK, KimTypeOK
  <1>3. KeyOf' = stored'
    BY <1>2 DEF KeyOf, Reached, Kept, MappedObjectsLive, DiskUpToDate
  <1> QED
    BY <1>1, <1>3

LEMMA KindFacts ==
  ASSUME Pkcs11Assumption, TokenInv, NEW th \in Thread
  PROVE  /\ KindOf[th] = "idle" <=> pc[th] = "idle"
         /\ pc[th] \in CreateSteps => KindOf[th] = "create"
         /\ pc[th] = "remove" => KindOf[th] = "destroy"
         /\ pc[th] \in UseSteps => KindOf[th] = "use"
         /\ Ending(th) => KindOf[th] = "end"
  BY KeptTypes DEF KindOf, RequestKinds, CreateSteps, UseSteps, Ending

(* A step of th changes the kind of its own request only.                  *)
LEMMA KindStep ==
  ASSUME Pkcs11Assumption, TokenInv, NEW th \in Thread, NEW to, pc' = [pc EXCEPT ![th] = to]
  PROVE  /\ to = "idle" => KindOf' = [KindOf EXCEPT ![th] = "idle"]
         /\ to \in CreateSteps => KindOf' = [KindOf EXCEPT ![th] = "create"]
         /\ to = "remove" => KindOf' = [KindOf EXCEPT ![th] = "destroy"]
         /\ to \in UseSteps => KindOf' = [KindOf EXCEPT ![th] = "use"]
         /\ to \in {"rollback", "destroy", "destroy_second"} =>
               KindOf' = [KindOf EXCEPT ![th] = "end"]
  BY KeptTypes DEF KindOf, RequestKinds, CreateSteps, UseSteps

(* A step within one kind is none of the store.                            *)
LEMMA KindStays ==
  ASSUME Pkcs11Assumption, TokenInv, NEW th \in Thread, NEW to, pc' = [pc EXCEPT ![th] = to],
         \/ pc[th] \in CreateSteps /\ to \in CreateSteps
         \/ pc[th] \in UseSteps /\ to \in UseSteps
         \/ Ending(th) /\ to \in {"destroy_second"}
  PROVE  KindOf' = KindOf
  BY KeptTypes DEF KindOf, RequestKinds, CreateSteps, UseSteps, Ending

(* The end of a request with an answer that is true of the map.            *)
LEMMA AnswerImplements ==
  ASSUME Pkcs11Assumption, TokenInv, TokenInv', Kept, Kept', NEW th \in Thread,
         pc[th] # "idle", NEW k \in {"exists", "absent", "unsure"}, Answer(th, k),
         stored' = stored,
         \/ k = "exists" /\ stored[triple[th]] # NoId
         \/ k = "absent" /\ stored[triple[th]] = NoId
         \/ pc[th] \in UseSteps /\ k = known[triple[th]]
  PROVE  Keys!KeyStoreNext
  <1>1. KeyOf = stored /\ KeyOf' = stored
    BY KeyMap
  <1>2. KindOf' = [KindOf EXCEPT ![th] = "idle"] /\ KindOf[th] # "idle"
    BY KindStep, KindFacts DEF Answer
  <1>3. pc[th] \in UseSteps => KindOf[th] = "use"
    BY KindFacts
  <1>4. Keys!Answer(th, k)
    BY <1>1, <1>2, <1>3 DEF Keys!Answer, Keys!End, Keys!Tell, Keys!True, Answer
  <1> QED
    BY <1>4 DEF Keys!KeyStoreNext

(* A request arrives, and is refused or begins.                            *)
LEMMA RequestImplements ==
  ASSUME Pkcs11Assumption, ~Overlap, TokenInv, TokenInv', Kept, Kept',
         NEW th \in Thread, NEW t \in KeyTriple, Request(th, t)
  PROVE  Keys!KeyStoreNext
  <1>1. KeyOf = stored /\ KeyOf' = stored'
    BY KeyMap
  <1>2. status = "up" /\ UNCHANGED <<status, key_info, stored>> /\ Keys!Arrives(th, t)
    BY KindFacts
    DEF Request, CreateRefused, CreateBegin, NoSuchKey, DestroyBegin, UseBegin, ExportBegin,
        SoftwareBegin, Refuse, Begin, Arrives, kim, Keys!Arrives
  <1>3. stored = key_info
    BY <1>2 DEF Kept, DiskUpToDate
  <1> USE <1>1, <1>2, <1>3
  <1>4. CASE CreateRefused(th, t)
    <2>1. Keys!Refuse(th, t, "exists")
      BY <1>4 DEF CreateRefused, Refuse, Exists, KindOf, RequestKinds, Keys!Refuse,
                  Keys!Tell, Keys!True, Keys!requests
    <2> QED
      BY <2>1 DEF Keys!KeyStoreNext
  <1>5. CASE NoSuchKey(th, t)
    <2>1. Keys!Refuse(th, t, "absent")
      BY <1>5 DEF NoSuchKey, Refuse, Exists, KindOf, RequestKinds, Keys!Refuse,
                  Keys!Tell, Keys!True, Keys!requests
    <2> QED
      BY <2>1 DEF Keys!KeyStoreNext
  <1>6. CASE CreateBegin(th, t)
    <2>1. KindOf' = [KindOf EXCEPT ![th] = "create"]
      BY <1>6, KindStep DEF CreateBegin, Begin, Goto, CreateSteps
    <2>2. Keys!Begin(th, t, "create")
      BY <1>6, <2>1 DEF CreateBegin, Begin, Keys!Begin, Keys!Tell
    <2> QED
      BY <2>2 DEF Keys!KeyStoreNext
  <1>7. CASE DestroyBegin(th, t)
    <2>1. KindOf' = [KindOf EXCEPT ![th] = "destroy"]
      BY <1>7, KindStep DEF DestroyBegin, Begin, Goto
    <2>2. Keys!Begin(th, t, "destroy")
      BY <1>7, <2>1 DEF DestroyBegin, Begin, Keys!Begin, Keys!Tell
    <2> QED
      BY <2>2 DEF Keys!KeyStoreNext
  <1>8. CASE UseBegin(th, t) \/ ExportBegin(th, t) \/ SoftwareBegin(th, t)
    <2>1. KindOf' = [KindOf EXCEPT ![th] = "use"]
      BY <1>8, KindStep DEF UseBegin, ExportBegin, SoftwareBegin, Begin, Goto, UseSteps
    <2>2. Keys!Begin(th, t, "use")
      BY <1>8, <2>1, KeptTypes DEF UseBegin, ExportBegin, SoftwareBegin, Begin, Keys!Begin
    <2> QED
      BY <2>2 DEF Keys!KeyStoreNext
  <1> QED
    BY <1>4, <1>5, <1>6, <1>7, <1>8 DEF Request

(* The steps between the begin of a request and its effect, or between its *)
(* effect and its answer, are stutters of the store.                       *)
LEMMA StepImplements ==
  ASSUME Pkcs11Assumption, TokenInv, TokenInv', Kept, Kept', NEW th \in Thread, Step(th)
  PROVE  Keys!KeyStoreNext \/ UNCHANGED Keys!storeVars
  <1>1. KeyOf = stored /\ KeyOf' = stored'
    BY KeyMap
  <1>2. pc[th] # "idle" /\ triple[th] \in KeyTriple /\ stored = key_info
    BY KeptTypes
    DEF Kept, DiskUpToDate, Step, SessionError, CreateKeyId, CreateObjects, CreateError,
        Insert, InsertOverwrites, InsertError, Rollback, Remove, RemoveTooLate, RemoveError,
        DestroyFirst, DestroySecond, DestroyError, Attributes, Lookup, LookupTooLate, Use,
        SoftwareExport, SoftwareError, SoftwareImport, SoftwareUse, SoftwareRemove, Goto
  <1>3. CASE \/ SessionError(th) \/ CreateError(th) \/ Rollback(th)
             \/ DestroySecond(th) \/ DestroyError(th)
    <2>1. Answer(th, "absent") /\ stored' = stored /\ stored[triple[th]] = NoId
      BY <1>2, <1>3 DEF SessionError, CreateError, Rollback, DestroySecond, DestroyError,
                        kim, Kept, RequestsAgree
    <2> QED
      BY <1>2, <2>1, AnswerImplements
  <1>4. CASE RemoveTooLate(th) \/ LookupTooLate(th)
    <2>1. Answer(th, "absent") /\ stored' = stored /\ stored[triple[th]] = NoId
      BY <1>2, <1>4 DEF RemoveTooLate, LookupTooLate, Exists, kim
    <2> QED
      BY <1>2, <2>1, AnswerImplements
  <1>5. CASE RemoveError(th)
    <2>1. Answer(th, "exists") /\ stored' = stored /\ stored[triple[th]] # NoId
      BY <1>2, <1>5, KeptTypes DEF RemoveError, kim, Kept, RequestsAgree, HoldsId
    <2> QED
      BY <1>2, <2>1, AnswerImplements
  <1>6. CASE Use(th) \/ SoftwareError(th) \/ SoftwareRemove(th)
    <2>1. Answer(th, known[triple[th]]) /\ stored' = stored /\ pc[th] \in UseSteps
      BY <1>6 DEF Use, SoftwareError, SoftwareRemove, kim, UseSteps
    <2>2. known[triple[th]] \in {"exists", "absent", "unsure"}
      BY <1>2, KeptTypes
    <2> QED
      BY <1>2, <2>1, <2>2, AnswerImplements
  <1>7. CASE CreateKeyId(th) \/ CreateObjects(th)
    <2>1. KindOf' = KindOf
      BY <1>7, KindStays DEF CreateKeyId, CreateObjects, Goto, CreateSteps
    <2> QED
      BY <1>1, <1>7, <2>1 DEF CreateKeyId, CreateObjects, kim, local, Keys!storeVars
  <1>8. CASE \/ Attributes(th) \/ Lookup(th, "lookup", "use")
             \/ Lookup(th, "sw_lookup", "sw_find") \/ SoftwareExport(th)
             \/ SoftwareImport(th) \/ SoftwareUse(th)
    <2>1. KindOf' = KindOf
      BY <1>8, KindStays DEF Attributes, Lookup, SoftwareExport, SoftwareImport, SoftwareUse,
                             Goto, UseSteps
    <2> QED
      BY <1>1, <1>8, <2>1 DEF Attributes, Lookup, SoftwareExport, SoftwareImport, SoftwareUse,
                              kim, local, Keys!storeVars
  <1>9. CASE DestroyFirst(th)
    <2>1. KindOf' = KindOf
      BY <1>9, KindStays DEF DestroyFirst, Goto, Ending
    <2> QED
      BY <1>1, <1>9, <2>1 DEF DestroyFirst, kim, local, Keys!storeVars
  <1>10. CASE Insert(th)
    <2> DEFINE i == key_id[th]
    <2>1. /\ pc[th] = "insert" /\ i \in Id /\ Answer(th, "exists")
          /\ stored' = [stored EXCEPT ![triple[th]] = i] /\ stored[triple[th]] = NoId
      BY <1>2, <1>10, KeptTypes DEF Insert, InsertKeyInfo, Exists, HoldsId
    <2>2. \A t \in KeyTriple : stored[t] # i
      BY <1>2, <2>1 DEF TokenInv, Ids, NewIdsPrivate, Creating
    <2>3. KindOf[th] = "create" /\ KindOf' = [KindOf EXCEPT ![th] = "idle"]
      BY <2>1, KindFacts, KindStep DEF Answer, CreateSteps
    <2>4. Keys!Create(th, i)
      BY <1>1, <2>1, <2>2, <2>3 DEF Keys!Create, Keys!End, Keys!Tell, Answer
    <2> QED
      BY <2>1, <2>4 DEF Keys!KeyStoreNext
  <1>11. ~InsertOverwrites(th)
    BY DEF InsertOverwrites, Goto, Exists, Kept, RequestsAgree
  <1>12. CASE InsertError(th)
    <2>1. /\ pc[th] = "insert" /\ pc' = [pc EXCEPT ![th] = "rollback"]
          /\ stored' \in {stored, [stored EXCEPT ![triple[th]] = NoId]}
          /\ stored[triple[th]] = NoId /\ UNCHANGED <<status, triple, known>>
      BY <1>2, <1>12 DEF InsertError, InsertKeyInfoError, Goto, local, Kept, RequestsAgree
    <2>2. stored' = stored
      BY <1>2, <2>1, KeptTypes
    <2>3. KindOf[th] = "create" /\ KindOf' = [KindOf EXCEPT ![th] = "end"]
      BY <2>1, KindFacts, KindStep DEF CreateSteps
    <2>4. Keys!GiveUp(th)
      BY <1>1, <2>1, <2>2, <2>3 DEF Keys!GiveUp
    <2> QED
      BY <2>4 DEF Keys!KeyStoreNext
  <1>13. CASE Remove(th)
    <2>1. /\ pc[th] = "remove" /\ pc' = [pc EXCEPT ![th] = "destroy"]
          /\ stored' = [stored EXCEPT ![triple[th]] = NoId]
          /\ UNCHANGED <<status, triple, known>>
      BY <1>13 DEF Remove, RemoveKeyInfo, Goto, local
    <2>2. KindOf[th] = "destroy" /\ KindOf' = [KindOf EXCEPT ![th] = "end"]
      BY <2>1, KindFacts, KindStep
    <2>3. Keys!Destroy(th)
      BY <1>1, <2>1, <2>2 DEF Keys!Destroy
    <2> QED
      BY <2>3 DEF Keys!KeyStoreNext
  <1> QED
    BY <1>3, <1>4, <1>5, <1>6, <1>7, <1>8, <1>9, <1>10, <1>11, <1>12, <1>13 DEF Step

(* The service stops, dies and starts around an unchanged map.             *)
LEMMA ServiceImplements ==
  ASSUME Pkcs11Assumption, TokenInv, TokenInv', Kept, Kept',
         Drain \/ Joined \/ Crash \/ Start \/ StartError
  PROVE  Keys!KeyStoreNext
  <1>1. KeyOf = stored /\ KeyOf' = stored'
    BY KeyMap
  <1>2. CASE Drain
    <2>1. Keys!Drain
      BY <1>1, <1>2 DEF Drain, StopArrivals, kim, KindOf, RequestKinds, Keys!Drain,
                        Keys!requests
    <2> QED
      BY <2>1 DEF Keys!KeyStoreNext
  <1>3. CASE Joined
    <2>1. Keys!Join
      BY <1>1, <1>3 DEF Joined, JoinThreads, kim, KindOf, RequestKinds, Keys!Join,
                        Keys!requests
    <2> QED
      BY <2>1 DEF Keys!KeyStoreNext
  <1>4. CASE Crash
    <2>1. stored' = stored
      <3>1. ASSUME NEW th \in Thread, pc[th] = "insert", InsertKeyInfoError(triple[th])
            PROVE  stored' = stored
        BY <3>1, KeptTypes DEF InsertKeyInfoError, Kept, RequestsAgree, DiskUpToDate
      <3> QED
        BY <1>4, <3>1 DEF Crash, kim
    <2>2. KindOf' = [th \in Thread |-> "idle"]
      BY <1>4 DEF Crash, LoseThreads, KindOf, RequestKinds
    <2>3. Keys!Crash
      BY <1>1, <1>4, <2>1, <2>2 DEF Crash, LoseThreads, Keys!Crash
    <2> QED
      BY <2>3 DEF Keys!KeyStoreNext
  <1>5. CASE Start \/ StartError
    <2>1. stored' = stored
      BY <1>5, NoDeadTriples, KeptTypes DEF Start, StartError, ReloadWithout
    <2>2. KindOf' = KindOf /\ UNCHANGED <<triple, known>> /\ status = "down"
          /\ status' \in {"up", "down"}
      BY <1>5 DEF Start, StartError, local, KindOf, RequestKinds
    <2>3. \E lost \in SUBSET KeyTriple :
             /\ TRUE => lost = {}
             /\ stored' = [t \in KeyTriple |-> IF t \in lost THEN NoId ELSE stored[t]]
      <3> WITNESS {} \in SUBSET KeyTriple
      <3> QED
        BY <2>1, KeptTypes
    <2>4. Keys!Start
      BY <1>1, <2>2, <2>3 DEF Keys!Start, Keys!requests
    <2> QED
      BY <2>4 DEF Keys!KeyStoreNext
  <1> QED
    BY <1>2, <1>3, <1>4, <1>5

(* To clients that wait for their answers the provider is one durable map  *)
(* from triples to keys, whatever fails, whichever ids are drawn and       *)
(* wherever the process dies.                                              *)
THEOREM ImplementsKeyStore ==
  ASSUME Pkcs11Assumption, ~Overlap
  PROVE  Spec => KeyStoreSpec
  <1>1. Init => Keys!KeyStoreInit
    BY DEF Init, KimInit, RequestInit, Keys!KeyStoreInit, KindOf, RequestKinds, KeyOf, Reached
  <1>2. ASSUME TokenInv, Kept, TokenInv', Kept', [Next]_vars
        PROVE  [Keys!KeyStoreNext]_Keys!storeVars
    <2>1. CASE UNCHANGED vars
      BY <2>1 DEF vars, KindOf, RequestKinds, KeyOf, Reached, HasOwn, Keys!storeVars
    <2>2. CASE Next
      BY <1>2, <2>2, RequestImplements, StepImplements, ServiceImplements DEF Next
    <2> QED
      BY <1>2, <2>1, <2>2
  <1> QED
    BY <1>1, <1>2, KeptHolds, PTL DEF Spec, KeyStoreSpec, Keys!KeyStoreSpec

(* What an answer said of a key stays true until the next request about    *)
(* it; in particular a destroyed key does not come back.                   *)
THEOREM AnswersStayTrue ==
  ASSUME Pkcs11Assumption, ~Overlap
  PROVE  Spec => []AnswersHold
  <1>1. ASSUME TokenInv, Kept
        PROVE  AnswersHold
    <2>1. KeyOf = stored
      BY <1>1, KeptTypes DEF KeyOf, Reached, Kept, MappedObjectsLive, DiskUpToDate
    <2> QED
      BY <1>1, <2>1 DEF Kept, KnownIsStored, AnswersHold, Keys!AnswersHold
  <1> QED
    BY <1>1, KeptHolds, PTL
============================================================================
