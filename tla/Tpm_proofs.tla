------------------------------ MODULE Tpm_proofs ------------------------------
(***************************************************************************)
(* Theorems about the TPM provider, for every number of threads, triples   *)
(* and contexts, with overlapping requests and whatever fails.             *)
(***************************************************************************)
EXTENDS Tpm, TLAPS

LEMMA Sentinels ==
  ASSUME TpmAssumption
  PROVE  NoTriple \notin KeyTriple /\ NoThread \notin Thread /\ NoId \notin Context
  BY DEF TpmAssumption

LEMMA InitTypeOK ==
  ASSUME TpmAssumption, Init
  PROVE  TypeOK
  BY Sentinels DEF Init, TypeOK, KimInit, KimTypeOK, RequestTypeOK, RequestInit, Loaded

(* Whatever mappings a start drops, the map it builds is well typed.       *)
LEMMA ReloadType ==
  ASSUME KimTypeOK(Context), NEW bad, ReloadWithout(bad)
  PROVE  KimTypeOK(Context)'
  BY DEF KimTypeOK, ReloadWithout

(* The context of a new key is one that nothing refers to.                 *)
LEMMA NewContext ==
  ASSUME NEW th, CreateKey(th)
  PROVE  \E c \in Context : key_id' = [key_id EXCEPT ![th] = c]
  <1>1. PICK c \in Context : ~InUse(c)
    BY DEF CreateKey
  <1>2. (CHOOSE c0 \in Context : ~InUse(c0)) \in Context
    BY <1>1
  <1> QED
    BY <1>2 DEF CreateKey

(* One step per kind of action: each keeps every variable in its range and *)
(* a request that goes on keeps its triple and its context.                *)
LEMMA NextTypeOK ==
  ASSUME TpmAssumption, TypeOK, [Next]_vars
  PROVE  TypeOK'
  <1> USE Sentinels DEF TypeOK, KimTypeOK, kim, local, esapi_context, RequestTypeOK,
                        Guarded, Loaded
  <1>1. ASSUME NEW th \in Thread, NEW t \in KeyTriple, Request(th, t)
        PROVE  TypeOK'
    <2>1. CASE CreateRefused(th, t) \/ NoSuchKey(th, t) \/ DestroyError(th, t)
      BY <2>1 DEF CreateRefused, NoSuchKey, DestroyError, Arrives, Refuse
    <2>2. CASE CreateBegin(th, t) \/ UseBegin(th, t)
      BY <2>2 DEF CreateBegin, UseBegin, Arrives, Goto, Begin
    <2>3. CASE DestroyKey(th, t)
      BY <2>3 DEF DestroyKey, Arrives, RemoveKeyInfo
    <2> QED
      BY <1>1, <2>1, <2>2, <2>3 DEF Request
  <1>2. ASSUME NEW th \in Thread,
               \/ Lock(th, "create_lock", "create")
               \/ Lock(th, "use_lock", "lookup")
        PROVE  TypeOK'
    BY <1>2 DEF Lock, Goto
  <1>3. ASSUME NEW th \in Thread,
               LockPanics(th) \/ Panic(th) \/ CreateError(th) \/ LookupFails(th)
        PROVE  TypeOK'
    <2>1. CASE LockPanics(th)
      BY <2>1 DEF LockPanics, Answer
    <2>2. CASE Panic(th)
      BY <2>2 DEF Panic, Return, Answer
    <2>3. CASE CreateError(th)
      BY <2>3 DEF CreateError, Return, Answer
    <2>4. CASE LookupFails(th)
      BY <2>4 DEF LookupFails, Return, Answer
    <2> QED
      BY <1>3, <2>1, <2>2, <2>3, <2>4
  <1>4. ASSUME NEW th \in Thread, Use(th)
        PROVE  TypeOK'
    BY <1>4 DEF Use, Return, Answer
  <1>5. ASSUME NEW th \in Thread, CreateKey(th)
        PROVE  TypeOK'
    <2>1. PICK c \in Context : key_id' = [key_id EXCEPT ![th] = c]
      BY <1>5, NewContext
    <2>2. /\ pc[th] = "create"
          /\ pc' = [pc EXCEPT ![th] = "insert"]
          /\ UNCHANGED <<status, key_info, stored, mutex, poisoned, triple, known, sole>>
      BY <1>5 DEF CreateKey, Goto
    <2> QED
      BY <1>5, <2>1, <2>2
  <1>6. ASSUME NEW th \in Thread, Insert(th)
        PROVE  TypeOK'
    BY <1>6 DEF Insert, InsertKeyInfo, Return, Answer
  <1>7. ASSUME NEW th \in Thread, InsertOverwrites(th)
        PROVE  TypeOK'
    BY <1>7 DEF InsertOverwrites, InsertKeyInfo, Return, Answer
  <1>8. ASSUME NEW th \in Thread, InsertError(th)
        PROVE  TypeOK'
    BY <1>8 DEF InsertError, InsertKeyInfoError, Return, Answer
  <1>9. ASSUME NEW th \in Thread, Lookup(th) \/ Attributes(th)
        PROVE  TypeOK'
    BY <1>9 DEF Lookup, Attributes, Goto, Exists
  <1>10. ASSUME Drain \/ Joined \/ Crash
         PROVE  TypeOK'
    BY <1>10 DEF Drain, Joined, Crash, InsertKeyInfoError, StopArrivals,
                 JoinThreads, LoseThreads
  <1>11. ASSUME Start
         PROVE  TypeOK'
    <2>1. KimTypeOK(Context)'
      BY <1>11, ReloadType DEF Start
    <2> QED
      BY <1>11, <2>1 DEF Start
  <1>12. ASSUME UNCHANGED vars
         PROVE  TypeOK'
    BY <1>12 DEF vars
  <1> QED
    <2> HIDE DEF TypeOK
    <2> QED
      BY <1>1, <1>2, <1>3, <1>4, <1>5, <1>6, <1>7, <1>8, <1>9, <1>10, <1>11, <1>12
      DEF Next, Step

(* Types.  The steps that carry a context in a local variable have one.    *)
THEOREM TypeCorrect ==
  ASSUME TpmAssumption
  PROVE  Spec => []TypeOK
  <1>1. Init => TypeOK
    BY InitTypeOK
  <1>2. TypeOK /\ [Next]_vars => TypeOK'
    BY NextTypeOK
  <1> QED
    BY <1>1, <1>2, PTL DEF Spec

(* The request that holds the guard, or none, ends.                        *)
LEMMA GuardReturned ==
  ASSUME TypeOK, GuardHeld, BrokenContextUnused, TpmAssumption,
         NEW th \in Thread, NEW k, Return(th, k), poisoned' \in BOOLEAN,
         poisoned' => poisoned \/ mutex = th
  PROVE  GuardHeld' /\ BrokenContextUnused'
  <1> USE Sentinels DEF TypeOK, RequestTypeOK
  <1>1. /\ pc' = [pc EXCEPT ![th] = "idle"]
        /\ status' = status
        /\ mutex' = IF mutex = th THEN NoThread ELSE mutex
    BY DEF Return, Answer
  <1>2. GuardHeld'
    BY <1>1 DEF GuardHeld, Guarded
  <1>3. BrokenContextUnused'
    BY <1>1 DEF GuardHeld, BrokenContextUnused, Guarded
  <1> QED
    BY <1>2, <1>3

(* The guard is in the hands of the thread at a guarded step, and nobody   *)
(* gets there when the mutex is poisoned.                                  *)
LEMMA NextGuard ==
  ASSUME TpmAssumption, TypeOK, GuardHeld, BrokenContextUnused, [Next]_vars
  PROVE  GuardHeld' /\ BrokenContextUnused'
  <1>1. ASSUME NEW th \in Thread, NEW t \in KeyTriple, Request(th, t)
        PROVE  GuardHeld' /\ BrokenContextUnused'
    <2>1. CASE CreateRefused(th, t) \/ NoSuchKey(th, t) \/ DestroyError(th, t)
      <3>1. UNCHANGED <<status, pc, mutex, poisoned>>
        BY <2>1 DEF CreateRefused, NoSuchKey, DestroyError, Refuse, esapi_context
      <3> QED
        BY <3>1 DEF GuardHeld, BrokenContextUnused
    <2>2. CASE CreateBegin(th, t) \/ UseBegin(th, t)
      <3>1. /\ UNCHANGED <<status, mutex, poisoned>>
            /\ status = "up" /\ pc[th] = "idle"
            /\ \/ pc' = [pc EXCEPT ![th] = "create_lock"]
               \/ pc' = [pc EXCEPT ![th] = "use_lock"]
        BY <2>2 DEF CreateBegin, UseBegin, Begin, Arrives, Goto, esapi_context
      <3> QED
        BY <3>1 DEF GuardHeld, BrokenContextUnused, Guarded, TypeOK, RequestTypeOK
    <2>3. CASE DestroyKey(th, t)
      <3>1. UNCHANGED <<status, pc, mutex, poisoned>>
        BY <2>3 DEF DestroyKey, esapi_context
      <3> QED
        BY <3>1 DEF GuardHeld, BrokenContextUnused
    <2> QED
      BY <1>1, <2>1, <2>2, <2>3 DEF Request
  <1>2. ASSUME NEW th \in Thread,
               \/ Lock(th, "create_lock", "create")
               \/ Lock(th, "use_lock", "lookup")
        PROVE  GuardHeld' /\ BrokenContextUnused'
    <2>1. /\ pc[th] # "idle"
          /\ \/ pc' = [pc EXCEPT ![th] = "create"]
             \/ pc' = [pc EXCEPT ![th] = "lookup"]
          /\ mutex = NoThread /\ mutex' = th /\ ~poisoned
          /\ UNCHANGED <<status, poisoned>>
      BY <1>2 DEF Lock, Goto
    <2> QED
      BY <2>1, Sentinels DEF GuardHeld, BrokenContextUnused, Guarded, TypeOK, RequestTypeOK
  <1>3. ASSUME NEW th \in Thread, LockPanics(th)
        PROVE  GuardHeld' /\ BrokenContextUnused'
    <2>1. /\ pc[th] \notin Guarded
          /\ pc' = [pc EXCEPT ![th] = "idle"]
          /\ UNCHANGED <<status, mutex, poisoned>>
      BY <1>3 DEF LockPanics, Answer, esapi_context, Guarded
    <2> QED
      BY <2>1 DEF GuardHeld, BrokenContextUnused, Guarded, TypeOK, RequestTypeOK
  <1>4. ASSUME NEW th \in Thread, Panic(th)
        PROVE  GuardHeld' /\ BrokenContextUnused'
    <2>1. mutex = th /\ Return(th, "unsure") /\ poisoned'
      BY <1>4 DEF Panic, GuardHeld
    <2> QED
      BY <2>1, GuardReturned
  <1>5. ASSUME NEW th \in Thread, NEW k, Return(th, k), UNCHANGED poisoned
        PROVE  GuardHeld' /\ BrokenContextUnused'
    BY <1>5, GuardReturned DEF TypeOK
  <1>6. ASSUME NEW th \in Thread, CreateKey(th) \/ Lookup(th) \/ Attributes(th)
        PROVE  GuardHeld' /\ BrokenContextUnused'
    <2>1. /\ pc[th] \in Guarded
          /\ \E to \in Guarded : pc' = [pc EXCEPT ![th] = to]
          /\ UNCHANGED <<status, mutex, poisoned>>
      BY <1>6 DEF CreateKey, Lookup, Attributes, Goto, Guarded, esapi_context
    <2> QED
      BY <2>1 DEF GuardHeld, BrokenContextUnused, Guarded, TypeOK, RequestTypeOK
  <1>7. ASSUME Drain \/ Joined
        PROVE  GuardHeld' /\ BrokenContextUnused'
    <2>1. CASE Drain
      BY <2>1 DEF Drain, StopArrivals, esapi_context, GuardHeld, BrokenContextUnused
    <2>2. CASE Joined
      BY <2>2 DEF Joined, JoinThreads, esapi_context, GuardHeld, BrokenContextUnused
    <2> QED
      BY <1>7, <2>1, <2>2
  <1>8. ASSUME Crash
        PROVE  GuardHeld' /\ BrokenContextUnused'
    BY <1>8, Sentinels DEF Crash, LoseThreads, GuardHeld, BrokenContextUnused, Guarded
  <1>9. ASSUME Start
        PROVE  GuardHeld' /\ BrokenContextUnused'
    BY <1>9 DEF Start, GuardHeld, BrokenContextUnused
  <1>10. ASSUME UNCHANGED vars
         PROVE  GuardHeld' /\ BrokenContextUnused'
    BY <1>10 DEF vars, GuardHeld, BrokenContextUnused
  <1>11. ASSUME NEW th \in Thread,
                \/ CreateError(th) \/ LookupFails(th) \/ Use(th)
                \/ Insert(th) \/ InsertOverwrites(th) \/ InsertError(th)
         PROVE  GuardHeld' /\ BrokenContextUnused'
    <2>1. \E k : Return(th, k)
      BY <1>11 DEF CreateError, LookupFails, Use, Insert, InsertOverwrites, InsertError
    <2>2. UNCHANGED poisoned
      BY <1>11 DEF CreateError, LookupFails, Use, Insert, InsertOverwrites, InsertError
    <2> QED
      BY <2>1, <2>2, <1>5
  <1> QED
    BY <1>1, <1>2, <1>3, <1>4, <1>6, <1>7, <1>8, <1>9, <1>10, <1>11 DEF Next, Step

(* Sole keys and rivals.                                                   *)
KeyInv == NoRival /\ SoleKeyKept

(* The request of th ends and the keys are left alone, but for the file of *)
(* a triple that has no sole key.                                          *)
LEMMA KeysReturned ==
  ASSUME TypeOK, KeyInv, TpmAssumption,
         NEW th \in Thread, NEW k, Answer(th, k), UNCHANGED <<key_info, sole>>,
         \/ UNCHANGED stored
         \/ /\ sole[triple[th]] = NoId
            /\ stored' \in {stored, [stored EXCEPT ![triple[th]] = NoId]}
  PROVE  KeyInv'
  BY DEF KeyInv, NoRival, SoleKeyKept, Answer, TypeOK, RequestTypeOK, KimTypeOK, Creating

(* A thread goes from one step of its request to another one.              *)
LEMMA KeysUntouched ==
  ASSUME TypeOK, KeyInv, NEW th \in Thread, NEW to,
         pc' = [pc EXCEPT ![th] = to],
         to \in Creating => pc[th] \in Creating,
         UNCHANGED <<status, triple, kim, sole>>
  PROVE  KeyInv'
  BY DEF KeyInv, NoRival, SoleKeyKept, TypeOK, RequestTypeOK, kim

(* A request arrives: it creates only what does not exist yet, and that    *)
(* has no sole key.                                                        *)
LEMMA KeysBegin ==
  ASSUME TypeOK, KeyInv, TpmAssumption, NEW th \in Thread, NEW t \in KeyTriple, Request(th, t)
  PROVE  KeyInv'
  <1>1. CASE CreateRefused(th, t) \/ NoSuchKey(th, t) \/ DestroyError(th, t)
    <2>1. UNCHANGED <<status, pc, triple, key_info, stored, sole>>
      BY <1>1 DEF CreateRefused, NoSuchKey, DestroyError, Refuse, kim
    <2> QED
      BY <2>1 DEF KeyInv, NoRival, SoleKeyKept
  <1>2. CASE CreateBegin(th, t)
    <2>1. /\ status = "up" /\ key_info[t] = NoId
          /\ pc' = [pc EXCEPT ![th] = "create_lock"]
          /\ triple' = [triple EXCEPT ![th] = t]
          /\ UNCHANGED <<status, key_info, stored, sole>>
      BY <1>2 DEF CreateBegin, Begin, Arrives, Goto, Exists, kim
    <2>2. sole[t] = NoId
      BY <2>1 DEF KeyInv, SoleKeyKept
    <2> QED
      BY <2>1, <2>2 DEF KeyInv, NoRival, SoleKeyKept, TypeOK, RequestTypeOK
  <1>3. CASE UseBegin(th, t)
    <2>1. /\ pc' = [pc EXCEPT ![th] = "use_lock"]
          /\ triple' = [triple EXCEPT ![th] = t]
          /\ UNCHANGED <<status, key_info, stored, sole>>
      BY <1>3 DEF UseBegin, Begin, Goto, kim
    <2> QED
      BY <2>1 DEF KeyInv, NoRival, SoleKeyKept, TypeOK, RequestTypeOK, Creating
  <1>4. CASE DestroyKey(th, t)
    <2>1. /\ key_info' = [key_info EXCEPT ![t] = NoId]
          /\ stored' = [stored EXCEPT ![t] = NoId]
          /\ sole' = [sole EXCEPT ![t] = NoId]
          /\ UNCHANGED <<status, pc, triple>>
      BY <1>4 DEF DestroyKey, RemoveKeyInfo, local
    <2> QED
      BY <2>1 DEF KeyInv, NoRival, SoleKeyKept, TypeOK, RequestTypeOK, KimTypeOK, Creating
  <1> QED
    BY <1>1, <1>2, <1>3, <1>4 DEF Request

(* The insertion of a creation makes its context the sole one of the       *)
(* triple only if it leaves no other creation of the triple behind.        *)
LEMMA KeysInserted ==
  ASSUME TypeOK, KeyInv, TpmAssumption, NEW th \in Thread, Insert(th)
  PROVE  KeyInv'
  <1> DEFINE t == triple[th]
             c == key_id[th]
  <1>1. pc[th] = "insert" /\ t \in KeyTriple /\ c \in Context
    BY Sentinels DEF Insert, TypeOK, RequestTypeOK, Loaded
  <1>2. /\ pc' = [pc EXCEPT ![th] = "idle"]
        /\ triple' = [triple EXCEPT ![th] = NoTriple]
        /\ key_info' = [key_info EXCEPT ![t] = c]
        /\ stored' = [stored EXCEPT ![t] = c]
        /\ sole' = [sole EXCEPT ![t] = IF Alone(th) THEN c ELSE NoId]
        /\ status' = status
    BY DEF Insert, InsertKeyInfo, Return, Answer
  <1>3. NoRival'
    <2> SUFFICES ASSUME NEW other \in Thread, pc'[other] \in Creating
                 PROVE  sole'[triple'[other]] = NoId
      BY DEF NoRival, Creating
    <2>1. other # th /\ pc[other] \in Creating /\ triple'[other] = triple[other]
      BY <1>2 DEF TypeOK, RequestTypeOK, Creating
    <2>2. sole[triple[other]] = NoId
      BY <2>1 DEF KeyInv, NoRival
    <2>3. triple[other] = t => ~Alone(th)
      BY <2>1 DEF Alone
    <2> QED
      BY <1>2, <2>1, <2>2, <2>3 DEF TypeOK
  <1>4. SoleKeyKept'
    BY <1>1, <1>2 DEF KeyInv, SoleKeyKept, TypeOK, KimTypeOK
  <1> QED
    BY <1>3, <1>4 DEF KeyInv

(* No step gives a sole key away, nor begins a creation of its triple.     *)
LEMMA NextKeys ==
  ASSUME TpmAssumption, TypeOK, KeyInv, [Next]_vars
  PROVE  KeyInv'
  <1>1. ASSUME NEW th \in Thread, NEW t \in KeyTriple, Request(th, t)
        PROVE  KeyInv'
    BY <1>1, KeysBegin
  <1>2. ASSUME NEW th \in Thread,
               \/ Lock(th, "create_lock", "create")
               \/ Lock(th, "use_lock", "lookup")
        PROVE  KeyInv'
    <2>1. /\ UNCHANGED <<status, triple, kim, sole>>
          /\ \/ pc[th] = "create_lock" /\ pc' = [pc EXCEPT ![th] = "create"]
             \/ pc' = [pc EXCEPT ![th] = "lookup"]
      BY <1>2 DEF Lock, Goto, local
    <2> QED
      BY <2>1, KeysUntouched DEF Creating
  <1>3. ASSUME NEW th \in Thread,
               LockPanics(th) \/ Panic(th) \/ CreateError(th) \/ LookupFails(th) \/ Use(th)
        PROVE  KeyInv'
    <2>1. UNCHANGED <<key_info, stored, sole>> /\ \E k : Answer(th, k)
      BY <1>3 DEF LockPanics, Panic, CreateError, LookupFails, Use, Return, kim
    <2> QED
      BY <2>1, KeysReturned
  <1>4. ASSUME NEW th \in Thread, CreateKey(th) \/ Lookup(th) \/ Attributes(th)
        PROVE  KeyInv'
    <2>1. /\ UNCHANGED <<status, triple, kim, sole>>
          /\ \/ pc[th] = "create" /\ pc' = [pc EXCEPT ![th] = "insert"]
             \/ pc' = [pc EXCEPT ![th] = "attributes"]
             \/ pc' = [pc EXCEPT ![th] = "use"]
      BY <1>4 DEF CreateKey, Lookup, Attributes, Goto, local
    <2> QED
      BY <2>1, KeysUntouched DEF Creating
  <1>5. ASSUME NEW th \in Thread, Insert(th)
        PROVE  KeyInv'
    BY <1>5, KeysInserted
  <1>6. ASSUME NEW th \in Thread, InsertOverwrites(th)
        PROVE  KeyInv'
    <2>1. sole[triple[th]] = NoId
      BY <1>6 DEF InsertOverwrites, KeyInv, NoRival, Creating
    <2>2. /\ pc' = [pc EXCEPT ![th] = "idle"]
          /\ triple' = [triple EXCEPT ![th] = NoTriple]
          /\ key_info' = [key_info EXCEPT ![triple[th]] = key_id[th]]
          /\ stored' = [stored EXCEPT ![triple[th]] = key_id[th]]
          /\ UNCHANGED <<status, sole>>
      BY <1>6 DEF InsertOverwrites, InsertKeyInfo, Return, Answer
    <2> QED
      BY <2>1, <2>2 DEF KeyInv, NoRival, SoleKeyKept, TypeOK, RequestTypeOK, KimTypeOK, Creating
  <1>7. ASSUME NEW th \in Thread, InsertError(th)
        PROVE  KeyInv'
    <2>1. sole[triple[th]] = NoId
      BY <1>7 DEF InsertError, KeyInv, NoRival, Creating
    <2>2. /\ Answer(th, "absent") /\ UNCHANGED <<key_info, sole>>
          /\ stored' \in {stored, [stored EXCEPT ![triple[th]] = NoId]}
      BY <1>7 DEF InsertError, InsertKeyInfoError, Return
    <2> QED
      BY <2>1, <2>2, KeysReturned
  <1>8. ASSUME Drain \/ Joined
        PROVE  KeyInv'
    <2>1. UNCHANGED <<pc, triple, key_info, stored, sole>> /\ status # "down"
      BY <1>8 DEF Drain, Joined, StopArrivals, JoinThreads, kim
    <2> QED
      BY <2>1 DEF KeyInv, NoRival, SoleKeyKept
  <1>9. ASSUME Crash
        PROVE  KeyInv'
    <2>1. /\ pc' = [th \in Thread |-> "idle"] /\ status' = "down"
          /\ UNCHANGED <<key_info, sole>>
      BY <1>9 DEF Crash, LoseThreads, InsertKeyInfoError, kim
    <2>2. NoRival'
      BY <2>1 DEF NoRival, Creating
    <2>3. ASSUME NEW t \in KeyTriple, sole[t] # NoId
          PROVE  stored'[t] = sole[t]
      <3>1. stored[t] = sole[t]
        BY <2>3 DEF KeyInv, SoleKeyKept
      <3>2. ASSUME NEW th \in Thread, pc[th] = "insert"
            PROVE  triple[th] # t
        BY <2>3, <3>2 DEF KeyInv, NoRival, Creating
      <3> QED
        BY <1>9, <3>1, <3>2 DEF Crash, InsertKeyInfoError, kim, TypeOK, KimTypeOK
    <2>4. SoleKeyKept'
      BY <2>1, <2>3 DEF SoleKeyKept
    <2> QED
      BY <2>2, <2>4 DEF KeyInv
  <1>10. ASSUME Start
         PROVE  KeyInv'
    <2>1. /\ UNCHANGED <<pc, triple, sole>>
          /\ \A t \in KeyTriple : stored'[t] = stored[t] /\ key_info'[t] = stored[t]
      BY <1>10 DEF Start, ReloadWithout, local
    <2> QED
      BY <2>1 DEF KeyInv, NoRival, SoleKeyKept
  <1>11. ASSUME UNCHANGED vars
         PROVE  KeyInv'
    BY <1>11 DEF vars, KeyInv, NoRival, SoleKeyKept
  <1> QED
    BY <1>1, <1>2, <1>3, <1>4, <1>5, <1>6, <1>7, <1>8, <1>9, <1>10, <1>11 DEF Next, Step

(* The inductive invariant: the guard has one holder, at a guarded step,   *)
(* and nobody creates a key under a name that has a sole one.              *)
THEOREM GuardAndKeys ==
  ASSUME TpmAssumption
  PROVE  Spec => []TpmInv
  <1>1. Init => TpmInv
    <2>1. Init => GuardHeld /\ BrokenContextUnused /\ KeyInv
      BY Sentinels DEF Init, RequestInit, KimInit, GuardHeld, BrokenContextUnused, KeyInv,
                       NoRival, SoleKeyKept, Guarded, Creating
    <2> QED
      BY <2>1, InitTypeOK DEF TpmInv, KeyInv
  <1>2. TpmInv /\ [Next]_vars => TpmInv'
    BY NextTypeOK, NextGuard, NextKeys DEF TpmInv, KeyInv
  <1> QED
    BY <1>1, <1>2, PTL DEF Spec

(* A key that was created without a rival stays, the same context, in the  *)
(* cache and on disk, until it is destroyed.                               *)
THEOREM SoleKeysKept ==
  ASSUME TpmAssumption
  PROVE  Spec => []SoleKeyKept
  <1>1. TpmInv => SoleKeyKept
    BY DEF TpmInv
  <1> QED
    BY <1>1, GuardAndKeys, PTL

(* No request reaches an ESAPI context whose mutex is poisoned.            *)
THEOREM BrokenContextsUnused ==
  ASSUME TpmAssumption
  PROVE  Spec => []BrokenContextUnused
  <1>1. TpmInv => BrokenContextUnused
    BY DEF TpmInv
  <1> QED
    BY <1>1, GuardAndKeys, PTL
---------------------------------------------------------------------------
(* For clients that wait for their answers: what KeptInv adds.             *)
Kept == /\ OneRequestPerTriple /\ DiskUpToDate /\ RequestsAgree /\ NewContextsPrivate
        /\ KnownIsStored

(* What a step may use of the types.                                       *)
LEMMA KeptTypes ==
  ASSUME TpmAssumption, KeptInv
  PROVE  /\ stored \in [KeyTriple -> Context \cup {NoId}]
         /\ key_info \in [KeyTriple -> Context \cup {NoId}]
         /\ known \in [KeyTriple -> {"exists", "absent", "unsure"}]
         /\ triple \in [Thread -> KeyTriple \cup {NoTriple}]
         /\ key_id \in [Thread -> Context \cup {NoId}]
         /\ DOMAIN pc = Thread
         /\ \A th \in Thread : pc[th] # "idle" <=> triple[th] # NoTriple
         /\ \A th \in Thread : pc[th] # "idle" => triple[th] \in KeyTriple /\ status # "down"
         /\ \A th \in Thread : pc[th] = "insert" => key_id[th] \in Context
         /\ NoId \notin Context /\ NoTriple \notin KeyTriple
  BY Sentinels
  DEF KeptInv, TpmInv, TypeOK, KimTypeOK, RequestTypeOK, GuardHeld, Loaded

(* The context that create_key returns is nobody's: TPM2_Create makes a    *)
(* new key each time.                                                      *)
LEMMA NewContextFresh ==
  ASSUME NEW th, CreateKey(th)
  PROVE  \E c \in Context : ~InUse(c) /\ key_id' = [key_id EXCEPT ![th] = c]
  <1>1. PICK c \in Context : ~InUse(c)
    BY DEF CreateKey
  <1> DEFINE new == CHOOSE c0 \in Context : ~InUse(c0)
  <1>2. new \in Context /\ ~InUse(new)
    BY <1>1
  <1>3. key_id' = [key_id EXCEPT ![th] = new]
    BY DEF CreateKey
  <1> QED
    BY <1>2, <1>3

(* The end of a request whose answer is true of the map on disk.           *)
LEMMA KeptEnds ==
  ASSUME TpmAssumption, KeptInv, NEW th \in Thread, pc[th] # "idle", NEW k,
         Answer(th, k), UNCHANGED <<key_info, stored>>,
         k = "exists" => stored[triple[th]] # NoId,
         k = "absent" => stored[triple[th]] = NoId
  PROVE  Kept'
  <1> USE KeptTypes DEF Answer
  <1>1. \A other \in Thread : pc'[other] # "idle" =>
           /\ other # th /\ pc'[other] = pc[other] /\ triple'[other] = triple[other]
           /\ key_id'[other] = key_id[other] /\ triple[other] # triple[th]
           /\ known'[triple[other]] = known[triple[other]]
    BY DEF KeptInv, OneRequestPerTriple
  <1>2. OneRequestPerTriple' /\ DiskUpToDate' /\ KnownIsStored'
    BY DEF KeptInv, OneRequestPerTriple, DiskUpToDate, KnownIsStored
  <1>3. RequestsAgree'
    BY <1>1 DEF KeptInv, RequestsAgree, Creating
  <1>4. NewContextsPrivate'
    BY <1>1 DEF KeptInv, NewContextsPrivate
  <1> QED
    BY <1>2, <1>3, <1>4 DEF Kept

(* A thread goes from one step of its request to another one that is not   *)
(* the insertion, and may read its context anew from its mapping.          *)
LEMMA KeptGoesOn ==
  ASSUME TpmAssumption, KeptInv, NEW th \in Thread, pc[th] # "idle",
         NEW to, pc' = [pc EXCEPT ![th] = to], to \notin {"idle", "insert"},
         to \in Creating => pc[th] \in Creating,
         UNCHANGED <<status, key_info, stored, triple, known>>,
         \A other \in Thread : \/ key_id'[other] = key_id[other]
                               \/ other = th /\ \E t \in KeyTriple : key_id'[th] = stored[t]
  PROVE  Kept'
  <1> USE KeptTypes
  <1>1. OneRequestPerTriple' /\ DiskUpToDate' /\ KnownIsStored'
    BY DEF KeptInv, OneRequestPerTriple, DiskUpToDate, KnownIsStored
  <1>2. RequestsAgree'
    BY DEF KeptInv, RequestsAgree
  <1>3. NewContextsPrivate'
    BY DEF KeptInv, NewContextsPrivate
  <1> QED
    BY <1>1, <1>2, <1>3 DEF Kept

LEMMA KeptInsert ==
  ASSUME TpmAssumption, KeptInv, NEW th \in Thread, Insert(th)
  PROVE  Kept'
  <1> DEFINE t == triple[th]
             c == key_id[th]
  <1> USE KeptTypes
  <1>1. /\ pc[th] = "insert" /\ t \in KeyTriple /\ c \in Context
        /\ known' = [known EXCEPT ![t] = "exists"]
        /\ pc' = [pc EXCEPT ![th] = "idle"] /\ triple' = [triple EXCEPT ![th] = NoTriple]
        /\ key_id' = [key_id EXCEPT ![th] = NoId]
        /\ key_info' = [key_info EXCEPT ![t] = c] /\ stored' = [stored EXCEPT ![t] = c]
        /\ status' = status
    BY DEF Insert, InsertKeyInfo, Return, Answer
  <1>2. \A other \in Thread : pc'[other] # "idle" =>
           /\ other # th /\ pc'[other] = pc[other] /\ triple'[other] = triple[other]
           /\ key_id'[other] = key_id[other] /\ triple[other] # t
    BY <1>1 DEF KeptInv, OneRequestPerTriple
  <1>3. OneRequestPerTriple' /\ DiskUpToDate' /\ KnownIsStored'
    BY <1>1 DEF KeptInv, OneRequestPerTriple, DiskUpToDate, KnownIsStored
  <1>4. RequestsAgree'
    BY <1>1, <1>2 DEF KeptInv, RequestsAgree, Creating
  <1>5. NewContextsPrivate'
    BY <1>1, <1>2 DEF KeptInv, NewContextsPrivate
  <1> QED
    BY <1>3, <1>4, <1>5 DEF Kept

(* Each step of a request keeps the maps, the contexts and the requests in *)
(* agreement.                                                              *)
LEMMA KeptStep ==
  ASSUME TpmAssumption, KeptInv, NEW th \in Thread, Step(th)
  PROVE  Kept'
  <1> USE KeptTypes
  <1>a. status # "down" => stored = key_info
    BY DEF KeptInv, DiskUpToDate
  <1>1. CASE \/ Lock(th, "create_lock", "create") \/ Lock(th, "use_lock", "lookup")
             \/ Lookup(th) \/ Attributes(th)
    <2>1. /\ pc[th] # "idle"
          /\ \E to : /\ pc' = [pc EXCEPT ![th] = to] /\ to \notin {"idle", "insert"}
                     /\ to \in Creating => pc[th] \in Creating
          /\ UNCHANGED <<status, key_info, stored, triple, known>>
      BY <1>1 DEF Lock, Lookup, Attributes, Goto, kim, local, Creating
    <2>2. \A other \in Thread : \/ key_id'[other] = key_id[other]
                                \/ other = th /\ \E t \in KeyTriple : key_id'[th] = stored[t]
      BY <1>1, <1>a, <2>1 DEF Lock, Lookup, Attributes, local
    <2> QED
      BY <2>1, <2>2, KeptGoesOn
  <1>2. CASE LockPanics(th) \/ Panic(th)
    <2>1. /\ Answer(th, "unsure") /\ pc[th] # "idle" /\ UNCHANGED <<key_info, stored>>
      BY <1>2 DEF LockPanics, Panic, Return, Guarded, kim
    <2> QED
      BY <2>1, KeptEnds
  <1>3. CASE CreateKey(th)
    <2>1. PICK c \in Context : ~InUse(c) /\ key_id' = [key_id EXCEPT ![th] = c]
      BY <1>3, NewContextFresh
    <2>2. /\ pc[th] = "create" /\ pc' = [pc EXCEPT ![th] = "insert"]
          /\ UNCHANGED <<status, key_info, stored, triple, known>>
      BY <1>3 DEF CreateKey, Goto, kim
    <2>3. (\A t \in KeyTriple : stored[t] # c) /\ (\A other \in Thread : key_id[other] # c)
      BY <2>1 DEF InUse
    <2>4. OneRequestPerTriple' /\ DiskUpToDate' /\ KnownIsStored'
      BY <2>2 DEF KeptInv, OneRequestPerTriple, DiskUpToDate, KnownIsStored
    <2>5. RequestsAgree'
      BY <2>2 DEF KeptInv, RequestsAgree, Creating
    <2>6. NewContextsPrivate'
      BY <2>1, <2>2, <2>3 DEF KeptInv, NewContextsPrivate
    <2> QED
      BY <2>4, <2>5, <2>6 DEF Kept
  <1>4. CASE CreateError(th) \/ InsertError(th)
    <2>1. /\ pc[th] \in Creating /\ Answer(th, "absent") /\ UNCHANGED key_info
          /\ stored' \in {stored, [stored EXCEPT ![triple[th]] = NoId]}
      BY <1>4 DEF CreateError, InsertError, InsertKeyInfoError, Return, kim, Creating
    <2>2. stored[triple[th]] = NoId /\ pc[th] # "idle"
      BY <2>1 DEF KeptInv, RequestsAgree, Creating
    <2>3. stored' = stored
      BY <2>1, <2>2
    <2> QED
      BY <2>1, <2>2, <2>3, KeptEnds
  <1>5. ~InsertOverwrites(th)
    BY <1>a DEF InsertOverwrites, Exists, KeptInv, RequestsAgree, Creating
  <1>6. CASE LookupFails(th)
    <2>1. /\ pc[th] # "idle" /\ Answer(th, "absent") /\ UNCHANGED <<key_info, stored>>
          /\ stored[triple[th]] = NoId
      BY <1>6, <1>a DEF LookupFails, Return, Exists, kim
    <2> QED
      BY <2>1, KeptEnds
  <1>7. CASE Use(th)
    <2>1. /\ pc[th] # "idle" /\ Answer(th, known[triple[th]]) /\ UNCHANGED <<key_info, stored>>
      BY <1>7 DEF Use, Return, kim
    <2> QED
      BY <2>1, KeptEnds DEF KeptInv, KnownIsStored
  <1> QED
    BY <1>1, <1>2, <1>3, <1>4, <1>5, <1>6, <1>7, KeptInsert DEF Step

LEMMA KeptRequest ==
  ASSUME TpmAssumption, ~Overlap, KeptInv, NEW th \in Thread, NEW t \in KeyTriple,
         Request(th, t)
  PROVE  Kept'
  <1> USE KeptTypes
  <1>1. /\ status = "up" /\ stored = key_info /\ pc[th] = "idle"
        /\ \A other \in Thread : triple[other] # t
    BY DEF Request, CreateRefused, CreateBegin, NoSuchKey, DestroyKey, DestroyError, UseBegin,
           Refuse, Begin, Arrives, KeptInv, DiskUpToDate
  <1>2. CASE CreateRefused(th, t) \/ NoSuchKey(th, t) \/ DestroyError(th, t)
    BY <1>1, <1>2
    DEF CreateRefused, NoSuchKey, DestroyError, Refuse, Exists, kim, KeptInv, Kept, Creating,
        OneRequestPerTriple, DiskUpToDate, RequestsAgree, NewContextsPrivate, KnownIsStored
  <1>3. CASE DestroyKey(th, t)
    <2>1. /\ key_info' = [key_info EXCEPT ![t] = NoId] /\ stored' = [stored EXCEPT ![t] = NoId]
          /\ known' = [known EXCEPT ![t] = "absent"]
          /\ UNCHANGED <<status, pc, triple, key_id>>
      BY <1>3 DEF DestroyKey, RemoveKeyInfo, local
    <2>2. OneRequestPerTriple' /\ DiskUpToDate' /\ KnownIsStored'
      BY <1>1, <2>1 DEF KeptInv, OneRequestPerTriple, DiskUpToDate, KnownIsStored
    <2>3. RequestsAgree' /\ NewContextsPrivate'
      BY <1>1, <2>1 DEF KeptInv, RequestsAgree, NewContextsPrivate, Creating
    <2> QED
      BY <2>2, <2>3 DEF Kept
  <1>4. CASE CreateBegin(th, t) \/ UseBegin(th, t)
    <2>1. PICK to \in {"create_lock", "use_lock"} :
             /\ pc' = [pc EXCEPT ![th] = to] /\ triple' = [triple EXCEPT ![th] = t]
             /\ key_id' = [key_id EXCEPT ![th] = NoId]
             /\ to = "create_lock" => stored[t] = NoId
             /\ known' = [known EXCEPT ![t] = IF to = "use_lock" THEN known[t] ELSE "unsure"]
             /\ UNCHANGED <<status, key_info, stored>>
      BY <1>1, <1>4 DEF CreateBegin, UseBegin, Begin, Goto, Exists, kim
    <2>2. OneRequestPerTriple' /\ DiskUpToDate' /\ KnownIsStored'
      BY <1>1, <2>1 DEF KeptInv, OneRequestPerTriple, DiskUpToDate, KnownIsStored
    <2>3. RequestsAgree'
      BY <1>1, <2>1 DEF KeptInv, RequestsAgree, Creating
    <2>4. NewContextsPrivate'
      BY <1>1, <2>1 DEF KeptInv, NewContextsPrivate
    <2> QED
      BY <2>2, <2>3, <2>4 DEF Kept
  <1> QED
    BY <1>2, <1>3, <1>4 DEF Request

(* A crash in an insertion may lose no mapping, as there was none.         *)
LEMMA KeptService ==
  ASSUME TpmAssumption, KeptInv, Drain \/ Joined \/ Crash \/ Start
  PROVE  Kept' /\ stored' = stored
  <1> USE KeptTypes
          DEF KeptInv, Kept, OneRequestPerTriple, DiskUpToDate, RequestsAgree,
              NewContextsPrivate, KnownIsStored, Creating
  <1>1. CASE Drain \/ Joined
    BY <1>1 DEF Drain, Joined, StopArrivals, JoinThreads, kim
  <1>2. CASE Crash
    <2>1. stored' = stored
      <3>1. ASSUME NEW th \in Thread, pc[th] = "insert", InsertKeyInfoError(triple[th])
            PROVE  stored' = stored
        BY <3>1 DEF InsertKeyInfoError
      <3> QED
        BY <1>2, <3>1 DEF Crash, kim
    <2>2. /\ status' = "down" /\ \A th \in Thread : pc'[th] = "idle" /\ triple'[th] = NoTriple
          /\ \A t \in KeyTriple : known'[t] # "unsure" => known'[t] = known[t]
      BY <1>2 DEF Crash, LoseThreads
    <2> QED
      BY <2>1, <2>2
  <1>3. CASE Start
    <2>1. stored' = stored /\ key_info' = stored
      BY <1>3 DEF Start, ReloadWithout
    <2>2. UNCHANGED <<pc, triple, key_id, known>> /\ status = "down"
      BY <1>3 DEF Start, local
    <2> QED
      BY <2>1, <2>2
  <1> QED
    BY <1>1, <1>2, <1>3

(* For clients that wait for their answers: the mappings in memory and on  *)
(* disk, the contexts of creations and what the clients were told agree,   *)
(* also when threads panic with the guard of the TPM or at its lock.       *)
THEOREM MappingsKept ==
  ASSUME TpmAssumption
  PROVE  ~Overlap /\ Spec => []KeptInv
  <1> SUFFICES ASSUME ~Overlap
               PROVE  Spec => []KeptInv
    OBVIOUS
  <1>1. Spec => []TpmInv
    BY GuardAndKeys
  <1>2. Init => Kept
    BY DEF Init, KimInit, RequestInit, Kept, OneRequestPerTriple, DiskUpToDate, RequestsAgree,
           NewContextsPrivate, KnownIsStored, Creating
  <1>3. TpmInv /\ Kept /\ [Next]_vars => Kept'
    <2> SUFFICES ASSUME TpmInv, Kept, [Next]_vars
                 PROVE  Kept'
      OBVIOUS
    <2>1. KeptInv
      BY DEF KeptInv, Kept
    <2>2. CASE UNCHANGED vars
      BY <2>2 DEF vars, Kept, OneRequestPerTriple, DiskUpToDate, RequestsAgree,
                  NewContextsPrivate, KnownIsStored, Creating
    <2>3. CASE Next
      BY <2>1, <2>3, KeptStep, KeptRequest, KeptService DEF Next
    <2> QED
      BY <2>2, <2>3
  <1>4. TpmInv /\ Kept => KeptInv
    BY DEF KeptInv, Kept
  <1> QED
    BY <1>1, <1>2, <1>3, <1>4, PTL DEF Spec
---------------------------------------------------------------------------
(* For clients that wait, the map a client sees is the map on disk.        *)
LEMMA KeyMap ==
  ASSUME TpmAssumption, KeptInv, KeptInv'
  PROVE  KeyOf = stored /\ KeyOf' = stored'
  <1>1. KeyOf = stored
    BY KeptTypes DEF KeyOf, KeptInv, DiskUpToDate
  <1>2. stored' \in [KeyTriple -> Context \cup {NoId}]
    BY DEF KeptInv, TpmInv, TypeOK, KimTypeOK
  <1>3. KeyOf' = stored'
    BY <1>2 DEF KeyOf, KeptInv, DiskUpToDate
  <1> QED
    BY <1>1, <1>3

LEMMA KindFacts ==
  ASSUME TpmAssumption, KeptInv, NEW th \in Thread
  PROVE  /\ KindOf[th] = "idle" <=> pc[th] = "idle"
         /\ pc[th] \in Creating => KindOf[th] = "create"
         /\ pc[th] \in UseSteps => KindOf[th] = "use"
  BY KeptTypes DEF KindOf, RequestKinds, Creating, UseSteps

(* A step of th changes the kind of its own request only, and not always.  *)
LEMMA KindStep ==
  ASSUME TpmAssumption, KeptInv, NEW th \in Thread, NEW to, pc' = [pc EXCEPT ![th] = to]
  PROVE  /\ to = "idle" => KindOf' = [KindOf EXCEPT ![th] = "idle"]
         /\ to \in Creating => KindOf' = [KindOf EXCEPT ![th] = "create"]
         /\ to \in UseSteps => KindOf' = [KindOf EXCEPT ![th] = "use"]
         /\ \/ pc[th] \in Creating /\ to \in Creating
            \/ pc[th] \in UseSteps /\ to \in UseSteps
            => KindOf' = KindOf
  BY KeptTypes DEF KindOf, RequestKinds, Creating, UseSteps

(* The end of a request with an answer that is true of the map.            *)
LEMMA AnswerImplements ==
  ASSUME TpmAssumption, KeptInv, KeptInv', NEW th \in Thread, pc[th] # "idle",
         NEW k \in {"exists", "absent", "unsure"}, Answer(th, k), stored' = stored,
         \/ k = "absent" /\ stored[triple[th]] = NoId
         \/ pc[th] = "use" /\ k = known[triple[th]]
         \/ k = "unsure"
  PROVE  Keys!KeyStoreNext
  <1>1. KeyOf = stored /\ KeyOf' = stored
    BY KeyMap
  <1>2. KindOf' = [KindOf EXCEPT ![th] = "idle"] /\ KindOf[th] # "idle"
    BY KindStep, KindFacts DEF Answer
  <1>3. pc[th] = "use" => KindOf[th] = "use"
    BY KindFacts DEF UseSteps
  <1>4. Keys!Answer(th, k)
    BY <1>1, <1>2, <1>3 DEF Keys!Answer, Keys!End, Keys!Tell, Keys!True, Answer
  <1> QED
    BY <1>4 DEF Keys!KeyStoreNext

(* A request arrives, and is refused, begins, or destroys the key at once. *)
LEMMA RequestImplements ==
  ASSUME TpmAssumption, ~Overlap, KeptInv, KeptInv', NEW th \in Thread, NEW t \in KeyTriple,
         Request(th, t)
  PROVE  Keys!KeyStoreNext
  <1>1. KeyOf = stored /\ KeyOf' = stored'
    BY KeyMap
  <1>2. status = "up" /\ status' = status /\ Keys!Arrives(th, t)
    BY KindFacts
    DEF Request, CreateRefused, CreateBegin, NoSuchKey, DestroyKey, DestroyError, UseBegin,
        Refuse, Begin, Arrives, Keys!Arrives
  <1>3. stored = key_info
    BY <1>2 DEF KeptInv, DiskUpToDate
  <1> USE <1>1, <1>2, <1>3
  <1>4. CASE CreateRefused(th, t) \/ DestroyError(th, t)
    <2>1. Keys!Refuse(th, t, "exists")
      BY <1>4 DEF CreateRefused, DestroyError, Refuse, Exists, kim, KindOf, RequestKinds,
                  Keys!Refuse, Keys!Tell, Keys!True, Keys!requests
    <2> QED
      BY <2>1 DEF Keys!KeyStoreNext
  <1>5. CASE NoSuchKey(th, t)
    <2>1. Keys!Refuse(th, t, "absent")
      BY <1>5 DEF NoSuchKey, Refuse, Exists, kim, KindOf, RequestKinds,
                  Keys!Refuse, Keys!Tell, Keys!True, Keys!requests
    <2> QED
      BY <2>1 DEF Keys!KeyStoreNext
  <1>6. CASE DestroyKey(th, t)
    <2>1. Keys!DestroyAtOnce(th, t)
      BY <1>6 DEF DestroyKey, RemoveKeyInfo, local, KindOf, RequestKinds,
                  Keys!DestroyAtOnce, Keys!Tell, Keys!requests
    <2> QED
      BY <2>1 DEF Keys!KeyStoreNext
  <1>7. CASE CreateBegin(th, t)
    <2>1. KindOf' = [KindOf EXCEPT ![th] = "create"]
      BY <1>7, KindStep DEF CreateBegin, Begin, Goto, Creating
    <2>2. Keys!Begin(th, t, "create")
      BY <1>7, <2>1 DEF CreateBegin, Begin, kim, Keys!Begin, Keys!Tell
    <2> QED
      BY <2>2 DEF Keys!KeyStoreNext
  <1>8. CASE UseBegin(th, t)
    <2>1. KindOf' = [KindOf EXCEPT ![th] = "use"]
      BY <1>8, KindStep DEF UseBegin, Begin, Goto, UseSteps
    <2>2. Keys!Begin(th, t, "use")
      BY <1>8, <2>1, KeptTypes DEF UseBegin, Begin, kim, Keys!Begin
    <2> QED
      BY <2>2 DEF Keys!KeyStoreNext
  <1> QED
    BY <1>4, <1>5, <1>6, <1>7, <1>8 DEF Request

(* A creation has its effect with the insertion of the context; the steps  *)
(* before it, with the guard or waiting for it, are stutters.              *)
LEMMA StepImplements ==
  ASSUME TpmAssumption, KeptInv, KeptInv', NEW th \in Thread, Step(th)
  PROVE  Keys!KeyStoreNext \/ UNCHANGED Keys!storeVars
  <1>1. KeyOf = stored /\ KeyOf' = stored'
    BY KeyMap
  <1>2. /\ pc[th] # "idle" /\ triple[th] \in KeyTriple /\ stored = key_info
        /\ known[triple[th]] \in {"exists", "absent", "unsure"}
    BY KeptTypes
    DEF KeptInv, DiskUpToDate, Step, Lock, LockPanics, Panic, CreateKey, CreateError, Insert,
        InsertOverwrites, InsertError, Lookup, Attributes, LookupFails, Use, Goto, Guarded
  <1>3. CASE \/ Lock(th, "create_lock", "create") \/ Lock(th, "use_lock", "lookup")
             \/ CreateKey(th) \/ Lookup(th) \/ Attributes(th)
    <2>1. /\ \E to : /\ pc' = [pc EXCEPT ![th] = to]
                     /\ \/ pc[th] \in Creating /\ to \in Creating
                        \/ pc[th] \in UseSteps /\ to \in UseSteps
          /\ UNCHANGED <<status, stored, triple, known>>
      BY <1>3 DEF Lock, CreateKey, Lookup, Attributes, Goto, kim, local, Creating, UseSteps
    <2>2. KindOf' = KindOf
      BY <2>1, KindStep
    <2> QED
      BY <1>1, <2>1, <2>2 DEF Keys!storeVars
  <1>4. CASE LockPanics(th) \/ Panic(th)
    <2>1. Answer(th, "unsure") /\ stored' = stored
      BY <1>4 DEF LockPanics, Panic, Return, kim
    <2> QED
      BY <1>2, <2>1, AnswerImplements
  <1>5. CASE CreateError(th) \/ InsertError(th)
    <2>1. /\ pc[th] \in Creating /\ Answer(th, "absent")
          /\ stored' \in {stored, [stored EXCEPT ![triple[th]] = NoId]}
      BY <1>5 DEF CreateError, InsertError, InsertKeyInfoError, Return, kim, Creating
    <2>2. stored[triple[th]] = NoId
      BY <2>1 DEF KeptInv, RequestsAgree
    <2>3. stored' = stored
      BY <1>2, <2>1, <2>2, KeptTypes
    <2> QED
      BY <1>2, <2>1, <2>2, <2>3, AnswerImplements
  <1>6. CASE LookupFails(th)
    <2>1. Answer(th, "absent") /\ stored' = stored /\ stored[triple[th]] = NoId
      BY <1>2, <1>6 DEF LookupFails, Return, Exists, kim
    <2> QED
      BY <1>2, <2>1, AnswerImplements
  <1>7. CASE Use(th)
    <2>1. Answer(th, known[triple[th]]) /\ stored' = stored /\ pc[th] = "use"
      BY <1>7 DEF Use, Return, kim
    <2> QED
      BY <1>2, <2>1, AnswerImplements
  <1>8. ~InsertOverwrites(th)
    BY <1>2 DEF InsertOverwrites, Exists, KeptInv, RequestsAgree, Creating
  <1>9. CASE Insert(th)
    <2> DEFINE c == key_id[th]
    <2>1. /\ pc[th] = "insert" /\ c \in Context /\ Answer(th, "exists")
          /\ stored' = [stored EXCEPT ![triple[th]] = c] /\ stored[triple[th]] = NoId
      BY <1>2, <1>9, KeptTypes DEF Insert, InsertKeyInfo, Exists, Return
    <2>2. \A t \in KeyTriple : stored[t] # c
      BY <2>1 DEF KeptInv, NewContextsPrivate
    <2>3. KindOf[th] = "create" /\ KindOf' = [KindOf EXCEPT ![th] = "idle"]
      BY <2>1, KindFacts, KindStep DEF Answer, Creating
    <2>4. Keys!Create(th, c)
      BY <1>1, <2>1, <2>2, <2>3 DEF Keys!Create, Keys!End, Keys!Tell, Answer
    <2> QED
      BY <2>1, <2>4 DEF Keys!KeyStoreNext
  <1> QED
    BY <1>3, <1>4, <1>5, <1>6, <1>7, <1>8, <1>9 DEF Step

(* The service stops, dies and starts around an unchanged map.             *)
LEMMA ServiceImplements ==
  ASSUME TpmAssumption, KeptInv, KeptInv', Drain \/ Joined \/ Crash \/ Start
  PROVE  Keys!KeyStoreNext
  <1>1. KeyOf = stored /\ KeyOf' = stored
    BY KeyMap, KeptService
  <1>2. CASE Drain
    <2>1. Keys!Drain
      BY <1>1, <1>2 DEF Drain, StopArrivals, KindOf, RequestKinds, Keys!Drain, Keys!requests
    <2> QED
      BY <2>1 DEF Keys!KeyStoreNext
  <1>3. CASE Joined
    <2>1. Keys!Join
      BY <1>1, <1>3 DEF Joined, JoinThreads, KindOf, RequestKinds, Keys!Join, Keys!requests
    <2> QED
      BY <2>1 DEF Keys!KeyStoreNext
  <1>4. CASE Crash
    <2>1. KindOf' = [th \in Thread |-> "idle"]
      BY <1>4 DEF Crash, LoseThreads, KindOf, RequestKinds
    <2>2. Keys!Crash
      BY <1>1, <1>4, <2>1 DEF Crash, LoseThreads, Keys!Crash
    <2> QED
      BY <2>2 DEF Keys!KeyStoreNext
  <1>5. CASE Start
    <2>1. KindOf' = KindOf /\ UNCHANGED <<triple, known>> /\ status = "down" /\ status' = "up"
      BY <1>5 DEF Start, local, KindOf, RequestKinds
    <2>2. \E gone \in SUBSET KeyTriple :
             /\ TRUE => gone = {}
             /\ stored = [t \in KeyTriple |-> IF t \in gone THEN NoId ELSE stored[t]]
      <3> WITNESS {} \in SUBSET KeyTriple
      <3> QED
        BY KeptTypes
    <2>3. Keys!Start
      BY <1>1, <2>1, <2>2 DEF Keys!Start, Keys!requests
    <2> QED
      BY <2>3 DEF Keys!KeyStoreNext
  <1> QED
    BY <1>2, <1>3, <1>4, <1>5

(* To clients that wait for their answers the provider is one durable map  *)
(* from triples to keys, although the TPM keeps none of them, a creation   *)
(* waits for the mutex between its check and its insertion, and a thread   *)
(* may fail or panic wherever it has the mutex.                            *)
THEOREM ImplementsKeyStore ==
  ASSUME TpmAssumption
  PROVE  ~Overlap /\ Spec => KeyStoreSpec
  <1> SUFFICES ASSUME ~Overlap
               PROVE  Spec => KeyStoreSpec
    OBVIOUS
  <1>1. Init => Keys!KeyStoreInit
    BY DEF Init, KimInit, RequestInit, Keys!KeyStoreInit, KindOf, RequestKinds, KeyOf
  <1>2. KeptInv /\ KeptInv' /\ [Next]_vars => [Keys!KeyStoreNext]_Keys!storeVars
    <2> SUFFICES ASSUME KeptInv, KeptInv', [Next]_vars
                 PROVE  Keys!KeyStoreNext \/ UNCHANGED Keys!storeVars
      OBVIOUS
    <2>1. CASE UNCHANGED vars
      BY <2>1 DEF vars, KindOf, RequestKinds, KeyOf, Keys!storeVars
    <2>2. CASE Next
      BY <2>2, RequestImplements, StepImplements, ServiceImplements DEF Next
    <2> QED
      BY <2>1, <2>2
  <1> QED
    BY <1>1, <1>2, MappingsKept, PTL DEF Spec, KeyStoreSpec, Keys!KeyStoreSpec

(* What an answer said of a key stays true until the next request about    *)
(* its triple, over panics, a poisoned mutex and restarts.                 *)
THEOREM AnswersStayTrue ==
  ASSUME TpmAssumption
  PROVE  ~Overlap /\ Spec => []AnswersHold
  <1>1. KeptInv => AnswersHold
    BY KeptTypes DEF KeptInv, KnownIsStored, DiskUpToDate, KeyOf, AnswersHold, Keys!AnswersHold
  <1> QED
    BY <1>1, MappingsKept, PTL
===============================================================================
