---------------------------- MODULE NodeAuth_proofs ----------------------------
(***************************************************************************)
(* Theorems about the node authentication: type correctness, that a pass   *)
(* is earned, that a removal has a cause, and that nodes which passed stay, *)
(* for any numbers of nodes, machines and events.                          *)
(***************************************************************************)
EXTENDS NodeAuth, FiniteSetTheorems, TLAPS

(* What the server knows of the node that it verifies.                     *)
Attempt ==
    /\ node # NoNode => ~clusterNodes[node].pass
    /\ encStr.own_key => pc \in {"client", "decrypt"} /\ <<ip, encStr.data>> \in proved
    /\ pc \in {"client", "decrypt"} =>
         excused \/ encStr = Answer(ip \in Keyed, clusterNodes[node].data)
    /\ pc = "agent_encrypt" => excused \/ ip \in clients
    /\ pc = "decrypt" => excused \/ Server \in clients
    /\ RemovalHasCause

AuthInv == NodeAuthTypeOK /\ PassIsEarned /\ Attempt

(* An entry of the cache, and the update of it that a pass is.             *)
LEMMA EntryFacts ==
  ASSUME NEW e \in Cached
  PROVE  e.pass \in BOOLEAN /\ e.ip \in Machine /\ e.data \in Name \cup {NoNonce}
  BY DEF Cached

LEMMA PassFacts ==
  ASSUME NEW f, NEW n \in DOMAIN f, \A k \in DOMAIN f : f[k] \in Cached,
         NEW g, g = [f EXCEPT ![n].pass = TRUE]
  PROVE  /\ DOMAIN g = DOMAIN f
         /\ \A k \in DOMAIN f : /\ g[k] \in Cached /\ (k # n => g[k].pass = f[k].pass)
                                /\ g[k].ip = f[k].ip /\ g[k].data = f[k].data
  BY DEF Cached

LEMMA InitTypeOK ==
  ASSUME NodeAuthAssumption, Init
  PROVE  NodeAuthTypeOK
  <1>1. DOMAIN cluster \subseteq Name /\ \A n \in DOMAIN cluster : cluster[n] \in NodeOf
    BY DEF Init, NodeOf
  <1>2. DOMAIN clusterNodes = {}
    BY DEF Init
  <1>3. items \in Seq([name : Name, ip : Machine, ready : BOOLEAN])
    BY DEF Init
  <1> QED
    BY <1>1, <1>2, <1>3 DEF NodeAuthAssumption, Init, NodeAuthTypeOK, NoAnswer, Answer, NoNonce, NoNode
---------------------------------------------------------------------------
Item == [name : Name, ip : Machine, ready : BOOLEAN]

(* What a list of kubectl gives.                                           *)
LEMMA GetNodesItems ==
  ASSUME NodeAuthAssumption, NodeAuthTypeOK, GetNodes
  PROVE  items' \in Seq(Item)
  <1>1. IsFiniteSet(DOMAIN cluster)
    BY FS_Subset DEF NodeAuthAssumption, NodeAuthTypeOK
  <1>2. Cardinality(DOMAIN cluster) \in Nat
    BY <1>1, FS_CardinalityType
  <1>3. PICK names \in [1 .. Cardinality(DOMAIN cluster) -> DOMAIN cluster] :
               items' = [i \in DOMAIN names |-> Listed(names[i])]
    BY DEF GetNodes
  <1>4. \A n \in DOMAIN cluster : Listed(n) \in Item
    BY DEF NodeAuthTypeOK, NodeOf, Listed, Item
  <1>5. items' \in [1 .. Cardinality(DOMAIN cluster) -> Item]
    BY <1>3, <1>4
  <1> QED
    BY <1>2, <1>5

(* The world changes: what the server holds stays.                         *)
LEMMA WorldTypeOK ==
  ASSUME NodeAuthAssumption, NodeAuthTypeOK,
         Join \/ ReadyChanges \/ AgentStarts \/ AgentEnds \/ ClientsLost
  PROVE  NodeAuthTypeOK'
  <1>1. UNCHANGED <<pc, clusterNodes, items, node, encStr>>
    BY DEF Join, ReadyChanges, AgentStarts, AgentEnds, ClientsLost, server
  <1>2. events' \in 0 .. MaxEvents
    BY DEF Join, ReadyChanges, AgentStarts, AgentEnds, ClientsLost, Event,
           NodeAuthTypeOK, NodeAuthAssumption
  <1>3. agent' \subseteq Machine /\ clients' \subseteq Machine \cup {Server}
    BY DEF Join, ReadyChanges, AgentStarts, AgentEnds, ClientsLost, NodeAuthTypeOK
  <1>4. DOMAIN cluster' \subseteq Name /\ \A n \in DOMAIN cluster' : cluster'[n] \in NodeOf
    <2>1. CASE Join
      <3>1. PICK n \in Name \ DOMAIN cluster, m \in Machine :
                   cluster' = With(cluster, n, [ip |-> m, ready |-> TRUE, cordoned |-> FALSE])
        BY <2>1 DEF Join
      <3>2. [ip |-> m, ready |-> TRUE, cordoned |-> FALSE] \in NodeOf
        BY DEF NodeOf
      <3>3. /\ DOMAIN cluster' = DOMAIN cluster \cup {n}
            /\ \A k \in DOMAIN cluster' : cluster'[k] \in NodeOf
        BY <3>1, <3>2 DEF NodeAuthTypeOK, With
      <3> QED
        BY <3>1, <3>3 DEF NodeAuthTypeOK
    <2>2. CASE ReadyChanges
      <3>1. PICK n \in DOMAIN cluster : cluster' = [cluster EXCEPT ![n].ready = ~@]
        BY <2>2 DEF ReadyChanges
      <3>2. cluster[n] \in NodeOf
        BY DEF NodeAuthTypeOK
      <3>3. [cluster[n] EXCEPT !.ready = ~@] \in NodeOf
        BY <3>2 DEF NodeOf
      <3> QED
        BY <3>1, <3>3 DEF NodeAuthTypeOK
    <2>3. CASE AgentStarts \/ AgentEnds \/ ClientsLost
      BY <2>3 DEF AgentStarts, AgentEnds, ClientsLost, NodeAuthTypeOK
    <2> QED
      BY <2>1, <2>2, <2>3
  <1> QED
    BY <1>1, <1>2, <1>3, <1>4 DEF NodeAuthTypeOK

LEMMA ListFacts ==
  ASSUME NEW S, NEW s \in Seq(S)
  PROVE  <<>> \in Seq(S) /\ (s # <<>> => Head(s) \in S /\ Tail(s) \in Seq(S))
  OBVIOUS

(* The server takes the next node of the list.                             *)
LEMMA ScanTypeOK ==
  ASSUME NodeAuthAssumption, NodeAuthTypeOK,
         \/ ParsecInit \/ GetNodes \/ ScanEnds \/ Skip \/ Again \/ NewMaster \/ NewNode
         \/ Ping \/ PingError \/ WaitEnds
  PROVE  NodeAuthTypeOK'
  <1>1. UNCHANGED <<cluster, events, agent, encStr>> /\ clients' \subseteq Machine \cup {Server}
    BY DEF ParsecInit, GetNodes, ScanEnds, Skip, Again, NewMaster, NewNode, Ping, PingError,
           WaitEnds, world, server, ApiNewClient, NodeAuthTypeOK
  <1>2. items' \in Seq(Item)
    <2>1. items \in Seq(Item)
      BY DEF NodeAuthTypeOK, Item
    <2>2. CASE GetNodes
      BY <2>2, GetNodesItems
    <2>3. CASE ~GetNodes
      <3>1. items' = items \/ items' = <<>> \/ (items # <<>> /\ items' = Tail(items))
        BY <2>3 DEF ParsecInit, ScanEnds, Skip, Again, NewMaster, NewNode, Ping, PingError,
                    WaitEnds, world, server
      <3>2. <<>> \in Seq(Item) /\ (items # <<>> => Tail(items) \in Seq(Item))
        BY <2>1, ListFacts
      <3> QED
        BY <2>1, <3>1, <3>2
    <2> QED
      BY <2>2, <2>3
  <1>3. items # <<>> => /\ Head(items).name \in Name /\ Head(items).ip \in Machine
    <2>1. items \in Seq(Item)
      BY DEF NodeAuthTypeOK, Item
    <2>2. items # <<>> => Head(items) \in Item
      BY <2>1, ListFacts
    <2> QED
      BY <2>2 DEF Item
  <1>4. /\ DOMAIN clusterNodes' \subseteq Name
        /\ DOMAIN clusterNodes \subseteq DOMAIN clusterNodes'
        /\ \A n \in DOMAIN clusterNodes' : clusterNodes'[n] \in Cached
        /\ NewNode => Head(items).name \in DOMAIN clusterNodes'
    <2>1. CASE NewMaster \/ NewNode
      <3>1. PICK e \in Cached : clusterNodes' = With(clusterNodes, Head(items).name, e)
        <4>1. CASE NewMaster
          <5>1. [pass |-> TRUE, ip |-> Head(items).ip, data |-> NoNonce, waitTime |-> "zero"]
                   \in Cached
            BY <1>3, <4>1 DEF NewMaster, Cached
          <5> QED
            BY <4>1, <5>1 DEF NewMaster
        <4>2. CASE NewNode
          <5>1. [pass |-> FALSE, ip |-> Head(items).ip, data |-> Head(items).name,
                 waitTime |-> "zero"] \in Cached
            BY <1>3, <4>2 DEF NewNode, Cached
          <5> QED
            BY <4>2, <5>1 DEF NewNode
        <4> QED
          BY <2>1, <4>1, <4>2
      <3>2. items # <<>>
        BY <2>1 DEF NewMaster, NewNode
      <3> QED
        BY <1>3, <3>1, <3>2 DEF NodeAuthTypeOK, With
    <2>2. CASE PingError \/ WaitEnds
      <3>1. PICK n \in DOMAIN clusterNodes, v \in {"zero", "counting", "over"} :
                   clusterNodes' = [clusterNodes EXCEPT ![n].waitTime = v]
        BY <2>2 DEF PingError, WaitEnds, NodeAuthTypeOK
      <3>2. ~NewNode
        BY <2>2 DEF NewNode, PingError, WaitEnds
      <3>3. \A k \in DOMAIN clusterNodes : clusterNodes[k] \in Cached
        BY DEF NodeAuthTypeOK
      <3>4. /\ DOMAIN clusterNodes' = DOMAIN clusterNodes
            /\ \A k \in DOMAIN clusterNodes : clusterNodes'[k] \in Cached
        BY <3>1, <3>3 DEF Cached
      <3> QED
        BY <3>2, <3>4 DEF NodeAuthTypeOK
    <2>3. CASE ~(NewMaster \/ NewNode \/ PingError \/ WaitEnds)
      BY <2>3 DEF ParsecInit, GetNodes, ScanEnds, Skip, Again, Ping, world, server, NodeAuthTypeOK
    <2> QED
      BY <2>1, <2>2, <2>3
  <1>5. /\ node' \in DOMAIN clusterNodes' \cup {NoNode}
        /\ node' = NoNode <=> pc' \in {"init", "get", "scan"}
        /\ pc' \in {"init", "get", "scan", "ping", "version", "agent_client", "agent_encrypt",
                    "client", "decrypt"} \cup Removal
    <2>1. NoNode \notin Name
      BY DEF NodeAuthAssumption, NoNode
    <2>2. CASE NewNode
      BY <1>3, <1>4, <2>1, <2>2 DEF NewNode, Removal
    <2>3. CASE Again
      BY <1>3, <1>4, <2>1, <2>3 DEF Again, Removal
    <2>4. CASE ~(NewNode \/ Again)
      BY <1>4, <2>4 DEF ParsecInit, GetNodes, ScanEnds, Skip, NewMaster, Ping, PingError, WaitEnds,
                        world, server, NodeAuthTypeOK, Removal
    <2> QED
      BY <2>2, <2>3, <2>4
  <1> QED
    BY <1>1, <1>2, <1>4, <1>5 DEF NodeAuthTypeOK, Item

(* The server verifies or removes the node.                                *)
LEMMA VerifyTypeOK ==
  ASSUME NodeAuthAssumption, NodeAuthTypeOK,
         \/ IsAgentReady \/ CallTimeout \/ AgentClient \/ AgentEncrypt \/ AgentRefuses
         \/ OwnClient \/ Decrypt \/ DecryptError
         \/ Cordon \/ Drain \/ Delete \/ KubectlError
  PROVE  NodeAuthTypeOK'
  <1>1. UNCHANGED <<events, agent, items>>
    BY DEF IsAgentReady, CallTimeout, AgentClient, AgentEncrypt, AgentRefuses, OwnClient, Decrypt,
           DecryptError, Cordon, Drain, Delete, KubectlError, world, server
  <1>2. node \in DOMAIN clusterNodes
    BY DEF IsAgentReady, CallTimeout, AgentClient, AgentEncrypt, AgentRefuses, OwnClient, Decrypt,
           DecryptError, Cordon, Drain, Delete, KubectlError, NodeAuthTypeOK, Removal
  <1>3. ip \in Machine /\ clusterNodes[node].data \in Name \cup {NoNonce}
    BY <1>2, EntryFacts DEF NodeAuthTypeOK, ip
  <1>4. clients' \subseteq Machine \cup {Server}
    BY <1>3 DEF IsAgentReady, CallTimeout, AgentClient, AgentEncrypt, AgentRefuses, OwnClient,
           Decrypt, DecryptError, Cordon, Drain, Delete, KubectlError, world, ApiNewClient,
           ApiNewClientError, NodeAuthTypeOK
  <1>5. encStr' \in [own_key : BOOLEAN, data : Name \cup {NoNonce}]
    <2>1. CASE AgentEncrypt
      <3>1. encStr' = [own_key |-> ip \in Keyed, data |-> clusterNodes[node].data]
        BY <2>1 DEF AgentEncrypt, Answer
      <3> QED
        BY <1>3, <3>1
    <2>2. CASE ~AgentEncrypt
      <3>1. encStr' = encStr \/ encStr' = NoAnswer
        BY <2>2 DEF IsAgentReady, CallTimeout, AgentClient, AgentRefuses, OwnClient, Decrypt,
                    DecryptError, Cordon, Drain, Delete, KubectlError, server, Fails
      <3>2. NoAnswer \in [own_key : BOOLEAN, data : Name \cup {NoNonce}]
        BY DEF NoAnswer, Answer
      <3>3. encStr \in [own_key : BOOLEAN, data : Name \cup {NoNonce}]
        BY DEF NodeAuthTypeOK
      <3> QED
        BY <3>1, <3>2, <3>3
    <2> QED
      BY <2>1, <2>2
  <1>6. DOMAIN cluster' \subseteq Name /\ \A n \in DOMAIN cluster' : cluster'[n] \in NodeOf
    <2>1. CASE Cordon \/ Drain
      <3>1. cluster[node] \in NodeOf /\ cluster' = [cluster EXCEPT ![node].cordoned = TRUE]
        BY <2>1 DEF Cordon, Drain, NodeAuthTypeOK
      <3>2. [cluster[node] EXCEPT !.cordoned = TRUE] \in NodeOf
        BY <3>1 DEF NodeOf
      <3> QED
        BY <3>1, <3>2 DEF NodeAuthTypeOK
    <2>2. CASE Delete
      BY <2>2 DEF Delete, Without, NodeAuthTypeOK
    <2>3. CASE ~(Cordon \/ Drain \/ Delete)
      BY <2>3 DEF IsAgentReady, CallTimeout, AgentClient, AgentEncrypt, AgentRefuses, OwnClient,
                  Decrypt, DecryptError, KubectlError, world, NodeAuthTypeOK
    <2> QED
      BY <2>1, <2>2, <2>3
  <1>7. /\ DOMAIN clusterNodes' = DOMAIN clusterNodes
        /\ \A n \in DOMAIN clusterNodes' : clusterNodes'[n] \in Cached
    <2>1. CASE clusterNodes' = [clusterNodes EXCEPT ![node].pass = TRUE]
      BY <1>2, <2>1, PassFacts DEF NodeAuthTypeOK
    <2>2. CASE clusterNodes' = clusterNodes
      BY <2>2 DEF NodeAuthTypeOK
    <2> QED
      BY <2>1, <2>2 DEF IsAgentReady, CallTimeout, AgentClient, AgentEncrypt, AgentRefuses,
           OwnClient, Decrypt, DecryptError, Cordon, Drain, Delete, KubectlError, server
  <1>8. /\ node' \in DOMAIN clusterNodes \cup {NoNode}
        /\ node' = NoNode <=> pc' \in {"init", "get", "scan"}
        /\ pc' \in {"init", "get", "scan", "ping", "version", "agent_client", "agent_encrypt",
                    "client", "decrypt"} \cup Removal
    BY <1>2 DEF IsAgentReady, CallTimeout, AgentClient, AgentEncrypt, AgentRefuses, OwnClient,
           Decrypt, DecryptError, Cordon, Drain, Delete, KubectlError, server, Fails, Done,
           NodeAuthTypeOK, Removal
  <1> QED
    BY <1>1, <1>4, <1>5, <1>6, <1>7, <1>8 DEF NodeAuthTypeOK

(* Every variable stays in its range.                                      *)
THEOREM TypeCorrect == ASSUME NodeAuthAssumption PROVE Spec => []NodeAuthTypeOK
  <1>1. Init => NodeAuthTypeOK
    BY InitTypeOK
  <1>2. NodeAuthTypeOK /\ [Next]_vars => NodeAuthTypeOK'
    <2>1. NodeAuthTypeOK /\ Next => NodeAuthTypeOK'
      BY WorldTypeOK, ScanTypeOK, VerifyTypeOK DEF Next, Verify
    <2>2. NodeAuthTypeOK /\ UNCHANGED vars => NodeAuthTypeOK'
      BY DEF vars, world, NodeAuthTypeOK
    <2> QED
      BY <2>1, <2>2
  <1> QED
    BY <1>1, <1>2, PTL DEF Spec
---------------------------------------------------------------------------
LEMMA AnswerFacts ==
  ASSUME NEW own, NEW nonce
  PROVE  Answer(own, nonce).own_key = own /\ Answer(own, nonce).data = nonce
  BY DEF Answer

LEMMA InitAuthInv ==
  ASSUME NodeAuthAssumption, Init
  PROVE  AuthInv
  <1>1. DOMAIN clusterNodes = {} /\ encStr.own_key = FALSE /\ node = NoNode /\ pc = "init"
    BY AnswerFacts DEF Init, NoAnswer
  <1> QED
    BY <1>1, InitTypeOK DEF AuthInv, PassIsEarned, Attempt, RemovalHasCause, Removal

(* The world changes: a failure that concerns the attempt excuses it.      *)
LEMMA WorldInv ==
  ASSUME AuthInv, Join \/ ReadyChanges \/ AgentStarts \/ AgentEnds \/ ClientsLost \/ Skip
  PROVE  PassIsEarned' /\ Attempt'
  <1>1. UNCHANGED <<pc, clusterNodes, node, encStr, proved>>
    BY DEF Join, ReadyChanges, AgentStarts, AgentEnds, ClientsLost, Skip, server
  <1>2. ip' = ip
    BY <1>1 DEF ip
  <1>3. excused => excused'
    BY DEF Join, ReadyChanges, AgentStarts, AgentEnds, ClientsLost, Skip, server
  <1>4. /\ pc = "agent_encrypt" /\ ip \in clients => excused' \/ ip \in clients'
        /\ pc = "decrypt" /\ Server \in clients => excused' \/ Server \in clients'
    <2>1. CASE ClientsLost
      <3>1. PICK h \in clients : clients' = clients \ {h} /\ excused' = (excused \/ Concerned(h))
        BY <2>1 DEF ClientsLost
      <3>2. pc \in {"agent_encrypt", "decrypt"} => node # NoNode
        BY DEF AuthInv, NodeAuthTypeOK
      <3> QED
        BY <3>1, <3>2 DEF Concerned, ip
    <2>2. CASE ~ClientsLost
      BY <2>2 DEF Join, ReadyChanges, AgentStarts, AgentEnds, Skip, world
    <2> QED
      BY <2>1, <2>2
  <1> QED
    BY <1>1, <1>2, <1>3, <1>4 DEF AuthInv, PassIsEarned, Attempt, RemovalHasCause

(* Time passes, or a ping fails: of the cache only waitTime changes.       *)
LEMMA WaitInv ==
  ASSUME AuthInv, WaitEnds \/ PingError
  PROVE  PassIsEarned' /\ Attempt'
  <1>1. PICK n \in DOMAIN clusterNodes, v \in {"zero", "counting", "over"} :
               clusterNodes' = [clusterNodes EXCEPT ![n].waitTime = v]
    BY DEF PingError, WaitEnds, AuthInv, NodeAuthTypeOK
  <1>2. \A k \in DOMAIN clusterNodes : clusterNodes[k] \in Cached
    BY DEF AuthInv, NodeAuthTypeOK
  <1>3. /\ DOMAIN clusterNodes' = DOMAIN clusterNodes
        /\ \A k \in DOMAIN clusterNodes : /\ clusterNodes'[k].pass = clusterNodes[k].pass
                                          /\ clusterNodes'[k].ip = clusterNodes[k].ip
                                          /\ clusterNodes'[k].data = clusterNodes[k].data
    BY <1>1, <1>2 DEF Cached
  <1>4. UNCHANGED <<clients, encStr, proved>>
    BY DEF WaitEnds, PingError, world
  <1>5. PassIsEarned'
    BY <1>3, <1>4 DEF AuthInv, PassIsEarned
  <1>6. Attempt'
    <2>1. CASE WaitEnds
      <3>1. UNCHANGED <<pc, node, excused>>
        BY <2>1 DEF WaitEnds
      <3>2. node # NoNode => node \in DOMAIN clusterNodes
        BY DEF AuthInv, NodeAuthTypeOK
      <3>3. node = NoNode => pc \notin {"client", "decrypt", "agent_encrypt"} \cup Removal
        BY DEF AuthInv, NodeAuthTypeOK, Removal
      <3> QED
        BY <1>3, <1>4, <3>1, <3>2, <3>3 DEF AuthInv, Attempt, RemovalHasCause, ip
    <2>2. CASE PingError
      BY <1>4, <2>2 DEF PingError, AuthInv, Attempt, RemovalHasCause, Removal
    <2> QED
      BY <2>1, <2>2
  <1> QED
    BY <1>5, <1>6

(* The server goes through the list: no attempt is going on.               *)
LEMMA ScanInv ==
  ASSUME NodeAuthAssumption, AuthInv,
         ParsecInit \/ GetNodes \/ ScanEnds \/ Again \/ NewMaster \/ NewNode \/ Ping
  PROVE  PassIsEarned' /\ Attempt'
  <1>1. UNCHANGED <<encStr, proved>> /\ pc \in {"init", "get", "scan", "ping"}
    BY DEF ParsecInit, GetNodes, ScanEnds, Again, NewMaster, NewNode, Ping, server
  <1>2. ~encStr.own_key
    BY <1>1 DEF AuthInv, Attempt
  <1>3. pc' \in {"get", "scan", "ping", "version"}
    BY DEF ParsecInit, GetNodes, ScanEnds, Again, NewMaster, NewNode, Ping
  <1>4. PassIsEarned' /\ (node' # NoNode => ~clusterNodes'[node'].pass)
    <2>1. CASE NewMaster
      <3>1. node = NoNode /\ node' = node
        BY <2>1 DEF NewMaster, AuthInv, NodeAuthTypeOK
      <3>2. PICK n, e : /\ n \in Master \ DOMAIN clusterNodes
                        /\ clusterNodes' = With(clusterNodes, n, e)
        BY <2>1 DEF NewMaster
      <3>3. \A k \in DOMAIN clusterNodes' \ Master :
               k \in DOMAIN clusterNodes /\ clusterNodes'[k] = clusterNodes[k]
        BY <3>2 DEF With
      <3> QED
        BY <1>1, <3>1, <3>3 DEF AuthInv, PassIsEarned
    <2>2. CASE NewNode
      <3>1. PICK n, e : /\ clusterNodes' = With(clusterNodes, n, e) /\ node' = n
                        /\ ~e.pass
        BY <2>2 DEF NewNode
      <3>2. /\ DOMAIN clusterNodes' = DOMAIN clusterNodes \cup {n} /\ clusterNodes'[n] = e
            /\ \A k \in DOMAIN clusterNodes \ {n} : clusterNodes'[k] = clusterNodes[k]
        BY <3>1 DEF With
      <3> QED
        BY <1>1, <3>1, <3>2 DEF AuthInv, PassIsEarned
    <2>3. CASE Again
      BY <1>1, <2>3 DEF Again, SkipCached, AuthInv, PassIsEarned
    <2>4. CASE ParsecInit \/ GetNodes \/ ScanEnds \/ Ping
      BY <1>1, <2>4 DEF ParsecInit, GetNodes, ScanEnds, Ping, server, AuthInv, PassIsEarned, Attempt
    <2> QED
      BY <2>1, <2>2, <2>3, <2>4
  <1> QED
    BY <1>1, <1>2, <1>3, <1>4 DEF Attempt, RemovalHasCause, Removal

(* A call to the agent or to the REST service of the server.               *)
LEMMA CallInv ==
  ASSUME AuthInv,
         \/ IsAgentReady \/ CallTimeout \/ AgentClient \/ AgentEncrypt \/ AgentRefuses
         \/ OwnClient \/ DecryptError
  PROVE  PassIsEarned' /\ Attempt'
  <1>1. UNCHANGED <<clusterNodes, node>> /\ ip' = ip /\ proved \subseteq proved'
    BY DEF IsAgentReady, CallTimeout, AgentClient, AgentEncrypt, AgentRefuses, OwnClient,
           DecryptError, server, ip
  <1>2. ~NoAnswer.own_key
    BY AnswerFacts DEF NoAnswer
  <1>3. PassIsEarned' /\ (node' # NoNode => ~clusterNodes'[node'].pass)
    BY <1>1 DEF AuthInv, PassIsEarned, Attempt
  <1>4. CASE IsAgentReady
    BY <1>1, <1>3, <1>4 DEF IsAgentReady, server, AuthInv, Attempt, RemovalHasCause, Removal
  <1>5. CASE CallTimeout \/ DecryptError
    BY <1>1, <1>2, <1>3, <1>5 DEF CallTimeout, DecryptError, Fails, Attempt, RemovalHasCause, Removal
  <1>6. CASE AgentClient
    BY <1>1, <1>3, <1>6 DEF AgentClient, ApiNewClient, ApiNewClientError, AuthInv, Attempt,
                            RemovalHasCause, Removal
  <1>7. CASE AgentEncrypt
    <2>1. /\ pc' = "client"
          /\ encStr' = Answer(ip \in Keyed, clusterNodes[node].data)
          /\ ip \in Keyed => <<ip, clusterNodes[node].data>> \in proved'
      BY <1>7 DEF AgentEncrypt
    <2>2. encStr'.own_key => <<ip, encStr'.data>> \in proved'
      <3>1. encStr'.data = clusterNodes[node].data /\ encStr'.own_key = (ip \in Keyed)
        BY <2>1 DEF Answer
      <3> QED
        BY <2>1, <3>1
    <2> QED
      BY <1>1, <1>3, <2>1, <2>2 DEF Attempt, RemovalHasCause, Removal
  <1>8. CASE AgentRefuses
    BY <1>1, <1>2, <1>3, <1>8 DEF AgentRefuses, Fails, AuthInv, Attempt, RemovalHasCause, Removal
  <1>9. CASE OwnClient
    BY <1>1, <1>3, <1>9 DEF OwnClient, ApiNewClient, ApiNewClientError, AuthInv, Attempt,
                            RemovalHasCause, Removal
  <1> QED
    BY <1>4, <1>5, <1>6, <1>7, <1>8, <1>9

(* The verdict, and the removal.                                           *)
LEMMA VerdictInv ==
  ASSUME AuthInv, Decrypt \/ Cordon \/ Drain \/ Delete \/ KubectlError
  PROVE  PassIsEarned' /\ Attempt'
  <1>1. node \in DOMAIN clusterNodes /\ proved' = proved
    BY DEF Decrypt, Cordon, Drain, Delete, KubectlError, server, AuthInv, NodeAuthTypeOK, Removal
  <1>2. CASE Decrypt
    <2>1. ~encStr'.own_key
      BY <1>2, AnswerFacts DEF Decrypt, NoAnswer
    <2>2. CASE Verified(node)
      <3>1. /\ clusterNodes' = [clusterNodes EXCEPT ![node].pass = TRUE]
            /\ pc' = "get" /\ node' = NoNode
        BY <1>2, <2>2 DEF Decrypt, Done
      <3>2. <<ip, clusterNodes[node].data>> \in proved
        <4>1. encStr.own_key /\ encStr.data = clusterNodes[node].data
          BY <2>2 DEF Verified, Answer
        <4> QED
          BY <4>1 DEF AuthInv, Attempt
      <3>3. \A k \in DOMAIN clusterNodes : clusterNodes[k] \in Cached
        BY DEF AuthInv, NodeAuthTypeOK
      <3>4. /\ DOMAIN clusterNodes' = DOMAIN clusterNodes
            /\ \A k \in DOMAIN clusterNodes :
                 /\ k # node => clusterNodes'[k].pass = clusterNodes[k].pass
                 /\ clusterNodes'[k].ip = clusterNodes[k].ip
                 /\ clusterNodes'[k].data = clusterNodes[k].data
        BY <1>1, <3>1, <3>3 DEF Cached
      <3>5. PassIsEarned'
        BY <1>1, <3>2, <3>4 DEF AuthInv, PassIsEarned, ip
      <3> QED
        BY <2>1, <3>1, <3>5 DEF Attempt, RemovalHasCause, Removal
    <2>3. CASE ~Verified(node)
      <3>1. UNCHANGED <<clusterNodes, node, excused>> /\ ip' = ip /\ pc = "decrypt" /\ pc' = "cordon"
        BY <1>2, <2>3 DEF Decrypt, ip
      <3>2. excused \/ ip \notin Keyed
        <4>1. SUFFICES ASSUME ~excused, ip \in Keyed PROVE FALSE
          OBVIOUS
        <4>2. Server \in clients /\ encStr = Answer(ip \in Keyed, clusterNodes[node].data)
          BY <3>1, <4>1 DEF AuthInv, Attempt
        <4>3. (ip \in Keyed) = TRUE
          BY <4>1
        <4> QED
          BY <2>3, <4>2, <4>3 DEF Verified
      <3> QED
        BY <1>1, <2>1, <3>1, <3>2 DEF AuthInv, PassIsEarned, Attempt, RemovalHasCause, Removal
    <2> QED
      BY <2>2, <2>3
  <1>3. CASE Cordon \/ Drain
    BY <1>3 DEF Cordon, Drain, server, ip, AuthInv, PassIsEarned, Attempt, RemovalHasCause, Removal
  <1>4. CASE Delete \/ KubectlError
    <2>1. UNCHANGED <<clusterNodes, encStr, proved>> /\ pc' = "get" /\ node' = NoNode
      BY <1>4 DEF Delete, KubectlError, Done
    <2>2. ~encStr.own_key
      BY <1>4 DEF Delete, KubectlError, AuthInv, Attempt, Removal
    <2> QED
      BY <2>1, <2>2 DEF AuthInv, PassIsEarned, Attempt, RemovalHasCause, Removal
  <1> QED
    BY <1>2, <1>3, <1>4

(* The inductive invariant.                                                *)
LEMMA AuthInvHolds == ASSUME NodeAuthAssumption PROVE Spec => []AuthInv
  <1>1. Init => AuthInv
    BY InitAuthInv
  <1>2. AuthInv /\ [Next]_vars => AuthInv'
    <2>1. AuthInv /\ Next => AuthInv'
      <3> SUFFICES ASSUME AuthInv, Next PROVE AuthInv'
        OBVIOUS
      <3>1. NodeAuthTypeOK'
        BY WorldTypeOK, ScanTypeOK, VerifyTypeOK DEF AuthInv, Next, Verify
      <3>2. PassIsEarned' /\ Attempt'
        BY WorldInv, WaitInv, ScanInv, CallInv, VerdictInv DEF Next, Verify
      <3> QED
        BY <3>1, <3>2 DEF AuthInv
    <2>2. AuthInv /\ UNCHANGED vars => AuthInv'
      BY DEF vars, world, AuthInv, NodeAuthTypeOK, PassIsEarned, Attempt, RemovalHasCause, ip
    <2> QED
      BY <2>1, <2>2
  <1> QED
    BY <1>1, <1>2, PTL DEF Spec

(* A node that passed was asked for its own nonce, and had the key.        *)
THEOREM PassesEarned == ASSUME NodeAuthAssumption PROVE Spec => []PassIsEarned
  <1>1. AuthInv => PassIsEarned
    BY DEF AuthInv
  <1> QED
    BY <1>1, AuthInvHolds, PTL

(* No removal begins without another key or a failure in this attempt.     *)
THEOREM RemovalsHaveCause == ASSUME NodeAuthAssumption PROVE Spec => []RemovalHasCause
  <1>1. AuthInv => RemovalHasCause
    BY DEF AuthInv, Attempt
  <1> QED
    BY <1>1, AuthInvHolds, PTL

(* The server cordons or deletes no node that has passed.                  *)
THEOREM VerifiedStay == ASSUME NodeAuthAssumption PROVE Spec => VerifiedNodesStay
  <1> DEFINE Stay == \A n \in DOMAIN clusterNodes \cap DOMAIN cluster :
                        clusterNodes[n].pass =>
                          n \in DOMAIN cluster' /\ (cluster'[n].cordoned => cluster[n].cordoned)
  <1>1. AuthInv /\ [Next]_vars => [Stay]_vars
    <2> SUFFICES ASSUME AuthInv, Next PROVE Stay
      OBVIOUS
    <2>1. CASE Join
      <3>1. PICK n, e : /\ n \in Name \ DOMAIN cluster
                        /\ cluster' = With(cluster, n, e)
        BY <2>1 DEF Join
      <3>2. \A k \in DOMAIN cluster : k \in DOMAIN cluster' /\ cluster'[k] = cluster[k]
        BY <3>1 DEF With
      <3> QED
        BY <3>2
    <2>2. CASE ReadyChanges
      <3>1. PICK n \in DOMAIN cluster : cluster' = [cluster EXCEPT ![n].ready = ~@]
        BY <2>2 DEF ReadyChanges
      <3>2. \A k \in DOMAIN cluster : cluster[k] \in NodeOf
        BY DEF AuthInv, NodeAuthTypeOK
      <3>3. \A k \in DOMAIN cluster :
               k \in DOMAIN cluster' /\ cluster'[k].cordoned = cluster[k].cordoned
        BY <3>1, <3>2 DEF NodeOf
      <3> QED
        BY <3>3
    <2>3. CASE Cordon \/ Drain \/ Delete
      <3>1. ~clusterNodes[node].pass
        BY <2>3 DEF Cordon, Drain, Delete, AuthInv, Attempt, NodeAuthTypeOK
      <3>2. \A k \in DOMAIN cluster \ {node} : k \in DOMAIN cluster' /\ cluster'[k] = cluster[k]
        BY <2>3 DEF Cordon, Drain, Delete, Without
      <3> QED
        BY <3>1, <3>2
    <2>4. CASE ~(Join \/ ReadyChanges \/ Cordon \/ Drain \/ Delete)
      <3>1. cluster' = cluster
        BY <2>4 DEF Next, Verify, AgentStarts, AgentEnds, ClientsLost, WaitEnds, ParsecInit, GetNodes,
             ScanEnds, Skip, Again, NewMaster, NewNode, Ping, PingError, IsAgentReady, CallTimeout,
             AgentClient, AgentEncrypt, AgentRefuses, OwnClient, Decrypt, DecryptError,
             KubectlError, world
      <3> QED
        BY <3>1
    <2> QED
      BY <2>1, <2>2, <2>3, <2>4
  <1>2. AuthInv /\ [Next]_vars => [\A n \in DOMAIN clusterNodes \cap DOMAIN cluster :
          clusterNodes[n].pass =>
            n \in DOMAIN cluster' /\ (cluster'[n].cordoned => cluster[n].cordoned)]_vars
    BY <1>1
  <1> QED
    BY <1>2, AuthInvHolds, PTL DEF Spec, VerifiedNodesStay
================================================================================
