------------------------------ MODULE NodeAuth ------------------------------
(***************************************************************************)
(* The authentication of cluster nodes, over four programs: the server     *)
(* (NodeAuthServer: main.go, node.go), the agent of each machine           *)
(* (NodeAuthAgent), the REST service in front of Parsec on every host      *)
(* (ParsecClient/parsec.go) and the cluster behind kubectl.  The server    *)
(* lists the nodes, sends a nonce to the agent of one that it does not     *)
(* know, and removes the node unless the agent's encryption of the nonce   *)
(* decrypts to it.                                                         *)
(***************************************************************************)
EXTENDS Naturals, Sequences, FiniteSets

CONSTANTS
    Name,       (* names of nodes; kubectl lists them in this order        *)
    Master,     (* those with the label of a master                        *)
    Machine,    (* machines that nodes run on, by their address            *)
    Server,     (* the host of the server                                  *)
    Keyed,      (* machines whose MyPubKey is that of the server's MyEncKey *)
    MaxEvents   (* changes of the world that nobody waits for (bound)      *)

ASSUME NodeAuthAssumption ==
    /\ Name \subseteq Nat \ {0} /\ IsFiniteSet(Name) /\ Master \subseteq Name
    /\ Keyed \subseteq Machine /\ Server \notin Machine
    /\ MaxEvents \in Nat

VARIABLES
    cluster,        (* the nodes of the cluster                            *)
    events,         (* changes of the world so far: see Event              *)
    agent,          (* the agents that serve: past the loop of their main  *)
    clients,        (* the hosts whose REST service has a GoClient         *)
    clusterNodes,   (* the cache of the server                             *)
    pc,             (* next step of the server's loop                      *)
    items,          (* rest of the list that kubectl gave                  *)
    node,           (* the name of the node that GetNewNode is at or gave  *)
    encStr,         (* what the agent answered                             *)
    proved,         (* history: the nonces encrypted under the server's key *)
    excused         (* history: a failure outside the server in this attempt *)

world == <<cluster, events, agent, clients>>
vars == <<world, clusterNodes, pc, items, node, encStr, proved, excused>>

(* An answer: what was encrypted, and whether under the server's key.      *)
Answer(own, nonce) == [own_key |-> own, data |-> nonce]
NoNonce == 0
NoNode == 0
NoAnswer == Answer(FALSE, NoNonce)

NodeOf == [ip : Machine, ready : BOOLEAN, cordoned : BOOLEAN]
Cached == [pass : BOOLEAN, ip : Machine, data : Name \cup {NoNonce},
           waitTime : {"zero", "counting", "over"}]
Removal == {"cordon", "drain", "delete"}

NodeAuthTypeOK ==
    /\ DOMAIN cluster \subseteq Name /\ \A n \in DOMAIN cluster : cluster[n] \in NodeOf
    /\ events \in 0 .. MaxEvents
    /\ agent \subseteq Machine /\ clients \subseteq Machine \cup {Server}
    /\ DOMAIN clusterNodes \subseteq Name
    /\ \A n \in DOMAIN clusterNodes : clusterNodes[n] \in Cached
    /\ pc \in {"init", "get", "scan", "ping", "version", "agent_client", "agent_encrypt",
               "client", "decrypt"} \cup Removal
    /\ items \in Seq([name : Name, ip : Machine, ready : BOOLEAN])
    /\ node \in DOMAIN clusterNodes \cup {NoNode}
    /\ node = NoNode <=> pc \in {"init", "get", "scan"}
    /\ encStr \in [own_key : BOOLEAN, data : Name \cup {NoNonce}]

Without(f, x) == [y \in DOMAIN f \ {x} |-> f[y]]
With(f, x, v) == [y \in DOMAIN f \cup {x} |-> IF y = x THEN v ELSE f[y]]

Init ==
    /\ \E S \in SUBSET Name : cluster \in [S -> [ip : Machine, ready : {TRUE}, cordoned : {FALSE}]]
    /\ events = 0
    /\ agent = {} /\ clients = {}
    /\ clusterNodes = [n \in {} |-> n]
    /\ pc = "init" /\ items = <<>> /\ node = NoNode /\ encStr = NoAnswer
    /\ proved = {} /\ excused = FALSE

server == <<clusterNodes, items, node, encStr, proved, excused>>

(***************************************************************************)
(* The world: nodes come and change, agents and REST services start and    *)
(* end, time passes.  The REST service keeps its clients in memory.        *)
(***************************************************************************)
Event == events < MaxEvents /\ events' = events + 1

(* The host takes part in the attempt that is going on.                    *)
Concerned(h) == node # NoNode /\ h \in {clusterNodes[node].ip, Server}

Join ==
    /\ Event
    /\ \E n \in Name \ DOMAIN cluster, m \in Machine :
         cluster' = With(cluster, n, [ip |-> m, ready |-> TRUE, cordoned |-> FALSE])
    /\ UNCHANGED <<agent, clients, pc, server>>

ReadyChanges ==
    /\ Event
    /\ \E n \in DOMAIN cluster : cluster' = [cluster EXCEPT ![n].ready = ~@]
    /\ UNCHANGED <<agent, clients, pc, server>>

(* main of the agent: no request is served before its client exists.       *)
AgentStarts ==
    /\ \E m \in Machine \ agent : agent' = agent \cup {m} /\ clients' = clients \cup {m}
    /\ UNCHANGED <<cluster, events, pc, server>>

AgentEnds ==
    /\ Event
    /\ \E m \in agent : agent' = agent \ {m} /\ excused' = (excused \/ Concerned(m))
    /\ UNCHANGED <<cluster, clients, pc, clusterNodes, items, node, encStr, proved>>

(* A restart of the REST service, or DELETE /client: clients is empty.     *)
ClientsLost ==
    /\ Event
    /\ \E h \in clients : clients' = clients \ {h} /\ excused' = (excused \/ Concerned(h))
    /\ UNCHANGED <<cluster, agent, pc, clusterNodes, items, node, encStr, proved>>

(* 300 seconds after waitTime.                                             *)
WaitEnds ==
    /\ \E n \in DOMAIN clusterNodes :
         /\ clusterNodes[n].waitTime = "counting"
         /\ clusterNodes' = [clusterNodes EXCEPT ![n].waitTime = "over"]
    /\ UNCHANGED <<world, pc, items, node, encStr, proved, excused>>

(***************************************************************************)
(* GetNewNode.                                                             *)
(***************************************************************************)
(* POST /client: cached, or created unless Parsec does not answer.         *)
ApiNewClient(h) == clients' = clients \cup {h}
ApiNewClientError(h) == h \notin clients /\ UNCHANGED clients

ParsecInit ==
    /\ pc = "init"
    /\ ApiNewClient(Server) /\ pc' = "get"
    /\ UNCHANGED <<cluster, events, agent, server>>

Listed(n) == [name |-> n, ip |-> cluster[n].ip, ready |-> cluster[n].ready]

(* kubectl lists by name.                                                  *)
InOrder(names) == \A i, j \in DOMAIN names : i < j => names[i] < names[j]

GetNodes ==
    /\ pc = "get" /\ pc' = "scan"
    /\ \E names \in [1 .. Cardinality(DOMAIN cluster) -> DOMAIN cluster] :
         InOrder(names) /\ items' = [i \in DOMAIN names |-> Listed(names[i])]
    /\ UNCHANGED <<world, clusterNodes, node, encStr, proved, excused>>

ScanEnds ==
    /\ pc = "scan" /\ items = <<>> /\ pc' = "get"
    /\ UNCHANGED <<world, server>>

Timeout_AfterPing(n) ==   \* mutant: only a failed ping starts the wait
    clusterNodes[n].waitTime = "over"

(* time.Now() - waitTime > 300: also when no ping has ever failed.         *)
Timeout(n) == clusterNodes[n].waitTime \in {"zero", "over"}

SkipCached_ForgetsPass(item) ==   \* mutant: nodes that have passed are verified again
    item.name \in DOMAIN clusterNodes /\ ~Timeout(item.name)

SkipCached(item) ==
    /\ item.name \in DOMAIN clusterNodes
    /\ clusterNodes[item.name].pass \/ ~Timeout(item.name)

Skip ==
    /\ pc = "scan" /\ items # <<>>
    /\ ~Head(items).ready \/ SkipCached(Head(items))
    /\ items' = Tail(items)
    /\ UNCHANGED <<world, clusterNodes, pc, node, encStr, proved, excused>>

Again ==
    /\ pc = "scan" /\ items # <<>>
    /\ Head(items).ready /\ Head(items).name \in DOMAIN clusterNodes /\ ~SkipCached(Head(items))
    /\ node' = Head(items).name /\ items' = <<>> /\ pc' = "version"
    /\ excused' = FALSE
    /\ UNCHANGED <<world, clusterNodes, encStr, proved>>

NewMaster ==
    /\ pc = "scan" /\ items # <<>>
    /\ LET n == Head(items).name
       IN  /\ Head(items).ready /\ n \in Master \ DOMAIN clusterNodes
           /\ clusterNodes' = With(clusterNodes, n,
                [pass |-> TRUE, ip |-> Head(items).ip, data |-> NoNonce, waitTime |-> "zero"])
    /\ items' = Tail(items)
    /\ UNCHANGED <<world, pc, node, encStr, proved, excused>>

(* RandomString: the nonce of a name is drawn once, and stands for it.     *)
NewNode ==
    /\ pc = "scan" /\ items # <<>>
    /\ LET n == Head(items).name
       IN  /\ Head(items).ready /\ n \notin Master \cup DOMAIN clusterNodes
           /\ clusterNodes' = With(clusterNodes, n,
                [pass |-> FALSE, ip |-> Head(items).ip, data |-> n, waitTime |-> "zero"])
           /\ node' = n
    /\ items' = Tail(items) /\ pc' = "ping"
    /\ UNCHANGED <<world, encStr, proved, excused>>

Ping ==
    /\ pc = "ping" /\ pc' = "version"
    /\ items' = <<>> /\ excused' = FALSE
    /\ UNCHANGED <<world, clusterNodes, node, encStr, proved>>

PingError ==
    /\ pc = "ping" /\ pc' = "scan" /\ node' = NoNode /\ excused' = FALSE
    /\ clusterNodes' = [clusterNodes EXCEPT ![node].waitTime = "counting"]
    /\ UNCHANGED <<world, items, encStr, proved>>

(***************************************************************************)
(* IsAgentReady and RequestVerify, with the agent's Encrypt.  A call that  *)
(* takes more than ten seconds is given up: its late answer is not read,   *)
(* or it is the rest of the answer that is not.                            *)
(***************************************************************************)
ip == clusterNodes[node].ip

Fails == pc' = "cordon" /\ encStr' = NoAnswer
Done == pc' = "get" /\ node' = NoNode /\ excused' = FALSE

IsAgentReady ==
    /\ pc = "version" /\ ip \in agent /\ pc' = "agent_client"
    /\ UNCHANGED <<world, server>>

CallTimeout ==
    /\ \/ pc \in {"version", "agent_client", "agent_encrypt"} /\ Fails
       \/ pc = "agent_encrypt" /\ pc' = "client" /\ encStr' = NoAnswer
    /\ excused' = TRUE
    /\ UNCHANGED <<world, clusterNodes, items, node, proved>>

AgentClient_Omitted ==   \* mutant: the agent takes its client for granted
    pc = "agent_client" /\ pc' = "agent_encrypt" /\ UNCHANGED <<world, server>>

AgentClient ==
    /\ pc = "agent_client" /\ ip \in agent /\ pc' = "agent_encrypt"
    /\ \/ ApiNewClient(ip) /\ UNCHANGED excused
       \/ ApiNewClientError(ip) /\ excused' = TRUE
    /\ UNCHANGED <<cluster, events, agent, clusterNodes, items, node, encStr, proved>>

AgentEncrypt ==
    /\ pc = "agent_encrypt" /\ ip \in agent /\ ip \in clients
    /\ encStr' = Answer(ip \in Keyed, clusterNodes[node].data)
    /\ proved' = IF ip \in Keyed THEN proved \cup {<<ip, clusterNodes[node].data>>} ELSE proved
    /\ pc' = "client"
    /\ UNCHANGED <<world, clusterNodes, items, node, excused>>

(* CODE_INVALID_CLIENT, CODE_PARSEC_ERROR, or no agent any more.           *)
AgentRefuses ==
    /\ \/ pc \in {"version", "agent_client", "agent_encrypt"} /\ ip \notin agent
          /\ excused' = TRUE
       \/ pc = "agent_encrypt" /\ ip \in agent /\ ip \notin clients /\ UNCHANGED excused
    /\ Fails
    /\ UNCHANGED <<world, clusterNodes, items, node, proved>>

(* The answer of POST /client is not looked at.                            *)
OwnClient ==
    /\ pc = "client" /\ pc' = "decrypt"
    /\ \/ ApiNewClient(Server) /\ UNCHANGED excused
       \/ ApiNewClientError(Server) /\ excused' = TRUE
    /\ UNCHANGED <<cluster, events, agent, clusterNodes, items, node, encStr, proved>>

Verified_UnlessRefused(n) ==   \* mutant: an answer that is not OK counts as a match
    Server \notin clients \/ encStr.data = clusterNodes[n].data

(* The status of POST /decrypt is OK and the plain text is the nonce.      *)
Verified(n) == Server \in clients /\ encStr = Answer(TRUE, clusterNodes[n].data)

Decrypt ==
    /\ pc = "decrypt" /\ encStr' = NoAnswer
    /\ IF Verified(node)
       THEN clusterNodes' = [clusterNodes EXCEPT ![node].pass = TRUE] /\ Done
       ELSE pc' = "cordon" /\ UNCHANGED <<clusterNodes, node, excused>>
    /\ UNCHANGED <<world, items, proved>>

DecryptError ==
    /\ pc = "decrypt" /\ Fails /\ excused' = TRUE
    /\ UNCHANGED <<world, clusterNodes, items, node, proved>>

(***************************************************************************)
(* RemoveSelf: kubectl cordon, drain and delete.  It returns at the first  *)
(* that fails, and the cache is not told of the outcome.                   *)
(***************************************************************************)
Cordon ==
    /\ pc = "cordon" /\ node \in DOMAIN cluster
    /\ cluster' = [cluster EXCEPT ![node].cordoned = TRUE] /\ pc' = "drain"
    /\ UNCHANGED <<events, agent, clients, server>>

Drain ==
    /\ pc = "drain" /\ node \in DOMAIN cluster
    /\ cluster' = [cluster EXCEPT ![node].cordoned = TRUE] /\ pc' = "delete"
    /\ UNCHANGED <<events, agent, clients, server>>

Delete ==
    /\ pc = "delete" /\ node \in DOMAIN cluster
    /\ cluster' = Without(cluster, node) /\ Done
    /\ UNCHANGED <<events, agent, clients, clusterNodes, items, encStr, proved>>

KubectlError ==
    /\ pc \in Removal /\ Done
    /\ UNCHANGED <<world, clusterNodes, items, encStr, proved>>

Verify ==
    \/ ParsecInit \/ GetNodes \/ ScanEnds \/ Skip \/ Again \/ NewMaster \/ NewNode
    \/ Ping \/ PingError
    \/ IsAgentReady \/ CallTimeout \/ AgentClient \/ AgentEncrypt \/ AgentRefuses
    \/ OwnClient \/ Decrypt \/ DecryptError
    \/ Cordon \/ Drain \/ Delete \/ KubectlError

Next ==
    \/ Verify
    \/ Join \/ ReadyChanges \/ AgentStarts \/ AgentEnds \/ ClientsLost \/ WaitEnds

(* The loops have no exit; time passes; a kubectl command that is tried    *)
(* again and again succeeds again and again.                               *)
Spec ==
    /\ Init /\ [][Next]_vars
    /\ WF_vars(Verify) /\ WF_vars(WaitEnds)
    /\ SF_vars(Cordon) /\ SF_vars(Drain) /\ SF_vars(Delete)
----------------------------------------------------------------------------
(* A node passes only when the agent at the address that the server knows  *)
(* encrypted the node's own nonce under the server's key (node.go:144-170).*)
PassIsEarned ==
    \A n \in DOMAIN clusterNodes \ Master :
        clusterNodes[n].pass => <<clusterNodes[n].ip, clusterNodes[n].data>> \in proved

(* The server begins to remove a node only if the agent has another key,   *)
(* or if a call, an agent or a REST service failed during this attempt: a  *)
(* REST service that restarted earlier does not cost a node its place,     *)
(* because both sides make sure that their client exists (node.go:151,     *)
(* NodeAuthAgent/apis.go:92).                                              *)
RemovalHasCause ==
    pc \in Removal => excused \/ ip \notin Keyed

(* A node that has passed, or was a master when it was first seen, is      *)
(* neither cordoned nor deleted by the server, whatever happens to its     *)
(* agent later (node.go:77-80).                                            *)
VerifiedNodesStay ==
    [][\A n \in DOMAIN clusterNodes \cap DOMAIN cluster :
          clusterNodes[n].pass =>
            n \in DOMAIN cluster' /\ (cluster'[n].cordoned => cluster[n].cordoned)]_vars

(* No node stays in the cluster, Ready and undecided, for ever: neither    *)
(* the wait after a failed ping, nor a removal that fails half-way, nor a  *)
(* node earlier in the list puts the decision off for good (node.go:77-88,  *)
(* main.go:34-57).                                                         *)
EveryNodeIsDecided ==
    \A n \in Name :
        []<>(\/ n \notin DOMAIN cluster
             \/ n \in DOMAIN cluster /\ ~cluster[n].ready
             \/ n \in DOMAIN clusterNodes /\ clusterNodes[n].pass)
==============================================================================
