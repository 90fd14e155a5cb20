--------------------------- MODULE Service_proofs ---------------------------
(***************************************************************************)
(* Theorems about the service around the providers: main and its thread    *)
(* pool, for every number of connections, configurations and reloads, and  *)
(* whatever fails; the way of a request, for every request and every set   *)
(* of providers and admins; the core provider, for every list of providers *)
(* and every set of threads, clients and keys.                             *)
(***************************************************************************)
EXTENDS Service, SequenceTheorems, TLAPS

(* What queueing and dequeueing do to the elements of a queue.             *)
LEMMA Appended ==
  ASSUME NEW S, NEW s \in Seq(S), NEW c \in S
  PROVE  /\ Append(s, c) \in Seq(S)
         /\ Range(Append(s, c)) = Range(s) \cup {c}
         /\ IsInjective(s) /\ c \notin Range(s) => IsInjective(Append(s, c))
  <1>1. /\ Append(s, c) \in Seq(S) /\ Len(Append(s, c)) = Len(s) + 1
        /\ \A i \in 1 .. Len(s) : Append(s, c)[i] = s[i]
        /\ Append(s, c)[Len(s) + 1] = c
        /\ Len(s) \in Nat /\ DOMAIN s = 1 .. Len(s)
        /\ DOMAIN Append(s, c) = 1 .. Len(s) + 1
    BY AppendProperties, LenProperties
  <1>2. \A i : i \in 1 .. Len(s) + 1 <=> i \in 1 .. Len(s) \/ i = Len(s) + 1
    BY <1>1
  <1>3. Range(Append(s, c)) = Range(s) \cup {c}
    BY <1>1, <1>2 DEF Range
  <1>4. IsInjective(s) /\ c \notin Range(s) => IsInjective(Append(s, c))
    BY <1>1, <1>2 DEF IsInjective, Range
  <1> QED
    BY <1>1, <1>3, <1>4

LEMMA Dequeued ==
  ASSUME NEW S, NEW s \in Seq(S), s # <<>>
  PROVE  /\ Head(s) \in S /\ Tail(s) \in Seq(S)
         /\ Range(s) = Range(Tail(s)) \cup {Head(s)}
         /\ IsInjective(s) => IsInjective(Tail(s)) /\ Head(s) \notin Range(Tail(s))
  <1> DEFINE n == Len(s)
  <1>1. /\ Head(s) \in S /\ Tail(s) \in Seq(S) /\ Len(Tail(s)) = n - 1
        /\ \A i \in 1 .. n - 1 : Tail(s)[i] = s[i + 1]
        /\ n \in Nat \ {0} /\ Head(s) = s[1] /\ DOMAIN s = 1 .. n
        /\ DOMAIN Tail(s) = 1 .. n - 1
    BY HeadTailProperties, LenProperties, EmptySeq
  <1>2. \A i \in 1 .. n : i = 1 \/ (i - 1 \in 1 .. n - 1 /\ (i - 1) + 1 = i)
    BY <1>1
  <1>3. 1 \in 1 .. n /\ \A i \in 1 .. n - 1 : i + 1 \in 1 .. n /\ i + 1 # 1
    BY <1>1
  <1>4. \A i, j \in 1 .. n - 1 : i + 1 = j + 1 => i = j
    BY <1>1
  <1> HIDE DEF n
  <1>5. Range(s) = Range(Tail(s)) \cup {Head(s)}
    <2>1. ASSUME NEW x \in Range(s)
          PROVE  x \in Range(Tail(s)) \cup {Head(s)}
      <3>1. PICK i \in 1 .. n : x = s[i]
        BY <1>1, <2>1 DEF Range
      <3>2. CASE i = 1
        BY <1>1, <3>1, <3>2
      <3>3. CASE i # 1
        <4>1. i - 1 \in 1 .. n - 1 /\ (i - 1) + 1 = i
          BY <1>2, <3>3
        <4>2. Tail(s)[i - 1] = s[(i - 1) + 1]
          BY <1>1, <4>1
        <4> QED
          BY <1>1, <3>1, <4>1, <4>2 DEF Range
      <3> QED
        BY <3>2, <3>3
    <2>2. ASSUME NEW x \in Range(Tail(s)) \cup {Head(s)}
          PROVE  x \in Range(s)
      BY <1>1, <1>3, <2>2 DEF Range
    <2> QED
      BY <2>1, <2>2
  <1>6. IsInjective(s) => IsInjective(Tail(s)) /\ Head(s) \notin Range(Tail(s))
    BY <1>1, <1>3, <1>4 DEF IsInjective, Range
  <1> QED
    BY <1>1, <1>5, <1>6
---------------------------------------------------------------------------
(* The steps of main at which a listener accepts, or did until now: no job *)
(* is in the pool at any other.                                            *)
Serves == {"kill_check", "reload_check", "accept", "join", "stop_join"}

PoolType ==
    /\ backlog \in Seq(Conn) /\ queue \in Seq(Conn) /\ running \subseteq Conn
    /\ job \in [Conn -> [gen : Nat, config : Config \cup {NoConfig}]]
    /\ gen \in Nat /\ config \in Config \cup {NoConfig}

(* A connection is in one place: it waits, is queued or is served.         *)
OnePlace ==
    /\ IsInjective(backlog) /\ IsInjective(queue)
    /\ Range(queue) \cap running = {}
    /\ Range(backlog) \cap Accepted = {}

PoolEmpty == pc \notin Serves => Accepted = {}

(* What is alive belongs to the build of now.                              *)
OneBuild ==
    /\ config = global_config
    /\ held \subseteq {gen}
    /\ pc = "config" => held = {}
    /\ \A c \in Accepted : job[c].gen = gen /\ job[c].config = config

MadeOnce ==
    \A i, j \in made : i.gen = j.gen /\ i.kind = j.kind => i = j

LoopInv == PoolType /\ OnePlace /\ PoolEmpty /\ OneBuild /\ MadeOnce

LEMMA InitLoopInv == ASSUME Init PROVE LoopInv
  <1>1. <<>> \in Seq(Conn) /\ Range(<<>>) = {} /\ IsInjective(<<>>)
    BY EmptySeq DEF Range, IsInjective
  <1> QED
    BY <1>1 DEF Init, LoopInv, PoolType, OnePlace, PoolEmpty, OneBuild, MadeOnce, Accepted,
                Serves, NoJob

LEMMA NoBacklog == <<>> \in Seq(Conn) /\ Range(<<>>) = {} /\ IsInjective(<<>>)
  BY EmptySeq DEF Range, IsInjective

(* main returns an error while nothing is in the pool, or ends.            *)
LEMMA ExitInv ==
  ASSUME LoopInv, Exit, pc \notin Serves \/ Accepted = {}
  PROVE  LoopInv'
  BY NoBacklog DEF Exit, LoopInv, PoolType, OnePlace, PoolEmpty, OneBuild, MadeOnce, Accepted,
                   Serves, signals, pool

(* A build that begins finds nothing of the one before.                    *)
LEMMA ConfigureInv ==
  ASSUME LoopInv, NEW c \in Config, Configure(c)
  PROVE  LoopInv'
  <1>1. /\ pc = "config" /\ pc' = "kim" /\ config' = c /\ global_config' = c /\ gen' = gen + 1
        /\ UNCHANGED <<held, made, backlog, queue, running, job>>
    BY DEF Configure, Goto, socket, pool
  <1>2. Accepted = {} /\ held = {}
    BY <1>1 DEF LoopInv, PoolEmpty, OneBuild, Serves
  <1>3. gen' \in Nat
    BY <1>1 DEF LoopInv, PoolType
  <1> QED
    BY <1>1, <1>2, <1>3 DEF LoopInv, PoolType, OnePlace, PoolEmpty, OneBuild, MadeOnce, Accepted

(* A provider is made only if its kind is not listed yet.                  *)
LEMMA BuildInv ==
  ASSUME LoopInv, BuildProvider
  PROVE  LoopInv'
  <1>1. /\ pc = "providers" /\ held' = held \cup {gen} /\ Section \notin Listed
        /\ made' = made \cup {[gen |-> gen, kind |-> Section, section |-> index]}
        /\ UNCHANGED <<pc, config, global_config, gen, backlog, queue, running, job>>
    BY DEF BuildProvider, socket, pool
  <1>2. MadeOnce'
    BY <1>1 DEF LoopInv, MadeOnce, Listed
  <1> QED
    BY <1>1, <1>2 DEF LoopInv, PoolType, OnePlace, PoolEmpty, OneBuild, Accepted

(* Steps of main that touch neither the pool nor a build.                  *)
LEMMA MovesOn ==
  ASSUME LoopInv, UNCHANGED <<config, global_config, gen, made, backlog, queue, running, job>>,
         held' = held \/ held' = {gen},
         pc' = "config" => held' = {},
         pc' \notin Serves => pc \notin Serves \/ Accepted = {}
  PROVE  LoopInv'
  BY DEF LoopInv, PoolType, OnePlace, PoolEmpty, OneBuild, MadeOnce, Accepted

LEMMA DropInv ==
  ASSUME LoopInv, Drop
  PROVE  LoopInv'
  BY NoBacklog DEF Drop, Goto, LoopInv, PoolType, OnePlace, PoolEmpty, OneBuild, MadeOnce,
                   Accepted, Serves, pool

(* A connection goes from the backlog to the queue, with the handler of    *)
(* this build.                                                             *)
LEMMA AcceptFacts ==
  ASSUME LoopInv, Accept
  PROVE  /\ LoopInv'
         /\ \E c \in Conn \ Accepted : Accepted' = Accepted \cup {c}
  <1> DEFINE c == Head(backlog)
  <1>1. /\ pc = "accept" /\ pc' = "kill_check" /\ backlog # <<>>
        /\ queue' = Append(queue, c) /\ backlog' = Tail(backlog)
        /\ job' = [job EXCEPT ![c] = [gen |-> gen, config |-> config]]
        /\ UNCHANGED <<config, global_config, gen, held, made, running>>
    BY DEF Accept, Goto, handlers
  <1>2. backlog \in Seq(Conn) /\ queue \in Seq(Conn) /\ running \subseteq Conn
    BY DEF LoopInv, PoolType
  <1>3. /\ c \in Conn /\ Tail(backlog) \in Seq(Conn)
        /\ Range(backlog) = Range(Tail(backlog)) \cup {c}
        /\ IsInjective(Tail(backlog)) /\ c \notin Range(Tail(backlog))
    BY <1>1, <1>2, Dequeued DEF LoopInv, OnePlace
  <1>4. c \notin Accepted /\ c \notin Range(queue) /\ c \notin running
    BY <1>3 DEF LoopInv, OnePlace, Accepted
  <1>5. /\ queue' \in Seq(Conn) /\ Range(queue') = Range(queue) \cup {c} /\ IsInjective(queue')
    BY <1>1, <1>2, <1>3, <1>4, Appended DEF LoopInv, OnePlace
  <1> HIDE DEF c
  <1>6. Accepted' = Accepted \cup {c}
    BY <1>1, <1>5 DEF Accepted
  <1>7. PoolType'
    BY <1>1, <1>2, <1>3, <1>5 DEF LoopInv, PoolType
  <1>8. OnePlace'
    BY <1>1, <1>3, <1>4, <1>5, <1>6 DEF LoopInv, OnePlace
  <1>9. PoolEmpty' /\ MadeOnce'
    BY <1>1 DEF LoopInv, PoolEmpty, MadeOnce, Serves
  <1>10. OneBuild'
    BY <1>1, <1>3, <1>6 DEF LoopInv, OneBuild, PoolType
  <1> QED
    BY <1>3, <1>4, <1>6, <1>7, <1>8, <1>9, <1>10 DEF LoopInv

LEMMA AcceptNoneInv ==
  ASSUME LoopInv, AcceptNone
  PROVE  LoopInv'
  <1>1. /\ pc = "accept" /\ pc' = "kill_check"
        /\ UNCHANGED <<config, global_config, gen, held, made, queue, running, job>>
        /\ backlog' = backlog \/ (backlog # <<>> /\ backlog' = Tail(backlog))
    BY DEF AcceptNone, Goto, handlers, pool
  <1>2. backlog' \in Seq(Conn) /\ IsInjective(backlog') /\ Range(backlog') \subseteq Range(backlog)
    <2>1. backlog \in Seq(Conn) /\ IsInjective(backlog)
      BY DEF LoopInv, PoolType, OnePlace
    <2>2. CASE backlog' = backlog
      BY <2>1, <2>2
    <2>3. CASE backlog # <<>> /\ backlog' = Tail(backlog)
      <3>1. /\ Tail(backlog) \in Seq(Conn) /\ IsInjective(Tail(backlog))
            /\ Range(backlog) = Range(Tail(backlog)) \cup {Head(backlog)}
        BY <2>1, <2>3, Dequeued
      <3> QED
        BY <2>3, <3>1
    <2> QED
      BY <1>1, <2>2, <2>3
  <1> QED
    BY <1>1, <1>2 DEF LoopInv, PoolType, OnePlace, PoolEmpty, OneBuild, MadeOnce, Accepted, Serves

(* A job goes from the queue to a thread.                                  *)
LEMMA StartJobFacts ==
  ASSUME LoopInv, StartJob
  PROVE  LoopInv' /\ Accepted' = Accepted
  <1> DEFINE c == Head(queue)
  <1>1. /\ queue # <<>> /\ queue' = Tail(queue) /\ running' = running \cup {c}
        /\ UNCHANGED <<pc, config, global_config, gen, held, made, backlog, job>>
    BY DEF StartJob, handlers, socket
  <1>2. /\ c \in Conn /\ queue' \in Seq(Conn)
        /\ Range(queue) = Range(queue') \cup {c}
        /\ IsInjective(queue') /\ c \notin Range(queue')
    BY <1>1, Dequeued DEF LoopInv, PoolType, OnePlace
  <1> HIDE DEF c
  <1>3. Accepted' = Accepted
    BY <1>1, <1>2 DEF Accepted
  <1>4. Range(queue') \cap running' = {}
    BY <1>1, <1>2 DEF LoopInv, OnePlace
  <1> QED
    BY <1>1, <1>2, <1>3, <1>4 DEF LoopInv, PoolType, OnePlace, PoolEmpty, OneBuild, MadeOnce

(* A job ends, and with it its hold on the handler.                        *)
LEMMA EndJobFacts ==
  ASSUME LoopInv, NEW c \in Conn, EndJob(c)
  PROVE  LoopInv' /\ c \in Accepted /\ Accepted' = Accepted \ {c}
  <1>1. /\ c \in running /\ running' = running \ {c} /\ job' = [job EXCEPT ![c] = NoJob]
        /\ UNCHANGED <<pc, config, global_config, gen, held, made, backlog, queue>>
    BY DEF EndJob, handlers, socket
  <1>2. c \in Accepted /\ Accepted' = Accepted \ {c}
    BY <1>1 DEF LoopInv, OnePlace, Accepted
  <1>3. PoolType'
    BY <1>1 DEF LoopInv, PoolType, NoJob
  <1>4. OneBuild'
    BY <1>1, <1>2 DEF LoopInv, OneBuild, PoolType
  <1> QED
    BY <1>1, <1>2, <1>3, <1>4 DEF LoopInv, OnePlace, PoolEmpty, MadeOnce

LEMMA ConnectInv ==
  ASSUME LoopInv, NEW c \in Conn, Connect(c)
  PROVE  LoopInv'
  <1>1. /\ c \notin Accepted /\ c \notin Range(backlog) /\ backlog' = Append(backlog, c)
        /\ UNCHANGED <<pc, config, global_config, gen, held, made, queue, running, job>>
    BY DEF Connect, handlers, pool
  <1>2. /\ backlog' \in Seq(Conn) /\ IsInjective(backlog')
        /\ Range(backlog') = Range(backlog) \cup {c}
    BY <1>1, Appended DEF LoopInv, PoolType, OnePlace
  <1> QED
    BY <1>1, <1>2 DEF LoopInv, PoolType, OnePlace, PoolEmpty, OneBuild, MadeOnce, Accepted

(* The steps of main that only move on.                                    *)
Moves ==
    \/ BuildKeyInfoManagers \/ SkipProvider \/ BuildProvidersDone \/ BuildFrontEnd
    \/ Listen \/ KillCheck \/ ReloadCheck \/ Join

LEMMA MovesInv ==
  ASSUME LoopInv, Moves
  PROVE  LoopInv' /\ Accepted' = Accepted
  <1>1. /\ UNCHANGED <<config, global_config, gen, made, backlog, queue, running, job>>
        /\ held' = held \/ held' = {gen}
        /\ pc' # "config"
        /\ pc' \notin Serves => pc \notin Serves \/ Accepted = {}
    BY DEF Moves, BuildKeyInfoManagers, SkipProvider, BuildProvidersDone, BuildFrontEnd, Listen,
           KillCheck, ReloadCheck, Join, Goto, Serves, handlers, socket, pool
  <1> QED
    BY <1>1, MovesOn DEF Accepted

(* The errors of a build, and the end after the loop.                      *)
Ends == ConfigError \/ KimError \/ ProviderError \/ AuthenticatorError \/ ListenError \/ StopJoin

LEMMA EndsFacts ==
  ASSUME LoopInv, Ends
  PROVE  /\ Exit /\ Accepted = {} /\ Accepted' = {}
         /\ pc \notin {"kill_check", "reload_check", "accept", "join"}
  <1>1. Exit /\ (pc \notin Serves \/ Accepted = {})
        /\ pc \notin {"kill_check", "reload_check", "accept", "join"}
    BY DEF Ends, ConfigError, KimError, ProviderError, AuthenticatorError, ListenError, StopJoin,
           Serves
  <1>2. Accepted = {}
    BY <1>1 DEF LoopInv, PoolEmpty
  <1> QED
    BY <1>1, <1>2 DEF Exit, Accepted, pool

(* Each action keeps the builds apart.                                     *)
LEMMA NextLoopInv ==
  ASSUME LoopInv, [Next]_vars
  PROVE  LoopInv'
  <1>1. CASE Ends
    BY <1>1, EndsFacts, ExitInv
  <1>2. ASSUME NEW c \in Conn, EndJob(c) \/ Connect(c)
        PROVE  LoopInv'
    BY <1>2, EndJobFacts, ConnectInv
  <1>3. CASE Term \/ Hup \/ UNCHANGED vars
    BY <1>3 DEF Term, Hup, vars, handlers, socket, pool, LoopInv, PoolType, OnePlace, PoolEmpty,
                OneBuild, MadeOnce, Accepted
  <1>4. ASSUME NEW c \in Config, Configure(c)
        PROVE  LoopInv'
    BY <1>4, ConfigureInv
  <1> QED
    BY <1>1, <1>2, <1>3, <1>4, BuildInv, MovesInv, DropInv, AcceptFacts, AcceptNoneInv,
       StartJobFacts DEF Next, Main, Moves, Ends

LEMMA LoopInvHolds == Spec => []LoopInv
  <1>1. Init => LoopInv
    BY InitLoopInv
  <1>2. LoopInv /\ [Next]_vars => LoopInv'
    BY NextLoopInv
  <1> QED
    BY <1>1, <1>2, PTL DEF Spec

(* A request is served under the limits its handler was built with.        *)
THEOREM ConfigKept == Spec => []RequestsKeepTheirConfig
  <1>1. LoopInv => RequestsKeepTheirConfig
    BY DEF LoopInv, OneBuild, RequestsKeepTheirConfig
  <1> QED
    BY <1>1, LoopInvHolds, PTL

(* No two instances of a kind of provider are alive at the same time.      *)
THEOREM InstancesApart == Spec => []OneInstancePerKind
  <1>1. LoopInv => OneInstancePerKind
    BY DEF LoopInv, OneBuild, MadeOnce, OneInstancePerKind, Alive, Held
  <1> QED
    BY <1>1, LoopInvHolds, PTL
---------------------------------------------------------------------------
(* Types of main.  The SIGHUPs bound the number of the handler, since a    *)
(* reload takes the flag that a SIGHUP sets.                               *)

LEMMA InitLoopTypes ==
  ASSUME ServiceLoopAssumption, Init
  PROVE  LoopTypeInv
  <1>1. 0 \in Gen /\ 0 \in 0 .. MaxHup
    BY DEF Gen, ServiceLoopAssumption
  <1>2. LoopTypeOK
    BY <1>1, NoBacklog DEF Init, LoopTypeOK, NoJob
  <1> QED
    BY <1>2 DEF Init, LoopTypeInv, BuildsCounted, Reloads, BuildProgress

Numbers == gen \in Nat /\ hups \in 0 .. MaxHup /\ gen + Reloads <= hups + 1

LEMMA Bounded ==
  ASSUME NEW g \in Nat, NEW h \in Nat, NEW m \in Nat, NEW r \in Nat, h <= m, g + r <= h + 1
  PROVE  g <= m + 1
  OBVIOUS

(* No step of main builds more than it was asked for.                      *)
LEMMA NumbersKept ==
  ASSUME ServiceLoopAssumption, LoopTypeInv, [Next]_vars
  PROVE  Numbers' /\ gen' \in Gen
  <1>1. gen \in Nat /\ hups \in 0 .. MaxHup /\ gen + Reloads <= hups + 1
        /\ reload_signal \in BOOLEAN
    BY DEF LoopTypeInv, LoopTypeOK, BuildsCounted, Gen, ServiceLoopAssumption
  <1>2. Numbers'
    <2> USE DEF Numbers, Reloads, signals, handlers
    <2>1. CASE \E c \in Config : Configure(c)
      BY <1>1, <2>1 DEF Configure, Goto
    <2>2. CASE Ends \/ Moves
      BY <1>1, <2>2 DEF Ends, ConfigError, KimError, ProviderError, AuthenticatorError,
         ListenError, StopJoin, Exit, Moves, BuildKeyInfoManagers, SkipProvider,
         BuildProvidersDone, BuildFrontEnd, Listen, KillCheck, ReloadCheck, Join, Goto
    <2>3. CASE BuildProvider \/ Drop \/ Accept \/ AcceptNone
      BY <1>1, <2>3 DEF BuildProvider, Drop, Accept, AcceptNone, Goto
    <2>4. CASE StartJob \/ (\E c \in Conn : EndJob(c) \/ Connect(c)) \/ Term \/ UNCHANGED vars
      BY <1>1, <2>4 DEF StartJob, EndJob, Connect, Term, vars
    <2>5. CASE Hup
      BY <1>1, <2>5 DEF Hup, ServiceLoopAssumption
    <2> QED
      BY <2>1, <2>2, <2>3, <2>4, <2>5 DEF Next, Main, Moves, Ends
  <1>3. gen' \in Gen
    <2>1. gen' \in Nat /\ hups' \in Nat /\ hups' <= MaxHup /\ MaxHup \in Nat
      BY <1>2 DEF Numbers, ServiceLoopAssumption
    <2>2. PICK r \in Nat : gen' + r <= hups' + 1
      <3>1. gen' + Reloads' <= hups' + 1
        BY <1>2 DEF Numbers
      <3>2. Reloads' \in Nat
        BY DEF Reloads
      <3> QED
        BY <3>1, <3>2
    <2>3. gen' <= MaxHup + 1
      BY <2>1, <2>2, Bounded
    <2> QED
      BY <2>1, <2>3 DEF Gen
  <1> QED
    BY <1>2, <1>3

(* The flags and the place of main.                                        *)
Places == {"config", "kim", "providers", "authenticators", "listener", "kill_check",
           "reload_check", "accept", "join", "drop", "stop_join", "exited"}

Listening == {"listener", "kill_check", "reload_check", "accept", "join", "drop", "stop_join"}

LEMMA FlagsKept ==
  ASSUME LoopTypeInv, [Next]_vars
  PROVE  /\ pc' \in Places /\ kill_signal' \in BOOLEAN /\ reload_signal' \in BOOLEAN
         /\ listening' \in BOOLEAN /\ asked' \in BOOLEAN
  <1>1. /\ pc \in Places /\ kill_signal \in BOOLEAN /\ reload_signal \in BOOLEAN
        /\ listening \in BOOLEAN /\ asked \in BOOLEAN
    BY DEF LoopTypeInv, LoopTypeOK, Places
  <1> USE DEF Places, signals, socket
  <1>2. CASE (\E c \in Config : Configure(c)) \/ Ends
    BY <1>1, <1>2 DEF Configure, Goto, Ends, ConfigError, KimError, ProviderError,
       AuthenticatorError, ListenError, StopJoin, Exit
  <1>3. CASE Moves
    BY <1>1, <1>3 DEF Moves, BuildKeyInfoManagers, SkipProvider, BuildProvidersDone,
       BuildFrontEnd, Listen, KillCheck, ReloadCheck, Join, Goto
  <1>4. CASE BuildProvider \/ Drop \/ Accept \/ AcceptNone
    BY <1>1, <1>4 DEF BuildProvider, Drop, Accept, AcceptNone, Goto
  <1>5. CASE StartJob \/ (\E c \in Conn : EndJob(c) \/ Connect(c)) \/ Term \/ Hup
             \/ UNCHANGED vars
    BY <1>1, <1>5 DEF StartJob, EndJob, Connect, Term, Hup, vars
  <1> QED
    BY <1>2, <1>3, <1>4, <1>5 DEF Next, Main, Moves, Ends

(* What is made, and that main has made something before it listens.       *)
Built ==
    /\ made \subseteq Instance
    /\ index \in Nat /\ index # 0
    /\ pc \notin {"config", "exited"} => config \in Config
    /\ pc \in Listening \cup {"authenticators"} => \E i \in made : i.gen = gen
    /\ pc \in Listening => held = {gen}

LEMMA TypesAreBuilt == ASSUME LoopTypeInv PROVE Built
  BY DEF LoopTypeInv, LoopTypeOK, BuildProgress, Built, Listening, Listed

LEMMA BuiltKept ==
  ASSUME ServiceLoopAssumption, LoopTypeInv, [Next]_vars
  PROVE  Built'
  <1> USE TypesAreBuilt DEF Built, Listening, handlers
  <1>1. CASE \E c \in Config : Configure(c)
    BY <1>1 DEF Configure, Goto
  <1>2. CASE Ends
    BY <1>2 DEF Ends, ConfigError, KimError, ProviderError, AuthenticatorError,
       ListenError, StopJoin, Exit
  <1>3. CASE BuildProvider
    <2>1. /\ pc = "providers" /\ pc' = pc /\ config' = config /\ index' = index + 1
          /\ made' = made \cup {[gen |-> gen, kind |-> Section, section |-> index]}
          /\ index <= Len(Providers[config])
      BY <1>3 DEF BuildProvider, MoreSections
    <2>2. Section \in Kind
      BY <2>1 DEF Section, ServiceLoopAssumption
    <2>3. gen \in Gen
      BY DEF LoopTypeInv, LoopTypeOK
    <2> QED
      BY <2>1, <2>2, <2>3 DEF Instance
  <1>4. CASE BuildProvidersDone
    <2>1. \E i \in made : i.gen = gen
      BY <1>4 DEF BuildProvidersDone, Listed
    <2> QED
      BY <1>4, <2>1 DEF BuildProvidersDone, Goto
  <1>5. CASE Moves
    BY <1>4, <1>5 DEF Moves, BuildKeyInfoManagers, SkipProvider,
       BuildFrontEnd, Listen, KillCheck, ReloadCheck, Join, Goto
  <1>6. CASE Drop \/ Accept \/ AcceptNone
    BY <1>6 DEF Drop, Accept, AcceptNone, Goto
  <1>7. CASE StartJob \/ (\E c \in Conn : EndJob(c) \/ Connect(c)) \/ Term \/ Hup
             \/ UNCHANGED vars
    BY <1>7 DEF StartJob, EndJob, Connect, Term, Hup, vars
  <1> QED
    BY <1>1, <1>2, <1>3, <1>5, <1>6, <1>7 DEF Next, Main, Moves, Ends

LEMMA JobKept ==
  ASSUME ServiceLoopAssumption, LoopTypeInv, LoopInv, [Next]_vars
  PROVE  job' \in [Conn -> [gen : Gen, config : Config \cup {NoConfig}]]
  <1>1. /\ job \in [Conn -> [gen : Gen, config : Config \cup {NoConfig}]]
        /\ gen \in Gen /\ config \in Config \cup {NoConfig} /\ 0 \in Gen
    BY DEF LoopTypeInv, LoopTypeOK, Gen, ServiceLoopAssumption
  <1>2. CASE Accept
    BY <1>1, <1>2 DEF Accept
  <1>3. CASE \E c \in Conn : EndJob(c)
    BY <1>1, <1>3 DEF EndJob, NoJob
  <1>4. CASE job' = job
    BY <1>1, <1>4
  <1> USE DEF pool
  <1>5. CASE Ends \/ Moves
    BY <1>4, <1>5 DEF Ends, ConfigError, KimError, ProviderError, AuthenticatorError,
       ListenError, StopJoin, Exit, Moves, BuildKeyInfoManagers, SkipProvider,
       BuildProvidersDone, BuildFrontEnd, Listen, KillCheck, ReloadCheck, Join
  <1>6. CASE (\E c \in Config : Configure(c)) \/ BuildProvider \/ Drop \/ AcceptNone \/ StartJob
             \/ (\E c \in Conn : Connect(c)) \/ Term \/ Hup \/ UNCHANGED vars
    BY <1>4, <1>6 DEF Configure, BuildProvider, Drop, AcceptNone, StartJob, Connect, Term, Hup,
                      vars
  <1> QED
    BY <1>2, <1>3, <1>5, <1>6 DEF Next, Main, Moves, Ends

LEMMA NextLoopTypes ==
  ASSUME ServiceLoopAssumption, LoopTypeInv, LoopInv, [Next]_vars
  PROVE  LoopTypeInv'
  <1>1. Numbers' /\ gen' \in Gen /\ Built'
    BY NumbersKept, BuiltKept
  <1>2. LoopInv'
    BY NextLoopInv
  <1>3. /\ held' \subseteq Gen /\ config' \in Config \cup {NoConfig} /\ global_config' = config'
        /\ backlog' \in Seq(Conn) /\ queue' \in Seq(Conn) /\ running' \subseteq Conn
    BY <1>1, <1>2 DEF LoopInv, PoolType, OneBuild
  <1>4. hups' \in 0 .. MaxHup /\ BuildsCounted'
    BY <1>1 DEF Numbers, BuildsCounted
  <1>5. LoopTypeOK'
    BY <1>1, <1>3, <1>4, FlagsKept, JobKept DEF LoopTypeOK, Built, Places, Listening
  <1>6. BuildProgress'
    BY <1>1 DEF Built, BuildProgress, Listed
  <1> QED
    BY <1>4, <1>5, <1>6 DEF LoopTypeInv

LEMMA LoopTypesHold ==
  ASSUME ServiceLoopAssumption
  PROVE  Spec => []LoopTypeInv
  <1>1. Init => LoopTypeInv
    BY InitLoopTypes
  <1>2. LoopInv /\ LoopTypeInv /\ [Next]_vars => LoopTypeInv'
    BY NextLoopTypes
  <1> QED
    BY <1>1, <1>2, LoopInvHolds, PTL DEF Spec
---------------------------------------------------------------------------
(* What the providers see of main.                                         *)
Seen == CASE pc \in {"kill_check", "reload_check", "accept"} -> "up"
          [] pc \in {"join", "stop_join"} -> "draining"
          [] OTHER -> "down"

(* The loop implements the service that the providers assume: each step is *)
(* a step of ServiceLifecycle, or leaves its two variables alone.          *)
THEOREM ImplementsLifecycle == Spec => LifecycleSpec
  <1>1. Init => Lifecycle!Init
    BY NoBacklog DEF Init, Lifecycle!Init, Accepted
  <1>2. LoopInv /\ [Next]_vars => [Lifecycle!Next]_<<Seen, Accepted>>
    <2> SUFFICES ASSUME LoopInv, [Next]_vars
                 PROVE  Lifecycle!Next \/ (Seen' = Seen /\ Accepted' = Accepted)
      BY DEF Seen
    <2> USE DEF Lifecycle!Next, Lifecycle!Start, Lifecycle!Accept, Lifecycle!Finish,
                Lifecycle!StopArrivals, Lifecycle!JoinThreads, Seen
    <2>1. CASE Ends
      <3>1. /\ pc' = "exited" /\ Accepted = {} /\ Accepted' = {}
            /\ pc \notin {"kill_check", "reload_check", "accept", "join"}
        BY <2>1, EndsFacts DEF Exit
      <3> QED
        BY <3>1
    <2>2. CASE \E c \in Config : Configure(c)
      BY <2>2 DEF Configure, Goto, pool, Accepted
    <2>3. CASE BuildProvider
      BY <2>3 DEF BuildProvider, pool, Accepted
    <2>4. CASE BuildKeyInfoManagers \/ SkipProvider \/ BuildProvidersDone \/ BuildFrontEnd
      <3>1. Accepted' = Accepted
        BY <2>4, MovesInv DEF Moves
      <3> QED
        BY <2>4, <3>1 DEF BuildKeyInfoManagers, SkipProvider, BuildProvidersDone, BuildFrontEnd, Goto
    <2>5. CASE Listen
      <3>1. Accepted' = Accepted /\ pc = "listener" /\ pc' \in {"kill_check", "accept"}
        BY <2>5, MovesInv DEF Moves, Listen, Goto
      <3> QED
        BY <3>1
    <2>6. CASE KillCheck \/ ReloadCheck
      <3>1. /\ Accepted' = Accepted /\ pc \in {"kill_check", "reload_check"}
            /\ pc' \in {"stop_join", "reload_check", "join", "accept"}
        BY <2>6, MovesInv DEF Moves, KillCheck, ReloadCheck, Goto
      <3> QED
        BY <3>1
    <2>7. CASE Join
      <3>1. Accepted' = Accepted /\ Accepted = {} /\ pc = "join" /\ pc' = "drop"
        BY <2>7, MovesInv DEF Moves, Join, Goto
      <3> QED
        BY <3>1
    <2>8. CASE Drop
      BY <2>8 DEF Drop, Goto, pool, Accepted
    <2>9. CASE Accept
      <3>1. /\ pc = "accept" /\ pc' = "kill_check"
            /\ \E c \in Conn \ Accepted : Accepted' = Accepted \cup {c}
        BY <2>9, AcceptFacts DEF Accept, Goto
      <3> QED
        BY <3>1
    <2>10. CASE AcceptNone
      BY <2>10 DEF AcceptNone, Goto, pool, Accepted
    <2>11. CASE StartJob
      <3>1. Accepted' = Accepted /\ pc' = pc
        BY <2>11, StartJobFacts DEF StartJob
      <3> QED
        BY <3>1
    <2>12. ASSUME NEW c \in Conn, EndJob(c)
           PROVE  Lifecycle!Next
      <3>1. c \in Accepted /\ Accepted' = Accepted \ {c} /\ pc' = pc
        BY <2>12, EndJobFacts DEF EndJob
      <3> QED
        BY <3>1
    <2>13. ASSUME NEW c \in Conn, Connect(c)
           PROVE  Seen' = Seen /\ Accepted' = Accepted
      BY <2>13 DEF Connect, pool, Accepted
    <2>14. CASE Term \/ Hup \/ UNCHANGED vars
      BY <2>14 DEF Term, Hup, vars, pool, Accepted
    <2> QED
      BY <2>1, <2>2, <2>3, <2>4, <2>5, <2>6, <2>7, <2>8, <2>9, <2>10, <2>11, <2>12, <2>13,
         <2>14 DEF Next, Main, Ends
  <1> QED
    BY <1>1, <1>2, LoopInvHolds, PTL DEF Spec, LifecycleSpec, Lifecycle!Spec,
       Lifecycle!lifecycleVars, Seen
---------------------------------------------------------------------------
(* The way of a request.                                                   *)

(* What ListOpcodes reports is implemented, and core operations are the    *)
(* core provider's.                                                        *)
LEMMA Announced ==
  ASSUME NEW p \in {"core", "mbed_crypto", "pkcs11", "tpm", "cryptoauthlib", "trusted_service"}
  PROVE  /\ Supported(p) \subseteq Methods(p)
         /\ \A op \in Supported(p) : (p = "core") = (op \in CoreOpcodes)
  <1> USE DEF Supported, Methods, CoreOpcodes, Required
  <1>1. CASE p = "core"
    BY <1>1 DEF CoreMethods, CoreSupported
  <1>2. CASE p = "mbed_crypto"
    BY <1>2 DEF MbedCryptoMethods, MbedCryptoSupported
  <1>3. CASE p = "pkcs11"
    BY <1>3 DEF Pkcs11Methods, Pkcs11Supported
  <1>4. CASE p = "tpm"
    BY <1>4 DEF TpmMethods, TpmSupported
  <1>5. CASE p = "cryptoauthlib"
    BY <1>5 DEF CryptoAuthLibMethods, CryptoAuthLibSupported
  <1>6. CASE p = "trusted_service"
    BY <1>6 DEF TrustedServiceMethods, TrustedServiceSupported
  <1> QED
    BY <1>1, <1>2, <1>3, <1>4, <1>5, <1>6

(* An authenticator gives the identity behind the request, or says that    *)
(* something is wrong with the authentication.                             *)
LEMMA AuthenticatorFacts ==
  ASSUME FrontEndAssumption, FrontTypeOK, request.auth_type = authenticator
  PROVE  \/ /\ Authenticated = [app |-> Identity] /\ Identity \in App
            /\ BadAuthentication = {}
         \/ \E s \in BadAuthentication : Authenticated = [error |-> s]
  <1> DEFINE b == request.buffer
  <1>1. /\ authenticator \in {"Direct", "UnixPeerCredentials", "JwtSvid"} /\ peer \in App
        /\ "invalid" \notin App
    BY DEF FrontTypeOK, FrontEndAssumption
  <1>2. /\ "AuthenticationError" \in Status /\ "InvalidEncoding" \in Status
        /\ "AuthenticatorNotRegistered" # "AuthenticationError"
    BY DEF Status
  <1>3. b # Identity \/ b \notin App => \A s \in {"AuthenticationError", "InvalidEncoding"} :
           s \in BadAuthentication
    BY <1>2 DEF BadAuthentication
  <1>4. b = Identity /\ b \in App => BadAuthentication = {}
    BY DEF BadAuthentication
  <1>5. CASE authenticator = "Direct"
    BY <1>1, <1>3, <1>4, <1>5 DEF Authenticated, Direct, Identity
  <1>6. CASE authenticator = "UnixPeerCredentials"
    BY <1>1, <1>3, <1>4, <1>6 DEF Authenticated, Unix, Identity
  <1>7. CASE authenticator = "JwtSvid"
    BY <1>1, <1>3, <1>4, <1>7 DEF Authenticated, Jwt, Identity
  <1> QED
    BY <1>1, <1>5, <1>6, <1>7

LEMMA InputKept ==
  ASSUME UNCHANGED input
  PROVE  /\ request' = request /\ peer' = peer /\ authenticator' = authenticator
         /\ Identity' = Identity /\ BadAuthentication' = BadAuthentication
         /\ BadRequest' = BadRequest
         /\ IsCapable(request.provider)' = IsCapable(request.provider)
  <1>1. request' = request /\ peer' = peer /\ authenticator' = authenticator
    BY DEF input
  <1>2. Identity' = Identity
    BY <1>1 DEF Identity
  <1>3. IsCapable(request.provider)' = IsCapable(request.provider)
    BY <1>1 DEF IsCapable
  <1>4. BadAuthentication' = BadAuthentication
    BY <1>1, <1>2 DEF BadAuthentication
  <1>5. BadRequest' = BadRequest
    BY <1>1, <1>2 DEF BadRequest
  <1> QED
    BY <1>1, <1>2, <1>3, <1>4, <1>5

LEMMA NoResponse == FrontEndAssumption => NoStatus \notin Status
  BY DEF FrontEndAssumption

(* A response with a true reason keeps the invariant.                      *)
LEMMA Refuses ==
  ASSUME FrontEndAssumption, FrontInv, NEW s \in Status, Respond(s),
         UNCHANGED <<input, app, calls>>, front_pc \notin {"write", "done"},
         s = "PsaErrorNotSupported" => request.opcode \notin Supported(request.provider),
         \/ request.body = "unreadable" /\ s = "ReadError"
         \/ request.body # "unreadable" /\ s \in BadAuthentication
         \/ /\ request.body # "unreadable" /\ BadAuthentication = {}
            /\ s \in BadRequest
  PROVE  FrontInv'
  <1>1. /\ UNCHANGED input /\ app' = app /\ calls' = calls /\ calls = {}
        /\ front_pc' = "write" /\ response' = s /\ s # NoStatus
    BY NoResponse DEF Respond, FrontInv, ChecksPassed
  <1>2. FrontTypeOK'
    BY <1>1, InputKept DEF FrontInv, FrontTypeOK
  <1>3. AppIsIdentity' /\ ChecksPassed' /\ CallsAreAuthorized'
    BY <1>1, InputKept DEF FrontInv, AppIsIdentity, ChecksPassed, CallsAreAuthorized
  <1>4. ResponseAgrees'
    BY <1>1, InputKept DEF ResponseAgrees
  <1> QED
    BY <1>2, <1>3, <1>4 DEF FrontInv

(* The request goes on to the next check.                                  *)
LEMMA GoesOn ==
  ASSUME FrontEndAssumption, FrontInv, UNCHANGED <<input, calls>>,
         NEW to \in {"authenticate", "dispatch", "execute"}, Proceed(to),
         front_pc \notin {"write", "done"}, request.body # "unreadable",
         app' \in App \cup {NoApp},
         app' # NoApp => app' = Identity /\ request.auth_type = authenticator,
         to # "authenticate" =>
            BadAuthentication = {} /\ (app' = NoApp => request.auth_type = "NoAuth"),
         to = "execute" =>
            request.provider \in Backends /\ IsCapable(request.provider) = "Success"
  PROVE  FrontInv'
  <1>1. /\ UNCHANGED input /\ calls' = calls /\ calls = {}
        /\ front_pc' = to /\ response' = response
    BY DEF Proceed, FrontInv, ChecksPassed
  <1>2. FrontTypeOK'
    BY <1>1, InputKept DEF FrontInv, FrontTypeOK
  <1>3. AppIsIdentity' /\ CallsAreAuthorized' /\ ResponseAgrees'
    BY <1>1, InputKept DEF FrontInv, AppIsIdentity, CallsAreAuthorized, ResponseAgrees
  <1>4. ChecksPassed'
    BY <1>1, InputKept DEF ChecksPassed
  <1> QED
    BY <1>2, <1>3, <1>4 DEF FrontInv

LEMMA ReadInv ==
  ASSUME FrontEndAssumption, FrontInv, Read
  PROVE  FrontInv'
  <1>1. front_pc = "read" /\ UNCHANGED <<input, app, calls>>
    BY DEF Read
  <1>2. CASE request.body = "unreadable"
    BY <1>1, <1>2, Refuses DEF Read, Status
  <1>3. CASE request.body # "unreadable"
    BY <1>1, <1>3, GoesOn DEF Read, FrontInv, FrontTypeOK, AppIsIdentity
  <1> QED
    BY <1>2, <1>3

LEMMA AuthenticateInv ==
  ASSUME FrontEndAssumption, FrontInv, Authenticate
  PROVE  FrontInv'
  <1>1. /\ front_pc = "authenticate" /\ UNCHANGED <<input, calls>>
        /\ request.body # "unreadable"
        /\ authenticator # "NoAuth"
    BY DEF Authenticate, FrontInv, ChecksPassed, FrontTypeOK
  <1>2. CASE request.auth_type = "NoAuth"
    <2>1. app = NoApp /\ BadAuthentication = {}
      BY <1>1, <1>2 DEF FrontInv, FrontTypeOK, BadAuthentication
    <2>2. Proceed("dispatch") /\ app' = app
      BY <1>1, <1>2 DEF Authenticate, Proceed, Respond
    <2> QED
      BY <1>1, <1>2, <2>1, <2>2, GoesOn
  <1>3. CASE request.auth_type = authenticator
    <2>1. ASSUME Authenticated = [app |-> Identity], Identity \in App, BadAuthentication = {}
          PROVE  FrontInv'
      <3>1. /\ "app" \in DOMAIN Authenticated /\ "error" \notin DOMAIN Authenticated
            /\ Authenticated.app = Identity
        BY <2>1
      <3>2. Proceed("dispatch") /\ app' = Identity
        BY <1>1, <1>3, <3>1 DEF Authenticate, Proceed, Respond
      <3> QED
        BY <1>1, <1>3, <2>1, <3>2, GoesOn DEF FrontEndAssumption
    <2>2. ASSUME NEW s \in BadAuthentication, Authenticated = [error |-> s]
          PROVE  FrontInv'
      <3>1. /\ "error" \in DOMAIN Authenticated /\ "app" \notin DOMAIN Authenticated
            /\ Authenticated.error = s
        BY <2>2
      <3>2. Respond(s) /\ app' = app
        BY <1>1, <1>3, <3>1 DEF Authenticate
      <3>3. s \in Status /\ s # "PsaErrorNotSupported"
        BY DEF BadAuthentication
      <3> QED
        BY <1>1, <3>2, <3>3, Refuses
    <2> QED
      BY <1>3, <2>1, <2>2, AuthenticatorFacts DEF FrontInv
  <1>4. CASE request.auth_type \notin {"NoAuth", authenticator}
    <2>1. Respond("AuthenticatorNotRegistered") /\ app' = app
      BY <1>4 DEF Authenticate
    <2>2. "AuthenticatorNotRegistered" \in BadAuthentication
      BY <1>4 DEF BadAuthentication, Status
    <2> QED
      BY <1>1, <2>1, <2>2, Refuses DEF Status
  <1> QED
    BY <1>2, <1>3, <1>4

Backend == {"core", "mbed_crypto", "pkcs11", "tpm", "cryptoauthlib", "trusted_service"}

LEMMA DispatchInv ==
  ASSUME FrontEndAssumption, FrontInv, Dispatch
  PROVE  FrontInv'
  <1> DEFINE p == request.provider
             s == IsCapable(p)
  <1>1. /\ front_pc = "dispatch" /\ UNCHANGED <<input, app, calls>>
        /\ request.body # "unreadable" /\ BadAuthentication = {}
        /\ app \in App \cup {NoApp}
        /\ app # NoApp => app = Identity /\ request.auth_type = authenticator
        /\ app = NoApp => request.auth_type = "NoAuth"
    BY DEF Dispatch, FrontInv, ChecksPassed, FrontTypeOK, AppIsIdentity
  <1>2. CASE p \notin Backends
    <2>1. Respond("ProviderNotRegistered")
      BY <1>2 DEF Dispatch, Proceed, Respond
    <2>2. "ProviderNotRegistered" \in BadRequest
      BY <1>2 DEF BadRequest, Status
    <2> QED
      BY <1>1, <2>1, <2>2, Refuses DEF Status
  <1>3. CASE p \in Backends /\ s # "Success"
    <2>1. Respond(s)
      BY <1>3 DEF Dispatch, Proceed, Respond
    <2>2. \/ s = "PsaErrorNotSupported" /\ (p = "core") # (request.opcode \in CoreOpcodes)
          \/ s = "ContentTypeNotSupported" /\ request.types = "content"
          \/ s = "AcceptTypeNotSupported" /\ request.types = "accept"
      BY <1>3 DEF IsCapable
    <2>3. s \in Status
      BY <2>2 DEF Status
    <2>4. s \in BadRequest
      BY <1>3, <2>2, <2>3 DEF BadRequest
    <2>5. s = "PsaErrorNotSupported" => request.opcode \notin Supported(p)
      <3>1. p \in Backend
        BY <1>3 DEF Backends, Backend, FrontEndAssumption
      <3> QED
        BY <2>2, <3>1, Announced DEF Backend
    <2> HIDE DEF s
    <2> QED
      BY <1>1, <2>1, <2>3, <2>4, <2>5, Refuses
  <1>4. CASE p \in Backends /\ s = "Success"
    <2>1. Proceed("execute")
      BY <1>4 DEF Dispatch, Proceed, Respond
    <2> QED
      BY <1>1, <1>4, <2>1, GoesOn
  <1> QED
    BY <1>2, <1>3, <1>4

(* What the handler refuses is wrong, and what it does not has nothing     *)
(* wrong with it.                                                          *)
LEMMA RefusalFacts ==
  ASSUME FrontEndAssumption, FrontInv, front_pc = "execute"
  PROVE  /\ Refusal # "Success" =>
              /\ Refusal \in BadRequest
              /\ Refusal = "PsaErrorNotSupported" =>
                   request.opcode \notin Supported(request.provider)
         /\ Refusal = "Success" =>
              /\ BadRequest = {}
              /\ request.opcode \notin Anonymous => app # NoApp
              /\ request.opcode \in AdminOpcodes => app # NoApp /\ app \in Admins
  <1> DEFINE op == request.opcode
             p == request.provider
  <1>1. /\ p \in Backends /\ p \in Backend /\ IsCapable(p) = "Success"
        /\ app \in App \cup {NoApp} /\ NoApp \notin App
        /\ app # NoApp => app = Identity /\ request.auth_type = authenticator
        /\ app = NoApp => request.auth_type = "NoAuth"
        /\ authenticator # "NoAuth"
    BY DEF FrontInv, ChecksPassed, FrontTypeOK, AppIsIdentity, FrontEndAssumption, Backends,
           Backend
  <1>2. Supported(p) \subseteq Methods(p)
    BY <1>1, Announced DEF Backend
  <1>3. /\ (p = "core") = (op \in CoreOpcodes)
        /\ request.types # "content" /\ request.types # "accept"
    BY <1>1 DEF IsCapable
  <1>4. ASSUME Refusal # "Success"
        PROVE  Refusal \in BadRequest /\ (Refusal = "PsaErrorNotSupported" => op \notin Supported(p))
    <2>1. \/ Refusal = "NotAuthenticated" /\ app = NoApp /\ op \notin Anonymous \ AdminOpcodes
          \/ Refusal = "AdminOperation" /\ op \in AdminOpcodes /\ app # NoApp /\ app \notin Admins
          \/ Refusal = "DeserializingBodyFailed" /\ request.body = "undecodable"
          \/ Refusal = "PsaErrorNotSupported" /\ op \notin Methods(p)
      BY <1>4 DEF Refusal, IsAdmin
    <2>2. Refusal \in Status
      BY <2>1 DEF Status
    <2> QED
      BY <1>1, <1>2, <2>1, <2>2 DEF BadRequest
  <1>5. ASSUME Refusal = "Success"
        PROVE  /\ BadRequest = {}
               /\ op \notin Anonymous => app # NoApp
               /\ op \in AdminOpcodes => app # NoApp /\ app \in Admins
    <2>1. /\ op \in AdminOpcodes => app # NoApp /\ app \in Admins
          /\ request.body # "undecodable" /\ op \in Methods(p)
          /\ op \notin Anonymous => app # NoApp
      BY <1>5 DEF Refusal, IsAdmin
    <2>2. app = NoApp => op \in Anonymous \ AdminOpcodes
      BY <2>1
    <2>3. request.auth_type = "NoAuth" => app = NoApp
      BY <1>1
    <2> QED
      BY <1>1, <1>3, <2>1, <2>2, <2>3 DEF BadRequest
  <1> QED
    BY <1>4, <1>5

LEMMA ExecuteInv ==
  ASSUME FrontEndAssumption, FrontInv, Execute
  PROVE  FrontInv'
  <1>1. /\ front_pc = "execute" /\ UNCHANGED <<input, app>> /\ app' = app
        /\ request.body # "unreadable" /\ BadAuthentication = {} /\ calls = {}
        /\ app \in App \cup {NoApp}
        /\ app # NoApp => app = Identity /\ request.auth_type = authenticator
    BY DEF Execute, FrontInv, ChecksPassed, FrontTypeOK, AppIsIdentity
  <1>2. CASE Refusal # "Success"
    <2>1. Respond(Refusal) /\ calls' = calls
      BY <1>2 DEF Execute
    <2>2. Refusal \in BadRequest /\ Refusal \in Status
      BY <1>1, <1>2, RefusalFacts DEF BadRequest
    <2>3. Refusal = "PsaErrorNotSupported" => request.opcode \notin Supported(request.provider)
      BY <1>1, <1>2, RefusalFacts
    <2> QED
      BY <1>1, <2>1, <2>2, <2>3, Refuses
  <1>3. CASE Refusal = "Success"
    <2>1. PICK s \in {"Success", "ProviderError", "SerializingBodyFailed"} : Respond(s)
      BY <1>3 DEF Execute
    <2>2. calls' = {Call} /\ front_pc' = "write" /\ response' = s /\ s \in Status
      BY <1>1, <1>3, <2>1 DEF Execute, Respond, Status
    <2>3. s # NoStatus
      BY <2>2, NoResponse
    <2>4. /\ Call.opcode = request.opcode /\ Call.provider = request.provider
          /\ Call.app # NoApp => Call.app = app
          /\ request.opcode \notin Anonymous => Call.app = app
      BY DEF Call
    <2>5. /\ BadRequest = {}
          /\ request.opcode \notin Anonymous => app # NoApp
          /\ request.opcode \in AdminOpcodes => app # NoApp /\ app \in Admins
      BY <1>1, <1>3, RefusalFacts
    <2>6. FrontTypeOK'
      BY <1>1, <2>2, <2>3, <2>4, InputKept DEF FrontInv, FrontTypeOK
    <2>7. AppIsIdentity' /\ ChecksPassed'
      BY <1>1, <2>2, InputKept DEF AppIsIdentity, ChecksPassed
    <2>8. CallsAreAuthorized'
      <3>1. ASSUME NEW c \in calls'
            PROVE  /\ c.app # NoApp => c.app = Identity /\ request.auth_type = authenticator
                   /\ c.opcode \notin Anonymous => c.app # NoApp
                   /\ c.opcode \in AdminOpcodes =>
                        Identity \in Admins /\ request.auth_type = authenticator
        BY <1>1, <2>2, <2>4, <2>5
      <3>2. Identity' = Identity /\ (request.auth_type = authenticator)'
                                     = (request.auth_type = authenticator)
        BY <1>1, InputKept
      <3> QED
        BY <3>1, <3>2 DEF CallsAreAuthorized
    <2>9. ResponseAgrees'
      <3>1. /\ request' = request /\ BadAuthentication' = {} /\ BadRequest' = {}
        BY <1>1, <2>5, InputKept
      <3>2. \E c \in calls' : calls' = {c}
        BY <2>2
      <3> QED
        BY <1>1, <2>1, <2>2, <3>1, <3>2 DEF ResponseAgrees
    <2> QED
      BY <2>6, <2>7, <2>8, <2>9 DEF FrontInv
  <1> QED
    BY <1>2, <1>3

(* A request is answered once checked, whatever it holds.                  *)
LEMMA FrontNextInv ==
  ASSUME FrontEndAssumption, FrontInv, [FrontNext]_frontVars
  PROVE  FrontInv'
  <1>1. CASE Write
    <2>1. /\ front_pc = "write" /\ front_pc' = "done" /\ UNCHANGED <<input, app, response, calls>>
      BY <1>1 DEF Write
    <2>2. FrontTypeOK' /\ AppIsIdentity' /\ ChecksPassed' /\ CallsAreAuthorized'
      BY <2>1, InputKept DEF FrontInv, FrontTypeOK, AppIsIdentity, ChecksPassed,
                             CallsAreAuthorized
    <2>3. ResponseAgrees'
      BY <2>1, InputKept DEF FrontInv, ResponseAgrees
    <2> QED
      BY <2>2, <2>3 DEF FrontInv
  <1>2. CASE UNCHANGED frontVars
    <2>1. UNCHANGED <<input, front_pc, app, response, calls>>
      BY <1>2 DEF frontVars, input
    <2>2. FrontTypeOK' /\ AppIsIdentity' /\ ChecksPassed' /\ CallsAreAuthorized'
      BY <2>1, InputKept DEF FrontInv, FrontTypeOK, AppIsIdentity, ChecksPassed,
                             CallsAreAuthorized
    <2>3. ResponseAgrees'
      BY <2>1, InputKept DEF FrontInv, ResponseAgrees
    <2> QED
      BY <2>2, <2>3 DEF FrontInv
  <1> QED
    BY <1>1, <1>2, ReadInv, AuthenticateInv, DispatchInv, ExecuteInv DEF FrontNext

LEMMA FrontInvHolds ==
  ASSUME FrontEndAssumption
  PROVE  FrontSpec => []FrontInv
  <1>1. FrontInit => FrontInv
    BY NoResponse DEF FrontInit, FrontInv, FrontTypeOK, AppIsIdentity, ChecksPassed,
                      CallsAreAuthorized, ResponseAgrees
  <1>2. FrontInv /\ [FrontNext]_frontVars => FrontInv'
    BY FrontNextInv
  <1> QED
    BY <1>1, <1>2, PTL DEF FrontSpec

(* A provider works only for the identity behind a request, and clients    *)
(* are listed and deleted only for an admin, whatever request is sent,     *)
(* from whichever user, under whichever authenticator.                     *)
THEOREM OnlyAuthorizedCalls == FrontSpec => []CallsAreAuthorized
  <1>1. FrontInv => CallsAreAuthorized
    BY DEF FrontInv
  <1> QED
    BY <1>1, FrontInvHolds, ServiceAssumption, PTL

(* Every request is served once, or refused with something that is wrong   *)
(* with it.                                                                *)
THEOREM ResponsesAgree == FrontSpec => []ResponseAgrees
  <1>1. FrontInv => ResponseAgrees
    BY DEF FrontInv
  <1> QED
    BY <1>1, FrontInvHolds, ServiceAssumption, PTL
---------------------------------------------------------------------------
(* The core provider.                                                      *)

(* Every provider has one place in the list.                               *)
LEMMA PositionFacts ==
  ASSUME CoreProviderAssumption
  PROVE  /\ \A k \in Key : /\ Position(k) \in 1 .. Len(ProvList)
                           /\ ProvList[Position(k)] = k.provider
         /\ \A i, j \in 1 .. Len(ProvList) : ProvList[i] = ProvList[j] => i = j
         /\ Len(ProvList) \in Nat
         /\ \A k \in Key : k.app \in Client /\ k.name \in KeyName
         /\ \A k \in Key : k = [provider |-> k.provider, app |-> k.app, name |-> k.name]
  <1>1. DOMAIN ProvList = 1 .. Len(ProvList) /\ Len(ProvList) \in Nat
    BY DEF CoreProviderAssumption
  <1>2. \A k \in Key : k.provider \in Provider /\ k.app \in Client /\ k.name \in KeyName
    BY DEF CoreProviderAssumption
  <1>3. \A k \in Key : \E i \in DOMAIN ProvList : ProvList[i] = k.provider
    BY <1>2 DEF CoreProviderAssumption
  <1>4. \A k \in Key : Position(k) \in DOMAIN ProvList /\ ProvList[Position(k)] = k.provider
    BY <1>3 DEF Position
  <1>5. \A k \in Key : k = [provider |-> k.provider, app |-> k.app, name |-> k.name]
    BY DEF CoreProviderAssumption
  <1> QED
    BY <1>1, <1>2, <1>4, <1>5 DEF CoreProviderAssumption

(* The keys and clients that a provider lists are the clients'.            *)
LEMMA ListFacts ==
  ASSUME CoreProviderAssumption, CoreTypeOK, NEW p, NEW a
  PROVE  /\ ListKeys(p, a) \subseteq keys /\ ListKeys(p, a) \subseteq Key
         /\ ListClients(p) \subseteq Client
         /\ \A k \in keys : k.provider = p => k.app \in ListClients(p)
         /\ \A c \in ListClients(p) : \E k \in keys : k.app = c
  <1>1. keys \subseteq Key /\ \A k \in Key : k.app \in Client
    BY DEF CoreTypeOK, CoreProviderAssumption
  <1> QED
    BY <1>1 DEF ListKeys, ListClients

(* The other threads.                                                      *)
LEMMA CreateInv ==
  ASSUME CoreProviderAssumption, CoreInv, NEW k \in Key, Create(k)
  PROVE  CoreInv'
  <1>1. /\ keys' = keys \cup {k} /\ UNCHANGED <<core_pc, client, visiting, todo, found, steady>>
        /\ seen' = [th \in Thread |-> IF Lists(th) THEN seen[th] \cup {k} ELSE seen[th]]
        /\ excused' = [th \in Thread |->
                      IF Asked(th, k) /\ ~(Position(k) = visiting[th] /\ k.name \in todo[th])
                      THEN excused[th] \cup {k} ELSE excused[th]]
    BY DEF Create, walk
  <1>2. CoreTypeOK'
    BY <1>1 DEF CoreInv, CoreTypeOK
  <1>3. \A th \in Thread : /\ Lists(th)' = Lists(th)
                           /\ \A m \in keys' : Asked(th, m)' = Asked(th, m)
                           /\ \A m : Asks(th, m)' = Asks(th, m) /\ Reported(th, m)' = Reported(th, m)
    BY <1>1 DEF Lists, Asked, Deletes, Asks, Reported, Position
  <1>4. BeginsAnew' /\ HistoryIsTrue'
    BY <1>1, <1>3 DEF CoreInv, BeginsAnew, HistoryIsTrue
  <1>5. DeletedUnlessExcused'
    BY <1>1, <1>3 DEF CoreInv, DeletedUnlessExcused, Position
  <1>6. ListsAreHonest'
    <2>1. \A th \in Thread : seen[th] \subseteq seen'[th]
      BY <1>1
    <2> QED
      BY <1>1, <1>3, <2>1 DEF CoreInv, ListsAreHonest, Position
  <1> QED
    BY <1>2, <1>4, <1>5, <1>6 DEF CoreInv

(* A key goes away, whoever destroys it.                                   *)
LEMMA Gone ==
  ASSUME CoreProviderAssumption, CoreInv, NEW k, keys' = keys \ {k},
         UNCHANGED <<core_pc, client, visiting, found, seen>>,
         todo' \in [Thread -> SUBSET KeyName],
         steady' = [th \in Thread |-> steady[th] \ {k}],
         excused' = [th \in Thread |-> excused[th] \ {k}],
         \A th \in Thread, m \in keys' :
            Asked(th, m) /\ Position(m) = visiting[th] /\ m.name \in todo[th]
               => m.name \in todo'[th]
  PROVE  CoreInv'
  <1>1. CoreTypeOK'
    BY DEF CoreInv, CoreTypeOK
  <1>2. \A th \in Thread : /\ Lists(th)' = Lists(th)
                           /\ \A m \in keys' : Asked(th, m)' = Asked(th, m)
                           /\ \A m : Asks(th, m)' = Asks(th, m) /\ Reported(th, m)' = Reported(th, m)
    BY DEF Lists, Asked, Deletes, Asks, Reported, Position
  <1>3. BeginsAnew' /\ HistoryIsTrue'
    BY <1>2 DEF CoreInv, BeginsAnew, HistoryIsTrue
  <1>4. DeletedUnlessExcused'
    BY <1>2 DEF CoreInv, DeletedUnlessExcused, Position
  <1>5. ListsAreHonest'
    BY <1>2 DEF CoreInv, ListsAreHonest, Position
  <1> QED
    BY <1>1, <1>3, <1>4, <1>5 DEF CoreInv

(* What the invariant says of one thread.                                  *)
InvOf(th) ==
    /\ core_pc[th] = "idle" => visiting[th] = 1 /\ found[th] = {}
    /\ core_pc[th] \in {"list_keys", "delete_client"} => client[th] \in Client
    /\ steady[th] \subseteq keys
    /\ Lists(th) => keys \subseteq seen[th]
    /\ \A k \in keys :
          Asked(th, k) => k \in excused[th] \/ (Position(k) = visiting[th] /\ k.name \in todo[th])
    /\ Lists(th) =>
          /\ \A k \in steady[th] :
                Asks(th, k) /\ Position(k) < visiting[th] => Reported(th, k) \in found[th]
          /\ found[th] \subseteq {Reported(th, k) : k \in {m \in seen[th] : Asks(th, m)}}

LEMMA InvByThread == CoreInv <=> CoreTypeOK /\ \A th \in Thread : InvOf(th)
  BY DEF CoreInv, InvOf, BeginsAnew, HistoryIsTrue, DeletedUnlessExcused, ListsAreHonest

(* A step of one thread that leaves the keys alone.                        *)
LEMMA OwnStep ==
  ASSUME CoreInv, NEW th \in Thread, keys' = keys, CoreTypeOK',
         \A o \in Thread \ {th} :
            /\ core_pc'[o] = core_pc[o] /\ client'[o] = client[o]
            /\ visiting'[o] = visiting[o] /\ todo'[o] = todo[o] /\ found'[o] = found[o]
            /\ steady'[o] = steady[o] /\ seen'[o] = seen[o] /\ excused'[o] = excused[o],
         InvOf(th)'
  PROVE  CoreInv'
  <1>1. ASSUME NEW o \in Thread \ {th}
        PROVE  InvOf(o)'
    <2>1. /\ core_pc'[o] = core_pc[o] /\ client'[o] = client[o]
          /\ visiting'[o] = visiting[o] /\ todo'[o] = todo[o] /\ found'[o] = found[o]
          /\ steady'[o] = steady[o] /\ seen'[o] = seen[o] /\ excused'[o] = excused[o]
          /\ keys' = keys
      BY <1>1
    <2>2. /\ Lists(o)' = Lists(o)
          /\ \A m : /\ Asked(o, m)' = Asked(o, m)
                   /\ Asks(o, m)' = Asks(o, m) /\ Reported(o, m)' = Reported(o, m)
      BY <2>1 DEF Lists, Asked, Deletes, Asks, Reported, Position
    <2>3. InvOf(o)
      BY <1>1, InvByThread
    <2> QED
      BY <2>1, <2>2, <2>3 DEF InvOf, Position
  <1>2. (CoreTypeOK /\ \A o \in Thread : InvOf(o))'
    BY <1>1
  <1>3. (CoreTypeOK /\ \A o \in Thread : InvOf(o))' => CoreInv'
    BY DEF CoreInv, InvOf, BeginsAnew, HistoryIsTrue, DeletedUnlessExcused, ListsAreHonest
  <1> QED
    BY <1>2, <1>3

LEMMA BeginInv ==
  ASSUME CoreProviderAssumption, CoreInv, NEW th \in Thread, NEW op, NEW a,
         Begin(th, op, a),
         \/ op \in {"list_keys", "delete_client"} /\ a \in Client
         \/ op = "list_clients" /\ a = NoClient
  PROVE  CoreInv'
  <1>1. /\ core_pc[th] = "idle" /\ core_pc' = [core_pc EXCEPT ![th] = op]
        /\ client' = [client EXCEPT ![th] = a]
        /\ steady' = [steady EXCEPT ![th] = IF op = "delete_client" THEN {} ELSE keys]
        /\ seen' = [seen EXCEPT ![th] = IF op = "delete_client" THEN {} ELSE keys]
        /\ UNCHANGED <<keys, visiting, todo, found, excused>>
    BY DEF Begin
  <1>2. CoreTypeOK /\ visiting[th] = 1 /\ found[th] = {}
    BY <1>1 DEF CoreInv, BeginsAnew
  <1>3. CoreTypeOK'
    BY <1>1, <1>2 DEF CoreTypeOK
  <1>4. /\ core_pc'[th] = op /\ client'[th] = a /\ visiting'[th] = 1 /\ found'[th] = {}
        /\ steady'[th] = seen'[th] /\ steady'[th] = (IF op = "delete_client" THEN {} ELSE keys)
    BY <1>1, <1>2 DEF CoreTypeOK
  <1>5. \A k \in keys : Position(k) \in 1 .. Len(ProvList)
    BY <1>2, PositionFacts DEF CoreTypeOK
  <1>6. InvOf(th)'
    <2>1. \A k \in keys : ~ Asked(th, k)'
      <3>1. \A k \in keys : ~(Position(k) < 1) /\ op # "destroy"
        BY <1>5
      <3> QED
        BY <1>1, <1>4, <3>1 DEF Asked, Position
    <2>2. \A k \in keys : ~(Position(k) < 1)
      BY <1>5
    <2>3. op = "delete_client" => ~ Lists(th)'
      BY <1>4 DEF Lists
    <2>4. steady'[th] \subseteq keys'
      BY <1>1, <1>4
    <2>5. Lists(th)' => steady'[th] = keys /\ seen'[th] = keys
      BY <1>4, <2>3
    <2> QED
      BY <1>1, <1>4, <2>1, <2>2, <2>4, <2>5 DEF InvOf, Position
  <1> QED
    BY <1>1, <1>2, <1>3, <1>6, OwnStep DEF CoreTypeOK

LEMMA VisitKeysInv ==
  ASSUME CoreProviderAssumption, CoreInv, NEW th \in Thread, VisitKeys(th)
  PROVE  CoreInv'
  <1> DEFINE new == ListKeys(Here(th), client[th])
  <1>1. /\ core_pc[th] = "list_keys" /\ visiting[th] <= Len(ProvList)
        /\ found' = [found EXCEPT ![th] = @ \cup new]
        /\ visiting' = [visiting EXCEPT ![th] = @ + 1]
        /\ UNCHANGED <<keys, core_pc, client, todo, steady, seen, excused>>
    BY DEF VisitKeys, Visits, Advance, history
  <1>2. CoreTypeOK /\ InvOf(th) /\ Len(ProvList) \in Nat
    BY InvByThread, PositionFacts
  <1>3. new \subseteq Key /\ new \subseteq keys
    BY <1>2, ListFacts
  <1>4. \A k \in keys : k.provider = Here(th) /\ k.app = client[th] => k \in new
    BY DEF ListKeys
  <1>5. \A k \in new : k.app = client[th]
    BY DEF ListKeys
  <1> HIDE DEF new
  <1>6. CoreTypeOK'
    BY <1>1, <1>2, <1>3 DEF CoreTypeOK
  <1>7. found'[th] = found[th] \cup new /\ visiting'[th] = visiting[th] + 1
    BY <1>1, <1>2 DEF CoreTypeOK
  <1>8. \A k \in keys : Position(k) < visiting[th] + 1 =>
           Position(k) < visiting[th] \/ k.provider = Here(th)
    BY <1>2, PositionFacts DEF CoreTypeOK, Here
  <1>9. InvOf(th)'
    BY <1>1, <1>2, <1>3, <1>4, <1>5, <1>7, <1>8
       DEF InvOf, Lists, Asked, Deletes, Asks, Reported, Position
  <1> QED
    BY <1>1, <1>2, <1>6, <1>9, OwnStep DEF CoreTypeOK

LEMMA VisitClientsInv ==
  ASSUME CoreProviderAssumption, CoreInv, NEW th \in Thread, VisitClients(th)
  PROVE  CoreInv'
  <1> DEFINE new == ListClients(Here(th))
  <1>1. /\ core_pc[th] = "list_clients" /\ visiting[th] <= Len(ProvList)
        /\ found' = [found EXCEPT ![th] = @ \cup new]
        /\ visiting' = [visiting EXCEPT ![th] = @ + 1]
        /\ UNCHANGED <<keys, core_pc, client, todo, steady, seen, excused>>
    BY DEF VisitClients, Visits, Advance, history
  <1>2. CoreTypeOK /\ InvOf(th) /\ Len(ProvList) \in Nat
    BY InvByThread, PositionFacts
  <1>3. /\ new \subseteq Client
        /\ \A k \in keys : k.provider = Here(th) => k.app \in new
        /\ \A c \in new : \E k \in keys : k.app = c
    BY <1>2, ListFacts
  <1> HIDE DEF new
  <1>4. CoreTypeOK'
    BY <1>1, <1>2, <1>3 DEF CoreTypeOK
  <1>5. found'[th] = found[th] \cup new /\ visiting'[th] = visiting[th] + 1
    BY <1>1, <1>2 DEF CoreTypeOK
  <1>6. \A k \in keys : Position(k) < visiting[th] + 1 =>
           Position(k) < visiting[th] \/ k.provider = Here(th)
    BY <1>2, PositionFacts DEF CoreTypeOK, Here
  <1>7. InvOf(th)'
    <2>1. /\ Lists(th) /\ Lists(th)'
          /\ \A m : /\ Asks(th, m) /\ Asks(th, m)' /\ ~ Asked(th, m)'
                   /\ Reported(th, m) = m.app /\ Reported(th, m)' = m.app
      BY <1>1 DEF Lists, Asks, Asked, Deletes, Reported
    <2>2. ASSUME NEW k \in steady[th], Position(k) < visiting[th] + 1
          PROVE  k.app \in found[th] \cup new
      <3>1. k \in keys
        BY <1>2 DEF InvOf
      <3> QED
        BY <1>2, <1>3, <1>6, <2>1, <2>2, <3>1 DEF InvOf
    <2>3. ASSUME NEW c \in found[th] \cup new
          PROVE  \E k \in seen[th] : k.app = c
      <3>1. CASE c \in found[th]
        BY <1>2, <2>1, <3>1 DEF InvOf
      <3>2. CASE c \in new
        BY <1>2, <1>3, <2>1, <3>2 DEF InvOf
      <3> QED
        BY <2>3, <3>1, <3>2
    <2>4. keys \subseteq seen[th] /\ steady[th] \subseteq keys
      BY <1>2, <2>1 DEF InvOf
    <2> QED
      BY <1>1, <1>5, <2>1, <2>2, <2>3, <2>4 DEF InvOf, Position
  <1> QED
    BY <1>1, <1>2, <1>4, <1>7, OwnStep DEF CoreTypeOK

(* The provider is asked: its keys of the client are what is to destroy.   *)
LEMMA VisitToDeleteInv ==
  ASSUME CoreProviderAssumption, CoreInv, NEW th \in Thread, VisitToDelete(th)
  PROVE  CoreInv'
  <1> DEFINE names == {k.name : k \in ListKeys(Here(th), client[th])}
  <1>1. /\ core_pc[th] = "delete_client" /\ visiting[th] <= Len(ProvList)
        /\ core_pc' = [core_pc EXCEPT ![th] = "destroy"]
        /\ todo' = [todo EXCEPT ![th] = names]
        /\ UNCHANGED <<keys, client, visiting, found, steady, seen, excused>>
    BY DEF VisitToDelete, Visits, history
  <1>2. CoreTypeOK /\ InvOf(th) /\ Len(ProvList) \in Nat
    BY InvByThread, PositionFacts
  <1>3. /\ names \subseteq KeyName
        /\ \A k \in keys : k.provider = Here(th) /\ k.app = client[th] => k.name \in names
    BY <1>2, PositionFacts DEF ListKeys, CoreTypeOK
  <1> HIDE DEF names
  <1>4. CoreTypeOK'
    BY <1>1, <1>2, <1>3 DEF CoreTypeOK, InvOf
  <1>5. core_pc'[th] = "destroy" /\ todo'[th] = names /\ visiting[th] \in 1 .. Len(ProvList) + 1
    BY <1>1, <1>2 DEF CoreTypeOK
  <1>6. \A k \in keys : Position(k) = visiting[th] => k.provider = Here(th)
    BY <1>2, PositionFacts DEF CoreTypeOK, Here
  <1>7. \A k \in keys : Asked(th, k)' =>
           k \in excused[th] \/ (Position(k) = visiting[th] /\ k.name \in names)
    <2>1. \A k \in keys : Position(k) \in Nat /\ visiting[th] \in Nat
      BY <1>2, <1>5, PositionFacts DEF CoreTypeOK
    <2>2. ASSUME NEW k \in keys, Asked(th, k)', Position(k) # visiting[th]
          PROVE  k \in excused[th]
      <3>1. Position(k) < visiting[th] /\ client[th] = k.app
        BY <1>1, <2>2 DEF Asked, Position
      <3>2. Asked(th, k)
        BY <1>1, <3>1 DEF Asked, Deletes
      <3> QED
        BY <1>2, <2>2, <3>2 DEF InvOf
    <2>3. ASSUME NEW k \in keys, Asked(th, k)', Position(k) = visiting[th]
          PROVE  k.name \in names
      <3>1. client[th] = k.app
        BY <1>1, <2>3 DEF Asked
      <3> QED
        BY <1>3, <1>6, <2>3, <3>1
    <2> QED
      BY <2>2, <2>3
  <1>8. InvOf(th)'
    BY <1>1, <1>2, <1>5, <1>7 DEF InvOf, Lists, Position
  <1> QED
    BY <1>1, <1>2, <1>4, <1>8, OwnStep DEF CoreTypeOK

(* Nothing is reported of the provider that failed, and nothing destroyed. *)
LEMMA VisitErrorInv ==
  ASSUME CoreProviderAssumption, CoreInv, NEW th \in Thread, VisitError(th)
  PROVE  CoreInv'
  <1> DEFINE left == IF Deletes(th) THEN excused[th] \cup ListKeys(Here(th), client[th])
                     ELSE excused[th]
             kept == {k \in steady[th] : k.provider # Here(th)}
  <1>1. /\ core_pc[th] \in {"list_keys", "list_clients", "delete_client"}
        /\ visiting[th] <= Len(ProvList)
        /\ visiting' = [visiting EXCEPT ![th] = @ + 1]
        /\ steady' = [steady EXCEPT ![th] = kept]
        /\ excused' = [excused EXCEPT ![th] = left]
        /\ UNCHANGED <<keys, core_pc, client, todo, found, seen>>
    BY DEF VisitError, Visits, Advance, CoreInv, CoreTypeOK
  <1>2. CoreTypeOK /\ InvOf(th) /\ Len(ProvList) \in Nat
    BY InvByThread, PositionFacts
  <1>3. /\ left \subseteq Key /\ excused[th] \subseteq left
        /\ \A k \in keys : Deletes(th) /\ k.provider = Here(th) /\ k.app = client[th]
                              => k \in left
    BY <1>2, ListFacts DEF ListKeys, CoreTypeOK
  <1>4. kept \subseteq steady[th] /\ \A k \in kept : k.provider # Here(th)
    OBVIOUS
  <1> HIDE DEF left, kept
  <1>5. CoreTypeOK'
    BY <1>1, <1>2, <1>3, <1>4 DEF CoreTypeOK
  <1>6. visiting'[th] = visiting[th] + 1 /\ steady'[th] = kept /\ excused'[th] = left
    BY <1>1, <1>2 DEF CoreTypeOK
  <1>7. \A k \in keys : Position(k) < visiting[th] + 1 =>
           Position(k) < visiting[th] \/ k.provider = Here(th)
    BY <1>2, PositionFacts DEF CoreTypeOK, Here
  <1>8. InvOf(th)'
    <2>1. /\ Lists(th)' = Lists(th) /\ Lists(th) = ~ Deletes(th)
          /\ \A m : Asks(th, m)' = Asks(th, m) /\ Reported(th, m)' = Reported(th, m)
      BY <1>1 DEF Lists, Asks, Deletes, Reported
    <2>2. CASE Lists(th)
      <3>1. \A k \in keys : ~ Asked(th, k)'
        BY <2>1, <2>2 DEF Asked, Deletes, Lists
      <3>2. ASSUME NEW k \in kept, Asks(th, k), Position(k) < visiting[th] + 1
            PROVE  Reported(th, k) \in found[th]
        BY <1>2, <1>4, <1>7, <2>2, <3>2 DEF InvOf
      <3> QED
        BY <1>1, <1>2, <1>4, <1>6, <2>1, <2>2, <3>1, <3>2 DEF InvOf, Position
    <2>3. CASE Deletes(th)
      <3>1. ASSUME NEW k \in keys, Asked(th, k)'
            PROVE  k \in left
        <4>1. Position(k) < visiting[th] + 1 /\ client[th] = k.app
          BY <1>1, <1>6, <3>1 DEF Asked, Position
        <4>2. CASE Position(k) < visiting[th]
          <5>1. Asked(th, k) /\ Position(k) \in Nat /\ visiting[th] \in Nat
            BY <1>2, <2>3, <4>1, <4>2, PositionFacts DEF Asked, CoreTypeOK
          <5> QED
            BY <1>2, <1>3, <4>2, <5>1 DEF InvOf
        <4>3. CASE k.provider = Here(th)
          BY <1>3, <2>3, <4>1, <4>3
        <4> QED
          BY <1>7, <4>1, <4>2, <4>3
      <3> QED
        BY <1>1, <1>2, <1>4, <1>6, <2>1, <2>3, <3>1 DEF InvOf, Position
    <2> QED
      BY <2>1, <2>2, <2>3
  <1> QED
    BY <1>1, <1>2, <1>5, <1>8, OwnStep DEF CoreTypeOK

LEMMA DestroyKeyInv ==
  ASSUME CoreProviderAssumption, CoreInv, NEW th \in Thread, NEW n \in KeyName,
         DestroyKey(th, n)
  PROVE  CoreInv'
  <1> DEFINE k == Target(th, n)
  <1>1. /\ core_pc[th] = "destroy" /\ keys' = keys \ {k}
        /\ todo' = [todo EXCEPT ![th] = @ \ {n}]
        /\ steady' = [o \in Thread |-> steady[o] \ {k}]
        /\ excused' = [o \in Thread |-> excused[o] \ {k}]
        /\ UNCHANGED <<core_pc, client, visiting, found, seen>>
    BY DEF DestroyKey
  <1>2. CoreTypeOK
    BY DEF CoreInv
  <1>3. todo' \in [Thread -> SUBSET KeyName]
    BY <1>1, <1>2 DEF CoreTypeOK
  <1>4. ASSUME NEW o \in Thread, NEW m \in keys', Asked(o, m), Position(m) = visiting[o],
               m.name \in todo[o]
        PROVE  m.name \in todo'[o]
    <2>1. CASE o # th
      BY <1>1, <1>2, <1>4, <2>1 DEF CoreTypeOK
    <2>2. CASE o = th
      <3>1. m \in Key /\ m # k
        BY <1>1, <1>2 DEF CoreTypeOK
      <3>2. m.provider = Here(th) /\ m.app = client[th]
        BY <1>4, <2>2, <3>1, PositionFacts DEF Here, Asked
      <3>3. m = [provider |-> m.provider, app |-> m.app, name |-> m.name]
        BY <3>1, PositionFacts
      <3>4. m.name # n
        BY <3>1, <3>2, <3>3 DEF Target
      <3> QED
        BY <1>1, <1>2, <1>4, <2>2, <3>4 DEF CoreTypeOK
    <2> QED
      BY <2>1, <2>2
  <1> HIDE DEF k
  <1> QED
    BY <1>1, <1>3, <1>4, Gone

LEMMA DestroyErrorInv ==
  ASSUME CoreProviderAssumption, CoreInv, NEW th \in Thread, NEW n \in KeyName,
         DestroyError(th, n)
  PROVE  CoreInv'
  <1> DEFINE left == excused[th] \cup (keys \cap {Target(th, n)})
  <1>1. /\ core_pc[th] = "destroy"
        /\ todo' = [todo EXCEPT ![th] = @ \ {n}]
        /\ excused' = [excused EXCEPT ![th] = left]
        /\ UNCHANGED <<keys, core_pc, client, visiting, found, steady, seen>>
    BY DEF DestroyError, CoreInv, CoreTypeOK
  <1>2. CoreTypeOK /\ InvOf(th)
    BY InvByThread
  <1>3. /\ left \subseteq Key /\ excused[th] \subseteq left
        /\ \A k \in keys : k = Target(th, n) => k \in left
    BY <1>2 DEF CoreTypeOK
  <1>4. todo'[th] = todo[th] \ {n} /\ excused'[th] = left
    BY <1>1, <1>2 DEF CoreTypeOK
  <1> HIDE DEF left
  <1>5. CoreTypeOK'
    BY <1>1, <1>2, <1>3 DEF CoreTypeOK
  <1>6. ASSUME NEW k \in keys, Asked(th, k)
        PROVE  k \in left \/ (Position(k) = visiting[th] /\ k.name \in todo[th] \ {n})
    <2>1. k \in excused[th] \/ (Position(k) = visiting[th] /\ k.name \in todo[th])
      BY <1>2, <1>6 DEF InvOf
    <2>2. ASSUME Position(k) = visiting[th], k.name = n
          PROVE  k \in left
      <3>1. k \in Key /\ k.app = client[th]
        BY <1>2, <1>6 DEF CoreTypeOK, Asked
      <3>2. k.provider = Here(th)
        BY <2>2, <3>1, PositionFacts DEF Here
      <3>3. k = [provider |-> k.provider, app |-> k.app, name |-> k.name]
        BY <3>1, PositionFacts
      <3> QED
        BY <1>3, <2>2, <3>1, <3>2, <3>3 DEF Target
    <2> QED
      BY <1>3, <2>1, <2>2
  <1>7. \A k \in keys : Asked(th, k)' => Asked(th, k)
    BY <1>1 DEF Asked, Deletes, Position
  <1>8. InvOf(th)'
    BY <1>1, <1>2, <1>4, <1>6, <1>7 DEF InvOf, Lists, Position
  <1> QED
    BY <1>1, <1>2, <1>5, <1>8, OwnStep DEF CoreTypeOK

(* The provider has been asked and nothing of its list is left.            *)
LEMMA NextProviderInv ==
  ASSUME CoreProviderAssumption, CoreInv, NEW th \in Thread, NextProvider(th)
  PROVE  CoreInv'
  <1>1. /\ core_pc[th] = "destroy" /\ todo[th] = {}
        /\ core_pc' = [core_pc EXCEPT ![th] = "delete_client"]
        /\ visiting' = [visiting EXCEPT ![th] = @ + 1]
        /\ UNCHANGED <<keys, client, todo, found, steady, seen, excused>>
    BY DEF NextProvider, Advance, history
  <1>2. /\ CoreTypeOK /\ InvOf(th) /\ Len(ProvList) \in Nat
        /\ visiting[th] <= Len(ProvList) /\ client[th] \in Client
    BY <1>1, InvByThread, PositionFacts DEF CoreTypeOK
  <1>3. CoreTypeOK'
    BY <1>1, <1>2 DEF CoreTypeOK
  <1>4. core_pc'[th] = "delete_client" /\ visiting'[th] = visiting[th] + 1
    BY <1>1, <1>2 DEF CoreTypeOK
  <1>5. ASSUME NEW k \in keys, Asked(th, k)'
        PROVE  k \in excused[th]
    <2>1. Position(k) \in Nat /\ visiting[th] \in Nat
      BY <1>2, PositionFacts DEF CoreTypeOK
    <2>2. Position(k) < visiting[th] + 1 /\ client[th] = k.app
      BY <1>1, <1>4, <1>5 DEF Asked, Position
    <2>3. Asked(th, k)
      BY <1>1, <2>1, <2>2 DEF Asked, Deletes
    <2> QED
      BY <1>1, <1>2, <2>3 DEF InvOf
  <1>6. InvOf(th)'
    BY <1>1, <1>2, <1>4, <1>5 DEF InvOf, Lists, Position
  <1> QED
    BY <1>1, <1>2, <1>3, <1>6, OwnStep DEF CoreTypeOK

LEMMA AnswerInv ==
  ASSUME CoreProviderAssumption, CoreInv, NEW th \in Thread, Answer(th)
  PROVE  CoreInv'
  <1>1. /\ core_pc' = [core_pc EXCEPT ![th] = "idle"]
        /\ client' = [client EXCEPT ![th] = NoClient]
        /\ visiting' = [visiting EXCEPT ![th] = 1]
        /\ found' = [found EXCEPT ![th] = {}]
        /\ steady' = [steady EXCEPT ![th] = {}]
        /\ seen' = [seen EXCEPT ![th] = {}]
        /\ excused' = [excused EXCEPT ![th] = {}]
        /\ UNCHANGED <<keys, todo>>
    BY DEF Answer
  <1>2. CoreTypeOK /\ Len(ProvList) \in Nat
    BY PositionFacts DEF CoreInv
  <1>3. CoreTypeOK'
    BY <1>1, <1>2 DEF CoreTypeOK
  <1>4. /\ core_pc'[th] = "idle" /\ visiting'[th] = 1 /\ found'[th] = {} /\ steady'[th] = {}
        /\ keys' = keys
    BY <1>1, <1>2 DEF CoreTypeOK
  <1>5. InvOf(th)'
    BY <1>4 DEF InvOf, Lists, Asked, Deletes
  <1> QED
    BY <1>1, <1>2, <1>3, <1>5, OwnStep DEF CoreTypeOK

LEMMA CoreNextInv ==
  ASSUME CoreProviderAssumption, CoreInv, [CoreNext]_coreVars
  PROVE  CoreInv'
  <1>1. ASSUME NEW th \in Thread, Step(th)
        PROVE  CoreInv'
    BY <1>1, VisitKeysInv, VisitClientsInv, VisitToDeleteInv, VisitErrorInv, DestroyKeyInv,
       DestroyErrorInv, NextProviderInv, AnswerInv DEF Step
  <1>2. ASSUME NEW th \in Thread, NEW a \in Client,
               \/ Begin(th, "list_keys", a) \/ Begin(th, "delete_client", a)
               \/ Begin(th, "list_clients", NoClient)
        PROVE  CoreInv'
    BY <1>2, BeginInv
  <1>3. ASSUME NEW th \in Thread, Begin(th, "list_clients", NoClient)
        PROVE  CoreInv'
    BY <1>3, BeginInv
  <1>4. ASSUME NEW k \in Key, Create(k)
        PROVE  CoreInv'
    BY <1>4, CreateInv
  <1>5. ASSUME NEW k \in Key, Destroy(k)
        PROVE  CoreInv'
    <2>1. /\ keys' = keys \ {k} /\ UNCHANGED <<core_pc, client, visiting, todo, found, seen>>
          /\ steady' = [th \in Thread |-> steady[th] \ {k}]
          /\ excused' = [th \in Thread |-> excused[th] \ {k}]
      BY <1>5 DEF Destroy, walk
    <2>2. todo' \in [Thread -> SUBSET KeyName]
      BY <2>1 DEF CoreInv, CoreTypeOK
    <2> QED
      BY <2>1, <2>2, Gone
  <1>6. CASE UNCHANGED coreVars
    <2>1. UNCHANGED <<keys, core_pc, client, visiting, todo, found, steady, seen, excused>>
      BY <1>6 DEF coreVars, walk, history
    <2>2. CoreTypeOK'
      BY <2>1 DEF CoreInv, CoreTypeOK
    <2>3. \A th \in Thread : InvOf(th)' = InvOf(th)
      BY <2>1 DEF InvOf, Lists, Asked, Deletes, Asks, Reported, Position
    <2>4. \A th \in Thread : InvOf(th)
      BY InvByThread
    <2> QED
      BY <2>2, <2>3, <2>4 DEF CoreInv, InvOf, BeginsAnew, HistoryIsTrue, DeletedUnlessExcused,
                              ListsAreHonest
  <1> QED
    BY <1>1, <1>2, <1>3, <1>4, <1>5, <1>6 DEF CoreNext

LEMMA CoreInvHolds ==
  ASSUME CoreProviderAssumption
  PROVE  CoreSpec => []CoreInv
  <1>1. CoreInit => CoreInv
    <2> SUFFICES ASSUME CoreInit PROVE CoreInv
      OBVIOUS
    <2>1. CoreTypeOK
      BY PositionFacts DEF CoreInit, CoreTypeOK
    <2>2. \A th \in Thread : /\ core_pc[th] = "idle" /\ visiting[th] = 1
                             /\ found[th] = {} /\ steady[th] = {}
      BY DEF CoreInit
    <2> QED
      BY <2>1, <2>2, InvByThread DEF InvOf, Lists, Asked, Deletes
  <1>2. CoreInv /\ [CoreNext]_coreVars => CoreInv'
    BY CoreNextInv
  <1> QED
    BY <1>1, <1>2, PTL DEF CoreSpec

(* delete_client leaves no key of the client behind that was there when it *)
(* asked the provider, other than those the provider failed on, while      *)
(* other threads create and destroy keys.                                  *)
THEOREM ClientsDeleted == CoreSpec => []DeletedUnlessExcused
  <1>1. CoreInv => DeletedUnlessExcused
    BY DEF CoreInv
  <1> QED
    BY <1>1, CoreInvHolds, ServiceAssumption, PTL

(* The lists are honest, although no lock spans the providers.             *)
THEOREM ListsHonest == CoreSpec => []ListsAreHonest
  <1>1. CoreInv => ListsAreHonest
    BY DEF CoreInv
  <1> QED
    BY <1>1, CoreInvHolds, ServiceAssumption, PTL
---------------------------------------------------------------------------
(* Every variable of the three parts keeps its type, main listens only     *)
(* with a handler that has a provider, and the numbers of handlers stay    *)
(* within the reloads that were asked for.                                 *)
THEOREM ServiceTypeCorrect == ServiceSpec => []ServiceTypeOK
  <1>1. Spec => []LoopTypeOK
    <2>1. LoopTypeInv => LoopTypeOK
      BY DEF LoopTypeInv
    <2> QED
      BY <2>1, LoopTypesHold, ServiceAssumption, PTL
  <1>2. FrontSpec => []FrontTypeOK
    <2>1. FrontInv => FrontTypeOK
      BY DEF FrontInv
    <2> QED
      BY <2>1, FrontInvHolds, ServiceAssumption, PTL
  <1>3. CoreSpec => []CoreTypeOK
    <2>1. CoreInv => CoreTypeOK
      BY DEF CoreInv
    <2> QED
      BY <2>1, CoreInvHolds, ServiceAssumption, PTL
  <1>4. LoopTypeOK /\ FrontTypeOK /\ CoreTypeOK => ServiceTypeOK
    BY DEF ServiceTypeOK
  <1> QED
    BY <1>1, <1>2, <1>3, <1>4, PTL DEF ServiceSpec
=============================================================================
