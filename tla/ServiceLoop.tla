----------------------------- MODULE ServiceLoop -----------------------------
(***************************************************************************)
(* main (bin/main.rs) and what it builds (utils/service_builder.rs): the   *)
(* configuration, the providers behind the front end handler, the listener *)
(* and the thread pool; the loop that accepts connections until SIGTERM;   *)
(* the reload on SIGHUP.  The front end handler, and with it every         *)
(* provider, lives while main or a job of the pool holds an Arc of it.     *)
(* The request of a job is one step here; FrontEnd and CoreProvider have   *)
(* its inside.                                                             *)
(***************************************************************************)
EXTENDS Naturals, Sequences, FiniteSets, Functions

CONSTANTS
    Conn,       (* connections: a client may connect again                 *)
    Config,     (* what the configuration file may contain                 *)
    NoConfig,
    Kind,       (* kinds of providers                                      *)
    Providers,  (* [Config -> Seq(Kind)]: the provider sections, in order  *)
    PoolSize,   (* [Config -> Nat]: core_settings.thread_pool_size         *)
    AllowRoot,  (* the configurations that set allow_root                  *)
    AsRoot,     (* the service runs as root                                *)
    MaxHup,     (* SIGHUPs in a behaviour (bound)                          *)
    Faults      (* "config", "kim", "provider", "no_tpm", "authenticator", *)
                (* "listener", "accept"                                    *)

(* What the constants must satisfy; the module that composes this one      *)
(* assumes it.                                                             *)
ServiceLoopAssumption ==
    /\ NoConfig \notin Config
    /\ Providers \in [Config -> Seq(Kind)]
    /\ PoolSize \in [Config -> Nat \ {0}]
    /\ AllowRoot \subseteq Config
    /\ AsRoot \in BOOLEAN
    /\ MaxHup \in Nat

VARIABLES
    pc,             (* next step of main                                   *)
    kill_signal,    (* the flags that the signal handlers set              *)
    reload_signal,
    config,         (* the configuration that was read last                *)
    global_config,  (* GlobalConfig: the one whose limits are in force     *)
    gen,            (* number of the front end handler built last          *)
    held,           (* the handlers that main holds                        *)
    made,           (* the provider instances of the handlers              *)
    index,          (* the provider section that is next to be built       *)
    listening,      (* there is a socket                                   *)
    backlog,        (* connections that wait to be accepted                *)
    queue,          (* thread pool: jobs not started                       *)
    running,        (* thread pool: jobs being executed                    *)
    job,            (* per connection: the handler of its job              *)
    hups,           (* SIGHUPs so far                                      *)
    asked           (* history: SIGHUP since the configuration was read    *)

signals == <<kill_signal, reload_signal, hups>>
handlers == <<config, global_config, gen, held, made, index>>
socket == <<listening, backlog>>
pool == <<queue, running, job>>
vars == <<pc, signals, handlers, socket, pool, asked>>

Gen == 0 .. MaxHup + 1
Instance == [gen : Gen, kind : Kind, section : Nat]

NoJob == [gen |-> 0, config |-> NoConfig]

LoopTypeOK ==
    /\ pc \in {"config", "kim", "providers", "authenticators", "listener", "kill_check",
               "reload_check", "accept", "join", "drop", "stop_join", "exited"}
    /\ kill_signal \in BOOLEAN /\ reload_signal \in BOOLEAN
    /\ config \in Config \cup {NoConfig} /\ global_config \in Config \cup {NoConfig}
    /\ gen \in Gen /\ held \subseteq Gen
    /\ made \subseteq Instance
    /\ pc \in {"listener", "kill_check", "reload_check", "accept", "join", "drop", "stop_join"}
          => held = {gen} /\ \E i \in made : i.gen = gen
    /\ index \in Nat
    /\ listening \in BOOLEAN
    /\ backlog \in Seq(Conn) /\ queue \in Seq(Conn) /\ running \subseteq Conn
    /\ job \in [Conn -> [gen : Gen, config : Config \cup {NoConfig}]]
    /\ hups \in 0 .. MaxHup /\ asked \in BOOLEAN

Init ==
    /\ pc = "config"
    /\ kill_signal = FALSE /\ reload_signal = FALSE
    /\ config = NoConfig /\ global_config = NoConfig
    /\ gen = 0 /\ held = {} /\ made = {} /\ index = 1
    /\ listening = FALSE /\ backlog = <<>>
    /\ queue = <<>> /\ running = {}
    /\ job = [c \in Conn |-> NoJob]
    /\ hups = 0 /\ asked = FALSE

Fails(fault) == fault \in Faults

Goto(from, to) == pc = from /\ pc' = to

---------------------------------------------------------------------------
(* An Arc of a handler is in the hands of main or of a job; the providers  *)
(* of a handler are dropped with the last one.                             *)
Accepted == Range(queue) \cup running
Held == held \cup {job[c].gen : c \in Accepted}
Alive == {i \in made : i.gen \in Held}

(* main returns an error: everything it holds is dropped.                  *)
Exit ==
    /\ pc' = "exited"
    /\ held' = {} /\ listening' = FALSE /\ backlog' = <<>>
    /\ UNCHANGED <<signals, config, global_config, gen, made, index, pool, asked>>
---------------------------------------------------------------------------
(* ServiceBuilder::build_service, at the start and in a reload.            *)

(* The configuration file is read and parsed; allow_root is looked at only *)
(* at the start.  build_service begins with the global configuration.      *)
Configure(c) ==
    /\ Goto("config", "kim")
    /\ (gen = 0 /\ AsRoot) => c \in AllowRoot
    /\ config' = c
    /\ global_config' = c
    /\ gen' = gen + 1
    /\ index' = 1
    /\ asked' = FALSE
    /\ UNCHANGED <<signals, held, made, socket, pool>>

ConfigError ==
    /\ pc = "config"
    /\ Fails("config") \/ (gen = 0 /\ AsRoot /\ AllowRoot # Config)
    /\ Exit

(* gey_key_info_manager_builders.                                          *)
BuildKeyInfoManagers ==
    /\ Goto("kim", "providers")
    /\ UNCHANGED <<signals, handlers, socket, pool, asked>>

KimError == pc = "kim" /\ Fails("kim") /\ Exit

Section == Providers[config][index]
MoreSections == index <= Len(Providers[config])
Listed == {i.kind : i \in {m \in made : m.gen = gen}}

(* One turn of the loop of build_providers.                                *)
BuildProvider ==
    /\ pc = "providers" /\ MoreSections
    /\ Section \notin Listed
    /\ made' = made \cup {[gen |-> gen, kind |-> Section, section |-> index]}
    /\ held' = held \cup {gen}
    /\ index' = index + 1
    /\ UNCHANGED <<pc, signals, config, global_config, gen, socket, pool, asked>>

(* get_provider returns Ok(None): skip_if_no_tpm, and there is none.       *)
SkipProvider ==
    /\ pc = "providers" /\ MoreSections
    /\ Section = "tpm" /\ Section \notin Listed
    /\ Fails("no_tpm")
    /\ index' = index + 1
    /\ UNCHANGED <<pc, signals, config, global_config, gen, held, made, socket, pool, asked>>

(* A second section of a kind, no key info manager of the name, get_provider *)
(* fails, or no provider at all.                                             *)
ProviderError ==
    /\ pc = "providers"
    /\ \/ MoreSections /\ (Section \in Listed \/ Fails("provider"))
       \/ ~MoreSections /\ Listed = {}
    /\ Exit

BuildProvidersDone_None ==   \* mutant: a service without providers starts
    /\ Goto("providers", "authenticators")
    /\ ~MoreSections
    /\ UNCHANGED <<signals, handlers, socket, pool, asked>>

BuildProvidersDone ==
    /\ Goto("providers", "authenticators")
    /\ ~MoreSections /\ Listed # {}
    /\ UNCHANGED <<signals, handlers, socket, pool, asked>>

(* build_authenticators, build_backend_handlers, dispatcher and front end: *)
(* main gets the new handler.                                              *)
BuildFrontEnd ==
    /\ Goto("authenticators", "listener")
    /\ held' = {gen}
    /\ UNCHANGED <<signals, config, global_config, gen, made, index, socket, pool, asked>>

AuthenticatorError == pc = "authenticators" /\ Fails("authenticator") /\ Exit

Listen_ClearsSignal ==   \* mutant: a reload ends by clearing the flag
    /\ Goto("listener", IF gen = 1 THEN "kill_check" ELSE "accept")
    /\ listening' = TRUE
    /\ reload_signal' = FALSE
    /\ UNCHANGED <<kill_signal, hups, handlers, backlog, pool, asked>>

(* start_listener, DomainSocketListener::new, and a new thread pool.  The  *)
(* loop is entered at its test, or taken up after the reload.              *)
Listen ==
    /\ Goto("listener", IF gen = 1 THEN "kill_check" ELSE "accept")
    /\ listening' = TRUE
    /\ UNCHANGED <<signals, handlers, backlog, pool, asked>>

ListenError == pc = "listener" /\ Fails("listener") /\ Exit
---------------------------------------------------------------------------
(* The loop of main.                                                       *)

KillCheck ==
    /\ Goto("kill_check", IF kill_signal THEN "stop_join" ELSE "reload_check")
    /\ UNCHANGED <<signals, handlers, socket, pool, asked>>

ReloadCheck_NoJoin ==   \* mutant: a reload does not wait for the pool
    /\ Goto("reload_check", IF reload_signal THEN "drop" ELSE "accept")
    /\ reload_signal' = FALSE
    /\ UNCHANGED <<kill_signal, hups, handlers, socket, pool, asked>>

(* reload_signal.swap(false).                                              *)
ReloadCheck ==
    /\ Goto("reload_check", IF reload_signal THEN "join" ELSE "accept")
    /\ reload_signal' = FALSE
    /\ UNCHANGED <<kill_signal, hups, handlers, socket, pool, asked>>

(* threadpool.join(): no job is queued or running.                         *)
Join ==
    /\ Goto("join", "drop")
    /\ Accepted = {}
    /\ UNCHANGED <<signals, handlers, socket, pool, asked>>

Drop_Nothing ==   \* mutant: the old values go when they are overwritten
    /\ Goto("drop", "config")
    /\ listening' = FALSE /\ backlog' = <<>>
    /\ UNCHANGED <<signals, handlers, pool, asked>>

(* drop(front_end_handler), drop(listener), drop(threadpool): connections  *)
(* that were not accepted are lost.                                        *)
Drop ==
    /\ Goto("drop", "config")
    /\ held' = {} /\ listening' = FALSE /\ backlog' = <<>>
    /\ UNCHANGED <<signals, config, global_config, gen, made, index, pool, asked>>

Accept_UntilIdle ==   \* mutant: the flags are tested only when nobody connects
    /\ pc = "accept" /\ backlog # <<>>
    /\ LET c == Head(backlog)
       IN  /\ queue' = Append(queue, c)
           /\ job' = [job EXCEPT ![c] = [gen |-> gen, config |-> config]]
    /\ backlog' = Tail(backlog)
    /\ UNCHANGED <<pc, signals, handlers, listening, running, asked>>

(* listener.accept() and threadpool.execute.                               *)
Accept ==
    /\ Goto("accept", "kill_check")
    /\ backlog # <<>>
    /\ LET c == Head(backlog)
       IN  /\ queue' = Append(queue, c)
           /\ job' = [job EXCEPT ![c] = [gen |-> gen, config |-> config]]
    /\ backlog' = Tail(backlog)
    /\ UNCHANGED <<signals, handlers, listening, running, asked>>

(* accept returns None: nobody connects, or the stream cannot be set up    *)
(* and is closed.  main sleeps.                                            *)
AcceptNone ==
    /\ Goto("accept", "kill_check")
    /\ \/ backlog = <<>> /\ UNCHANGED backlog
       \/ Fails("accept") /\ backlog # <<>> /\ backlog' = Tail(backlog)
    /\ UNCHANGED <<signals, handlers, listening, pool, asked>>

StopJoin_Skipped ==   \* mutant: the service does not wait at its end
    /\ pc = "stop_join"
    /\ Exit

(* After the loop: threadpool.join(), and main returns.                    *)
StopJoin ==
    /\ pc = "stop_join"
    /\ Accepted = {}
    /\ Exit

Main ==
    \/ \E c \in Config : Configure(c)
    \/ ConfigError \/ BuildKeyInfoManagers \/ KimError
    \/ BuildProvider \/ SkipProvider \/ ProviderError \/ BuildProvidersDone
    \/ BuildFrontEnd \/ AuthenticatorError \/ Listen \/ ListenError
    \/ KillCheck \/ ReloadCheck \/ Join \/ Drop \/ Accept \/ AcceptNone \/ StopJoin
---------------------------------------------------------------------------
(* The thread pool, the clients and the signals.                           *)

StartJob ==
    /\ queue # <<>>
    /\ Cardinality(running) < PoolSize[config]
    /\ running' = running \cup {Head(queue)}
    /\ queue' = Tail(queue)
    /\ UNCHANGED <<pc, signals, handlers, socket, job, asked>>

(* handle_request returns: the stream has timeouts, so it does in any      *)
(* case; or it panics, and the pool replaces the thread.                   *)
EndJob(c) ==
    /\ c \in running
    /\ running' = running \ {c}
    /\ job' = [job EXCEPT ![c] = NoJob]
    /\ UNCHANGED <<pc, signals, handlers, socket, queue, asked>>

Connect(c) ==
    /\ listening
    /\ c \notin Accepted \cup Range(backlog)
    /\ backlog' = Append(backlog, c)
    /\ UNCHANGED <<pc, signals, handlers, listening, pool, asked>>

Term ==
    /\ pc # "exited" /\ ~kill_signal
    /\ kill_signal' = TRUE
    /\ UNCHANGED <<pc, reload_signal, hups, handlers, socket, pool, asked>>

Hup ==
    /\ pc # "exited" /\ hups < MaxHup
    /\ hups' = hups + 1
    /\ reload_signal' = TRUE
    /\ asked' = TRUE
    /\ UNCHANGED <<pc, kill_signal, handlers, socket, pool>>

Next ==
    \/ Main
    \/ StartJob \/ \E c \in Conn : EndJob(c) \/ Connect(c)
    \/ Term \/ Hup

Spec == Init /\ [][Next]_vars

(* The operating system schedules main and the threads of the pool.        *)
FairSpec ==
    /\ Spec
    /\ WF_vars(Main)
    /\ WF_vars(StartJob)
    /\ \A c \in Conn : WF_vars(EndJob(c))
---------------------------------------------------------------------------
(* Each hardware or file resource has one user: two instances of a kind of *)
(* provider are never alive at the same time, not even while a request of  *)
(* the time before a reload is finishing (main.rs drops the old values     *)
(* before it builds, since libraries "might be initialized twice", and     *)
(* get_provider is unsafe on the same condition).                          *)
OneInstancePerKind ==
    \A i, j \in Alive : i.kind = j.kind => i = j

(* A request is served under the limits of the configuration its handler   *)
(* was built from, although GlobalConfig is static and overwritten by the  *)
(* next build_service.                                                     *)
RequestsKeepTheirConfig ==
    \A c \in Accepted : job[c].config = global_config

(* The service is the one that the providers assume.                       *)
Lifecycle == INSTANCE ServiceLifecycle WITH
    serving <- Accepted,
    status <- CASE pc \in {"kill_check", "reload_check", "accept"} -> "up"
                [] pc \in {"join", "stop_join"} -> "draining"
                [] OTHER -> "down"

LifecycleSpec == Lifecycle!Spec

(* After SIGTERM or SIGINT the process ends, whatever it is doing and      *)
(* however many clients go on connecting.                                  *)
StopEnds == kill_signal ~> pc = "exited"

(* After a SIGHUP the configuration is read again, also when the signal    *)
(* arrives in the middle of a reload; or the process ends.                 *)
HupIsHonoured == asked ~> ~asked \/ pc = "exited"
---------------------------------------------------------------------------
(* What the types need to be inductive.                                    *)

(* A reload that is asked for, or under way.                               *)
Reloads ==
    (IF reload_signal THEN 1 ELSE 0) + (IF pc \in {"join", "drop", "config"} THEN 1 ELSE 0)

(* A handler is built for the start and for each SIGHUP, at most.          *)
BuildsCounted == gen + Reloads <= hups + 1

(* What a build has done when it is at a step.                             *)
BuildProgress ==
    /\ index # 0
    /\ pc \notin {"config", "exited"} => config \in Config
    /\ pc = "authenticators" => Listed # {}

LoopTypeInv == LoopTypeOK /\ BuildsCounted /\ BuildProgress
===========================================================================
