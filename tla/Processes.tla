------------------------------ MODULE Processes ------------------------------
(***************************************************************************)
(* The processes "crawler worker" and "crawler master": how they start,    *)
(* what they listen on, what ends them, and how the registry of services   *)
(* in etcd learns of them.  A process that is not in it gets no resources. *)
(*                                                                         *)
(* The main goroutine of a process is at                                   *)
(*   off      not running                                                  *)
(*   config   loading config.toml                                          *)
(*   init     a worker's storage, or master.New                            *)
(*   serve    service.Run, before it listens                               *)
(*   up       service.Run, which registers at every interval               *)
(* beside the goroutines that serve pprof and HTTP.                        *)
(***************************************************************************)
EXTENDS Integers, Sequences, FiniteSets, TLC

CONSTANTS Proc,
          Masters,      \* the processes that are masters, the others are workers
          Host,         \* by process
          Args,         \* by process, the flags of its command line
          None,         \* no key, nothing known
          RegisterTTL, RegisterInterval,    \* in ticks of time
          MaxLaunches,  \* bound: the times processes are started
          Deployments,  \* bound: the sets of processes that are started
          MaxErrors     \* bound: the calls of the registry that fail

ASSUME ProcessesAssumption == /\ Masters \subseteq Proc
                              /\ {RegisterTTL, RegisterInterval} \subseteq Nat \ {0}
                              /\ Deployments \subseteq SUBSET Proc

Server == {"pprof", "http", "grpc"}
Worker == Proc \ Masters

VARIABLES deployed,     \* the processes that are started at all
          pc, launches,
          bound,        \* the servers that listen
          campaigns,    \* the masters whose New succeeded
          timer,        \* by process, the time until it registers
          memory,       \* by process, the lease and node its registry client holds
          key,          \* by node id, what etcd has: a node under a lease
          lease,        \* by who asked for it, the time a lease has left
          errors,
          misses,       \* history: attempts to register since the last success
          since         \* history: time since the last success

serverVars == <<pc, bound, campaigns>>
registryVars == <<timer, memory, key, lease, errors, misses, since>>
vars == <<deployed, launches, serverVars, registryVars>>

\* A flag of the worker, or its default.
Flag(p, name, default) == IF name \in DOMAIN Args[p] THEN Args[p][name] ELSE default

\* What a worker listens on.
WorkerAddr(p) == [pprof |-> Flag(p, "pprof", ":9981"), http |-> Flag(p, "http", ":8080"),
                  grpc |-> Flag(p, "grpc", ":9090")]

\* What a master listens on, by its configuration; the address of pprof is never
\* set, which means port 80.
MasterAddr == [pprof |-> ":80", http |-> ":8081", grpc |-> ":9091"]

Addr(p) == IF p \in Masters THEN MasterAddr ELSE WorkerAddr(p)

WorkerId(p) == "worker-" \o Flag(p, "id", "1")

\* The service id of every master is the one of the configuration.
MasterId == "master-1"

Id(p) == IF p \in Masters THEN MasterId ELSE WorkerId(p)

Node(p) == <<Host[p], Addr(p).grpc>>

Taken(p, s) == \E b \in bound : Host[b[1]] = Host[p] /\ Addr(b[1])[b[2]] = Addr(p)[s]

Init == /\ deployed \in Deployments
        /\ launches = 0
        /\ pc = [p \in Proc |-> "off"]
        /\ bound = {}
        /\ campaigns = {}
        /\ timer = [p \in Proc |-> 0]
        /\ memory = [p \in Proc |-> None]
        /\ key = [i \in {Id(p) : p \in Proc} |-> None]
        /\ lease = [p \in Proc |-> 0]
        /\ errors = 0
        /\ misses = [p \in Proc |-> 0]
        /\ since = [p \in Proc |-> RegisterTTL + 1]

Goto(p, l) == pc' = [pc EXCEPT ![p] = l]

\* The process ends, with all its goroutines.
Die(p) == /\ Goto(p, "off")
          /\ bound' = {b \in bound : b[1] # p}
          /\ campaigns' = campaigns \ {p}
          /\ memory' = [memory EXCEPT ![p] = None]

Start(p) ==
    /\ p \in deployed
    /\ pc[p] = "off"
    /\ launches < MaxLaunches
    /\ launches' = launches + 1
    /\ Goto(p, "config")
    /\ UNCHANGED <<deployed, bound, campaigns, registryVars>>

\* crawler worker
Launch(p) == p \in Worker /\ Start(p)

\* crawler master: its command has none of the flags of package master, and is
\* refused with any.
LaunchMaster(p) == p \in Masters /\ Args[p] = <<>> /\ Start(p)

\* Server s of p listens; an address in use ends the process.
Listen(p, s) ==
    /\ <<p, s>> \notin bound
    /\ IF Taken(p, s) THEN Die(p)
       ELSE bound' = bound \cup {<<p, s>>} /\ UNCHANGED <<pc, campaigns, memory>>
    /\ UNCHANGED <<deployed, launches, timer, key, lease, errors, misses, since>>

\* Mutant: the goroutine of pprof only logs its error.
PProfLogs(p) == p \in Worker /\ pc[p] # "off" /\ ~Taken(p, "pprof") /\ Listen(p, "pprof")

\* The first thing that is started; it panics when it cannot listen.
PProf(p) == p \in Worker /\ pc[p] # "off" /\ Listen(p, "pprof")
MasterPProf(p) == p \in Masters /\ pc[p] # "off" /\ Listen(p, "pprof")

\* A file that cannot be loaded, or a log level that is none, is a panic.
Load(p) ==
    /\ pc[p] = "config"
    /\ \/ Goto(p, "init") /\ UNCHANGED <<bound, campaigns, memory>>
       \/ Die(p)
    /\ UNCHANGED <<deployed, launches, timer, key, lease, errors, misses, since>>

LoadConfig(p) == p \in Worker /\ Load(p)
LoadMasterConfig(p) == p \in Masters /\ Load(p)

\* A worker without storage returns; one with it builds the engine, which is
\* not run.
OpenStorage(p) ==
    /\ p \in Worker
    /\ pc[p] = "init"
    /\ \/ Goto(p, "serve") /\ UNCHANGED <<bound, campaigns, memory>>
       \/ Die(p)
    /\ UNCHANGED <<deployed, launches, timer, key, lease, errors, misses, since>>

\* The error of master.New is dropped.
New(p) ==
    /\ p \in Masters
    /\ pc[p] = "init"
    /\ \/ campaigns' = campaigns \cup {p}
       \/ UNCHANGED campaigns
    /\ Goto(p, "serve")
    /\ UNCHANGED <<deployed, launches, bound, registryVars>>

\* The gateway; it logs a fatal error when it cannot listen.
RunHTTPServer(p) == p \in Worker /\ pc[p] \in {"serve", "up"} /\ Listen(p, "http")
RunMasterHTTP(p) == p \in Masters /\ pc[p] \in {"serve", "up"} /\ Listen(p, "http")

\* service.Run listens, and registers from then on.
Serve(p) ==
    /\ pc[p] = "serve"
    /\ IF Taken(p, "grpc") THEN Die(p) /\ UNCHANGED timer
       ELSE /\ Goto(p, "up")
            /\ bound' = bound \cup {<<p, "grpc">>}
            /\ timer' = [timer EXCEPT ![p] = 0]
            /\ UNCHANGED <<campaigns, memory>>
    /\ UNCHANGED <<deployed, launches, key, lease, errors, misses, since>>

RunGRPCServer(p) == p \in Worker /\ Serve(p)
RunMasterGRPC(p) == p \in Masters /\ Serve(p)

-----------------------------------------------------------------------------
Due(p) == pc[p] = "up" /\ timer[p] = 0

\* Mutant: the two times are passed in the wrong order.
LeaseTimeSwapped == RegisterInterval

\* Mutant: RegisterTTL is not passed on, and the node is put without a lease.
LeaseTimeUnset == 0

\* Mutant: a lease far longer than configured.
LeaseTimeLong == 3 * RegisterTTL

\* How long a lease lasts.
LeaseTime == RegisterTTL

\* Mutant: a lease that is gone is not missed.
HoldsAlways(known, p) == known # None /\ known.node = Node(p)

\* Does the registry client find its node in place, and only keeps the lease?
Holds(known, p) == known # None /\ known.node = Node(p) /\ lease[known.lease] > 0

\* Registering: the client keeps alive the lease it holds, or finds at its key,
\* and puts the node under a new one if that is gone or the node another's.
Register(p) ==
    /\ Due(p)
    /\ LET known == IF memory[p] = None THEN key[Id(p)] ELSE memory[p]
           kept == IF known # None /\ lease[known.lease] > 0
                   THEN [lease EXCEPT ![known.lease] = LeaseTime] ELSE lease
           entry == [node |-> Node(p), lease |-> p] IN
         IF Holds(known, p)
         THEN lease' = kept /\ memory' = [memory EXCEPT ![p] = known] /\ UNCHANGED key
         ELSE /\ lease' = [kept EXCEPT ![p] = LeaseTime]
              /\ memory' = [memory EXCEPT ![p] = entry]
              /\ key' = [key EXCEPT ![Id(p)] = entry]
    /\ timer' = [timer EXCEPT ![p] = RegisterInterval]
    /\ misses' = [misses EXCEPT ![p] = 0]
    /\ since' = [since EXCEPT ![p] = 0]
    /\ UNCHANGED <<deployed, launches, serverVars, errors>>

\* An error is logged, the next interval is another attempt.
RegisterFails(p) ==
    /\ Due(p)
    /\ errors < MaxErrors
    /\ errors' = errors + 1
    /\ timer' = [timer EXCEPT ![p] = RegisterInterval]
    /\ misses' = [misses EXCEPT ![p] = @ + 1]
    /\ UNCHANGED <<deployed, launches, serverVars, memory, key, lease, since>>

\* A signal: the key is deleted, whosever node is under it.
Stop(p) ==
    /\ pc[p] = "up"
    /\ Die(p)
    /\ key' = [key EXCEPT ![Id(p)] = None]
    /\ UNCHANGED <<deployed, launches, timer, lease, errors, misses, since>>

Crash(p) ==
    /\ pc[p] # "off"
    /\ Die(p)
    /\ UNCHANGED <<deployed, launches, timer, key, lease, errors, misses, since>>

\* Time passes: the leases run, and what is under one that ends goes.
Tick ==
    /\ \A p \in Proc : ~Due(p)
    /\ timer' = [p \in Proc |-> IF pc[p] = "up" THEN timer[p] - 1 ELSE 0]
    /\ lease' = [p \in Proc |-> IF lease[p] = 0 THEN 0 ELSE lease[p] - 1]
    /\ key' = [i \in DOMAIN key |->
                 IF key[i] # None /\ lease'[key[i].lease] = 0 THEN None ELSE key[i]]
    /\ since' = [p \in Proc |-> IF since[p] > RegisterTTL THEN since[p] ELSE since[p] + 1]
    /\ UNCHANGED <<deployed, launches, serverVars, memory, errors, misses>>

WorkerRuns(p) == \/ Launch(p) \/ PProf(p) \/ LoadConfig(p) \/ OpenStorage(p)
                 \/ RunHTTPServer(p) \/ RunGRPCServer(p)

MasterRuns(p) == \/ LaunchMaster(p) \/ MasterPProf(p) \/ LoadMasterConfig(p) \/ New(p)
                 \/ RunMasterHTTP(p) \/ RunMasterGRPC(p)

Registers(p) == Register(p) \/ RegisterFails(p)

Next == \/ \E p \in Proc : WorkerRuns(p) \/ MasterRuns(p) \/ Registers(p) \/ Stop(p) \/ Crash(p)
        \/ Tick

\* The goroutines of pprof and of the registration go on, and so does time.  A
\* process may be left off, may stop and may crash.
Fairness == /\ \A p \in Proc : WF_vars(PProf(p) \/ MasterPProf(p)) /\ WF_vars(Registers(p))
            /\ WF_vars(Tick)

Spec == Init /\ [][Next]_vars
FairSpec == Spec /\ Fairness

-----------------------------------------------------------------------------
\* What etcd holds for an id: a node, under the lease that a process asked for.
Entry == [node : {Node(p) : p \in Proc}, lease : Proc]

\* The types.  What listens or is held in memory is of a process that runs, and
\* what is in the registry is under a lease that does.
TypeOK ==
    /\ deployed \subseteq Proc
    /\ pc \in [Proc -> {"off", "config", "init", "serve", "up"}]
    /\ bound \subseteq Proc \X Server
    /\ \A b \in bound : pc[b[1]] # "off"
    /\ campaigns \subseteq Masters
    /\ launches \in Nat
    /\ timer \in [Proc -> 0 .. RegisterInterval]
    /\ memory \in [Proc -> Entry \cup {None}]
    /\ \A p \in Proc : memory[p] # None => pc[p] = "up"
    /\ key \in [{Id(p) : p \in Proc} -> Entry \cup {None}]
    /\ lease \in [Proc -> 0 .. LeaseTime]
    /\ \A i \in DOMAIN key : key[i] # None => lease[key[i].lease] > 0
    /\ errors \in Nat
    /\ misses \in [Proc -> Nat]
    /\ since \in [Proc -> 0 .. RegisterTTL + 1]

Shared(p) == \E q \in deployed \ {p} : Id(q) = Id(p)
Registered(p) == key[Id(p)] # None /\ key[Id(p)].node = Node(p)

\* A process with an id of its own can be found from its first registration on,
\* as long as it does not miss all but one of those a lease lasts for: also when
\* it is started again before the lease of its former self is over.
Visible == \A p \in deployed :
              (pc[p] = "up" /\ memory[p] # None /\ ~Shared(p)
                 /\ (misses[p] + 1) * RegisterInterval < RegisterTTL) => Registered(p)

\* The registry forgets: a node in it was registered within the time of a lease,
\* whatever became of its process.
NoGhosts == \A i \in DOMAIN key : key[i] # None =>
               \E p \in Proc : Node(p) = key[i].node /\ since[p] <= RegisterTTL

\* Two processes of a host that share an address do not go on together, even if
\* it is only that of pprof.
Clashing == \E p, q \in deployed : /\ p # q /\ Host[p] = Host[q]
                                  /\ \E s, t \in Server : Addr(p)[s] = Addr(q)[t]
                                  /\ pc[p] # "off" /\ pc[q] # "off"
AddressesClash == []<>~Clashing

\* Processes with an id of their own that lost their registration get it back.
ComesBack == []<>(\A p \in deployed : (pc[p] = "up" /\ ~Shared(p)) => Registered(p))
=============================================================================
