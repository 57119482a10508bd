---------------------------- MODULE ProcessesProofs ----------------------------
(***************************************************************************)
(* Proofs about Processes, for any processes, flags, hosts and lease times *)
(* whatever stops, crashes or fails to register: the registry finds those  *)
(* that are up and forgets those that are not.                             *)
(***************************************************************************)
EXTENDS Processes, TLAPS

\* The ids are those of processes.
Ids == {Id(p) : p \in Proc}

\* An entry under lease l is of the process that asked for l, which runs under
\* the id i.
EntryOf(e, i) == /\ e.lease \in deployed
                 /\ Id(e.lease) = i
                 /\ e.node = Node(e.lease)

\* Within the time that the lease of l has used up, a process registered the
\* node of l.
Fresh(l) == \E p \in Proc : Node(p) = Node(l) /\ since[p] + lease[l] <= RegisterTTL

KeysBacked == \A i \in Ids : key[i] # None => EntryOf(key[i], i) /\ Fresh(key[i].lease)

MemoryBacked ==
    /\ \A p \in Proc : memory[p] # None => EntryOf(memory[p], Id(p)) /\ memory[p].node = Node(p)
    /\ \A p \in Proc : pc[p] # "off" => p \in deployed

\* What is left of a lease and what was missed of it make up all of it.
Accounted ==
    \A p \in deployed :
       memory[p] # None /\ ~Shared(p) =>
          /\ lease[p] > 0 => key[Id(p)] = memory[p]
          /\ lease[p] + misses[p] * RegisterInterval + RegisterInterval - timer[p] >= RegisterTTL

IInv == TypeOK /\ KeysBacked /\ MemoryBacked /\ Accounted

-----------------------------------------------------------------------------
\* A process starts, goes on with starting, or crashes: it leaves the registry as
\* it is.
ServerStep(p) == WorkerRuns(p) \/ MasterRuns(p) \/ Crash(p)

\* The end of a process frees what it held and keeps the types.
LEMMA DieTypes ==
  ASSUME TypeOK, NEW p \in Proc, Die(p),
         UNCHANGED <<deployed, launches, timer, lease, errors, misses, since>>,
         key' \in [Ids -> Entry \cup {None}],
         \A i \in Ids : key'[i] # None => key[i] = key'[i]
  PROVE  TypeOK'
<1>1. pc' \in [Proc -> {"off", "config", "init", "serve", "up"}]
  BY DEF TypeOK, Die, Goto
<1>2. bound' \subseteq Proc \X Server /\ \A b \in bound' : pc'[b[1]] # "off"
  BY DEF TypeOK, Die, Goto
<1>3. memory' \in [Proc -> Entry \cup {None}]
  BY DEF TypeOK, Die
<1>4. \A q \in Proc : memory'[q] # None => pc'[q] = "up"
  BY DEF TypeOK, Die, Goto
<1>5. \A i \in DOMAIN key' : key'[i] # None => lease'[key'[i].lease] > 0
  BY DEF TypeOK, Ids
<1> QED BY <1>1, <1>2, <1>3, <1>4, <1>5 DEF TypeOK, Die, LeaseTime, Ids

\* So do the steps of starting.
LEMMA ServerTypes ==
  ASSUME TypeOK, NEW p \in Proc, ServerStep(p)
  PROVE  TypeOK'
<1> USE ProcessesAssumption
<1>key. TypeOK => /\ key \in [Ids -> Entry \cup {None}]
                  /\ launches \in Nat /\ launches + 1 \in Nat
  BY DEF TypeOK, Ids
<1>1. CASE Start(p)
  BY <1>1, <1>key DEF Start, Goto, TypeOK, registryVars, LeaseTime
<1>2. ASSUME NEW s \in Server, pc[p] # "off", Listen(p, s)
      PROVE  TypeOK'
  <2>1. CASE Die(p)
    BY <1>2, <1>key, <2>1, DieTypes DEF Listen
  <2>2. CASE bound' = bound \cup {<<p, s>>} /\ UNCHANGED <<pc, campaigns, memory>>
    BY <1>2, <2>2 DEF Listen, TypeOK, LeaseTime
  <2> QED BY <1>2, <2>1, <2>2 DEF Listen
<1>3. CASE Load(p)
  <2>1. CASE Die(p)
    BY <1>3, <1>key, <2>1, DieTypes DEF Load
  <2>2. CASE Goto(p, "init") /\ UNCHANGED <<bound, campaigns, memory>>
    BY <1>3, <2>2 DEF Load, Goto, TypeOK, LeaseTime
  <2> QED BY <1>3, <2>1, <2>2 DEF Load
<1>4. CASE OpenStorage(p)
  <2>1. CASE Die(p)
    BY <1>4, <1>key, <2>1, DieTypes DEF OpenStorage
  <2>2. CASE Goto(p, "serve") /\ UNCHANGED <<bound, campaigns, memory>>
    BY <1>4, <2>2 DEF OpenStorage, Goto, TypeOK, LeaseTime
  <2> QED BY <1>4, <2>1, <2>2 DEF OpenStorage
<1>5. CASE New(p)
  BY <1>5 DEF New, Goto, TypeOK, LeaseTime, registryVars
<1>6. CASE Serve(p)
  <2>1. CASE Die(p) /\ UNCHANGED timer
    BY <1>6, <1>key, <2>1, DieTypes DEF Serve
  <2>2. CASE ~Taken(p, "grpc")
    BY <1>6, <2>2 DEF Serve, Goto, TypeOK, LeaseTime, Server
  <2> QED BY <1>6, <2>1, <2>2 DEF Serve
<1>7. CASE Crash(p)
  BY <1>7, <1>key, DieTypes DEF Crash
<1> QED
  BY <1>1, <1>2, <1>3, <1>4, <1>5, <1>6, <1>7
     DEF ServerStep, WorkerRuns, MasterRuns, Launch, LaunchMaster, PProf, MasterPProf,
         LoadConfig, LoadMasterConfig, RunHTTPServer, RunMasterHTTP, RunGRPCServer,
         RunMasterGRPC, Server

\* Registering keeps the types: what is put in etcd or in memory has a lease.
LEMMA RegisterTypes ==
  ASSUME TypeOK, NEW p \in Proc, Registers(p)
  PROVE  TypeOK'
<1> USE ProcessesAssumption
<1>1. CASE Register(p)
  <2> DEFINE known == IF memory[p] = None THEN key[Id(p)] ELSE memory[p]
             kept == IF known # None /\ lease[known.lease] > 0
                     THEN [lease EXCEPT ![known.lease] = LeaseTime] ELSE lease
             entry == [node |-> Node(p), lease |-> p]
  <2>1. /\ Id(p) \in Ids
        /\ key \in [Ids -> Entry \cup {None}]
        /\ known \in Entry \cup {None}
        /\ entry \in Entry
    BY DEF TypeOK, Ids, Entry
  <2>2. /\ lease \in [Proc -> 0 .. RegisterTTL]
        /\ kept \in [Proc -> 0 .. RegisterTTL]
        /\ \A q \in Proc : kept[q] >= lease[q]
    BY <2>1 DEF TypeOK, Entry, LeaseTime
  <2>3. /\ timer' \in [Proc -> 0 .. RegisterInterval]
        /\ misses' \in [Proc -> Nat]
        /\ since' \in [Proc -> 0 .. RegisterTTL + 1]
    BY <1>1 DEF Register, TypeOK
  <2>4. pc[p] = "up"
    BY <1>1 DEF Register, Due
  <2>5. CASE Holds(known, p)
    <3>1. lease' = kept /\ memory' = [memory EXCEPT ![p] = known] /\ key' = key
      BY <1>1, <2>5 DEF Register
    <3>2. \A i \in Ids : key'[i] # None => lease'[key'[i].lease] > 0
      BY <3>1, <2>1, <2>2 DEF TypeOK, Entry, Ids
    <3>3. /\ memory' \in [Proc -> Entry \cup {None}]
          /\ \A q \in Proc : memory'[q] # None => pc[q] = "up"
      BY <3>1, <2>1, <2>4 DEF TypeOK
    <3> QED
      BY <1>1, <3>1, <3>2, <3>3, <2>1, <2>2, <2>3
         DEF Register, TypeOK, serverVars, LeaseTime, Ids
  <2>6. CASE ~Holds(known, p)
    <3>1. /\ lease' = [kept EXCEPT ![p] = RegisterTTL]
          /\ memory' = [memory EXCEPT ![p] = entry]
          /\ key' = [key EXCEPT ![Id(p)] = entry]
      BY <1>1, <2>6 DEF Register, LeaseTime
    <3>2. lease' \in [Proc -> 0 .. RegisterTTL] /\ \A q \in Proc : lease'[q] >= lease[q]
      BY <3>1, <2>2
    <3>3. key' \in [Ids -> Entry \cup {None}]
      BY <3>1, <2>1
    <3>4. \A i \in Ids : key'[i] # None => lease'[key'[i].lease] > 0
      <4> SUFFICES ASSUME NEW i \in Ids, key'[i] # None PROVE lease'[key'[i].lease] > 0
        OBVIOUS
      <4>1. CASE i = Id(p)
        <5>1. key'[i].lease = p
          BY <4>1, <3>1, <2>1
        <5>2. lease'[p] = RegisterTTL
          BY <3>1, <2>2
        <5> QED BY <5>1, <5>2
      <4>2. CASE i # Id(p)
        <5>1. key'[i] = key[i] /\ key[i] \in Entry /\ lease[key[i].lease] > 0
          BY <4>2, <3>1, <2>1 DEF TypeOK, Ids
        <5> QED BY <5>1, <3>2, <2>2 DEF Entry
      <4> QED BY <4>1, <4>2
    <3>5. /\ memory' \in [Proc -> Entry \cup {None}]
          /\ \A q \in Proc : memory'[q] # None => pc[q] = "up"
      BY <3>1, <2>1, <2>4 DEF TypeOK
    <3> QED
      BY <1>1, <3>2, <3>3, <3>4, <3>5, <2>3
         DEF Register, TypeOK, serverVars, LeaseTime, Ids
  <2> QED BY <2>5, <2>6
<1>2. CASE RegisterFails(p)
  BY <1>2 DEF RegisterFails, TypeOK, serverVars, LeaseTime
<1> QED BY <1>1, <1>2 DEF Registers

LEMMA StopTypes ==
  ASSUME TypeOK, NEW p \in Proc, Stop(p)
  PROVE  TypeOK'
<1>1. key \in [Ids -> Entry \cup {None}]
  BY DEF TypeOK, Ids
<1> QED BY <1>1, DieTypes DEF Stop

LEMMA TickTypes ==
  ASSUME TypeOK, Tick
  PROVE  TypeOK'
<1> USE ProcessesAssumption
<1>1. timer' \in [Proc -> 0 .. RegisterInterval]
  <2>1. \A q \in Proc : timer[q] \in Nat /\ timer[q] <= RegisterInterval
                       /\ (pc[q] = "up" => timer[q] # 0)
    BY DEF TypeOK, Tick, Due
  <2>2. \A q \in Proc : (IF pc[q] = "up" THEN timer[q] - 1 ELSE 0) \in 0 .. RegisterInterval
    BY <2>1
  <2> QED BY <2>2 DEF Tick
<1>2. lease' \in [Proc -> 0 .. LeaseTime]
  <2>1. \A q \in Proc : lease[q] \in Nat /\ lease[q] <= LeaseTime
    BY DEF TypeOK, LeaseTime
  <2>2. \A q \in Proc : (IF lease[q] = 0 THEN 0 ELSE lease[q] - 1) \in 0 .. LeaseTime
    BY <2>1 DEF LeaseTime
  <2> QED BY <2>2 DEF Tick
<1>3. /\ key' \in [Ids -> Entry \cup {None}]
      /\ \A i \in Ids : key'[i] # None => lease'[key'[i].lease] > 0
  <2>1. key \in [Ids -> Entry \cup {None}]
    BY DEF TypeOK, Ids
  <2>2. \A i \in Ids : key'[i] = IF key[i] # None /\ lease'[key[i].lease] = 0
                                 THEN None ELSE key[i]
    BY <2>1 DEF Tick
  <2>3. key' \in [Ids -> Entry \cup {None}]
    BY <2>1 DEF Tick
  <2> QED BY <2>1, <2>2, <2>3, <1>2 DEF Entry, LeaseTime
<1>4. since' \in [Proc -> 0 .. RegisterTTL + 1]
  <2>1. \A q \in Proc : since[q] \in Nat /\ since[q] <= RegisterTTL + 1
    BY DEF TypeOK
  <2>2. \A q \in Proc : (IF since[q] > RegisterTTL THEN since[q] ELSE since[q] + 1)
                          \in 0 .. RegisterTTL + 1
    BY <2>1
  <2> QED BY <2>2 DEF Tick
<1> QED BY <1>1, <1>2, <1>3, <1>4 DEF Tick, TypeOK, serverVars, LeaseTime, Ids

LEMMA InitTypes == Init => TypeOK
BY ProcessesAssumption DEF Init, TypeOK, LeaseTime

LEMMA StepTypes == TypeOK /\ [Next]_vars => TypeOK'
<1> SUFFICES ASSUME TypeOK, [Next]_vars PROVE TypeOK'
  OBVIOUS
<1>1. ASSUME NEW p \in Proc, ServerStep(p) PROVE TypeOK'
  BY <1>1, ServerTypes
<1>2. ASSUME NEW p \in Proc, Registers(p) PROVE TypeOK'
  BY <1>2, RegisterTypes
<1>3. ASSUME NEW p \in Proc, Stop(p) PROVE TypeOK'
  BY <1>3, StopTypes
<1>4. CASE Tick
  BY <1>4, TickTypes
<1>5. CASE UNCHANGED vars
  BY <1>5 DEF TypeOK, vars, serverVars, registryVars, LeaseTime
<1> QED BY <1>1, <1>2, <1>3, <1>4, <1>5 DEF Next, ServerStep

\* Whatever starts, registers and ends in whatever order: what listens or is held
\* in memory is of a process that runs, and what is in the registry is under a
\* lease that does.
THEOREM TypeCorrect == Spec => []TypeOK
BY InitTypes, StepTypes, PTL DEF Spec

-----------------------------------------------------------------------------
\* A process that starts or ends without a signal leaves the registry alone, and
\* what it has in memory stays or goes with it.
Quiet == /\ UNCHANGED <<deployed, key, lease, misses, since>>
         /\ \A q \in Proc : /\ memory'[q] = memory[q] \/ memory'[q] = None
                            /\ memory'[q] # None => timer'[q] = timer[q]
                            /\ pc'[q] # "off" => q \in deployed

LEMMA DieMemory ==
  ASSUME TypeOK, MemoryBacked, NEW p \in Proc, Die(p)
  PROVE  \A q \in Proc : /\ memory'[q] = memory[q] \/ memory'[q] = None
                         /\ pc'[q] # "off" => q \in deployed
BY DEF TypeOK, MemoryBacked, Die, Goto

LEMMA ServersAreQuiet ==
  ASSUME TypeOK, MemoryBacked, NEW p \in Proc, ServerStep(p)
  PROVE  Quiet
<1> USE DEF Quiet
<1>1. CASE Start(p)
  BY <1>1 DEF Start, Goto, registryVars, TypeOK, MemoryBacked
<1>2. ASSUME NEW s \in Server, Listen(p, s)
      PROVE  Quiet
  BY <1>2, DieMemory DEF Listen, MemoryBacked
<1>3. CASE Load(p)
  <2>1. CASE Die(p)
    BY <1>3, <2>1, DieMemory DEF Load
  <2>2. CASE Goto(p, "init") /\ UNCHANGED memory
    BY <1>3, <2>2 DEF Load, Goto, TypeOK, MemoryBacked
  <2> QED BY <1>3, <2>1, <2>2 DEF Load
<1>4. CASE OpenStorage(p)
  <2>1. CASE Die(p)
    BY <1>4, <2>1, DieMemory DEF OpenStorage
  <2>2. CASE Goto(p, "serve") /\ UNCHANGED memory
    BY <1>4, <2>2 DEF OpenStorage, Goto, TypeOK, MemoryBacked
  <2> QED BY <1>4, <2>1, <2>2 DEF OpenStorage
<1>5. CASE New(p)
  BY <1>5 DEF New, Goto, registryVars, TypeOK, MemoryBacked
<1>6. CASE Serve(p)
  <2>1. CASE Die(p) /\ UNCHANGED timer
    BY <1>6, <2>1, DieMemory DEF Serve
  <2>2. CASE Goto(p, "up") /\ timer' = [timer EXCEPT ![p] = 0] /\ UNCHANGED memory
    BY <1>6, <2>2 DEF Serve, Goto, TypeOK, MemoryBacked
  <2> QED BY <1>6, <2>1, <2>2 DEF Serve
<1>7. CASE Crash(p)
  BY <1>7, DieMemory DEF Crash
<1> QED
  BY <1>1, <1>2, <1>3, <1>4, <1>5, <1>6, <1>7
     DEF ServerStep, WorkerRuns, MasterRuns, Launch, LaunchMaster, PProf, MasterPProf,
         LoadConfig, LoadMasterConfig, RunHTTPServer, RunMasterHTTP, RunGRPCServer,
         RunMasterGRPC, Server

LEMMA QuietKeeps ==
  ASSUME IInv, Quiet
  PROVE  KeysBacked' /\ MemoryBacked' /\ Accounted'
<1>1. KeysBacked'
  BY DEF IInv, Quiet, KeysBacked, EntryOf, Fresh
<1>2. MemoryBacked'
  BY DEF IInv, Quiet, MemoryBacked, EntryOf
<1>3. Accounted'
  BY DEF IInv, Quiet, Accounted, Shared, TypeOK
<1> QED BY <1>1, <1>2, <1>3

\* A signal takes an entry away, of no other process than one of the same id.
LEMMA StopKeeps ==
  ASSUME IInv, NEW p \in Proc, Stop(p)
  PROVE  KeysBacked' /\ MemoryBacked' /\ Accounted'
<1>1. /\ key \in [Ids -> Entry \cup {None}]
      /\ key' = [key EXCEPT ![Id(p)] = None]
      /\ UNCHANGED <<deployed, timer, lease, misses, since>>
  BY DEF IInv, TypeOK, Ids, Stop
<1>2. /\ p \in deployed
      /\ memory'[p] = None
      /\ \A q \in Proc : memory'[q] = memory[q] \/ memory'[q] = None
      /\ \A q \in Proc : pc'[q] # "off" => q \in deployed
  BY DieMemory DEF IInv, TypeOK, Stop, Die, MemoryBacked
<1>3. KeysBacked'
  BY <1>1 DEF IInv, KeysBacked, EntryOf, Fresh
<1>4. MemoryBacked'
  BY <1>1, <1>2 DEF IInv, MemoryBacked, EntryOf
<1>5. Accounted'
  <2> SUFFICES ASSUME NEW q \in deployed, memory'[q] # None, ~Shared(q)
               PROVE  /\ lease[q] > 0 => key'[Id(q)] = memory'[q]
                      /\ lease[q] + misses[q] * RegisterInterval + RegisterInterval - timer[q]
                           >= RegisterTTL
    BY <1>1 DEF Accounted, Shared
  <2>1. q \in Proc /\ q # p /\ Id(q) # Id(p) /\ memory'[q] = memory[q]
    BY <1>2 DEF IInv, TypeOK, Shared
  <2> QED BY <1>1, <2>1 DEF IInv, Accounted, Ids
<1> QED BY <1>3, <1>4, <1>5

-----------------------------------------------------------------------------
\* What p finds when it registers is under its own id, and so is nothing else.
LEMMA RegisterKeeps ==
  ASSUME IInv, NEW p \in Proc, Register(p)
  PROVE  KeysBacked' /\ MemoryBacked' /\ Accounted'
<1> USE ProcessesAssumption
<1> DEFINE known == IF memory[p] = None THEN key[Id(p)] ELSE memory[p]
           kept == IF known # None /\ lease[known.lease] > 0
                   THEN [lease EXCEPT ![known.lease] = LeaseTime] ELSE lease
           entry == [node |-> Node(p), lease |-> p]
<1>1. /\ Id(p) \in Ids
      /\ key \in [Ids -> Entry \cup {None}]
      /\ memory \in [Proc -> Entry \cup {None}]
      /\ lease \in [Proc -> 0 .. RegisterTTL]
      /\ since \in [Proc -> 0 .. RegisterTTL + 1]
      /\ timer \in [Proc -> 0 .. RegisterInterval]
      /\ misses \in [Proc -> Nat]
      /\ deployed \subseteq Proc
  BY DEF IInv, TypeOK, Ids, LeaseTime
<1>2. /\ p \in deployed
      /\ UNCHANGED <<deployed, pc>>
      /\ timer' = [timer EXCEPT ![p] = RegisterInterval]
      /\ misses' = [misses EXCEPT ![p] = 0]
      /\ since' = [since EXCEPT ![p] = 0]
  BY DEF IInv, MemoryBacked, Register, Due, serverVars
<1>3. known # None => EntryOf(known, Id(p)) /\ known.lease \in Proc
  BY <1>1 DEF IInv, KeysBacked, MemoryBacked, EntryOf
<1>4. /\ EntryOf(entry, Id(p)) /\ entry.node = Node(p)
      /\ entry.lease = p
  BY <1>2 DEF EntryOf
<1>5. \A q \in Proc : /\ since'[q] <= since[q]
                      /\ q # p => /\ misses'[q] = misses[q]
                                  /\ timer'[q] = timer[q]
  BY <1>1, <1>2
<1>6. \A q \in deployed : (q # p /\ ~Shared(q)) =>
                             Id(q) # Id(p) /\ (known # None => known.lease # q)
  BY <1>2, <1>3 DEF Shared, EntryOf
<1>7. since'[p] = 0 /\ misses'[p] = 0 /\ timer'[p] = RegisterInterval
  BY <1>1, <1>2
<1>8. CASE Holds(known, p)
  <2>1. /\ known # None /\ known.node = Node(p) /\ lease[known.lease] > 0
        /\ lease' = [lease EXCEPT ![known.lease] = RegisterTTL]
        /\ memory' = [memory EXCEPT ![p] = known]
        /\ key' = key
    BY <1>8 DEF Register, Holds, LeaseTime
  <2>2. lease'[known.lease] = RegisterTTL
    BY <2>1, <1>1, <1>3
  <2>3. ASSUME NEW i \in Ids, key[i] # None
        PROVE  EntryOf(key[i], i)' /\ Fresh(key[i].lease)'
    <3>1. EntryOf(key[i], i) /\ Fresh(key[i].lease) /\ key[i].lease \in Proc
      BY <2>3, <1>1 DEF IInv, KeysBacked, EntryOf
    <3>2. CASE key[i].lease = known.lease
      <4>1. Node(p) = Node(key[i].lease)
        BY <2>1, <3>2, <1>3 DEF EntryOf
      <4>2. since'[p] + lease'[key'[i].lease] <= RegisterTTL
        BY <1>7, <2>1, <2>2, <3>2
      <4> QED BY <4>1, <4>2, <3>1, <1>2, <2>1 DEF EntryOf, Fresh
    <3>3. CASE key[i].lease # known.lease
      <4>1. lease'[key[i].lease] = lease[key[i].lease] /\ lease[key[i].lease] \in Nat
        BY <2>1, <3>1, <3>3, <1>1
      <4>2. PICK w \in Proc : /\ Node(w) = Node(key[i].lease)
                              /\ since[w] + lease[key[i].lease] <= RegisterTTL
        BY <3>1 DEF Fresh
      <4>3. since[w] \in Nat /\ since'[w] \in Nat /\ since'[w] <= since[w]
        BY <1>1, <1>2, <1>5
      <4>4. since'[w] + lease'[key'[i].lease] <= RegisterTTL
        BY <4>1, <4>2, <4>3, <2>1
      <4> QED BY <4>2, <4>4, <3>1, <1>2, <2>1 DEF EntryOf, Fresh
    <3> QED BY <3>2, <3>3
  <2>4. KeysBacked'
    BY <2>1, <2>3 DEF KeysBacked
  <2>5. MemoryBacked'
    BY <1>1, <1>2, <1>3, <2>1 DEF IInv, MemoryBacked, EntryOf
  <2>6. Accounted'
    <3> SUFFICES ASSUME NEW q \in deployed, memory'[q] # None, ~Shared(q)
                 PROVE  /\ lease'[q] > 0 => key[Id(q)] = memory'[q]
                        /\ lease'[q] + misses'[q] * RegisterInterval + RegisterInterval
                             - timer'[q] >= RegisterTTL
      BY <1>2, <2>1 DEF Accounted, Shared
    <3>1. CASE q = p
      <4>1. known.lease = p
        BY <3>1, <1>2, <1>3, <2>1 DEF Shared, EntryOf
      <4>2. key[Id(p)] = known
        BY <4>1, <3>1, <2>1, <1>1 DEF IInv, Accounted
      <4>3. lease'[p] = RegisterTTL /\ misses'[p] * RegisterInterval = 0
        BY <4>1, <2>2, <1>7
      <4> QED BY <3>1, <4>2, <4>3, <2>1, <1>1, <1>7
    <3>2. CASE q # p
      <4>1. /\ lease'[q] = lease[q] /\ memory'[q] = memory[q]
            /\ misses'[q] = misses[q] /\ timer'[q] = timer[q]
        BY <3>2, <1>1, <1>5, <1>6, <2>1
      <4> QED BY <4>1, <1>1 DEF IInv, Accounted
    <3> QED BY <3>1, <3>2
  <2> QED BY <2>4, <2>5, <2>6
<1>9. CASE ~Holds(known, p)
  <2>1. /\ lease' = [kept EXCEPT ![p] = RegisterTTL]
        /\ memory' = [memory EXCEPT ![p] = entry]
        /\ key' = [key EXCEPT ![Id(p)] = entry]
    BY <1>9 DEF Register, LeaseTime
  <2>2. /\ lease'[p] = RegisterTTL
        /\ \A q \in Proc : (q # p /\ (known # None => known.lease # q)) => lease'[q] = lease[q]
    BY <2>1, <1>1, <1>3
  <2>3. ASSUME NEW i \in Ids, key'[i] # None
        PROVE  EntryOf(key[i], i)' /\ Fresh(key[i].lease)'
    <3>1. CASE i = Id(p)
      <4>1. key'[i] = entry
        BY <3>1, <2>1, <1>1
      <4>2. since'[p] + lease'[p] <= RegisterTTL
        BY <1>7, <2>2
      <4>3. Fresh(p)'
        BY <4>2 DEF Fresh
      <4>4. EntryOf(entry, i)'
        BY <3>1, <1>2, <1>4 DEF EntryOf
      <4> QED BY <4>1, <4>3, <4>4, <1>4
    <3>2. CASE i # Id(p)
      <4>1. /\ key'[i] = key[i] /\ EntryOf(key[i], i) /\ Fresh(key[i].lease)
            /\ key[i].lease \in Proc
        BY <2>3, <3>2, <2>1, <1>1 DEF IInv, KeysBacked, EntryOf
      <4>2. lease'[key[i].lease] = lease[key[i].lease] /\ lease[key[i].lease] \in Nat
        BY <4>1, <3>2, <2>2, <1>1, <1>3 DEF EntryOf
      <4>3. PICK w \in Proc : /\ Node(w) = Node(key[i].lease)
                              /\ since[w] + lease[key[i].lease] <= RegisterTTL
        BY <4>1 DEF Fresh
      <4>4. since[w] \in Nat /\ since'[w] \in Nat /\ since'[w] <= since[w]
        BY <1>1, <1>2, <1>5
      <4>5. since'[w] + lease'[key'[i].lease] <= RegisterTTL
        BY <4>1, <4>2, <4>3, <4>4
      <4> QED BY <4>1, <4>3, <4>5, <1>2 DEF EntryOf, Fresh
    <3> QED BY <3>1, <3>2
  <2>4. KeysBacked'
    BY <2>3 DEF KeysBacked
  <2>5. MemoryBacked'
    BY <1>1, <1>2, <1>4, <2>1 DEF IInv, MemoryBacked, EntryOf
  <2>6. Accounted'
    <3> SUFFICES ASSUME NEW q \in deployed, memory'[q] # None, ~Shared(q)
                 PROVE  /\ lease'[q] > 0 => key'[Id(q)] = memory'[q]
                        /\ lease'[q] + misses'[q] * RegisterInterval + RegisterInterval
                             - timer'[q] >= RegisterTTL
      BY <1>2 DEF Accounted, Shared
    <3>1. CASE q = p
      <4>1. key'[Id(p)] = entry /\ memory'[p] = entry
        BY <2>1, <1>1
      <4>2. misses'[p] * RegisterInterval = 0
        BY <1>7
      <4> QED BY <3>1, <4>1, <4>2, <2>2, <1>7
    <3>2. CASE q # p
      <4>1. /\ lease'[q] = lease[q] /\ memory'[q] = memory[q]
            /\ misses'[q] = misses[q] /\ timer'[q] = timer[q]
            /\ key'[Id(q)] = key[Id(q)]
        BY <3>2, <1>1, <1>5, <1>6, <2>1, <2>2 DEF Ids
      <4> QED BY <4>1, <1>1 DEF IInv, Accounted
    <3> QED BY <3>1, <3>2
  <2> QED BY <2>4, <2>5, <2>6
<1> QED BY <1>8, <1>9

-----------------------------------------------------------------------------
LEMMA OneMore == \A m, n \in Nat : m * n \in Nat /\ (m + 1) * n = m * n + n
OBVIOUS

\* A registration that fails is one more that is missed, of a lease that lasts.
LEMMA FailureKeeps ==
  ASSUME IInv, NEW p \in Proc, RegisterFails(p)
  PROVE  KeysBacked' /\ MemoryBacked' /\ Accounted'
<1> USE ProcessesAssumption
<1>1. UNCHANGED <<deployed, pc, memory, key, lease, since>>
  BY DEF RegisterFails, serverVars
<1>2. KeysBacked' /\ MemoryBacked'
  BY <1>1 DEF IInv, KeysBacked, MemoryBacked, EntryOf, Fresh
<1>3. Accounted'
  <2> SUFFICES ASSUME NEW q \in deployed, memory[q] # None, ~Shared(q)
               PROVE  /\ lease[q] > 0 => key[Id(q)] = memory[q]
                      /\ lease[q] + misses'[q] * RegisterInterval + RegisterInterval
                           - timer'[q] >= RegisterTTL
    BY <1>1 DEF Accounted, Shared
  <2>1. /\ lease[q] > 0 => key[Id(q)] = memory[q]
        /\ lease[q] + misses[q] * RegisterInterval + RegisterInterval - timer[q] >= RegisterTTL
    BY DEF IInv, Accounted
  <2>2. /\ misses \in [Proc -> Nat] /\ timer \in [Proc -> 0 .. RegisterInterval]
        /\ lease[q] \in Nat /\ q \in Proc
    BY DEF IInv, TypeOK, LeaseTime
  <2>3. CASE q # p
    <3>1. misses'[q] = misses[q] /\ timer'[q] = timer[q]
      BY <2>2, <2>3 DEF RegisterFails
    <3> QED BY <3>1, <2>1
  <2>4. CASE q = p
    <3>1. /\ misses'[q] = misses[q] + 1 /\ timer'[q] = RegisterInterval
          /\ timer[q] = 0
      BY <2>2, <2>4 DEF RegisterFails, Due
    <3>2. misses'[q] * RegisterInterval = misses[q] * RegisterInterval + RegisterInterval
          /\ misses[q] * RegisterInterval \in Nat
      BY <3>1, <2>2, OneMore
    <3> QED BY <3>1, <3>2, <2>1, <2>2
  <2> QED BY <2>3, <2>4
<1> QED BY <1>2, <1>3

\* Time runs for the leases, for those that registered and for the timers alike.
LEMMA TickKeeps ==
  ASSUME IInv, Tick
  PROVE  KeysBacked' /\ MemoryBacked' /\ Accounted'
<1> USE ProcessesAssumption
<1>1. /\ UNCHANGED <<deployed, pc, memory, misses>>
      /\ key \in [Ids -> Entry \cup {None}]
      /\ deployed \subseteq Proc
      /\ misses \in [Proc -> Nat]
  BY DEF IInv, TypeOK, Tick, serverVars, Ids
<1>2. \A q \in Proc : /\ lease[q] \in Nat /\ since[q] \in Nat
                      /\ lease'[q] = IF lease[q] = 0 THEN 0 ELSE lease[q] - 1
                      /\ since[q] <= RegisterTTL => since'[q] = since[q] + 1
  BY DEF IInv, TypeOK, Tick, LeaseTime
<1>3. \A i \in Ids : key'[i] = IF key[i] # None /\ lease'[key[i].lease] = 0
                               THEN None ELSE key[i]
  BY <1>1 DEF Tick
<1>4. ASSUME NEW i \in Ids, key'[i] # None
      PROVE  EntryOf(key[i], i)' /\ Fresh(key[i].lease)'
  <2>1. /\ key'[i] = key[i] /\ key[i] # None
        /\ EntryOf(key[i], i) /\ Fresh(key[i].lease)
        /\ key[i].lease \in Proc /\ lease'[key[i].lease] # 0
    BY <1>1, <1>3, <1>4 DEF IInv, KeysBacked, EntryOf
  <2>2. PICK w \in Proc : /\ Node(w) = Node(key[i].lease)
                          /\ since[w] + lease[key[i].lease] <= RegisterTTL
    BY <2>1 DEF Fresh
  <2>3. since'[w] + lease'[key'[i].lease] <= RegisterTTL
    BY <1>2, <2>1, <2>2
  <2> QED BY <1>1, <2>1, <2>2, <2>3 DEF EntryOf, Fresh
<1>5. KeysBacked'
  BY <1>4 DEF KeysBacked
<1>6. MemoryBacked'
  BY <1>1 DEF IInv, MemoryBacked, EntryOf
<1>7. Accounted'
  <2> SUFFICES ASSUME NEW q \in deployed, memory[q] # None, ~Shared(q)
               PROVE  /\ lease'[q] > 0 => key'[Id(q)] = memory[q]
                      /\ lease'[q] + misses[q] * RegisterInterval + RegisterInterval
                           - timer'[q] >= RegisterTTL
    BY <1>1 DEF Accounted, Shared
  <2>1. /\ lease[q] > 0 => key[Id(q)] = memory[q]
        /\ lease[q] + misses[q] * RegisterInterval + RegisterInterval - timer[q] >= RegisterTTL
    BY DEF IInv, Accounted
  <2>2. q \in Proc /\ Id(q) \in Ids /\ memory[q].lease = q
    BY <1>1 DEF IInv, MemoryBacked, EntryOf, Shared, Ids
  <2>3. /\ timer[q] \in Nat /\ misses[q] * RegisterInterval \in Nat
        /\ timer'[q] = timer[q] - 1
    <3>1. pc[q] = "up"
      BY <2>2 DEF IInv, TypeOK
    <3>2. timer[q] \in Nat /\ misses[q] \in Nat
      BY <2>2 DEF IInv, TypeOK
    <3> QED BY <2>2, <3>1, <3>2, OneMore DEF Tick
  <2>4. lease'[q] > 0 => key'[Id(q)] = memory[q]
    BY <1>2, <1>3, <2>1, <2>2
  <2>5. lease'[q] + misses[q] * RegisterInterval + RegisterInterval - timer'[q] >= RegisterTTL
    BY <1>2, <2>1, <2>2, <2>3
  <2> QED BY <2>4, <2>5
<1> QED BY <1>5, <1>6, <1>7

LEMMA InitBacked == Init => KeysBacked /\ MemoryBacked /\ Accounted
BY ProcessesAssumption DEF Init, KeysBacked, MemoryBacked, Accounted, Ids

LEMMA Inductive == IInv /\ [Next]_vars => IInv'
<1> SUFFICES ASSUME IInv, [Next]_vars PROVE KeysBacked' /\ MemoryBacked' /\ Accounted'
  BY StepTypes DEF IInv
<1>1. ASSUME NEW p \in Proc, ServerStep(p)
      PROVE  KeysBacked' /\ MemoryBacked' /\ Accounted'
  BY <1>1, ServersAreQuiet, QuietKeeps DEF IInv
<1>2. ASSUME NEW p \in Proc, Registers(p)
      PROVE  KeysBacked' /\ MemoryBacked' /\ Accounted'
  BY <1>2, RegisterKeeps, FailureKeeps DEF Registers
<1>3. ASSUME NEW p \in Proc, Stop(p)
      PROVE  KeysBacked' /\ MemoryBacked' /\ Accounted'
  BY <1>3, StopKeeps
<1>4. CASE Tick
  BY <1>4, TickKeeps
<1>5. CASE UNCHANGED vars
  <2>1. Quiet
    BY <1>5 DEF vars, serverVars, registryVars, Quiet, IInv, MemoryBacked
  <2> QED BY <2>1, QuietKeeps
<1> QED BY <1>1, <1>2, <1>3, <1>4, <1>5 DEF Next, ServerStep

LEMMA Always == Spec => []IInv
<1>1. Init => IInv
  BY InitTypes, InitBacked DEF IInv
<1> QED BY <1>1, Inductive, PTL DEF Spec

\* The registry forgets: whatever stops or crashes, a node in it was registered
\* within the time of a lease.
THEOREM GhostsGo == Spec => []NoGhosts
<1>1. IInv => NoGhosts
  <2> SUFFICES ASSUME IInv, NEW i \in Ids, key[i] # None
               PROVE  \E p \in Proc : Node(p) = key[i].node /\ since[p] <= RegisterTTL
    BY DEF NoGhosts, IInv, TypeOK, Ids
  <2>1. EntryOf(key[i], i) /\ Fresh(key[i].lease) /\ key[i].lease \in Proc
    BY DEF IInv, KeysBacked, EntryOf, TypeOK
  <2>2. PICK p \in Proc : /\ Node(p) = Node(key[i].lease)
                          /\ since[p] + lease[key[i].lease] <= RegisterTTL
    BY <2>1 DEF Fresh
  <2>3. since[p] \in Nat /\ lease[key[i].lease] \in Nat
    BY <2>1 DEF IInv, TypeOK, LeaseTime
  <2> QED BY ProcessesAssumption, <2>1, <2>2, <2>3 DEF EntryOf
<1> QED BY <1>1, Always, PTL

\* A process with an id of its own is found from its first registration on, as
\* long as it does not miss all but one of those a lease lasts for.
THEOREM StaysVisible == Spec => []Visible
<1>1. IInv => Visible
  <2> SUFFICES ASSUME IInv, NEW p \in deployed, memory[p] # None, ~Shared(p),
                      (misses[p] + 1) * RegisterInterval < RegisterTTL
               PROVE  Registered(p)
    BY DEF Visible
  <2>1. /\ lease[p] > 0 => key[Id(p)] = memory[p]
        /\ lease[p] + misses[p] * RegisterInterval + RegisterInterval - timer[p] >= RegisterTTL
    BY DEF IInv, Accounted
  <2>2. p \in Proc /\ lease[p] \in Nat /\ timer[p] \in Nat /\ misses[p] \in Nat
    BY ProcessesAssumption DEF IInv, TypeOK, LeaseTime
  <2>3. /\ misses[p] * RegisterInterval \in Nat
        /\ misses[p] * RegisterInterval + RegisterInterval < RegisterTTL
    BY ProcessesAssumption, <2>2, OneMore
  <2>4. lease[p] > 0
    BY ProcessesAssumption, <2>1, <2>2, <2>3
  <2> QED BY <2>1, <2>2, <2>4 DEF IInv, MemoryBacked, Registered
<1> QED BY <1>1, Always, PTL
=============================================================================
