---------------------------- MODULE MasterProofs ----------------------------
(***************************************************************************)
(* For any masters, workers and resources, and any number of outside       *)
(* events: the masters keep their types; a ready master whose lease holds  *)
(* is at the head of the election; its resources are those of etcd and its *)
(* workers those of the registry, but for what outdated and blind tell.    *)
(***************************************************************************)
EXTENDS Master, SequenceTheorems, FiniteSetTheorems, TLAPS

\* A master that loads takes itself for the leader.
Loading == \A m \in Master : phase[m] = "load" => leaderID[m] = m

Types == TypeOK /\ Loading

\* The parts of TypeOK that are about what several steps share.
NodesOK == /\ DOMAIN workNodes = Master
           /\ \A m \in Master : /\ DOMAIN workNodes[m] \subseteq Node
                                /\ \A n \in DOMAIN workNodes[m] : workNodes[m][n] \in Int
EtcdOK == etcd \in [Resource -> Node \cup {None}]
ResourcesOK == resources \in [Master -> [Resource -> Node \cup {None}]]
OutdatedOK == outdated \in [Master -> BOOLEAN]

-----------------------------------------------------------------------------
\* No process is there at first.
LEMMA InitTypes == Init => Types
BY MasterAssumption, EmptySeq
   DEF Init, Nothing, Types, TypeOK, Loading, Phases, Elects, Keys

\* What a look at the registry, or its error, does to the types.
LEMMA UpdateTypes ==
  ASSUME Types, NEW m \in Master, UpdateWorkNodes(m)
  PROVE  NodesOK' /\ blind' \in [Master -> BOOLEAN]
<1>1. blind' \in [Master -> BOOLEAN]
  BY DEF Types, TypeOK, UpdateWorkNodes
<1>2. CASE workNodes' = [workNodes EXCEPT ![m] = [n \in registry |-> 0]]
  BY <1>1, <1>2 DEF Types, TypeOK, NodesOK
<1>3. CASE workNodes' = [workNodes EXCEPT ![m] = <<>>]
  <2>1. DOMAIN <<>> = {}
    OBVIOUS
  <2> QED BY <1>1, <1>3, <2>1 DEF Types, TypeOK, NodesOK
<1> QED BY <1>1, <1>2, <1>3 DEF UpdateWorkNodes

\* A Payload stays a number, if a negative one.
LEMMA AddPayloadTypes ==
  ASSUME Types, NEW m \in Master, NEW n \in DOMAIN workNodes[m], NEW d \in Int,
         AddPayload(m, n, d)
  PROVE  NodesOK'
BY DEF Types, TypeOK, NodesOK, AddPayload

\* A write to etcd, whether it succeeds or fails.
LEMMA WriteTypes ==
  ASSUME Types, NEW m \in Master, NEW r \in Resource, NEW n \in Node \cup {None},
         WriteEtcd(m, r, n) \/ EtcdError(m, r, n)
  PROVE  EtcdOK' /\ OutdatedOK'
<1>1. EtcdOK'
  BY DEF Types, TypeOK, EtcdOK, WriteEtcd, EtcdError
<1>2. CASE WriteEtcd(m, r, n)
  <2>1. \A k \in Master : (IF k = m THEN outdated[m] \/ phase[m] = "load" ELSE TRUE) \in BOOLEAN
    OBVIOUS
  <2> QED BY <1>1, <1>2, <2>1, Zenon DEF WriteEtcd, OutdatedOK
<1>3. CASE EtcdError(m, r, n)
  BY <1>1, <1>3 DEF Types, TypeOK, OutdatedOK, EtcdError
<1> QED BY <1>2, <1>3

\* addResources, all its outcomes.
LEMMA AddResourcesTypes ==
  ASSUME Types, NEW m \in Master, NEW r \in Resource, AddResources(m, r)
  PROVE  EtcdOK' /\ OutdatedOK' /\ ResourcesOK' /\ NodesOK'
<1>1. CASE UNCHANGED <<etcd, outdated, memVars, used>>
  BY <1>1 DEF Types, TypeOK, EtcdOK, OutdatedOK, ResourcesOK, NodesOK, memVars
<1>2. ASSUME NEW n \in Assignable(m), EtcdError(m, r, n)
      PROVE  EtcdOK' /\ OutdatedOK' /\ ResourcesOK' /\ NodesOK'
  <2>1. n \in Node
    BY DEF Types, TypeOK, Assignable
  <2>2. EtcdOK' /\ OutdatedOK'
    BY <1>2, <2>1, WriteTypes
  <2> QED BY <1>2, <2>2 DEF Types, TypeOK, ResourcesOK, NodesOK, memVars, EtcdError
<1>3. ASSUME NEW n \in Assignable(m), WriteEtcd(m, r, n), AddPayload(m, n, 1),
             resources' = [resources EXCEPT ![m][r] = n]
      PROVE  EtcdOK' /\ OutdatedOK' /\ ResourcesOK' /\ NodesOK'
  <2>1. n \in Node /\ n \in DOMAIN workNodes[m]
    BY DEF Types, TypeOK, Assignable
  <2>2. EtcdOK' /\ OutdatedOK'
    BY <1>3, <2>1, WriteTypes
  <2>3. NodesOK'
    BY <1>3, <2>1, AddPayloadTypes
  <2>4. ResourcesOK'
    BY <1>3, <2>1 DEF Types, TypeOK, ResourcesOK
  <2> QED BY <2>2, <2>3, <2>4
<1> QED BY <1>1, <1>2, <1>3 DEF AddResources

\* Taking a key out of the queue keeps the order of the others.
LEMMA RemoveKey ==
  ASSUME NEW S, NEW q \in Seq(S), NEW key,
         \A i, j \in 1 .. Len(q) : q[i] = q[j] => i = j
  PROVE  /\ RemoveFirst(q, key) \in Seq(S)
         /\ key \notin ToSet(q) => RemoveFirst(q, key) = q
         /\ \A i \in 1 .. Len(q) : q[i] = key =>
               /\ Len(RemoveFirst(q, key)) = Len(q) - 1
               /\ \A j \in 1 .. Len(q) - 1 :
                     RemoveFirst(q, key)[j] = IF j < i THEN q[j] ELSE q[j + 1]
<1>1. CASE \A i \in 1 .. Len(q) : q[i] # key
  BY <1>1 DEF RemoveFirst, ToSet
<1>2. ASSUME NEW i \in 1 .. Len(q), q[i] = key
      PROVE  /\ RemoveFirst(q, key) \in Seq(S)
             /\ Len(RemoveFirst(q, key)) = Len(q) - 1
             /\ \A j \in 1 .. Len(q) - 1 :
                   RemoveFirst(q, key)[j] = IF j < i THEN q[j] ELSE q[j + 1]
  <2>1. {j \in 1 .. Len(q) : q[j] = key} = {i}
    BY <1>2
  <2>2. Min({i}) = i
    BY DEF Min
  <2> DEFINE a == SubSeq(q, 1, i - 1)
             b == SubSeq(q, i + 1, Len(q))
  <2>3. RemoveFirst(q, key) = a \o b
    BY <1>2, <2>1, <2>2 DEF RemoveFirst, RemoveAt, SelectInSeq
  <2>4. a \in Seq(S) /\ Len(a) = i - 1 /\ \A j \in 1 .. i - 1 : a[j] = q[j]
    OBVIOUS
  <2>5. b \in Seq(S) /\ Len(b) = Len(q) - i /\ \A j \in 1 .. Len(q) - i : b[j] = q[i + j]
    OBVIOUS
  <2> HIDE DEF a, b
  <2>6. /\ a \o b \in Seq(S)
        /\ Len(a \o b) = Len(a) + Len(b)
        /\ \A j \in 1 .. Len(a) + Len(b) :
              (a \o b)[j] = IF j <= Len(a) THEN a[j] ELSE b[j - Len(a)]
    <3>1. a \in Seq(S) /\ b \in Seq(S)
      BY <2>4, <2>5
    <3> QED BY <3>1, ConcatProperties, Zenon
  <2>7. Len(a) + Len(b) = Len(q) - 1
    BY <2>4, <2>5
  <2>8. ASSUME NEW j \in 1 .. Len(q) - 1
        PROVE  (a \o b)[j] = IF j < i THEN q[j] ELSE q[j + 1]
    <3>1. CASE j < i
      BY <2>4, <2>6, <2>7, <3>1
    <3>2. CASE ~(j < i)
      <4>1. (a \o b)[j] = b[j - (i - 1)] /\ j - (i - 1) \in 1 .. Len(q) - i
        BY <2>4, <2>6, <2>7, <3>2
      <4>2. b[j - (i - 1)] = q[i + (j - (i - 1))]
        BY <2>5, <4>1
      <4> QED BY <3>2, <4>1, <4>2
    <3> QED BY <3>1, <3>2
  <2> QED BY <2>3, <2>6, <2>7, <2>8
<1> QED BY <1>1, <1>2 DEF ToSet

-----------------------------------------------------------------------------
\* The keys of an election are those of masters.
LEMMA KeyType == ASSUME TypeOK, NEW m \in Master PROVE Key(m) \in Keys
BY DEF TypeOK, Key, Keys

\* Entering a key, or finding it there.
LEMMA EnterTypes ==
  ASSUME Types, NEW m \in Master, Enter(m)
  PROVE  queue' \in Seq(Keys) /\ ahead' \in [Master -> SUBSET Keys]
<1>1. Key(m) \in Keys /\ ToSet(queue) \subseteq Keys
  BY KeyType DEF Types, TypeOK, ToSet
<1>2. \A i \in 1 .. Len(queue) : queue[i] \in Keys
  BY DEF Types, TypeOK
<1>3. CASE Key(m) \in ToSet(queue)
  <2>1. {queue[i] : i \in {j \in 1 .. Len(queue) : \A k \in 1 .. j : queue[k] # Key(m)}}
           \subseteq Keys
    BY <1>2
  <2> QED BY <1>3, <2>1 DEF Types, TypeOK, Enter
<1>4. CASE Key(m) \notin ToSet(queue)
  <2>1. queue' = Append(queue, Key(m)) /\ ahead' = [ahead EXCEPT ![m] = ToSet(queue)]
    BY <1>4 DEF Enter
  <2>2. queue' \in Seq(Keys)
    BY <1>1, <2>1 DEF Types, TypeOK
  <2>3. ahead' \in [Master -> SUBSET Keys]
    BY <1>1, <2>1 DEF Types, TypeOK
  <2> QED BY <2>2, <2>3
<1> QED BY <1>3, <1>4

\* Each session has one key at most.
Distinct == \A i, j \in 1 .. Len(queue) : queue[i] = queue[j] => i = j

\* A key that goes.
LEMMA DropTypes ==
  ASSUME Types, Distinct, NEW key, DropKey(key)
  PROVE  queue' \in Seq(Keys) /\ ahead' \in [Master -> SUBSET Keys]
BY RemoveKey DEF Types, TypeOK, DropKey, Distinct

\* What does not touch the registry, etcd or the election's queue.
LEMMA LocalTypes ==
  ASSUME Types, NEW m \in Master,
         \/ GetSeed(m) \/ StartCampaign(m) \/ SeeLeader(m) \/ ElectFailed(m) \/ Tick(m)
         \/ ElectWins(m) \/ Elected(m)
  PROVE  Types'
<1>1. CASE GetSeed(m)
  <2>1. toGet[m] \in Seq(Resource) /\ toGet[m] # <<>> /\ toAdd[m] \in Seq(Resource)
    BY <1>1 DEF GetSeed, Types, TypeOK
  <2>2. Head(toGet[m]) \in Resource /\ Tail(toGet[m]) \in Seq(Resource)
    BY <2>1
  <2>3. Append(toAdd[m], Head(toGet[m])) \in Seq(Resource)
    BY <2>1, <2>2
  <2>4. toGet' \in [Master -> Seq(Resource)]
    BY <1>1, <2>2 DEF GetSeed, Types, TypeOK
  <2>5. toAdd' \in [Master -> Seq(Resource)]
    BY <1>1, <2>3 DEF GetSeed, Types, TypeOK
  <2> QED BY <1>1, <2>4, <2>5
             DEF GetSeed, seedOthers, electVars, memVars, Types, TypeOK, Loading
<1>2. CASE StartCampaign(m)
  BY <1>2 DEF StartCampaign, Goto, memVars, seedVars, Types, TypeOK, Loading, Phases, Elects
<1>3. CASE SeeLeader(m)
  BY <1>3 DEF SeeLeader, Goto, electVars, memVars, seedVars, Types, TypeOK, Loading, Phases
<1>4. CASE ElectFailed(m)
  BY <1>4 DEF ElectFailed, MoveElect, electOthers, memVars, seedVars, Types, TypeOK, Loading,
              Elects
<1>5. CASE Tick(m)
  <2>1. elects' \in [Master -> SUBSET Elects]
    <3>1. CASE UNCHANGED elects
      BY <3>1 DEF Types, TypeOK
    <3>2. CASE elects' = [elects EXCEPT ![m] = @ \cup {"start"}]
      BY <3>2 DEF Types, TypeOK, Elects
    <3> QED BY <1>5, <3>1, <3>2 DEF Tick
  <2>2. /\ ready' \in [Master -> BOOLEAN]
        /\ \A k \in Master : ready'[k] => ready[k]
    BY <1>5 DEF Tick, Types, TypeOK
  <2> QED BY <1>5, <2>1, <2>2 DEF Tick, memVars, seedVars, Types, TypeOK, Loading
<1>6. CASE ElectWins(m)
  BY <1>6 DEF ElectWins, MoveElect, electOthers, memVars, seedVars, Types, TypeOK, Loading,
              Elects
<1>7. CASE Elected(m)
  <2>1. elects' \in [Master -> SUBSET Elects]
    BY <1>7 DEF Elected, Types, TypeOK
  <2>2. /\ leaderID' \in [Master -> Master \cup {None}]
        /\ \A k \in Master : leaderID'[k] \in {None, k} /\ (leaderID[k] = k => leaderID'[k] = k)
        /\ leaderID'[m] = m
    BY <1>7 DEF Elected, Types, TypeOK
  <2>3. /\ snapshot' \in [Master -> [Resource -> Node \cup {None}]]
        /\ outdated' \in [Master -> BOOLEAN]
    <3>1. CASE UNCHANGED <<snapshot, outdated>>
      BY <3>1 DEF Types, TypeOK
    <3>2. CASE /\ snapshot' = [snapshot EXCEPT ![m] = etcd]
               /\ outdated' = [outdated EXCEPT ![m] = FALSE]
      BY <3>2 DEF Types, TypeOK
    <3> QED BY <1>7, <3>1, <3>2 DEF Elected
  <2>4. /\ phase' \in [Master -> Phases]
        /\ \A k \in Master : ready[k] => phase'[k] = phase[k]
        /\ \A k \in Master : phase'[k] = "load" => phase[k] = "load" \/ k = m
    BY <1>7 DEF Elected, Goto, Types, TypeOK, Phases
  <2>5. UNCHANGED <<etcd, queue, registry, inc, lease, ahead, ready, workNodes, resources,
                    toGet, toAdd, watch, blind>>
    BY <1>7 DEF Elected, memVars, seedVars
  <2> QED BY <2>1, <2>2, <2>3, <2>4, <2>5 DEF Types, TypeOK, Loading
<1> QED BY <1>1, <1>2, <1>3, <1>4, <1>5, <1>6, <1>7

\* How many resources a node has is a number.
LEMMA LoadType == ASSUME NEW rs, NEW n PROVE Load(rs, n) \in Nat
<1>1. {r \in Resource : rs[r] = n} \in SUBSET Resource
  OBVIOUS
<1>2. IsFiniteSet({r \in Resource : rs[r] = n})
  BY <1>1, FS_Subset, MasterAssumption
<1> QED BY <1>2, FS_CardinalityType DEF Load

\* The end of loadResource.
LEMMA LoadResourceTypes ==
  ASSUME Types, NEW m \in Master, LoadResource(m)
  PROVE  Types'
<1>1. NodesOK'
  BY LoadType DEF LoadResource, Types, TypeOK, NodesOK
<1> QED BY <1>1 DEF LoadResource, Goto, electVars, seedVars, Types, TypeOK, Loading, NodesOK, Phases

\* The goroutines of the elections.
LEMMA ElectTypes ==
  ASSUME Types, NEW m \in Master, ElectEnters(m) \/ ElectErrs(m)
  PROVE  Types'
<1>1. elects' \in [Master -> SUBSET Elects]
  <2>1. ASSUME NEW a, NEW b \in Elects, MoveElect(m, a, b)
        PROVE  elects' \in [Master -> SUBSET Elects]
    BY <2>1 DEF MoveElect, Types, TypeOK
  <2>2. "waiting" \in Elects /\ "failed" \in Elects
    BY DEF Elects
  <2>3. \/ MoveElect(m, "start", "waiting")
        \/ MoveElect(m, "start", "failed")
        \/ MoveElect(m, "waiting", "failed")
    BY DEF ElectEnters, ElectErrs
  <2> QED BY <2>1, <2>2, <2>3
<1>2. queue' \in Seq(Keys) /\ ahead' \in [Master -> SUBSET Keys]
  <2>1. CASE UNCHANGED <<queue, ahead>>
    BY <2>1 DEF Types, TypeOK
  <2>2. CASE Enter(m)
    BY <2>2, EnterTypes
  <2> QED BY <2>1, <2>2 DEF ElectEnters, ElectErrs
<1>3. UNCHANGED <<etcd, registry, phase, inc, lease, leaderID, ready, workNodes, resources,
                  toGet, toAdd, snapshot, watch, outdated, blind>>
  BY DEF ElectEnters, ElectErrs, electOthers, memVars, seedVars
<1> QED BY <1>1, <1>2, <1>3 DEF Types, TypeOK, Loading

\* The start of a process.
LEMMA StartTypes ==
  ASSUME Types, NEW m \in Master, Start(m)
  PROVE  Types'
<1>1. NodesOK' /\ blind' \in [Master -> BOOLEAN]
  BY UpdateTypes DEF Start
<1>2. /\ phase' \in [Master -> Phases]
      /\ \A k \in Master : ready[k] => phase'[k] = phase[k]
      /\ \A k \in Master : phase'[k] = "load" => phase[k] = "load"
  BY DEF Start, Goto, Types, TypeOK, Phases
<1>3. inc' \in [Master -> Nat] /\ toGet' \in [Master -> Seq(Resource)]
  BY MasterAssumption DEF Start, Types, TypeOK
<1> QED BY <1>1, <1>2, <1>3 DEF Start, Types, TypeOK, Loading, NodesOK

\* An event of the registry that is dealt with.
LEMMA NodesChangeTypes ==
  ASSUME Types, NEW m \in Master, NodesChange(m)
  PROVE  Types'
<1>1. NodesOK' /\ blind' \in [Master -> BOOLEAN]
  BY UpdateTypes DEF NodesChange
<1>2. watch' \in [Master -> Nat]
  BY DEF NodesChange, Types, TypeOK
<1> QED BY <1>1, <1>2 DEF NodesChange, electVars, seedVars, Types, TypeOK, Loading, NodesOK

\* The callers of addResources, and deletion.
LEMMA WritersTypes ==
  ASSUME Types, NEW m \in Master,
         AddSeed(m) \/ \E r \in Resource : AddResource(m, r) \/ DeleteResource(m, r)
  PROVE  Types'
<1>1. toAdd' \in [Master -> Seq(Resource)]
  <2>1. CASE AddSeed(m)
    <3>1. toAdd[m] \in Seq(Resource) /\ toAdd[m] # <<>>
      BY <2>1 DEF AddSeed, Types, TypeOK
    <3>2. Tail(toAdd[m]) \in Seq(Resource)
      BY <3>1
    <3> QED BY <2>1, <3>2 DEF AddSeed, Types, TypeOK
  <2>2. CASE UNCHANGED toAdd
    BY <2>2 DEF Types, TypeOK
  <2> QED BY <2>1, <2>2 DEF AddResource, DeleteResource, apiOthers, seedVars
<1>2. EtcdOK' /\ OutdatedOK' /\ ResourcesOK' /\ NodesOK'
  <2>1. CASE AddSeed(m)
    <3>1. Head(toAdd[m]) \in Resource
      BY <2>1 DEF AddSeed, Types, TypeOK
    <3> QED BY <2>1, <3>1, AddResourcesTypes DEF AddSeed
  <2>2. ASSUME NEW r \in Resource, AddResource(m, r)
        PROVE  EtcdOK' /\ OutdatedOK' /\ ResourcesOK' /\ NodesOK'
    BY <2>2, AddResourcesTypes DEF AddResource
  <2>3. ASSUME NEW r \in Resource, DeleteResource(m, r)
        PROVE  EtcdOK' /\ OutdatedOK' /\ ResourcesOK' /\ NodesOK'
    <3>1. CASE EtcdError(m, r, None)
      <4>1. EtcdOK' /\ OutdatedOK'
        BY <3>1, WriteTypes
      <4> QED BY <3>1, <4>1 DEF EtcdError, memVars, Types, TypeOK, ResourcesOK, NodesOK
    <3>2. CASE /\ WriteEtcd(m, r, None)
               /\ resources' = [resources EXCEPT ![m][r] = None]
               /\ IF resources[m][r] \in DOMAIN workNodes[m]
                  THEN AddPayload(m, resources[m][r], -1)
                  ELSE UNCHANGED workNodes
      <4>1. EtcdOK' /\ OutdatedOK'
        BY <3>2, WriteTypes
      <4>2. ResourcesOK'
        BY <3>2 DEF Types, TypeOK, ResourcesOK
      <4>3. CASE UNCHANGED workNodes
        BY <4>1, <4>2, <4>3 DEF Types, TypeOK, NodesOK
      <4>4. CASE /\ resources[m][r] \in DOMAIN workNodes[m]
                 /\ AddPayload(m, resources[m][r], -1)
        BY <4>1, <4>2, <4>4, AddPayloadTypes
      <4> QED BY <3>2, <4>3, <4>4
    <3> QED BY <2>3, <3>1, <3>2 DEF DeleteResource
  <2> QED BY <2>1, <2>2, <2>3
<1>3. UNCHANGED <<queue, registry, phase, inc, lease, elects, ahead, leaderID, ready, toGet,
                  snapshot, watch, blind>>
  BY DEF AddSeed, AddResource, DeleteResource, seedOthers, apiOthers, electVars, seedVars
<1> QED BY <1>1, <1>2, <1>3
           DEF Types, TypeOK, Loading, EtcdOK, OutdatedOK, ResourcesOK, NodesOK

\* Workers that come and go, leases that end, and crashes.
LEMMA EnvironmentTypes ==
  ASSUME Types, Distinct, Environment
  PROVE  Types'
<1>1. ASSUME NEW n \in Node, RegistryChanges(n)
      PROVE  Types'
  <2>1. registry' \subseteq Node
    BY <1>1 DEF RegistryChanges, Types, TypeOK
  <2>2. watch' \in [Master -> Nat]
    BY <1>1 DEF RegistryChanges, Types, TypeOK
  <2>3. blind' \in [Master -> BOOLEAN]
    <3>1. \A k \in Master : (blind[k] \/ (phase[k] # "down" /\ k \notin
              {m \in Master : phase[m] \in {"loop", "load"}})) \in BOOLEAN
      OBVIOUS
    <3> QED BY <1>1, <3>1, Zenon DEF RegistryChanges
  <2> QED BY <1>1, <2>1, <2>2, <2>3
             DEF RegistryChanges, electVars, memVars, seedVars, Types, TypeOK, Loading
<1>2. ASSUME NEW m \in Master, LeaseExpires(m)
      PROVE  Types'
  <2>1. queue' \in Seq(Keys) /\ ahead' \in [Master -> SUBSET Keys]
    BY <1>2, DropTypes DEF LeaseExpires
  <2> QED BY <1>2, <2>1 DEF LeaseExpires, memVars, seedVars, Types, TypeOK, Loading
<1>3. ASSUME NEW m \in Master, Crash(m)
      PROVE  Types'
  <2>1. Nothing \in [Resource -> Node \cup {None}] /\ <<>> \in Seq(Resource)
    BY EmptySeq DEF Nothing
  <2>2. NodesOK'
    <3>1. DOMAIN <<>> = {}
      OBVIOUS
    <3>2. workNodes' = [workNodes EXCEPT ![m] = <<>>]
      BY <1>3 DEF Crash
    <3> QED BY <3>1, <3>2 DEF NodesOK, Types, TypeOK
  <2>3. /\ phase' = [phase EXCEPT ![m] = "down"]
        /\ leaderID' = [leaderID EXCEPT ![m] = None]
        /\ ready' = [ready EXCEPT ![m] = FALSE]
    BY <1>3 DEF Crash, Goto
  <2>4. /\ phase' \in [Master -> Phases]
        /\ leaderID' \in [Master -> Master \cup {None}]
        /\ ready' \in [Master -> BOOLEAN]
        /\ \A k \in Master : /\ leaderID'[k] \in {None, k}
                             /\ ready'[k] => phase'[k] = "loop" /\ leaderID'[k] = k
                             /\ phase'[k] = "load" => leaderID'[k] = k
    BY <2>3 DEF Types, TypeOK, Loading, Phases
  <2>5. /\ lease' \in [Master -> BOOLEAN]
        /\ outdated' \in [Master -> BOOLEAN]
        /\ blind' \in [Master -> BOOLEAN]
        /\ watch' \in [Master -> Nat]
    BY <1>3 DEF Crash, Types, TypeOK
  <2>6. /\ elects' \in [Master -> SUBSET Elects]
        /\ ahead' \in [Master -> SUBSET Keys]
    BY <1>3 DEF Crash, Types, TypeOK
  <2>7. /\ toGet' \in [Master -> Seq(Resource)]
        /\ toAdd' \in [Master -> Seq(Resource)]
    BY <1>3, <2>1 DEF Crash, Types, TypeOK
  <2>8. /\ resources' \in [Master -> [Resource -> Node \cup {None}]]
        /\ snapshot' \in [Master -> [Resource -> Node \cup {None}]]
    BY <1>3, <2>1 DEF Crash, Types, TypeOK
  <2>9. UNCHANGED <<etcd, queue, registry, inc>>
    BY <1>3 DEF Crash
  <2> QED BY <2>2, <2>4, <2>5, <2>6, <2>7, <2>8, <2>9 DEF Types, TypeOK, Loading, NodesOK
<1>4. ASSUME NEW key \in ToSet(queue), LeaseRunsOut(key)
      PROVE  Types'
  <2>1. queue' \in Seq(Keys) /\ ahead' \in [Master -> SUBSET Keys]
    BY <1>4, DropTypes DEF LeaseRunsOut
  <2> QED BY <1>4, <2>1 DEF LeaseRunsOut, memVars, seedVars, Types, TypeOK, Loading
<1> QED BY <1>1, <1>2, <1>3, <1>4 DEF Environment

\* Types, step by step.
LEMMA StepTypes == ASSUME Types, Distinct, [Next]_vars PROVE Types'
<1>1. ASSUME NEW m \in Master, Calls(m)
      PROVE  Types'
  BY <1>1, WritersTypes DEF Calls
<1>2. ASSUME NEW m \in Master, Start(m) \/ Runs(m) \/ ElectRuns(m)
      PROVE  Types'
  BY <1>2, StartTypes, LocalTypes, WritersTypes, LoadResourceTypes, NodesChangeTypes, ElectTypes
     DEF Runs, ElectRuns
<1>3. CASE Environment
  BY <1>3, EnvironmentTypes
<1>4. CASE UNCHANGED vars
  BY <1>4 DEF vars, Types, TypeOK, Loading
<1> QED BY <1>1, <1>2, <1>3, <1>4 DEF Next

-----------------------------------------------------------------------------
\* The election.  A master that waits under a live lease waits for every key
\* older than its own; the one that is elected is at the head.
InLine(m) == \E i \in 1 .. Len(queue) : /\ queue[i] = Key(m)
                                        /\ \A j \in 1 .. i - 1 : queue[j] \in ahead[m]
Leads(m) == queue # <<>> /\ Head(queue) = Key(m)
Rules(m) == ready[m] \/ phase[m] = "load" \/ "elected" \in elects[m]

Absent == \A m \in Master : phase[m] \in {"down", "seed"} => ~lease[m] /\ elects[m] = {}
Waits == \A m \in Master : lease[m] /\ "waiting" \in elects[m] => InLine(m)
Elections == \A m \in Master : lease[m] /\ Rules(m) => Leads(m)

Campaigns == Distinct /\ Absent /\ Waits /\ Elections

\* Entering a key puts its master in line, and no other out of it.
LEMMA EnterLine ==
  ASSUME Types, Distinct, NEW m \in Master, Enter(m), UNCHANGED inc
  PROVE  /\ Distinct' /\ InLine(m)'
         /\ \A k \in Master : /\ k # m /\ InLine(k) => InLine(k)'
                              /\ Leads(k) => Leads(k)'
<1> USE DEF Key
<1>1. queue \in Seq(Keys) /\ ahead \in [Master -> SUBSET Keys] /\ Key(m) \in Keys
  BY KeyType DEF Types, TypeOK
<1>2. CASE Key(m) \in ToSet(queue)
  <2>1. UNCHANGED queue /\ \A k \in Master : k # m => ahead'[k] = ahead[k]
    BY <1>1, <1>2 DEF Enter
  <2>2. ahead'[m] = {queue[i] : i \in {j \in 1 .. Len(queue) :
                                         \A k \in 1 .. j : queue[k] # Key(m)}}
    BY <1>1, <1>2 DEF Enter
  <2>3. PICK i \in 1 .. Len(queue) : queue[i] = Key(m)
    BY <1>2 DEF ToSet
  <2>4. ASSUME NEW j \in 1 .. i - 1
        PROVE  queue[j] \in ahead'[m]
    <3>1. j \in 1 .. Len(queue)
      BY <1>1
    <3>2. \A k \in 1 .. j : queue[k] # Key(m)
      BY <1>1, <2>3 DEF Distinct
    <3> QED BY <2>2, <3>1, <3>2
  <2>5. InLine(m)'
    BY <2>1, <2>3, <2>4 DEF InLine
  <2> QED BY <2>1, <2>5 DEF InLine, Leads, Distinct
<1>3. CASE Key(m) \notin ToSet(queue)
  <2>1. queue' = Append(queue, Key(m)) /\ ahead' = [ahead EXCEPT ![m] = ToSet(queue)]
    BY <1>3 DEF Enter
  <2>2. /\ Len(queue') = Len(queue) + 1
        /\ queue'[Len(queue) + 1] = Key(m)
        /\ \A i \in 1 .. Len(queue) : queue'[i] = queue[i]
    BY <1>1, <2>1
  <2>3. \A i \in 1 .. Len(queue) : queue[i] # Key(m) /\ queue[i] \in ToSet(queue)
    BY <1>3 DEF ToSet
  <2>4. Distinct'
    BY <1>1, <2>2, <2>3 DEF Distinct
  <2>5. InLine(m)'
    <3>1. \A j \in 1 .. Len(queue) : queue'[j] \in ahead'[m]
      BY <1>1, <2>1, <2>2, <2>3
    <3> QED BY <1>1, <2>2, <3>1 DEF InLine
  <2>6. ASSUME NEW k \in Master, k # m, InLine(k)
        PROVE  InLine(k)'
    <3>1. PICK i \in 1 .. Len(queue) : /\ queue[i] = Key(k)
                                       /\ \A j \in 1 .. i - 1 : queue[j] \in ahead[k]
      BY <2>6 DEF InLine
    <3>2. i \in 1 .. Len(queue') /\ queue'[i] = Key(k)'
      BY <1>1, <2>2, <3>1
    <3>3. \A j \in 1 .. i - 1 : queue'[j] \in ahead'[k]
      BY <1>1, <2>1, <2>2, <2>6, <3>1
    <3> QED BY <3>2, <3>3 DEF InLine
  <2>7. ASSUME NEW k \in Master, Leads(k)
        PROVE  Leads(k)'
    BY <1>1, <2>1, <2>7 DEF Leads
  <2> QED BY <2>4, <2>5, <2>6, <2>7
<1> QED BY <1>2, <1>3

\* A key that goes is no loss to those who wait for it, nor to the others.
LEMMA DropLine ==
  ASSUME Types, Distinct, NEW key, DropKey(key), UNCHANGED inc
  PROVE  /\ Distinct'
         /\ \A k \in Master : key # Key(k) => /\ InLine(k) => InLine(k)'
                                              /\ Leads(k) => Leads(k)'
<1>1. queue \in Seq(Keys) /\ ahead \in [Master -> SUBSET Keys]
  BY DEF Types, TypeOK
<1>2. queue' = RemoveFirst(queue, key) /\ ahead' = [m \in Master |-> ahead[m] \ {key}]
  BY DEF DropKey
<1>3. \A k \in Master : Key(k)' = Key(k)
  BY DEF Key
<1>4. CASE key \notin ToSet(queue)
  <2>1. UNCHANGED queue /\ \A i \in 1 .. Len(queue) : queue[i] # key
    BY <1>1, <1>2, <1>4, RemoveKey DEF Distinct, ToSet
  <2>2. \A k \in Master : InLine(k) => InLine(k)'
    BY <1>1, <1>2, <1>3, <2>1 DEF InLine
  <2>3. \A k \in Master : Leads(k) => Leads(k)'
    BY <1>3, <2>1 DEF Leads
  <2>4. Distinct'
    BY <2>1 DEF Distinct
  <2> QED BY <2>2, <2>3, <2>4
<1>5. ASSUME NEW i \in 1 .. Len(queue), queue[i] = key
      PROVE  /\ Distinct'
             /\ \A k \in Master : key # Key(k) => /\ InLine(k) => InLine(k)'
                                                  /\ Leads(k) => Leads(k)'
  <2>1. /\ queue' \in Seq(Keys)
        /\ Len(queue') = Len(queue) - 1
        /\ \A j \in 1 .. Len(queue) - 1 : queue'[j] = IF j < i THEN queue[j] ELSE queue[j + 1]
    BY <1>1, <1>2, <1>5, RemoveKey DEF Distinct
  <2>2. \A j \in 1 .. Len(queue) : j # i => queue[j] # key
    BY <1>5 DEF Distinct
  <2>3. Distinct'
    BY <1>1, <2>1 DEF Distinct
  <2>4. ASSUME NEW k \in Master, key # Key(k), InLine(k)
        PROVE  InLine(k)'
    <3>1. PICK p \in 1 .. Len(queue) : /\ queue[p] = Key(k)
                                       /\ \A j \in 1 .. p - 1 : queue[j] \in ahead[k]
      BY <2>4 DEF InLine
    <3>2. p # i
      BY <1>5, <2>4, <3>1
    <3> DEFINE q == IF p < i THEN p ELSE p - 1
    <3>3. q \in 1 .. Len(queue') /\ queue'[q] = Key(k)'
      BY <1>1, <1>3, <2>1, <3>1, <3>2
    <3>4. ASSUME NEW j \in 1 .. q - 1
          PROVE  queue'[j] \in ahead'[k]
      <4>1. PICK o \in 1 .. p - 1 : o # i /\ queue'[j] = queue[o]
        <5>1. CASE j < i
          <6>1. j \in 1 .. p - 1 /\ j # i /\ j \in 1 .. Len(queue) - 1
            BY <1>1, <3>1, <5>1
          <6> QED BY <2>1, <5>1, <6>1
        <5>2. CASE ~(j < i)
          <6>1. j + 1 \in 1 .. p - 1 /\ j + 1 # i /\ j \in 1 .. Len(queue) - 1
            BY <1>1, <3>1, <3>2, <5>2
          <6> QED BY <2>1, <5>2, <6>1
        <5> QED BY <5>1, <5>2
      <4>2. queue[o] # key /\ queue[o] \in ahead[k]
        BY <1>1, <2>2, <3>1, <4>1
      <4> QED BY <1>1, <1>2, <4>1, <4>2
    <3> HIDE DEF q
    <3> QED BY <3>3, <3>4 DEF InLine
  <2>5. ASSUME NEW k \in Master, key # Key(k), Leads(k)
        PROVE  Leads(k)'
    <3>1. queue[1] = Key(k) /\ i # 1
      BY <1>1, <1>5, <2>5 DEF Leads
    <3>2. Len(queue') >= 1 /\ queue'[1] = Key(k)
      BY <1>1, <2>1, <3>1
    <3> QED BY <1>3, <2>1, <3>2 DEF Leads
  <2> QED BY <2>3, <2>4, <2>5
<1> QED BY <1>4, <1>5 DEF ToSet

\* Whoever waits for no key is at the head.
LEMMA FirstLeads ==
  ASSUME Types, NEW m \in Master, InLine(m), ahead[m] = {}
  PROVE  Leads(m)
<1>1. queue \in Seq(Keys)
  BY DEF Types, TypeOK
<1>2. PICK i \in 1 .. Len(queue) : /\ queue[i] = Key(m)
                                   /\ \A j \in 1 .. i - 1 : queue[j] \in ahead[m]
  BY DEF InLine
<1>3. i = 1
  <2>1. 1 \notin 1 .. i - 1
    BY <1>2
  <2> QED BY <1>1, <2>1
<1> QED BY <1>1, <1>2, <1>3 DEF Leads

\* What leaves the queue and m's part in it alone leaves its place alone.
LEMMA SameElection ==
  ASSUME UNCHANGED <<queue, inc>>, NEW k \in Master, ahead'[k] = ahead[k]
  PROVE  (InLine(k) => InLine(k)') /\ (Leads(k) => Leads(k)')
BY DEF InLine, Leads, Key

\* Nobody campaigns at first.
LEMMA InitCampaigns == Init => Campaigns
BY DEF Init, Campaigns, Distinct, Absent, Waits, Elections, Rules

\* Steps that leave the election alone, and make nobody a leader.
LEMMA QuietCampaigns ==
  ASSUME Types, Campaigns, UNCHANGED electVars,
         \A k \in Master : /\ ready'[k] => ready[k] \/ phase[k] = "load"
                           /\ phase'[k] = "load" => phase[k] = "load"
                           /\ phase'[k] \in {"down", "seed"} => phase[k] \in {"down", "seed"}
  PROVE  Campaigns'
BY SameElection DEF electVars, Campaigns, Distinct, Absent, Waits, Elections, Rules

\* What a master does to its own part of the election, or to that of nobody.
LEMMA OwnCampaign ==
  ASSUME Types, Campaigns, NEW m \in Master,
         Distinct',
         \A k \in Master : k # m =>
            /\ phase'[k] = phase[k] /\ lease'[k] = lease[k] /\ elects'[k] = elects[k]
            /\ ready'[k] = ready[k]
            /\ (InLine(k) => (lease[k] => InLine(k)'))
            /\ (Leads(k) => (lease[k] => Leads(k)')),
         phase'[m] \in {"down", "seed"} => ~lease'[m] /\ elects'[m] = {},
         lease'[m] /\ "waiting" \in elects'[m] => InLine(m)',
         lease'[m] /\ Rules(m)' => Leads(m)'
  PROVE  Campaigns'
<1>1. Absent'
  BY DEF Campaigns, Absent
<1>2. Waits'
  BY DEF Campaigns, Waits
<1>3. Elections'
  BY DEF Campaigns, Elections, Rules
<1> QED BY <1>1, <1>2, <1>3 DEF Campaigns

\* Every step leaves the head of the election to whom it belongs.
LEMMA StepCampaigns == ASSUME Types, Campaigns, [Next]_vars PROVE Campaigns'
<1> USE DEF Campaigns
<1>1. ASSUME NEW m \in Master, Calls(m)
      PROVE  Campaigns'
  BY <1>1, QuietCampaigns DEF Calls, AddResource, DeleteResource, apiOthers
<1>2. ASSUME NEW m \in Master,
             GetSeed(m) \/ AddSeed(m) \/ SeeLeader(m) \/ NodesChange(m) \/ LoadResource(m)
      PROVE  Campaigns'
  <2>1. UNCHANGED electVars
    BY <1>2 DEF GetSeed, AddSeed, SeeLeader, NodesChange, LoadResource, seedOthers
  <2>2. \A k \in Master : ready'[k] => ready[k] \/ phase[k] = "load"
    BY <1>2 DEF GetSeed, AddSeed, SeeLeader, NodesChange, LoadResource, seedOthers, Types, TypeOK
  <2>3. \A k \in Master : /\ phase'[k] = "load" => phase[k] = "load"
                          /\ phase'[k] \in {"down", "seed"} => phase[k] \in {"down", "seed"}
    BY <1>2 DEF GetSeed, AddSeed, SeeLeader, NodesChange, LoadResource, seedOthers, Goto,
                Types, TypeOK
  <2> QED BY <2>1, <2>2, <2>3, QuietCampaigns
<1>3. ASSUME NEW m \in Master, Start(m)
      PROVE  Campaigns'
  <2>1. /\ UNCHANGED <<queue, ahead, lease, elects, ready>>
        /\ ~lease[m] /\ elects[m] = {}
    BY <1>3 DEF Start, Absent
  <2>2. \A k \in Master : k # m => /\ inc'[k] = inc[k]
                                   /\ phase'[k] = phase[k]
    BY <1>3 DEF Start, Goto, Types, TypeOK
  <2>3. \A k \in Master : k # m => /\ InLine(k) => InLine(k)'
                                   /\ Leads(k) => Leads(k)'
    BY <2>1, <2>2 DEF InLine, Leads, Key
  <2> QED BY <2>1, <2>2, <2>3, OwnCampaign DEF Distinct
<1>4. ASSUME NEW m \in Master,
             \/ StartCampaign(m) \/ ElectFailed(m) \/ Elected(m) \/ Tick(m) \/ ElectWins(m)
      PROVE  Campaigns'
  <2>1. UNCHANGED <<queue, inc, ahead>>
    BY <1>4 DEF StartCampaign, ElectFailed, Elected, Tick, ElectWins, electOthers
  <2>2. \A k \in Master : /\ InLine(k) => InLine(k)'
                          /\ Leads(k) => Leads(k)'
    BY <2>1, SameElection
  <2>3. Distinct'
    BY <2>1 DEF Distinct
  <2>4. \A k \in Master : k # m => /\ phase'[k] = phase[k] /\ lease'[k] = lease[k]
                                   /\ elects'[k] = elects[k] /\ ready'[k] = ready[k]
    <3>1. CASE StartCampaign(m)
      BY <3>1 DEF StartCampaign, Goto, Types, TypeOK
    <3>2. CASE ElectFailed(m) \/ ElectWins(m)
      BY <3>2 DEF ElectFailed, ElectWins, MoveElect, electOthers, Types, TypeOK
    <3>3. CASE Elected(m)
      BY <3>3 DEF Elected, Goto, Types, TypeOK
    <3>4. CASE Tick(m)
      BY <3>4 DEF Tick, Types, TypeOK
    <3> QED BY <1>4, <3>1, <3>2, <3>3, <3>4
  <2>5. /\ phase'[m] \in {"down", "seed"} => ~lease'[m] /\ elects'[m] = {}
        /\ lease'[m] /\ "waiting" \in elects'[m] => InLine(m)'
        /\ lease'[m] /\ Rules(m)' => Leads(m)'
    <3>1. CASE StartCampaign(m)
      BY <3>1 DEF StartCampaign, Goto, Rules, Types, TypeOK
    <3>2. CASE ElectFailed(m)
      BY <2>2, <3>2 DEF ElectFailed, MoveElect, electOthers, Rules, Types, TypeOK, Absent, Waits,
                        Elections
    <3>3. CASE ElectWins(m)
      <4>1. InLine(m) \/ ~lease[m]
        BY <3>3 DEF ElectWins, MoveElect, Waits
      <4>2. Leads(m)' \/ ~lease[m]
        BY <2>2, <3>3, <4>1, FirstLeads DEF ElectWins
      <4> QED BY <2>2, <3>3, <4>1, <4>2
                 DEF ElectWins, MoveElect, electOthers, Types, TypeOK, Absent
    <3>4. CASE Elected(m)
      <4>1. Leads(m)' \/ ~lease[m]
        BY <2>2, <3>4 DEF Elected, Elections, Rules
      <4>2. elects'[m] \subseteq elects[m] /\ lease' = lease /\ phase'[m] \in {"loop", "load"}
        BY <3>4 DEF Elected, Goto, Types, TypeOK
      <4> QED BY <2>2, <4>1, <4>2 DEF Waits
    <3>5. CASE Tick(m)
      <4>1. /\ lease' = lease /\ phase' = phase /\ phase[m] = "loop"
            /\ elects'[m] \subseteq elects[m] \cup {"start"}
            /\ ready'[m] => ready[m]
        BY <3>5 DEF Tick, Types, TypeOK
      <4>2. /\ "waiting" \in elects'[m] => "waiting" \in elects[m]
            /\ "elected" \in elects'[m] => "elected" \in elects[m]
        <5>1. "waiting" # "start" /\ "elected" # "start"
          OBVIOUS
        <5> QED BY <4>1, <5>1, Zenon
      <4>3. lease'[m] /\ Rules(m)' => Leads(m)'
        BY <2>2, <4>1, <4>2 DEF Elections, Rules
      <4> QED BY <2>2, <4>1, <4>2, <4>3 DEF Waits
    <3> QED BY <1>4, <3>1, <3>2, <3>3, <3>4, <3>5
  <2> QED BY <2>2, <2>3, <2>4, <2>5, OwnCampaign
<1>5. ASSUME NEW m \in Master, ElectEnters(m) \/ ElectErrs(m)
      PROVE  Campaigns'
  <2>1. UNCHANGED <<inc, phase, lease, ready>>
    BY <1>5 DEF ElectEnters, ElectErrs, electOthers
  <2>2. /\ \A k \in Master : k # m => elects'[k] = elects[k]
        /\ "elected" \in elects'[m] => "elected" \in elects[m]
        /\ phase[m] \notin {"down", "seed"}
    BY <1>5 DEF ElectEnters, ElectErrs, MoveElect, Types, TypeOK, Absent
  <2>3. CASE Enter(m)
    <3>1. Distinct' /\ InLine(m)'
      BY <2>1, <2>3, EnterLine
    <3>2. \A k \in Master : /\ k # m /\ InLine(k) => InLine(k)'
                            /\ Leads(k) => Leads(k)'
      BY <2>1, <2>3, EnterLine
    <3>3. lease'[m] /\ Rules(m)' => Leads(m)'
      BY <2>1, <2>2, <3>2 DEF Rules, Elections
    <3> QED BY <2>1, <2>2, <3>1, <3>2, <3>3, OwnCampaign
  <2>4. CASE UNCHANGED <<queue, ahead>> /\ ~Enter(m)
    <3>1. \A k \in Master : /\ InLine(k) => InLine(k)'
                            /\ Leads(k) => Leads(k)'
      BY <2>1, <2>4, SameElection
    <3>2. "waiting" \in elects'[m] => "waiting" \in elects[m]
      BY <1>5, <2>4 DEF ElectEnters, ElectErrs, MoveElect, Types, TypeOK
    <3>3. /\ lease'[m] /\ Rules(m)' => Leads(m)'
          /\ lease'[m] /\ "waiting" \in elects'[m] => InLine(m)'
      BY <2>1, <2>2, <3>1, <3>2 DEF Rules, Elections, Waits
    <3> QED BY <2>1, <2>2, <2>4, <3>1, <3>3, OwnCampaign DEF Distinct
  <2> QED BY <1>5, <2>3, <2>4 DEF ElectEnters, ElectErrs
<1>6. ASSUME NEW n \in Node, RegistryChanges(n)
      PROVE  Campaigns'
  BY <1>6, QuietCampaigns DEF RegistryChanges
<1>7. ASSUME NEW m \in Master, LeaseExpires(m)
      PROVE  Campaigns'
  <2>1. UNCHANGED <<phase, inc, elects, ready>> /\ DropKey(Key(m))
    BY <1>7 DEF LeaseExpires
  <2>2. \A k \in Master : k # m => Key(k) # Key(m) /\ lease'[k] = lease[k]
    BY <1>7 DEF LeaseExpires, Key, Types, TypeOK
  <2>3. ~lease'[m] /\ phase[m] \notin {"down", "seed"}
    BY <1>7 DEF LeaseExpires, Types, TypeOK, Absent
  <2>4. /\ Distinct'
        /\ \A k \in Master : k # m => /\ InLine(k) => InLine(k)'
                                      /\ Leads(k) => Leads(k)'
    BY <2>1, <2>2, DropLine
  <2> QED BY <2>1, <2>2, <2>3, <2>4, OwnCampaign
<1>8. ASSUME NEW m \in Master, Crash(m)
      PROVE  Campaigns'
  <2>1. UNCHANGED <<queue, inc>> /\ ~lease'[m] /\ elects'[m] = {}
    BY <1>8 DEF Crash, Types, TypeOK
  <2>2. \A k \in Master : k # m =>
           /\ phase'[k] = phase[k] /\ lease'[k] = lease[k] /\ elects'[k] = elects[k]
           /\ ready'[k] = ready[k] /\ ahead'[k] = ahead[k]
    BY <1>8 DEF Crash, Goto, Types, TypeOK
  <2>3. \A k \in Master : k # m => /\ InLine(k) => InLine(k)'
                                   /\ Leads(k) => Leads(k)'
    BY <2>1, <2>2, SameElection
  <2> QED BY <2>1, <2>2, <2>3, OwnCampaign DEF Distinct
<1>9. ASSUME NEW key \in ToSet(queue), LeaseRunsOut(key)
      PROVE  Campaigns'
  <2>1. UNCHANGED <<phase, inc, lease, elects, ready>> /\ DropKey(key)
    BY <1>9 DEF LeaseRunsOut
  <2>2. \A k \in Master : lease[k] => key # Key(k)
    BY <1>9 DEF LeaseRunsOut, Key
  <2>3. /\ Distinct'
        /\ \A k \in Master : lease[k] => /\ InLine(k) => InLine(k)'
                                         /\ Leads(k) => Leads(k)'
    BY <2>1, <2>2, DropLine
  <2> QED BY <2>1, <2>3 DEF Absent, Waits, Elections, Rules
<1>10. CASE UNCHANGED vars
  BY <1>10, QuietCampaigns DEF vars, electVars
<1> QED BY <1>1, <1>2, <1>3, <1>4, <1>5, <1>6, <1>7, <1>8, <1>9, <1>10
           DEF Next, Runs, ElectRuns, Environment

-----------------------------------------------------------------------------
\* What a master remembers of etcd.  The reply it is about to take for its
\* resources is what etcd still says, unless outdated tells.
ReplyTracksEtcd == \A m \in Master : phase[m] = "load" /\ ~outdated[m] => snapshot[m] = etcd

Memory == MemoryTracksEtcd /\ ReplyTracksEtcd

\* Nobody is ready at first.
LEMMA InitMemory == Init => Memory
BY DEF Init, Memory, MemoryTracksEtcd, ReplyTracksEtcd

\* A write that succeeds goes to both; what fails goes to neither or is noted.
LEMMA WriteMemory ==
  ASSUME Types, Memory, NEW m \in Master, NEW r \in Resource, NEW n \in Node \cup {None},
         \/ UNCHANGED <<etcd, outdated, resources>>
         \/ EtcdError(m, r, n)
         \/ WriteEtcd(m, r, n) /\ resources' = [resources EXCEPT ![m][r] = n],
         UNCHANGED <<phase, snapshot>>, UNCHANGED ready
  PROVE  Memory'
<1>1. CASE UNCHANGED <<etcd, outdated, resources>>
  BY <1>1 DEF Memory, MemoryTracksEtcd, ReplyTracksEtcd
<1>2. CASE EtcdError(m, r, n)
  BY <1>2 DEF EtcdError, memVars, Memory, MemoryTracksEtcd, ReplyTracksEtcd
<1>3. CASE WriteEtcd(m, r, n) /\ resources' = [resources EXCEPT ![m][r] = n]
  <2>1. /\ \A k \in Master : ~outdated'[k] => k = m /\ ~outdated[m] /\ phase[m] # "load"
        /\ etcd' = [etcd EXCEPT ![r] = n]
        /\ resources'[m] = [resources[m] EXCEPT ![r] = n]
    BY <1>3 DEF WriteEtcd, Types, TypeOK
  <2> QED BY <2>1 DEF Memory, MemoryTracksEtcd, ReplyTracksEtcd
<1> QED BY <1>1, <1>2, <1>3

\* A step that leaves etcd alone, and outdated where it matters.
LEMMA OtherMemory ==
  ASSUME Types, Memory, UNCHANGED etcd,
         \A k \in Master :
            /\ ready'[k] => /\ ready[k] /\ resources'[k] = resources[k]
                            /\ outdated'[k] = outdated[k]
            /\ phase'[k] = "load" =>
                 \/ snapshot'[k] = etcd
                 \/ /\ phase[k] = "load" /\ snapshot'[k] = snapshot[k]
                    /\ outdated'[k] = outdated[k]
  PROVE  Memory'
BY DEF Memory, MemoryTracksEtcd, ReplyTracksEtcd

\* Every step keeps a ready master's resources those of etcd, or notes it.
LEMMA StepMemory == ASSUME Types, Memory, [Next]_vars PROVE Memory'
<1>1. ASSUME NEW m \in Master, NEW r \in Resource, AddResource(m, r) \/ DeleteResource(m, r)
      PROVE  Memory'
  <2>1. UNCHANGED <<phase, snapshot>> /\ UNCHANGED ready
    BY <1>1 DEF AddResource, DeleteResource, apiOthers
  <2>2. PICK n \in Node \cup {None} :
           \/ UNCHANGED <<etcd, outdated, resources>>
           \/ EtcdError(m, r, n)
           \/ WriteEtcd(m, r, n) /\ resources' = [resources EXCEPT ![m][r] = n]
    BY <1>1 DEF AddResource, DeleteResource, AddResources, memVars, Assignable, Types, TypeOK
  <2> QED BY <2>1, <2>2, WriteMemory
<1>2. ASSUME NEW m \in Master, AddSeed(m)
      PROVE  Memory'
  <2>1. UNCHANGED <<phase, snapshot>> /\ UNCHANGED ready
    BY <1>2 DEF AddSeed, seedOthers
  <2>2. Head(toAdd[m]) \in Resource
    BY <1>2 DEF AddSeed, Types, TypeOK
  <2>3. PICK n \in Node \cup {None} :
           \/ UNCHANGED <<etcd, outdated, resources>>
           \/ EtcdError(m, Head(toAdd[m]), n)
           \/ /\ WriteEtcd(m, Head(toAdd[m]), n)
              /\ resources' = [resources EXCEPT ![m][Head(toAdd[m])] = n]
    BY <1>2 DEF AddSeed, AddResources, memVars, Assignable, Types, TypeOK
  <2> QED BY <2>1, <2>2, <2>3, WriteMemory
<1>3. ASSUME NEW m \in Master, LoadResource(m)
      PROVE  Memory'
  <2>1. /\ UNCHANGED <<etcd, outdated, snapshot>> /\ phase[m] = "load"
        /\ resources' = [resources EXCEPT ![m] = snapshot[m]]
        /\ ready' = [ready EXCEPT ![m] = TRUE]
        /\ phase' = [phase EXCEPT ![m] = "loop"]
    BY <1>3 DEF LoadResource, Goto
  <2> QED BY <2>1 DEF Memory, MemoryTracksEtcd, ReplyTracksEtcd, Types, TypeOK
<1>4. ASSUME NEW m \in Master, Elected(m)
      PROVE  Memory'
  <2>1. CASE UNCHANGED <<phase, snapshot, outdated>>
    BY <1>4, <2>1, OtherMemory DEF Elected, memVars
  <2>2. CASE /\ ~ready[m]
             /\ snapshot' = [snapshot EXCEPT ![m] = etcd]
             /\ outdated' = [outdated EXCEPT ![m] = FALSE]
             /\ phase' = [phase EXCEPT ![m] = "load"]
    <3>1. UNCHANGED <<etcd, ready, resources>>
      BY <1>4 DEF Elected, memVars
    <3> QED BY <2>2, <3>1, OtherMemory DEF Types, TypeOK
  <2> QED BY <1>4, <2>1, <2>2 DEF Elected, Goto
<1>5. ASSUME NEW m \in Master, Tick(m)
      PROVE  Memory'
  BY <1>5, OtherMemory DEF Tick, memVars, Types, TypeOK
<1>6. ASSUME NEW m \in Master, Crash(m)
      PROVE  Memory'
  BY <1>6, OtherMemory DEF Crash, Goto, Types, TypeOK
<1>7. ASSUME NEW m \in Master, Start(m) \/ StartCampaign(m) \/ SeeLeader(m)
      PROVE  Memory'
  BY <1>7, OtherMemory DEF Start, StartCampaign, SeeLeader, Goto, memVars, Types, TypeOK
<1>8. ASSUME UNCHANGED <<etcd, phase, ready, snapshot, outdated, resources>>
      PROVE  Memory'
  BY <1>8, OtherMemory
<1>9. ASSUME NEW m \in Master, GetSeed(m) \/ ElectFailed(m) \/ NodesChange(m) \/ ElectRuns(m)
      PROVE  Memory'
  BY <1>8, <1>9 DEF GetSeed, ElectFailed, NodesChange, ElectRuns, ElectEnters, ElectErrs,
                    ElectWins, seedOthers, electOthers, memVars
<1>10. ASSUME \/ \E n \in Node : RegistryChanges(n)
              \/ \E m \in Master : LeaseExpires(m)
              \/ \E key \in ToSet(queue) : LeaseRunsOut(key)
       PROVE  Memory'
  BY <1>8, <1>10 DEF RegistryChanges, LeaseExpires, LeaseRunsOut, memVars
<1>11. CASE UNCHANGED vars
  BY <1>8, <1>11 DEF vars
<1> QED BY <1>1, <1>2, <1>3, <1>4, <1>5, <1>6, <1>7, <1>9, <1>10, <1>11
           DEF Next, Calls, Runs, Environment

-----------------------------------------------------------------------------
\* What a master knows of the workers, from New on: what there is, but for the
\* events that are still to come and for what blind tells.
Known == \A m \in Master : phase[m] # "down" /\ watch[m] = 0 /\ ~blind[m]
                              => DOMAIN workNodes[m] = registry

\* Nobody knows any workers at first, and there are none.
LEMMA InitKnown == Init => Known
BY DEF Init, Known

\* A step that leaves the registry and what is known of it alone.
LEMMA OtherKnown ==
  ASSUME Known, UNCHANGED <<registry, watch, blind>>,
         \A k \in Master : /\ DOMAIN workNodes'[k] = DOMAIN workNodes[k]
                           /\ phase'[k] # "down" => phase[k] # "down"
  PROVE  Known'
BY DEF Known

\* A look at the registry makes up for all that was missed.
LEMMA UpdateKnown ==
  ASSUME Types, Known, NEW m \in Master, UpdateWorkNodes(m), UNCHANGED registry,
         \A k \in Master : k # m => phase'[k] = phase[k] /\ watch'[k] = watch[k]
  PROVE  Known'
<1>1. CASE /\ workNodes' = [workNodes EXCEPT ![m] = [n \in registry |-> 0]]
           /\ blind' = [blind EXCEPT ![m] = FALSE]
  BY <1>1 DEF Known, Types, TypeOK
<1>2. CASE /\ workNodes' = [workNodes EXCEPT ![m] = <<>>]
           /\ blind' = [blind EXCEPT ![m] = TRUE]
  BY <1>2 DEF Known, Types, TypeOK
<1> QED BY <1>1, <1>2 DEF UpdateWorkNodes

\* An assignment is to a worker that is known already.
LEMMA AssignKnown ==
  ASSUME Types, NEW m \in Master, NEW r \in Resource, AddResources(m, r)
  PROVE  \A k \in Master : DOMAIN workNodes'[k] = DOMAIN workNodes[k]
BY DEF AddResources, EtcdError, AddPayload, memVars, Types, TypeOK

\* Every step keeps the workers known, or an event to come, or blind.
LEMMA StepKnown == ASSUME Types, Known, [Next]_vars PROVE Known'
<1>1. ASSUME NEW m \in Master, NEW r \in Resource, AddResource(m, r)
      PROVE  Known'
  BY <1>1, AssignKnown, OtherKnown DEF AddResource, apiOthers
<1>2. ASSUME NEW m \in Master, NEW r \in Resource, DeleteResource(m, r)
      PROVE  Known'
  <2>1. \A k \in Master : DOMAIN workNodes'[k] = DOMAIN workNodes[k]
    <3>1. CASE UNCHANGED workNodes
      BY <3>1
    <3>2. CASE AddPayload(m, resources[m][r], -1)
      BY <3>2 DEF AddPayload, Types, TypeOK
    <3> QED BY <1>2, <3>1, <3>2 DEF DeleteResource, EtcdError, memVars
  <2> QED BY <1>2, <2>1, OtherKnown DEF DeleteResource, apiOthers
<1>3. ASSUME NEW m \in Master, AddSeed(m)
      PROVE  Known'
  <2>1. Head(toAdd[m]) \in Resource
    BY <1>3 DEF AddSeed, Types, TypeOK
  <2> QED BY <1>3, <2>1, AssignKnown, OtherKnown DEF AddSeed, seedOthers
<1>4. ASSUME NEW m \in Master, Start(m) \/ NodesChange(m)
      PROVE  Known'
  BY <1>4, UpdateKnown DEF Start, NodesChange, Goto, Types, TypeOK
<1>5. ASSUME NEW m \in Master, LoadResource(m)
      PROVE  Known'
  BY <1>5, OtherKnown DEF LoadResource, Goto, Types, TypeOK
<1>6. ASSUME NEW m \in Master, Crash(m)
      PROVE  Known'
  BY <1>6 DEF Crash, Goto, Known, Types, TypeOK
<1>7. ASSUME NEW m \in Master,
             \/ GetSeed(m) \/ ElectFailed(m) \/ ElectRuns(m) \/ Tick(m)
             \/ Elected(m) \/ StartCampaign(m) \/ SeeLeader(m)
      PROVE  Known'
  <2>1. UNCHANGED <<registry, watch, blind, workNodes>>
    BY <1>7 DEF GetSeed, ElectFailed, ElectRuns, ElectEnters, ElectErrs, ElectWins, Tick,
                Elected, StartCampaign, SeeLeader, seedOthers, electOthers, memVars
  <2>2. \A k \in Master : phase'[k] # "down" => phase[k] # "down"
    BY <1>7 DEF GetSeed, ElectFailed, ElectRuns, ElectEnters, ElectErrs, ElectWins, Tick,
                Elected, StartCampaign, SeeLeader, seedOthers, electOthers, Goto, Types, TypeOK
  <2> QED BY <2>1, <2>2, OtherKnown
<1>8. ASSUME NEW n \in Node, RegistryChanges(n)
      PROVE  Known'
  <2>1. UNCHANGED <<phase, workNodes>>
    BY <1>8 DEF RegistryChanges, memVars
  <2>2. \A k \in Master : phase[k] \in {"loop", "load"} => watch'[k] = watch[k] + 1
    BY <1>8 DEF RegistryChanges
  <2>3. \A k \in Master : phase[k] \notin {"down", "loop", "load"} => blind'[k]
    BY <1>8 DEF RegistryChanges
  <2>4. \A k \in Master : watch[k] + 1 # 0
    BY DEF Types, TypeOK
  <2>5. \A k \in Master : phase[k] # "down" => watch'[k] # 0 \/ blind'[k]
    BY <2>2, <2>3, <2>4, Zenon
  <2> QED BY <2>1, <2>5 DEF Known
<1>9. ASSUME \/ UNCHANGED vars
             \/ \E m \in Master : LeaseExpires(m)
             \/ \E key \in ToSet(queue) : LeaseRunsOut(key)
      PROVE  Known'
  <2>1. UNCHANGED <<registry, watch, blind, workNodes, phase>>
    BY <1>9 DEF LeaseExpires, LeaseRunsOut, memVars, vars
  <2> QED BY <2>1, OtherKnown
<1> QED BY <1>1, <1>2, <1>3, <1>4, <1>5, <1>6, <1>7, <1>8, <1>9
           DEF Next, Calls, Runs, Environment

-----------------------------------------------------------------------------
\* The inductive invariant.
IInv == Types /\ Campaigns /\ Memory /\ Known

\* The inductive invariant holds throughout.
THEOREM Invariance == Spec => []IInv
<1>1. Init => IInv
  BY InitTypes, InitCampaigns, InitMemory, InitKnown DEF IInv
<1>2. IInv /\ [Next]_vars => IInv'
  BY StepTypes, StepCampaigns, StepMemory, StepKnown DEF IInv, Campaigns
<1> QED BY <1>1, <1>2, PTL DEF Spec

\* The types hold throughout; a ready master is at rest and its own leader.
THEOREM TypeCorrect == Spec => []TypeOK
<1>1. IInv => TypeOK
  BY DEF IInv, Types
<1> QED BY <1>1, Invariance, PTL

\* As long as its lease holds, a ready master is at the head of the election.
THEOREM ReadyMastersLead == Spec => []ReadyLeads
<1>1. IInv => ReadyLeads
  BY DEF IInv, Campaigns, Elections, Rules, Leads, ReadyLeads
<1> QED BY <1>1, Invariance, PTL

\* Two masters that are ready at once are never both alive in the election.
THEOREM OneLeader ==
  Spec => [](\A m, k \in Master : ready[m] /\ lease[m] /\ ready[k] /\ lease[k] => m = k)
<1>1. ReadyLeads => \A m, k \in Master : ready[m] /\ lease[m] /\ ready[k] /\ lease[k] => m = k
  BY DEF ReadyLeads, Key
<1> QED BY <1>1, ReadyMastersLead, PTL

\* A ready master's resources are those of etcd, unless outdated tells.
THEOREM MemoryIsEtcd == Spec => []MemoryTracksEtcd
<1>1. IInv => MemoryTracksEtcd
  BY DEF IInv, Memory
<1> QED BY <1>1, Invariance, PTL

\* A master with no event to come knows the workers, unless blind tells.
THEOREM WorkersAreKnown == Spec => []WorkersKnown
<1>1. IInv => WorkersKnown
  BY DEF IInv, Known, WorkersKnown
<1> QED BY <1>1, Invariance, PTL

-----------------------------------------------------------------------------
\* Who leads is at the head, so one session at most.
LEMMA LeadingAtHead ==
  ASSUME Campaigns
  PROVE  Leading = {} \/ (queue # <<>> /\ Leading = {Head(queue)})
BY DEF Campaigns, Elections, Rules, Leads, Leading

\* A key that goes, and that of a leader with it, is one of the line that leaves.
LEMMA DropLeaves ==
  ASSUME Types, Campaigns, NEW key, DropKey(key), Leading' = Leading \ {key}
  PROVE  [Order!Next]_Order!vars
<1>1. queue \in Seq(Keys) /\ queue' = RemoveFirst(queue, key)
  BY DEF Types, TypeOK, DropKey
<1>2. CASE key \in ToSet(queue)
  <2>1. PICK i \in 1 .. Len(queue) : queue[i] = key
    BY <1>2 DEF ToSet
  <2>2. /\ queue' \in Seq(Keys)
        /\ Len(queue') = Len(queue) - 1
        /\ \A j \in 1 .. Len(queue) - 1 : queue'[j] = IF j < i THEN queue[j] ELSE queue[j + 1]
    BY <1>1, <2>1, RemoveKey DEF Campaigns, Distinct
  <2>3. queue' = [j \in 1 .. Len(queue) - 1 |-> IF j < i THEN queue[j] ELSE queue[j + 1]]
    BY <1>1, <2>2
  <2> QED BY <2>1, <2>3 DEF Order!Leave, Order!Next
<1>3. CASE key \notin ToSet(queue)
  <2>1. UNCHANGED queue
    BY <1>1, <1>3, RemoveKey DEF Campaigns, Distinct, ToSet
  <2>2. queue # <<>> => Head(queue) \in ToSet(queue)
    BY <1>1 DEF ToSet
  <2>3. UNCHANGED Leading
    BY <1>3, <2>2, LeadingAtHead
  <2> QED BY <2>1, <2>3 DEF Order!vars
<1> QED BY <1>2, <1>3

\* A key that is entered joins the line, at its end; one that is there does not.
LEMMA EnterJoins ==
  ASSUME Types, NEW m \in Master, Enter(m), UNCHANGED Leading
  PROVE  [Order!Next]_Order!vars
<1>1. queue \in Seq(Keys) /\ Key(m) \in Keys
  BY KeyType DEF Types, TypeOK
<1>2. CASE Key(m) \in ToSet(queue)
  BY <1>2 DEF Enter, Order!vars
<1>3. CASE Key(m) \notin ToSet(queue)
  <2>1. queue' = Append(queue, Key(m))
    BY <1>3 DEF Enter
  <2>2. Key(m) \notin Order!Members
    BY <1>3 DEF ToSet, Order!Members
  <2>3. Len(queue') = Len(queue) + 1 /\ queue'[Len(queue) + 1] = Key(m) /\ Len(queue) \in Nat
    BY <1>1, <2>1
  <2>4. Key(m) \in Order!Members'
    BY <2>3 DEF Order!Members
  <2> QED BY <2>1, <2>2, <2>4 DEF Order!Join, Order!Next
<1> QED BY <1>2, <1>3

\* The session of a master is another one than that of any other master.
LEMMA KeysDiffer == \A m, k \in Master : m # k => Key(m) # Key(k)
BY DEF Key

\* Who leads does not change when no one's readiness or lease does.
LEMMA SameLeading ==
  ASSUME UNCHANGED inc,
         \A k \in Master : (ready'[k] /\ lease'[k]) <=> (ready[k] /\ lease[k])
  PROVE  UNCHANGED Leading
BY DEF Leading, Key

\* Every step is one of the line of sessions, or none of it.
LEMMA StepOrder == ASSUME Types, Campaigns, [Next]_vars PROVE [Order!Next]_Order!vars
<1>1. ASSUME NEW m \in Master, Calls(m)
      PROVE  [Order!Next]_Order!vars
  BY <1>1, SameLeading DEF Calls, AddResource, DeleteResource, apiOthers, electVars, Order!vars
<1>2. ASSUME NEW m \in Master,
             \/ GetSeed(m) \/ AddSeed(m) \/ SeeLeader(m) \/ NodesChange(m)
             \/ ElectFailed(m) \/ Elected(m) \/ ElectWins(m)
      PROVE  [Order!Next]_Order!vars
  <2>1. UNCHANGED <<queue, inc, ready, lease>>
    BY <1>2 DEF GetSeed, AddSeed, SeeLeader, NodesChange, ElectFailed, Elected, ElectWins,
                seedOthers, electOthers, electVars
  <2> QED BY <2>1, SameLeading DEF Order!vars
<1>3. ASSUME NEW m \in Master, Start(m)
      PROVE  [Order!Next]_Order!vars
  <2>1. UNCHANGED <<queue, ready, lease>> /\ ~lease[m]
    BY <1>3 DEF Start, Campaigns, Absent
  <2>2. \A k \in Master : k # m => Key(k)' = Key(k)
    BY <1>3 DEF Start, Key, Types, TypeOK
  <2>3. UNCHANGED Leading
    BY <2>1, <2>2 DEF Leading
  <2> QED BY <2>1, <2>3 DEF Order!vars
<1>4. ASSUME NEW m \in Master, StartCampaign(m)
      PROVE  [Order!Next]_Order!vars
  <2>1. /\ UNCHANGED <<queue, inc, ready>> /\ ~ready[m]
        /\ \A k \in Master : k # m => lease'[k] = lease[k]
    BY <1>4 DEF StartCampaign, Types, TypeOK
  <2> QED BY <2>1, SameLeading DEF Order!vars
<1>5. ASSUME NEW m \in Master, Tick(m)
      PROVE  [Order!Next]_Order!vars
  <2>1. UNCHANGED <<queue, inc, lease>> /\ \A k \in Master : k # m => ready'[k] = ready[k]
    BY <1>5 DEF Tick, Types, TypeOK
  <2>2. CASE UNCHANGED ready
    BY <2>1, <2>2, SameLeading DEF Order!vars
  <2>3. CASE ready[m] /\ Head(queue)[1] # m /\ ready' = [ready EXCEPT ![m] = FALSE]
    <3>1. ~lease[m]
      BY <2>3 DEF Campaigns, Elections, Rules, Leads, Key
    <3> QED BY <2>1, <3>1, SameLeading DEF Order!vars
  <2> QED BY <1>5, <2>2, <2>3 DEF Tick
<1>6. ASSUME NEW m \in Master, LoadResource(m)
      PROVE  [Order!Next]_Order!vars
  <2>1. /\ UNCHANGED <<queue, inc, lease>> /\ phase[m] = "load" /\ ~ready[m]
        /\ ready'[m] /\ \A k \in Master : k # m => ready'[k] = ready[k]
    BY <1>6 DEF LoadResource, electVars, Types, TypeOK
  <2>2. CASE ~lease[m]
    BY <2>1, <2>2, SameLeading DEF Order!vars
  <2>3. CASE lease[m]
    <3>1. queue # <<>> /\ Head(queue) = Key(m)
      BY <2>1, <2>3 DEF Campaigns, Elections, Rules, Leads
    <3>2. Key(m) \notin Leading
      BY <2>1, KeysDiffer DEF Leading
    <3>3. Leading = {}
      BY <3>1, <3>2, LeadingAtHead
    <3>4. \A k \in Master : Key(k)' = Key(k)
      BY <2>1 DEF Key
    <3>5. Leading' = {Key(m)}
      BY <2>1, <2>3, <3>3, <3>4 DEF Leading
    <3> QED BY <2>1, <3>1, <3>3, <3>5 DEF Order!Lead, Order!Next
  <2> QED BY <2>2, <2>3
<1>7. ASSUME NEW m \in Master, ElectEnters(m) \/ ElectErrs(m)
      PROVE  [Order!Next]_Order!vars
  <2>1. UNCHANGED <<inc, ready, lease>>
    BY <1>7 DEF ElectEnters, ElectErrs, electOthers
  <2>2. UNCHANGED Leading
    BY <2>1, SameLeading
  <2>3. Enter(m) \/ UNCHANGED queue
    BY <1>7 DEF ElectEnters, ElectErrs
  <2> QED BY <2>2, <2>3, EnterJoins DEF Order!vars
<1>8. ASSUME NEW n \in Node, RegistryChanges(n)
      PROVE  [Order!Next]_Order!vars
  BY <1>8, SameLeading DEF RegistryChanges, electVars, Order!vars
<1>9. ASSUME NEW m \in Master, LeaseExpires(m)
      PROVE  [Order!Next]_Order!vars
  <2>1. /\ UNCHANGED <<inc, ready>> /\ ~lease'[m] /\ DropKey(Key(m))
        /\ \A k \in Master : k # m => lease'[k] = lease[k]
    BY <1>9 DEF LeaseExpires, Types, TypeOK
  <2>2. \A k \in Master : Key(k)' = Key(k)
    BY <2>1 DEF Key
  <2>3. Leading' = Leading \ {Key(m)}
    BY <2>1, <2>2, KeysDiffer DEF Leading
  <2> QED BY <2>1, <2>3, DropLeaves
<1>10. ASSUME NEW m \in Master, Crash(m)
       PROVE  [Order!Next]_Order!vars
  <2>1. /\ UNCHANGED <<queue, inc>> /\ ~lease'[m]
        /\ \A k \in Master : k # m => lease'[k] = lease[k] /\ ready'[k] = ready[k]
    BY <1>10 DEF Crash, Types, TypeOK
  <2>2. \A k \in Master : Key(k)' = Key(k)
    BY <2>1 DEF Key
  <2>3. Leading' = Leading \ {Key(m)}
    BY <2>1, <2>2, KeysDiffer DEF Leading
  <2>4. UNCHANGED Leading \/ (Leading # {} /\ Leading' = {})
    BY <2>3, LeadingAtHead
  <2> QED BY <2>1, <2>4 DEF Order!Resign, Order!Next, Order!vars
<1>11. ASSUME NEW key \in ToSet(queue), LeaseRunsOut(key)
       PROVE  [Order!Next]_Order!vars
  <2>1. UNCHANGED <<inc, ready, lease>> /\ DropKey(key)
    BY <1>11 DEF LeaseRunsOut
  <2>2. key \notin Leading
    BY <1>11 DEF LeaseRunsOut, Leading, Key
  <2>3. Leading' = Leading \ {key}
    BY <2>1, <2>2, SameLeading
  <2> QED BY <2>1, <2>3, DropLeaves
<1>12. CASE UNCHANGED vars
  BY <1>12, SameLeading DEF vars, Order!vars
<1> QED BY <1>1, <1>2, <1>3, <1>4, <1>5, <1>6, <1>7, <1>8, <1>9, <1>10, <1>11, <1>12
           DEF Next, Runs, ElectRuns, Environment

\* The masters succeed one another in the order of their sessions: no session is
\* in line twice or overtaken, and none takes over from one that still leads.
THEOREM Successors == Spec => SuccessionSpec
<1>1. Init => Order!Init
  BY DEF Init, Leading, Order!Init
<1>2. IInv /\ [Next]_vars => [Order!Next]_Order!vars
  BY StepOrder DEF IInv
<1> QED BY <1>1, <1>2, Invariance, PTL DEF Spec, SuccessionSpec, Order!Spec
=============================================================================
