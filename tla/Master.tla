------------------------------- MODULE Master -------------------------------
(***************************************************************************)
(* master.Master: several master processes over one etcd (the resources    *)
(* and the election) and one registry of workers.                          *)
(*                                                                         *)
(* A master's phase names what its main line is doing:                     *)
(*   down     no process                                                   *)
(*   seed     New: AddSeed                                                 *)
(*   observe  Campaign: waiting for the first news of a leader             *)
(*   loop     Campaign: the select                                         *)
(*   load     Campaign: in loadResource, between the Get and rlock         *)
(* The elect goroutines are apart, in elects.  AddResource and             *)
(* DeleteResource may be called from "observe" on, concurrently with the   *)
(* main line; they hold rlock throughout, so they are single steps.        *)
(*                                                                         *)
(* etcd is one member, as docker-compose.yml sets it up, so a serializable *)
(* read is up to date; its calls are single steps.                         *)
(***************************************************************************)
EXTENDS Integers, Sequences, SequencesExt, FiniteSets

CONSTANTS Master,    \* the master processes
          Node,      \* the workers
          Resource,  \* names of resources
          Seeds,     \* options.Seeds, a sequence of names
          Extending, \* by name, the names that begin with it
          None,      \* no value: no assignment, no leader
          Bound,     \* bound: how often each kind of outside event happens
          MaxCalls   \* bound: calls of AddResource and DeleteResource

ASSUME MasterAssumption ==
    /\ Seeds \in Seq(Resource)
    /\ Extending \in [Resource -> SUBSET Resource]
    /\ \A r \in Resource : r \in Extending[r]
    /\ None \notin Node \cup Master
    /\ IsFiniteSet(Resource)

VARIABLES etcd,       \* etcd: by resource, the node it is assigned to
          queue,      \* etcd: the keys of the election, oldest first
          registry,   \* the registered workers
          phase,      \* by master, see above
          inc,        \* by master, its starts: with it, names its lease
          lease,      \* by master, whether its session is alive
          elects,     \* by master, its elect goroutines, by where they are
          ahead,      \* by master, the keys its Campaign waits for
          leaderID,   \* Master.leaderID
          ready,      \* Master.ready
          workNodes,  \* Master.workNodes: by node known, its Payload
          resources,  \* Master.resources: by resource, its AssignedNode
          toGet,      \* AddSeed: the seeds still to be looked up
          toAdd,      \* AddSeed: rs, still to be added
          snapshot,   \* loadResource's reply from etcd
          watch,      \* by master, registry events that wait for the select
          used,       \* history: outside events so far, for the bounds
          calls,      \* history: the calls so far, for the bound
          outdated,   \* history: by master, etcd and its resources may differ
          blind       \* history: by master, no event stands for what it missed

electVars == <<queue, inc, lease, elects, ahead>>
memVars == <<workNodes, resources>>
seedVars == <<toGet, toAdd>>
vars == <<etcd, queue, registry, phase, inc, lease, elects, ahead, leaderID,
          ready, workNodes, resources, toGet, toAdd, snapshot, watch, used,
          calls, outdated, blind>>

Kinds == {"churn", "expire", "crash", "error"}

\* An event from outside happens: its bound is not reached.
Spend(k) == used[k] < Bound[k] /\ used' = [used EXCEPT ![k] = @ + 1]

Nothing == [r \in Resource |-> None]

Init == /\ etcd = Nothing
        /\ queue = <<>>
        /\ registry = {}
        /\ phase = [m \in Master |-> "down"]
        /\ inc = [m \in Master |-> 0]
        /\ lease = [m \in Master |-> FALSE]
        /\ elects = [m \in Master |-> {}]
        /\ ahead = [m \in Master |-> {}]
        /\ leaderID = [m \in Master |-> None]
        /\ ready = [m \in Master |-> FALSE]
        /\ workNodes = [m \in Master |-> <<>>]
        /\ resources = [m \in Master |-> Nothing]
        /\ toGet = [m \in Master |-> <<>>]
        /\ toAdd = [m \in Master |-> <<>>]
        /\ snapshot = [m \in Master |-> Nothing]
        /\ watch = [m \in Master |-> 0]
        /\ used = [k \in Kinds |-> 0]
        /\ calls = 0
        /\ outdated = [m \in Master |-> FALSE]
        /\ blind = [m \in Master |-> FALSE]

Goto(m, p) == phase' = [phase EXCEPT ![m] = p]

-----------------------------------------------------------------------------
\* Worker nodes and resources.

\* updateWorkNodes: a fresh map, with every Payload 0; empty when the registry
\* gives an error.
UpdateWorkNodes(m) ==
    \/ /\ workNodes' = [workNodes EXCEPT ![m] = [n \in registry |-> 0]]
       /\ blind' = [blind EXCEPT ![m] = FALSE]
       /\ UNCHANGED used
    \/ /\ Spend("error")
       /\ workNodes' = [workNodes EXCEPT ![m] = <<>>]
       /\ blind' = [blind EXCEPT ![m] = TRUE]

\* Assign: a node of the lowest Payload; ties go by the order of a Go map.
Assignable(m) == {n \in DOMAIN workNodes[m] :
                    \A k \in DOMAIN workNodes[m] :
                       workNodes[m][n] <= workNodes[m][k]}

\* Master m writes n for r to etcd; the others do not hear of it.
WriteEtcd(m, r, n) ==
    /\ etcd' = [etcd EXCEPT ![r] = n]
    /\ outdated' = [k \in Master |-> IF k = m THEN outdated[m] \/ phase[m] = "load"
                                     ELSE TRUE]

\* A call of etcd gives an error, whether it took effect or not.
EtcdError(m, r, n) ==
    /\ Spend("error")
    /\ UNCHANGED memVars
    /\ \/ UNCHANGED <<etcd, outdated>>
       \/ /\ etcd' = [etcd EXCEPT ![r] = n]
          /\ outdated' = [k \in Master |-> TRUE]

AddPayload(m, n, d) == workNodes' = [workNodes EXCEPT ![m][n] = @ + d]

\* addResources.
AddResources(m, r) ==
    \/ /\ DOMAIN workNodes[m] = {}
       /\ UNCHANGED <<etcd, outdated, memVars, used>>
    \/ \E n \in Assignable(m) :
          \/ EtcdError(m, r, n)
          \/ /\ WriteEtcd(m, r, n)
             /\ resources' = [resources EXCEPT ![m][r] = n]
             /\ AddPayload(m, n, 1)
             /\ UNCHANGED used

-----------------------------------------------------------------------------
\* New.

\* A process starts; New fills workNodes and turns to AddSeed.
Start(m) ==
    /\ phase[m] = "down"
    /\ UpdateWorkNodes(m)
    /\ Goto(m, "seed")
    /\ inc' = [inc EXCEPT ![m] = @ + 1]
    /\ toGet' = [toGet EXCEPT ![m] = Seeds]
    /\ UNCHANGED <<etcd, queue, registry, lease, elects, ahead, leaderID,
                   ready, resources, toAdd, snapshot, watch, outdated>>

seedOthers == <<electVars, registry, phase, leaderID, ready, snapshot, watch,
                blind>>

\* A seed is missing when no key begins with its path.
Missing(r) == \A x \in Extending[r] : etcd[x] = None

\* AddSeed, a lookup; a seed whose lookup gives an error is left out.
GetSeed(m) ==
    /\ phase[m] = "seed"
    /\ toGet[m] # <<>>
    /\ toGet' = [toGet EXCEPT ![m] = Tail(@)]
    /\ LET r == Head(toGet[m]) IN
         \/ /\ toAdd' = IF Missing(r) THEN [toAdd EXCEPT ![m] = Append(@, r)]
                        ELSE toAdd
            /\ UNCHANGED used
         \/ Spend("error") /\ UNCHANGED toAdd
    /\ UNCHANGED <<etcd, memVars, outdated, seedOthers>>

\* AddSeed, once all are looked up: the missing ones are added.
AddSeed(m) ==
    /\ phase[m] = "seed"
    /\ toGet[m] = <<>>
    /\ toAdd[m] # <<>>
    /\ toAdd' = [toAdd EXCEPT ![m] = Tail(@)]
    /\ AddResources(m, Head(toAdd[m]))
    /\ UNCHANGED <<toGet, seedOthers>>

\* go m.Campaign(): a session, and the first elect goroutine.
StartCampaign(m) ==
    /\ phase[m] = "seed"
    /\ toGet[m] = <<>>
    /\ toAdd[m] = <<>>
    /\ lease' = [lease EXCEPT ![m] = TRUE]
    /\ elects' = [elects EXCEPT ![m] = {"start"}]
    /\ Goto(m, "observe")
    /\ UNCHANGED <<etcd, queue, registry, inc, ahead, leaderID, ready,
                   memVars, seedVars, snapshot, watch, used, outdated, blind>>

-----------------------------------------------------------------------------
\* Elections.  A key names the session that made it.

Key(m) == <<m, inc[m]>>

MoveElect(m, from, to) ==
    /\ from \in elects[m]
    /\ elects' = [elects EXCEPT ![m] = (@ \ {from}) \cup {to}]

electOthers == <<etcd, registry, phase, inc, lease, leaderID, ready,
                 memVars, seedVars, snapshot, watch, outdated, blind>>

\* Mutant: every attempt of an elect goroutine enters one more key.
EnterAgain(m) ==
    /\ queue' = Append(queue, Key(m))
    /\ ahead' = [ahead EXCEPT ![m] = ToSet(queue) \ {Key(m)}]

\* e.Campaign enters its key, unless the key is there from before, and will
\* wait for the keys that are older than it.
Enter(m) ==
    IF Key(m) \in ToSet(queue)
    THEN /\ UNCHANGED queue
         /\ ahead' = [ahead EXCEPT ![m] =
                        {queue[i] : i \in {j \in 1 .. Len(queue) :
                            \A k \in 1 .. j : queue[k] # Key(m)}}]
    ELSE /\ queue' = Append(queue, Key(m))
         /\ ahead' = [ahead EXCEPT ![m] = ToSet(queue)]

ElectEnters(m) == /\ lease[m]
                  /\ MoveElect(m, "start", "waiting")
                  /\ Enter(m)
                  /\ UNCHANGED <<electOthers, used>>

\* A key cannot be made under a lease that is gone, and Campaign may fail, or
\* stop waiting, for want of etcd.
ElectErrs(m) == /\ \/ /\ ~lease[m]
                      /\ MoveElect(m, "start", "failed")
                      /\ UNCHANGED <<queue, ahead, used>>
                   \/ /\ lease[m]
                      /\ Spend("error")
                      /\ MoveElect(m, "start", "failed")
                      /\ Enter(m) \/ UNCHANGED <<queue, ahead>>
                   \/ /\ Spend("error")
                      /\ MoveElect(m, "waiting", "failed")
                      /\ UNCHANGED <<queue, ahead>>
                /\ UNCHANGED electOthers

\* Campaign returns once the older keys are gone.  It does not notice that its
\* own key may be gone as well.
ElectWins(m) == /\ ahead[m] = {}
                /\ MoveElect(m, "waiting", "elected")
                /\ UNCHANGED <<electOthers, queue, ahead, used>>

-----------------------------------------------------------------------------
\* Campaign, once elect runs.

\* The first leader is seen, and the watch on the workers begins.
SeeLeader(m) ==
    /\ phase[m] = "observe"
    /\ queue # <<>>
    /\ Goto(m, "loop")
    /\ UNCHANGED <<etcd, electVars, registry, leaderID, ready, memVars,
                   seedVars, snapshot, watch, used, outdated, blind>>

\* Mutant: the error of an election is taken for a success.
ElectFailedWins(m) ==
    /\ phase[m] = "loop"
    /\ "failed" \in elects[m]
    /\ elects' = [elects EXCEPT ![m] = @ \ {"failed"}]
    /\ leaderID' = [leaderID EXCEPT ![m] = m]
    /\ ready' = [ready EXCEPT ![m] = TRUE]
    /\ UNCHANGED <<etcd, queue, registry, phase, inc, lease, ahead, memVars,
                   seedVars, snapshot, watch, used, outdated, blind>>

\* case err := <-leaderCh, with an error: try again at once.
ElectFailed(m) ==
    /\ phase[m] = "loop"
    /\ MoveElect(m, "failed", "start")
    /\ UNCHANGED <<electOthers, queue, ahead, used>>

\* Mutant: ready is set before the resources are loaded.
ElectedEarly(m) ==
    /\ phase[m] = "loop"
    /\ "elected" \in elects[m]
    /\ elects' = [elects EXCEPT ![m] = @ \ {"elected"}]
    /\ leaderID' = [leaderID EXCEPT ![m] = m]
    /\ ready' = [ready EXCEPT ![m] = TRUE]
    /\ snapshot' = [snapshot EXCEPT ![m] = etcd]
    /\ outdated' = [outdated EXCEPT ![m] = FALSE]
    /\ Goto(m, "load")
    /\ UNCHANGED <<etcd, queue, registry, inc, lease, ahead, memVars,
                   seedVars, watch, used, blind>>

\* case err := <-leaderCh, elected: loadResource, the Get.  When it fails the
\* master stays as it is, elected but not ready.
Elected(m) ==
    /\ phase[m] = "loop"
    /\ "elected" \in elects[m]
    /\ elects' = [elects EXCEPT ![m] = @ \ {"elected"}]
    /\ leaderID' = [leaderID EXCEPT ![m] = m]
    /\ \/ /\ ~ready[m]
          /\ snapshot' = [snapshot EXCEPT ![m] = etcd]
          /\ outdated' = [outdated EXCEPT ![m] = FALSE]
          /\ Goto(m, "load")
          /\ UNCHANGED used
       \/ /\ ~ready[m]
          /\ Spend("error")
          /\ UNCHANGED <<snapshot, outdated, phase>>
       \/ /\ ready[m]
          /\ UNCHANGED <<snapshot, outdated, phase, used>>
    /\ UNCHANGED <<etcd, queue, registry, inc, lease, ahead, ready, memVars,
                   seedVars, watch, blind>>

\* How many of the resources rs are assigned to node n.
Load(rs, n) == Cardinality({r \in Resource : rs[r] = n})

\* Mutant: the reply only fills in what is not there.
LoadResourceMerges(m) ==
    /\ phase[m] = "load"
    /\ resources' = [resources EXCEPT ![m] =
         [r \in Resource |-> IF @[r] = None THEN snapshot[m][r] ELSE @[r]]]
    /\ UNCHANGED workNodes
    /\ ready' = [ready EXCEPT ![m] = TRUE]
    /\ Goto(m, "loop")
    /\ UNCHANGED <<etcd, electVars, registry, leaderID, seedVars, snapshot,
                   watch, used, outdated, blind>>

\* Mutant: ready is not set.
LoadResourceUnready(m) ==
    /\ phase[m] = "load"
    /\ resources' = [resources EXCEPT ![m] = snapshot[m]]
    /\ Goto(m, "loop")
    /\ UNCHANGED <<etcd, electVars, registry, leaderID, ready, workNodes,
                   seedVars, snapshot, watch, used, outdated, blind>>

\* loadResource, the rest: resources is replaced by the reply, and each
\* resource adds to the Payload of its node, from whatever it was.
LoadResource(m) ==
    /\ phase[m] = "load"
    /\ resources' = [resources EXCEPT ![m] = snapshot[m]]
    /\ workNodes' = [workNodes EXCEPT ![m] =
                       [n \in DOMAIN @ |-> @[n] + Load(snapshot[m], n)]]
    /\ ready' = [ready EXCEPT ![m] = TRUE]
    /\ Goto(m, "loop")
    /\ UNCHANGED <<etcd, electVars, registry, leaderID, seedVars, snapshot,
                   watch, used, outdated, blind>>

\* Mutant: the event is only logged.
NodesChangeLogged(m) ==
    /\ phase[m] = "loop"
    /\ watch[m] > 0
    /\ watch' = [watch EXCEPT ![m] = @ - 1]
    /\ UNCHANGED <<etcd, electVars, registry, phase, leaderID, ready, memVars,
                   seedVars, snapshot, used, outdated, blind>>

\* case resp := <-workerNodeChange
NodesChange(m) ==
    /\ phase[m] = "loop"
    /\ watch[m] > 0
    /\ watch' = [watch EXCEPT ![m] = @ - 1]
    /\ UpdateWorkNodes(m)
    /\ UNCHANGED <<etcd, electVars, registry, phase, leaderID, ready,
                   resources, seedVars, snapshot, outdated>>

\* case <-time.After(20s): it fires only in a select that waited 20 seconds,
\* so not while results of elections or events come in, nor while one is tried.
\* Its e.Leader finds no leader, or one, which a ready master compares with
\* itself; an error of etcd has no effect.
Tick(m) ==
    /\ phase[m] = "loop"
    /\ watch[m] = 0
    /\ elects[m] \subseteq {"waiting"}
    /\ IF queue = <<>>
       THEN /\ elects' = [elects EXCEPT ![m] = @ \cup {"start"}]
            /\ UNCHANGED ready
       ELSE /\ ready[m] /\ Head(queue)[1] # m
            /\ ready' = [ready EXCEPT ![m] = FALSE]
            /\ UNCHANGED elects
    /\ UNCHANGED <<etcd, queue, registry, phase, inc, lease, ahead, leaderID,
                   memVars, seedVars, snapshot, watch, used, outdated, blind>>

-----------------------------------------------------------------------------
\* The calls of the gRPC interface.  A call is forwarded to another master only
\* by one that knows of another leader.

Forwards(m) == ~ready[m] /\ leaderID[m] # None /\ leaderID[m] # m

Serving(m) == phase[m] \in {"observe", "loop", "load"} /\ ~Forwards(m)

apiOthers == <<electVars, registry, phase, leaderID, ready, seedVars, snapshot,
               watch, blind>>

Called == calls < MaxCalls /\ calls' = calls + 1

AddResource(m, r) == /\ Serving(m)
                     /\ Called
                     /\ AddResources(m, r)
                     /\ UNCHANGED apiOthers

\* DeleteResource; one that is not in resources is "no such task".
DeleteResource(m, r) ==
    /\ Serving(m)
    /\ Called
    /\ resources[m][r] # None
    /\ \/ /\ WriteEtcd(m, r, None)
          /\ resources' = [resources EXCEPT ![m][r] = None]
          /\ IF resources[m][r] \in DOMAIN workNodes[m]
             THEN AddPayload(m, resources[m][r], -1)
             ELSE UNCHANGED workNodes
          /\ UNCHANGED used
       \/ EtcdError(m, r, None)
    /\ UNCHANGED apiOthers

-----------------------------------------------------------------------------
\* What happens outside of the masters.

\* A worker registers or leaves, and every watch there is reports it.
RegistryChanges(n) ==
    /\ Spend("churn")
    /\ registry' = IF n \in registry THEN registry \ {n} ELSE registry \cup {n}
    /\ LET watching == {m \in Master : phase[m] \in {"loop", "load"}} IN
         /\ watch' = [m \in Master |-> IF m \in watching THEN watch[m] + 1 ELSE watch[m]]
         /\ blind' = [m \in Master |-> blind[m] \/ (phase[m] # "down" /\ m \notin watching)]
    /\ UNCHANGED <<etcd, electVars, phase, leaderID, ready, memVars, seedVars,
                   snapshot, outdated>>

\* The key of a session goes, at the end of its lease.  It is there once.
DropKey(key) ==
    /\ queue' = RemoveFirst(queue, key)
    /\ ahead' = [m \in Master |-> ahead[m] \ {key}]

\* A live master is cut off from etcd for longer than the TTL of its lease.
LeaseExpires(m) ==
    /\ lease[m]
    /\ Spend("expire")
    /\ lease' = [lease EXCEPT ![m] = FALSE]
    /\ DropKey(Key(m))
    /\ UNCHANGED <<etcd, registry, phase, inc, elects, leaderID, ready,
                   memVars, seedVars, snapshot, watch, outdated, blind>>

\* The process ends; its key stays until the lease runs out.
Crash(m) ==
    /\ phase[m] # "down"
    /\ Spend("crash")
    /\ Goto(m, "down")
    /\ lease' = [lease EXCEPT ![m] = FALSE]
    /\ elects' = [elects EXCEPT ![m] = {}]
    /\ ahead' = [ahead EXCEPT ![m] = {}]
    /\ leaderID' = [leaderID EXCEPT ![m] = None]
    /\ ready' = [ready EXCEPT ![m] = FALSE]
    /\ workNodes' = [workNodes EXCEPT ![m] = <<>>]
    /\ resources' = [resources EXCEPT ![m] = Nothing]
    /\ toGet' = [toGet EXCEPT ![m] = <<>>]
    /\ toAdd' = [toAdd EXCEPT ![m] = <<>>]
    /\ snapshot' = [snapshot EXCEPT ![m] = Nothing]
    /\ watch' = [watch EXCEPT ![m] = 0]
    /\ outdated' = [outdated EXCEPT ![m] = FALSE]
    /\ blind' = [blind EXCEPT ![m] = FALSE]
    /\ UNCHANGED <<etcd, queue, registry, inc>>

LeaseRunsOut(key) ==
    /\ ~(lease[key[1]] /\ key = Key(key[1]))
    /\ DropKey(key)
    /\ UNCHANGED <<etcd, registry, phase, inc, lease, elects, leaderID,
                   ready, memVars, seedVars, snapshot, watch, used, outdated, blind>>

-----------------------------------------------------------------------------
ElectRuns(m) == ElectEnters(m) \/ ElectErrs(m) \/ ElectWins(m)

Runs(m) == \/ GetSeed(m) \/ AddSeed(m) \/ StartCampaign(m) \/ SeeLeader(m)
           \/ ElectFailed(m) \/ Elected(m) \/ LoadResource(m)
           \/ NodesChange(m) \/ Tick(m)

Calls(m) == \E r \in Resource : AddResource(m, r) \/ DeleteResource(m, r)

Environment == \/ \E n \in Node : RegistryChanges(n)
               \/ \E m \in Master : LeaseExpires(m) \/ Crash(m)
               \/ \E key \in ToSet(queue) : LeaseRunsOut(key)

Next == \/ \E m \in Master : Calls(m)
        \/ /\ \/ \E m \in Master : Start(m) \/ Runs(m) \/ ElectRuns(m)
              \/ Environment
           /\ UNCHANGED calls

\* The goroutines of a master run, and etcd lets go of the keys of the dead.
Fairness == /\ \A m \in Master : WF_vars(Runs(m) /\ UNCHANGED calls)
                                  /\ WF_vars(ElectRuns(m) /\ UNCHANGED calls)
            /\ WF_vars(/\ \E key \in ToSet(queue) : LeaseRunsOut(key)
                       /\ UNCHANGED calls)

Spec == Init /\ [][Next]_vars
FairSpec == Spec /\ Fairness

-----------------------------------------------------------------------------
Phases == {"down", "seed", "observe", "loop", "load"}
Elects == {"start", "waiting", "failed", "elected"}
Keys == Master \X Nat

\* The types.  A ready master is at rest in its select, with its resources
\* loaded, and takes itself for the leader; no master ever knows another one.
TypeOK == /\ etcd \in [Resource -> Node \cup {None}]
          /\ queue \in Seq(Keys)
          /\ registry \subseteq Node
          /\ phase \in [Master -> Phases]
          /\ inc \in [Master -> Nat]
          /\ lease \in [Master -> BOOLEAN]
          /\ elects \in [Master -> SUBSET Elects]
          /\ ahead \in [Master -> SUBSET Keys]
          /\ leaderID \in [Master -> Master \cup {None}]
          /\ \A m \in Master : leaderID[m] \in {None, m}
          /\ ready \in [Master -> BOOLEAN]
          /\ \A m \in Master : ready[m] => phase[m] = "loop" /\ leaderID[m] = m
          /\ DOMAIN workNodes = Master
          /\ \A m \in Master : /\ DOMAIN workNodes[m] \subseteq Node
                               /\ \A n \in DOMAIN workNodes[m] :
                                     workNodes[m][n] \in Int
          /\ resources \in [Master -> [Resource -> Node \cup {None}]]
          /\ toGet \in [Master -> Seq(Resource)]
          /\ toAdd \in [Master -> Seq(Resource)]
          /\ snapshot \in [Master -> [Resource -> Node \cup {None}]]
          /\ watch \in [Master -> Nat]
          /\ outdated \in [Master -> BOOLEAN]
          /\ blind \in [Master -> BOOLEAN]

\* As long as its lease holds, a ready master is the one at the head of the
\* election; so of two masters that are ready at once, one has lost its lease.
ReadyLeads ==
    \A m \in Master : ready[m] /\ lease[m] => /\ queue # <<>>
                                              /\ Head(queue) = Key(m)

\* The resources of a ready master are those of etcd, unless another master
\* wrote since it looked, it served a call itself between the reply of etcd
\* and the end of loadResource, or a write that failed took effect.
MemoryTracksEtcd ==
    \A m \in Master : ready[m] /\ ~outdated[m] => resources[m] = etcd

\* A master that has dealt with every event it was sent knows the workers there
\* are, unless some came or went before it watched, or the registry failed.
WorkersKnown ==
    \A m \in Master : phase[m] \in {"loop", "load"} /\ watch[m] = 0 /\ ~blind[m]
                         => DOMAIN workNodes[m] = registry

\* The sessions that lead: their master is ready, and their lease is alive.
Leading == {Key(m) : m \in {k \in Master : ready[k] /\ lease[k]}}

Order == INSTANCE Succession WITH line <- queue, leading <- Leading

\* The masters succeed one another in the order of their sessions: none is in
\* line twice, whatever calls failed after they took effect, none gets ahead of
\* one that came before and has not left, and none takes over while another,
\* its lease alive, still believes to be the leader.
SuccessionSpec == Order!Spec

\* When no more masters crash, a standby gets to be ready in place of the one
\* that did: its key moves up, and it loads the resources.
TakesOver == \/ <>[](\A m \in Master : phase[m] = "down")
             \/ <>[](\E m \in Master : ready[m] /\ lease[m])

\* The same, for what can be promised: as long as etcd and the registry give no
\* error and every live master stays in touch with them.
TakesOverUnlessErrors == <>(used["error"] > 0 \/ used["expire"] > 0) \/ TakesOver

-----------------------------------------------------------------------------
\* A master that is not the leader any more finds out.
StaleLeaderStepsDown ==
    \A m \in Master :
       [](ready[m] /\ queue # <<>> /\ Head(queue)[1] # m
             => <>(~ready[m] \/ queue = <<>> \/ Head(queue)[1] = m))
=============================================================================
