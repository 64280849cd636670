# Eclipse fog05: TLA+ models, checks and proofs

fog05 deploys *FDUs* (fog deployment units: VMs, containers, processes) and
*entities* (groups of FDUs) on the nodes of a fog infrastructure. Every node
runs an agent (`fog05-agent`) and plugins (a hypervisor and a networking plugin;
`fog05-sdk/examples/dummy-*.rs` are the ones of this repository). They share no
memory: they call each other by RPC over zenoh (`znrpc`, the `#[znservice]`
traits of `fog05-sdk/src/agent.rs` and `plugins.rs`) and keep all records in
zenoh key/value stores (`fog05-sdk/src/zconnector`).

This directory holds a model of that system in TLA+, the TLC configurations that
check it on small instances, and TLAPS proofs of what its components promise. Paths and line
numbers below are those of the repository.

    tlc -workers 2 -config FduExclusive.cfg MCFduLifecycle.tla     # one run
    tlapm FduLifecycleProofs.tla                                   # one proof

## 1. The system

| component | state it keeps | operations | talks to |
|---|---|---|---|
| agent (`fog05-agent/src/agent.rs`) | the registered plugins, behind an async `RwLock`; everything else is in the stores | orchestrator interface: onboard, schedule, define, configure, start, stop, clean, undefine, offload for FDUs; onboard, schedule, deschedule, offload for entities; plugin interface: register, unregister, look-ups | its plugins, other agents (requests for an instance of another node are forwarded), both stores |
| agent's tasks | - | `monitoring_fdus` copies every put of the node's local store to the global one; `monitoring_hw` publishes the node's status; one detached task for each scheduled or descheduled entity | stores, the agent's own RPC interface |
| hypervisor plugin (`dummy-hypervisor.rs`) | the instances it runs, behind a `RwLock`; their records in the local store | define, configure, start, stop, clean, undefine | agent (`fdu_info`, registration), networking plugin, local store |
| networking plugin (`dummy-network.rs`) | virtual networks, connection points, interfaces, namespaces, bridges: records of the local store | create, delete, bind, unbind, attach, detach, move | local and global store |
| stores (`zconnector/mod.rs`, `local.rs`) | descriptors and instance records under paths | get (by selector), put, remove, subscribe | zenoh |
| client API, REST server, fosctl | none | one call of an agent per request, or the three calls that create or remove an instance | an agent picked at random from the nodes of the global store |

An instance has two records: the plugin's, in the local store of its node, and
the copy in the global store, which every agent reads. The handler of an agent
calls the plugin and then polls the global store until it shows the status it
waits for.

What is hard in this code, and the reason for most of the modules:

* *Two copies.* The global record is written by another task than the local one
  and removed by the handler, so a put may come after a removal.
* *Check, then act.* Plugins check the status of an instance before they take
  their lock, and write back the record they read then; `offload_fdu` and
  `offload_entity` check and remove without a lock.
* *Guards held across awaits.* Handlers keep the agent's read guard while they
  poll and while they wait for another agent; registration wants the write
  lock, and a waiting writer keeps readers out.
* *Partial failure.* Configuring an instance takes many calls, scheduling an
  entity many more. A failure in the middle, or a lost answer, leaves what was
  done so far.
* *Crashes.* An agent takes its handlers, its detached tasks and the puts it has
  not copied yet with it; the stores and the plugins outlive it, and nothing
  compares them when it starts again. Its servers answer before its monitoring
  task listens.
* *Relations over several records.* An interface knows its pair, its parent and
  its children; namespaces, connection points and networks keep lists. Every
  operation changes two or three records, in separate puts, next to those that
  another hypervisor plugin has asked for.

The properties that make the components correct:

* FDU life cycle: copies of an instance agree; the global record converges to
  the local one; no ghost and no hidden record; nothing leaked; every request is
  answered; plugins can always register; what clients see is a path of the
  documented life cycle (undefined, defined, configured, running).
* Client programs: what was reported as removed stays away, what runs was
  reported, and a crash costs only what was in progress at its agent.
* Entities: a running entity is complete and its record lists what must be taken
  down; an offloaded entity left nothing behind; a task always brings the record
  to a final status.
* Networking: pairs stay whole; whoever is attached or moved is listed where it
  will be looked for; an instance that is configured has all of its network;
  cleaning removes exactly what configuring made.
* Registration and monitoring: a registration lasts until it is given back; the
  published status becomes that of the plugins the agent has; the default network
  gets made unless its task fails; no plugin waits for an agent that is gone.
* Placement: a node that is picked met the descriptor when it was asked, and a
  node that is there is found.

The components that are not modelled, and why, are listed with the others in
`PROJECT.json`.

## 2. The modules

| module | models | over |
|---|---|---|
| `FduStore` | records, stores and the table of operations: constants and operators only | - |
| `FduAbstract` | what the life cycle of an instance promises | - |
| `FduLifecycle` | agents, hypervisor plugins, both stores, the monitoring task and registration | `FduStore`; implements `FduAbstract` twice |
| `ClientPrograms` | the programs of the REST server and fosctl, and agents that crash and start again | `FduLifecycle` |
| `FduLifecycleProofs` | typing, identity of the copies, convergence of the stores; while no two requests work on one instance also: no ghost, no hidden instance, namespaces accounted for, both views of an instance implement `FduAbstract` | `FduLifecycle` |
| `ClientProgramsProofs` | typing, what programs promise and what a crash costs | `ClientPrograms`, `FduLifecycleProofs` |
| `EntityAbstract` | the documented life cycle of an entity instance | - |
| `EntityOrchestration` | entity handlers and the tasks they spawn | FDU operations as one step each; implements `EntityAbstract` |
| `EntityProofs` | typing, completeness, nothing left, the implementation of `EntityAbstract` | `EntityOrchestration` |
| `NetworkPlugin` | the operations of the networking plugin | - |
| `NetworkPluginProofs` | typing, pairs, members of namespaces, children of bridges | `NetworkPlugin` |
| `InstanceNetworking` | `configure_fdu` and `clean_fdu` of several hypervisor plugins, put by put | the records and helpers of `NetworkPlugin` |
| `InstanceCalls` | that these puts add up to the operations of `NetworkPlugin` | `InstanceNetworking`; implements `NetworkPlugin` |
| `InstanceNetworkingProofs` | typing, configured instances have all of their network, nothing leaked | `InstanceNetworking`, `NetworkPluginProofs` |
| `InstanceCallsProofs` | calls take effect as a whole: the implementation of `NetworkPlugin` | `InstanceCalls`, `InstanceNetworkingProofs` |
| `AgentNode` | an agent's main loop and the plugins that register with it, through starts, stops and crashes | - |
| `AgentNodeProofs` | typing, registrations kept, info withdrawn | `AgentNode` |
| `Placement` | `schedule_fdu` and the compatibility check, while agents come and go | - |
| `PlacementProofs` | typing, placed where met, found when there | `Placement` |
| `MC*` | constants and symmetry for TLC | the module they are named after |

### FduLifecycle

`catalog` and `global` are the descriptors and the instance records of the
global store, `local[n]` those of node `n`, `chan[n]` the puts that the
subscription of agent `n` has queued for `monitoring_fdus`, `netns[n]` the
namespaces of node `n`. `hypervisors[n]` says whether the plugin is registered,
`writer[n]` whether a registration waits for the write lock. `task[c]` is the
request of client `c`: where its handler is (`pc`), the agents whose read guard
it holds (`held`), and the record the plugin read before it took its lock
(`snap`).

A request is a sequence of steps, one for each await that another process can
observe:

    Request / Arrive   read lock, get_instance: own it or forward it
    GetDescriptor      get_fdu, the plugin's client
    PluginGet          the plugin's get_instance and check of the status
    PluginSwitch, PluginConfigure, PluginClean, PluginUndefine
                       everything the plugin does with its write lock held
    Poll / RemoveGlobal
    Return

The part of a plugin's handler under its write lock is one step, because every
other writer of the same records takes that lock; `InstanceNetworking` opens this
step for `configure_fdu` and `clean_fdu`. Namespaces stand here for all of an
instance's network.

Assumptions, each from the code or the libraries it uses:

* Requests are served concurrently: the servers clone the agent, and handlers
  take the `RwLock` for reading.
* zenoh delivers puts to a subscriber in the order they were made, and loses
  none (`subscribe_instances`, an unbounded channel).
* A plugin answers. Only a forwarded call times out (`ForwardTimeout`): the
  forwarding agent drops its guard; the client is answered when the owner is
  done, so a client never has two requests (with two clients, another one does).
* `FDUState::ERROR` is never written and left out.

### ClientPrograms

A program (`prog[c]`) is the entry point it picked and the calls it still has to
make: `instantiate_fdu`, `delete_fdu_instance` and `delete_fdu` of
fog05-rest/src/main.rs, which fosctl's fim.rs repeats. The first call that fails
ends it; `Finish` is also where it reports success. The handlers, plugins and
stores are those of `FduLifecycle`; `Handler`, `Plugin`, `Forward` and `Admit` wrap
their steps. `agent[n]` is `down`, `deaf` (its servers answer, its monitoring task has
not subscribed) or `up`.

* `Crash` ends the handlers at an agent, drops its read guards, its queue and its
  plugin's registration. A request that this agent was forwarding may have reached
  the owner or not. Clients whose handler is gone are `orphans` until their plugin
  has finished (`Plugin`) or was cut short (`PluginDies`), and `Forget` ends them.
* `Boot` knows nothing of the former life: the agent has a new `node_info` and no
  plugins. A plugin that is started again registers with it (`Register`).
* `Subscribe` opens the ears of `monitoring_fdus`; what was put before is lost.
* `Exclusive` holds: two programs never work on the same instance at once, so a
  client that repeats a program whose call timed out is not one of them.

What a crash costs shows in `disturbed` (a put was queued, or a request in
progress, when something crashed or timed out) and `deafened` (a put fell in the gap
before `Subscribe`), and `overtaken` has the instances whose `define_fdu` overlapped
an `offload_fdu` of their descriptor; all are history variables. For a disturbed instance the global
record may stay behind: a `clean_fdu` polls a stale DEFINED and returns early,
before its own put is copied, and the `undefine_fdu` after it may leave a ghost.
`CrashContained` says that this can happen to no other instance. `HandlersEnd` does
not hold without its exception: TLC finds a handler that waits for ever for a put
made between `Boot` and `Subscribe`.

### EntityOrchestration

`records` are the entity records in the global store; each task works on its own
copy (`rec`) and the caller keeps another, older one for reporting an error
(`kept`, the clone at agent.rs:1033). An FDU operation is one step of the abstract
life cycle: `FduLifecycle` is shown to implement it when no two requests are for
one instance, which is what the tasks do when no entity instance has two of
them.

`MaxFaults` bounds the faults: a call that fails though it was possible, before its
effect or after it (the answer is lost), and `Crash`, which ends the tasks of one
agent wherever they are. `orphans` are the entity instances whose task died: their
status stays transient until somebody deschedules them, and `EntityAbstract` has
that as steps of its own (`Orphan`, `TakeDown`). A call whose effect comes later than
its failure (the handler goes on after its caller's timeout or death) is not
modelled. Idle tasks and unused uuids differ in nothing but their names, so the
first of each is taken (`NewTask`).

### NetworkPlugin and InstanceNetworking

`vnets`, `cps`, `ifaces` and `namespaces` are the records of one node's local
store. The `Vec`s of uuids in them are bags (counts): no operation depends on
their order, and several do depend on an entry being there twice, since
`push` does not look and `remove` takes one. Names, addresses and MAC addresses
are left out, and so are the operations that change nothing else. In
`NetworkPlugin` an operation is one step. `delete_virtual_bridge` is not an action
because it never does anything: it refuses every bridge (see the end of
section 3).

`InstanceNetworking` has the callers: the hypervisor plugins of a node, each with at
most one operation in progress (`work[p]`), because it holds its own write lock over
its calls, and all of them at the same time. A request reads the record of its
instance and checks the status before it takes that lock (`AskConfigure`, `AskClean`),
waits in `asked` with its copy of the record, and works on the copy when it gets the
lock (`Configure`, `Clean`). So two requests for one instance may both pass the check,
and the second builds a network over that of the first, which is leaked. `MaxOverlaps`
bounds how often a request is made for an instance that another one waits for or works
on (0: never, which is what callers that work on an instance one at a time guarantee), and
the history variable `stale` says that an operation has begun with a record that had changed
since. A call reads its records in one step
(no call reads two records that somebody else writes) and leaves in `puts` what it
will put, one step each; `unlist` is the second read of
`move_interface_into_default_namespace`. A caller may give up at any moment
(`GiveUp`: a timeout, or the end of its process): its call goes on as one of
`strays` while the operation is tried again. `NetworkingDies` ends all calls
halfway. Of requests that wait with the same copy of a record one is kept.
Uuids are random, so it loses nothing that every plugin draws from a pool
of its own (`DrawnBy`) and that uuids of interfaces are no others; a request begins, and
each uuid is drawn, only while the pool has some left, which is the bound.

`CallsAtomic` (in `InstanceCalls`) is a refinement: with the puts in progress counted as made (`After`),
every step but `NetworkingDies` is a step of `NetworkPlugin` or changes nothing, so that what is checked
there one operation at a time is true of operations that overlap. It holds because
the records that hypervisor plugins ask for are disjoint, and that is what it shows.

### AgentNode

`incarnation` counts the starts of the agent and stands for the uuid of its
servers, `main` is where its main loop is, `stopping` how far `Agent::stop` has got,
which another thread runs while the loop goes on. `slot` is what `AgentInner` keeps
of plugins, `making` the detached tasks that create the default network, `lost` (a
history variable) the plugins whose task has failed. `info`,
`status`, `records` and `network` are in stores and outlive every process. A
plugin process goes through `pc` and calls the incarnation it found when it started
(`peer`).

* Every process may crash at any time, and the agent is started again. Plugins are
  not started again: another process of the same kind is another plugin.
* `Measure` and `Publish` are two steps: between them the loop holds the read guard
  (`Answers`), and `stop` may remove the status.
* A plugin unwraps every answer of the agent: `AlreadyPresent` and `CallFails` end
  it. `Unreachable` is the RPC library's: a call of a server that is gone fails.
* The task that creates the default network unwraps what it is answered
  (`DefaultNetworkFails`): it may fail at any time, and then the plugin stays registered,
  nobody is told, and nothing creates the network for that plugin any more.
  `DefaultNetworkMade` says that this is the only way to be left without.
* The node's info and status also have local copies, which nothing reads.

TLC reaches a node that has been stopped and whose status is still published
(`StopStatus`, then `Publish`): nothing in the repository promises otherwise.
`Withdrawn` is what does hold: the node's info, by which placement finds nodes,
does not come back once `stop` has removed it (the history variable `withdrawn`). An
agent that is stopped while it starts is excepted: it advertises after `stop` is
through.

### Placement

`info` and `status` are what the global store says of a node, `service` and `up`
what is true. `task[c]` is the request of a client: the servers asked and not yet
heard of (`asked`, `met`), those that said yes, the one picked. A check is two
steps, the stores and the agent's lock. `ever` and `steady` are history variables
that `Watch` keeps beside every step: they compare what the request found with the
reference `Meets`, in which every single requirement and interface counts.

The code's check (`Compatible`) is weaker than `Meets` in two places, the fold over
the interfaces (agent.rs:930) and the unit of the disk (agent.rs:895), and stronger
in one, the cast to `u8` (agent.rs:884). The properties name these as their premises
and the run has descriptors and nodes on both sides of them. The fold drops its
accumulator, so only the last interface that needs a parent counts; `Faces` says it
that way, and `MCPlacement` has TLC evaluate that the fold, written out, gives the same
on the run's nodes and descriptors (`FacesFold`).

A status without a disk at `/`, and several hypervisor kinds, are left out. An
answer that comes after its caller's timeout is, too: a server that is there
answers in time.

## 3. The runs

| run | question | states | result |
|---|---|---|---|
| `fdu_exclusive` | two agents, two instances, two clients never on one instance | 384 k | holds |
| `fdu_shared` | conflicting requests for one instance at any two agents, two descriptors, one of which cannot be configured | 1.2 M | holds |
| `fdu_guards` | an instance on either node: two agents that wait for each other with their guards held, two plugins that want the write locks; fairness | 105 k | holds |
| `client_programs` | programs through any entry point, one crash and restart of an agent; fairness | 189 k | holds |
| `fdu_undefine` | `undefine_fdu` through another agent than the owner | | violated |
| `entity_tasks` | an entity of two FDUs, two instances, two tasks, a failing call or a crash; fairness | 126 k | holds |
| `entity_error` | what a deschedule after a failed schedule takes down | | violated |
| `network_plugin` | every operation on three interfaces, a namespace, a connection point and a network | 794 k | holds |
| `network_create` | a network that is created again | | violated |
| `agent_node` | an agent started twice, a networking plugin and two processes of a hypervisor plugin; crashes; a failing task; fairness | 118 k | holds |
| `placement` | two descriptors, two nodes, one of which restarts; fairness | 125 k | holds |
| `instance_faults` | two hypervisor plugins at once, three descriptors, one of which cannot be configured; a request for an instance that another one is for; a caller that gives up or a process that dies | 551 k | holds |

What they show:

* *FDU life cycle.* As long as nobody else works on the same instance, the
  system keeps its promises: `NoGhostRecord`, `NoHiddenInstance`,
  `NetNsAccounted`, and both the local and the global view of an instance
  implement `FduAbstract`. The polling loop is what makes this true: without it
  (mutant `MutPoll`) the monitoring task brings an undefined instance back. With
  conflicting requests these fail, as they must (a plugin writes back a stale
  record), but `OneIdentity` and `GlobalFollowsLocal` still hold.
* *Locks.* Two handlers that forward to each other's agent with their read guards
  held, and two waiting writers, form a cycle. `RequestsAnswered` and
  `PluginsAdmitted` hold because of the timeout of the forwarded call, and only
  because of it (mutant `MutForwardTimeout`).
* *Programs and crashes.* `DeletedForGood`: a program that reports an instance as
  removed is right, through any entry point and after any crash, because its
  `clean_fdu` returns only when the global store has caught up (mutant
  `MutDeleteInstance`), although its `undefine_fdu` may run another operation
  (finding 1), in which case the program ends with an error. `RunningReported`:
  only a crash or a timeout can leave an instance running whose uuid no client was
  told. `CrashContained` and `HandlersEnd` bound what a crash costs (section 2).
  `DescriptorKept`: `offload_fdu` checks and removes without a lock, so an instance
  can lose its descriptor; only those whose `define_fdu` overlapped it do (mutant
  `MutDeleteFdu`).
* *Entities.* `NothingLeft` holds in spite of lost FDU lists: `offload_fdu`
  refuses while an instance is left, so the task ends in ERROR and not in
  OFFLOADED.
* *Networking.* Pairs stay whole, and lists never miss an interface that has
  been moved or attached. Calls of two hypervisor plugins, and retries next to calls
  that were given up, do not disturb each other (`CallsAtomic`), nor do two requests for one instance that both pass
  the status check: what the second one leaves is complete (`ConfiguredComplete`). What
  the first one made is leaked then, with no operation failed: `NothingLeaked` excepts it
  (`stale`), and without the exception TLC finds it violated. The converse is false and not claimed: lists may name
  interfaces that are gone or that are elsewhere now.
* *Nodes.* `RegistrationKept` holds although `unregister_plugin` removes by kind,
  because a plugin's calls go to the agent it registered with, and to no later one
  (mutant `MutAnswers`). A crashed agent's READY is overwritten by the next one's
  first round (`StatusSettles`).
* *Placement.* Between the check and the definition agents restart under new
  uuids; the FDU is still only defined where the check said yes, or not at all.

Disagreements between the code and what its comments say (section `findings` of
`PROJECT.json`, each with a counterexample):

1. `undefine_fdu` at an agent that does not own the instance calls `clean_fdu` at
   the owner, and answers Ok (agent.rs:1386).
2. An entity whose scheduling failed has lost the list of FDUs it started
   (agent.rs:1033): descheduling it reaches STOPPED with FDUs running.
3. `create_virtual_network` of an existing network forgets its connection points
   (dummy-network.rs:114); "does nothing" is what plugins.rs:85 says.

Three more are plain from reading the code and have no run: STOPPED is documented
as "fdu are there but not running" (im/entity.rs:81) and written when they are
gone (agent.rs:502); the record of an offloaded entity is never removed, though
agent.rs:1075 lists that as a step, so `offload_entity` refuses ever after; and
`delete_virtual_bridge` looks for the bridge in the global store
(dummy-network.rs:418), where nothing writes interfaces.

### Bounds

| bound | where | why it is enough |
|---|---|---|
| `MaxCrashes` = 1, `Crashable` = one node, `Creators` = one client | `ClientPrograms` | what one life of an agent leaves meets the next one, for an instance on the crashed node and for one on the other; the other client removes |
| `MaxFaults` = 1 | `EntityOrchestration`, `InstanceNetworking` | one fault and everything that is done about it; entity tasks also pass with 2 (477 k states, four minutes) |
| `Clients`, `Tasks` = 2 | FDU, entity; one client in `placement`, whose requests do not meet | each hazard needs two actors: a check and the step between it and the act; a polling handler and an overwriting one |
| `Nodes` = 2 | FDU | the owner and one that forwards |
| `Instances` 1 or 2 | FDU, entity | one shared by both clients; two for what depends on a descriptor's instances |
| `Asked` | `Request` | the operations clients ask for: all of them, but only `configure` in `fdu_guards`, where any operation that is forwarded and then polls makes the cycle |
| `MaxLag` 0 to 2 | `Request` | a put that is behind another one; a guard of new requests only |
| `DrawnBy` | `InstanceNetworking` | the first plugin has uuids for the network of its instance, with a connection point and two interfaces; the other one for two networks with an interface each, so that one can be leaked |
| `MaxOverlaps` = 1 | `Ask` of `InstanceNetworking` | a second request, for the same operation or the other one, passes the check while the first one waits or works, or before it is tried again; one instance alone with 3 passes as well |
| `NetNs` 2 or 4 | `PluginConfigure` | a uuid is free again when no record names it; one for each client is kept free (`NetNsLeft`) before a configure is admitted, so the bound stops no handler |
| `MaxCopies` 1 or 2 | `NetworkPlugin`: 1 in its own runs, 2 in `instance_faults` | how often a list holds a uuid; 2 shows the difference between "one removed" and "all removed" |
| `Ifaces`, `NetNs`, `Cps`, `Networks` | `NetworkPlugin` | a pair and a third interface; a namespace and a connection point (which draws a namespace's uuid of its own) to move between |
| `MaxStarts` 1 or 2 | `Start` of `AgentNode` and `Placement` | what is left of one agent meets the next one |
| `Statuses` | `Monitor` of `Placement` | one that is enough for a descriptor, one that is not, for each resource |

Symmetry is used where only invariants and step properties are checked, never in
a run with fairness.

### Fairness

* Handlers, plugins, the monitoring task, entity tasks: weak fairness. They are
  tasks of async-std's executor, which polls every task that is ready.
* `ForwardTimeout`: weak fairness, the RPC library's timeout.
* `PluginAdmit`: weak fairness: the lock is granted to a waiting writer when no
  reader is left, and readers that come later wait.
* `Arrive`: strong fairness: a forwarded call that waits for a read lock gets it
  although registrations come and go.
* `Registration` of `AgentNode`: strong fairness, for the same reason: the
  monitoring loop takes its read guard again and again, and a waiting writer gets
  the lock in between.
* Programs, in `ClientPrograms`: weak fairness for what ends a call or a program,
  for `Subscribe` and for `Forget`; strong fairness for the next call (`NextCall`,
  which needs a read lock as `Arrive` does). `Crash`, `Boot`, `Register` and the start
  of a program are under none.
* The agent's main loop, `stop` once begun, `DefaultNetwork` (the task polls until the
  plugin serves, and is done with it then unless it fails), the requests of
  `Placement` with their timeouts: weak fairness. `DefaultNetworkFails` is under none. Crashes, starts and clients are
  under none.

## 4. The proofs

TLAPS proves the following for every value of the constants: any number of nodes,
clients, descriptors, instances, plugins, interfaces, faults and starts. Every
inductive invariant was checked by TLC on the instance of a run before it was proved.

| theorem (property) | module | hypotheses |
|---|---|---|
| `TypeCorrect` (`TypeOK`) | `FduLifecycleProofs` | - |
| `OneIdentityHolds`, `GlobalFollowsLocalHolds` | `FduLifecycleProofs` | - |
| `NoGhostRecordHolds`, `NoHiddenInstanceHolds` | `FduLifecycleProofs` | `Exclusive` |
| `NetNsAccountedHolds` | `FduLifecycleProofs` | `Exclusive`, `BadFdus = {}` |
| `LocalLifecycleHolds`, `GlobalLifecycleHolds` (refinements) | `FduLifecycleProofs` | `Exclusive` |
| `ProgramsTypeCorrect` (`ProgramsTypeOK`) | `ClientProgramsProofs` | - |
| `CrashContainedHolds`, `RunningReportedHolds`, `DescriptorKeptHolds`, `DeletedForGoodHolds` | `ClientProgramsProofs` | `Exclusive` |
| `TypeOKHolds` | `EntityProofs` | - |
| `NothingLeftHolds`, `RunningCompleteHolds`, `EntityLifecycleHolds` (a refinement) | `EntityProofs` | `Exclusive` |
| `TypeOKHolds`, `PairsWholeHolds`, `MembersListedHolds`, `ChildrenListedHolds` | `NetworkPluginProofs` | - |
| `NetworkingTypesHold`, `ConfiguredCompleteHolds` | `InstanceNetworkingProofs` | `MaxOverlaps = 0` |
| `NothingLeakedHolds` | `InstanceNetworkingProofs` | `MaxOverlaps = 0`, `DistinctNames` |
| `CallsAtomicHolds` (a refinement) | `InstanceCallsProofs` | `MaxOverlaps = 0` |
| `TypeOKHolds`, `RegistrationKeptHolds`, `WithdrawnHolds` | `AgentNodeProofs` | - |
| `TypeOKHolds`, `PlacedWhereMetHolds`, `FoundWhenThereHolds` | `PlacementProofs` | - |

All but `MaxOverlaps = 0` hold in the runs that check these properties: `Exclusive` says that no two requests (or tasks)
are for one instance at once, which is the callers' part of the contract and without
which the properties are false (section 3); `BadFdus = {}` says that no descriptor
names a missing connection point, because a `configure_fdu` that fails there leaks a
namespace; `DistinctNames` says that no descriptor names a connection point twice,
because `configure_fdu` keeps them in a map by name, where the second replaces the first, and
no `clean_fdu` will delete that one (dummy-hypervisor.rs:163). `MaxOverlaps = 0` is
`Exclusive` for a hypervisor plugin: no request is made for an instance while another one
waits for it or works on it. The run has one that is (`MaxOverlaps` = 1), which is more than
is proved, and with `MaxOverlaps` = 0 `NothingLeaked` says all it says without `stale`. Besides these there are only the assumptions declared with the constants,
which TLC evaluates on every run: `NoneAssumption`, `LifecycleAssumption`,
`ProgramAssumption`, `EntityAssumption`, `NoRecordAssumption`, `NetworkAssumption`,
`InstanceAssumption`, `NodeAssumption`, `PlacementAssumption`. They give the constants' types and say that `None` (an
`Option` without a value) is none of the things it is used beside, and that uuids of different kinds differ.

### FDU life cycle

*Typing.* `TypeOK` is not inductive: that an agent and an instance are known when the
plugin is called is a fact about the phases of a request. `TaskKnows` says what a
request knows in each phase, and `TypeInv` is the conjunction of the two.

*Identity and convergence.* The invariant is `Inv`, a conjunction of

* `Owned`: what is in the local store, the channel and the plugin of node `n`
  says `node = n`; so two copies can only disagree through `global`;
* `UuidsFresh`: every record's uuid has been drawn, and a request about to define
  has a uuid that no record and no other such request has: this is where
  `PluginDefine` cannot clash;
* `OneIdentity` and `GlobalFollowsLocal` themselves. The first makes "the record
  at the same path" and "the record with the same uuid" the same thing, without
  which a put could leave an older record beside the new one.

The actions have few *effects* on the records: one record is put (locally and in
the channel), the oldest queued one is delivered, one is removed, or none
changes. The proof has one lemma per effect and conjunct, and one step per action
that names its effect.

*Exclusive requests.* None of the three properties is inductive: each says what the
stores look like and nothing of the request that is about to change them. `ExclInv`
adds `Apart` (no two requests are for one instance), `Phases` and `Rest`. `Phases`
says where the copies of an instance are in each phase of its request: with the plugin's
lock asked for, the record it read is still the one stored (`LockedOn`); while the handler
polls, either both stores agree or exactly one put of the instance is queued and the
global store still has what was there before the operation (`PollingOn`); when
`undefine_fdu` is about to remove the global record, no put is queued that could
bring it back (`RemovingOn`). `Rest` says that outside these two phases the stores
agree. The polling loop is thus where the proof gets the absence of ghosts from.
`NetNsInv` adds that configured instances have namespaces of their own.

*Refinement.* The abstract state of an instance is a `CHOOSE` over records;
`LocalKnown` and `GlobalKnown` say that it is the status of the only record. Each
effect of a step is then one move of `FduAbstract`, or none.

### Client programs

The requests of programs are those of `FduLifecycle`, but after a crash or a timeout its
invariants fail for the instance that was in progress. `Core`, `Phases` and
`Rest` of `FduLifecycleProofs` therefore have a set of instances as a parameter, about
which they say nothing: it is empty there and `disturbed` here, and the lemmas about
the steps of a request are used for both. What is left to show is that `Crash`, `Boot`,
`Subscribe`, `PluginDies` and the timeouts put into `disturbed` what they break; this is
`Base`, and `CrashContained` follows.

The other three need the order in which a program makes its calls:

* `RunningReported` (`Reported`): a running instance has been reported, or is disturbed, or
  its client's `start` is past the plugin, where nothing but a crash or a timeout can
  fail any more: it polls, or answers Ok.
* `DescriptorKept` (`Described`): when `offload_fdu` removes the descriptor it has seen no
  instance of it; an instance that appears since then was being defined, and
  is in `overtaken`.
* `DeletedForGood`: `Histories` says what each call of a program may rely on because the
  one before it was answered. `clean_fdu` was called on an instance of which no copy is
  DEFINED any more, so its poll ends only when its own put has arrived, which is the last
  there is (`Newest`); `undefine_fdu` then removes all there is (`Gone`), and no later
  step can bring back a uuid that is in none of the stores and has been drawn.

### Entities

`EntityInv` has a part for each task and one for each entity instance. `WorkOf` says
what a task has done for its instance so far and what the store shows meanwhile
(`Shows`): while it brings FDUs up, those before the one it is at run and are listed and
no others exist (`BroughtUp`); while it offloads them, no instance is left of those
it is through with (`TakenDown`). `InstOK` says that a RUNNING instance has all its FDUs
(`AllRun`), an OFFLOADED one has none, that every FDU instance belongs to a place of
its entity's descriptor (`Placed`), and that an instance in a transient status is worked
on or an orphan. A failed task may leave FDU instances that no list names;
`NothingLeft` holds because `offload_fdu` refuses while there is one, and the proof
gets `TakenDown` from that refusal. The implementation of `EntityAbstract` needs the
same invariant: the status a task writes follows the one that is *stored* because
nobody else has written the record since.

### Networking, registration, placement

* `NetworkPluginProofs`: `Inv` is the conjunction of the four properties, none of
  which is inductive alone. Deleting one half of a pair deletes the other by uuid, and
  spares everybody else's because of `PairsWhole`; a new record is referred to by
  nobody because uuids are drawn once. Lists are bags, and the lemmas about
  `BagAdd` and `BagRemove` say which members may disappear.
* `InstanceNetworkingProofs`: no plugin takes a lock and no record says whose it
  is, so the proof does. The `Claim` of an instance is what its record names, or what the
  operation that configures it has drawn so far. `IInv` says that claims are disjoint
  (`Disjoint`), also when the other halves of their interfaces are added (`Matched`, `Halves`,
  `Apart`); that a put makes something of the instance it is for or, when its caller has
  given up, of no instance (`OwnPuts`, `StrayPuts`); and that a removal takes from an
  instance only when that one is being cleaned (`Removals`). Hence nobody else changes what
  `Progress` and `Cleanup` say of an operation and its puts to come, and `Whole` of a
  configured instance: `ConfiguredComplete` is what is left of it when the puts are done.
  There is one lemma for each kind of put, one for each kind of call, and one step for each
  action. `NothingLeaked` adds `Ledger`: until something fails there are no strays, and all
  there is is claimed. Its hard step is the end of `clean_fdu`, which gives up the claim:
  `GoneSoFar` says of every interface, connection point and namespace the operation is
  through with that it is gone, so nothing is left to be disowned. Beside `IInv` there is
  `Served`, which needs `MaxOverlaps = 0`: the copy a request waits with is still the
  record, so what was checked before the lock is true when the plugin begins.
* `InstanceCallsProofs`: the mapping of `CallsAtomic` counts the puts ahead as made
  (`Ahead`, `After`). To make one of them changes nothing there if no two puts disagree
  about a key: `IInv` says so of the puts of operations, and `StraySolo` and `StrayClear`,
  two parts of the invariant `Calm`, of the calls that were given up. To begin a call
  adds its puts, and that is a step of `NetworkPlugin` if what the call has read is what
  will be there. For what it removes or rewrites this follows from the claims
  (`ConfiguredSpared`, `OwnStill`); for the uuids it draws, from what `Calm` says of the
  namespaces and connection points that puts name (`Home`, `HomeOwn`, `HomeStray`) and of
  the lists that they put (`ListFirst`). A call to remove what another call is about to
  remove finds it gone in the mapping already, and is no step there; a VETH is then gone with
  its other half because halves are removed together (`HalvesGone`).
  There is one lemma for each action.
* `AgentNodeProofs`: `RegistrationKept` is inductive with the types; `Withdrawn` needs
  `PastAdvertise`: an agent that has withdrawn its advertisement is past the place in
  its loop where it makes one.
* `PlacementProofs`: neither property says where the answer of a node is while the
  request goes on. `Told` says of every yes so far that it was right when given
  (`CompatibleMeets`: for a descriptor the check decides about, the check's arithmetic,
  `u8` and megabytes included, agrees with the reference); `Awaited` says of every
  node that stays findable that its yes is still to come or has been counted;
  `StillFound` that the history variable means what it should.

### Only model-checked

* Liveness (`RequestsAnswered`, `PluginsAdmitted`, `HandlersEnd`, `Settles`,
  `StatusSettles`, `DefaultNetworkMade`, `PluginSettles`, `RequestEnds`): fairness and
  `ENABLED` are out of the prover's reach.
* `FacesFold`: folds over sequences are recursive, and induction over data is out of
  reach as well.
* The three violated properties, of course, and everything without `Exclusive` but
  typing, `OneIdentity` and `GlobalFollowsLocal`.
* What `instance_faults` shows of two requests for one instance at once.

## 5. What is not modelled

* OS interface, bootstrap, example programs, packaging: no state or pure I/O (see
  `components`). fosctl's `force.rs`: a client of an external orchestrator.
* Renaming, addresses and MAC addresses of the networking plugin: they change one
  field that no operation reads.
* Crashes of a hypervisor plugin whose agent lives, during an FDU operation: the
  handler's call fails, as a refused one does (`AgentNode` has those crashes for
  registration, `InstanceNetworking` for the network of the instance).
* Effects of a call on an entity's FDU that come after its caller's timeout or crash.
* Calls of the networking plugin by anyone but hypervisor plugins, at the level of
  puts: no other program of the repository makes any, but for the agent's
  `create_virtual_network` (`AgentNode`).
* Hazards without a property have a `note` in `PROJECT.json` that says why.

## 6. Plan

Done, in this order: `FduStore`, `FduLifecycle` with its abstract specification,
runs and proofs; `EntityOrchestration`; `NetworkPlugin`; `InstanceNetworking`;
`AgentNode`; `Placement`; `ClientPrograms`; crashes in `EntityOrchestration`; the puts
and the concurrent callers of `InstanceNetworking`.

Proved, in this order: the types, identity and convergence of `FduLifecycle`; its
properties under `Exclusive` and both refinements; `AgentNode`;
`EntityOrchestration` with its refinement; `NetworkPlugin`; `Placement`;
`ClientPrograms`; `InstanceNetworking`; `InstanceCalls`. Every safety property that a passing
run checks is proved now.

Next:

1. `AgentNode` with plugins of one kind that are started in turn, and with the local
   copies of info and status once something reads them.

A new run replaces or widens one of those in section 3, which together take about
fifteen minutes.
