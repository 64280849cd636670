---------------------------- MODULE FduLifecycle ----------------------------
(***************************************************************************)
(* The life cycle of FDU instances across the agents of a fog05 system:    *)
(* agents, hypervisor plugins, the local and the global store, and the     *)
(* task of each agent that copies what is written to the local store into  *)
(* the global one.                                                         *)
(*                                                                         *)
(* A client (FDUApi, the REST server, fosctl, or an entity task) sends a   *)
(* request to some agent.  The agent's handler takes the agent's read      *)
(* lock, finds the instance in the global store and either forwards the    *)
(* request to the owner or calls its hypervisor plugin.  The plugin reads  *)
(* the instance from the local store, checks its status, takes its own     *)
(* lock and writes the new record to the local store.  The write is queued *)
(* to the agent's monitoring task, which puts it in the global store.  The *)
(* handler polls the global store until it sees the status it waits for.   *)
(*                                                                         *)
(* Every await of a handler that another process can observe is the border *)
(* of a step.  What the plugin does with its write lock held is one step,  *)
(* because every other writer of the same state takes that lock.           *)
(***************************************************************************)
EXTENDS FduStore, FiniteSets

CONSTANTS
  Clients,      \* concurrent requests
  Asked,        \* operations on instances that clients ask for
  BadFdus,      \* descriptors whose interfaces name a missing connection point
  Restartable,  \* nodes whose plugin may unregister
  Exclusive,    \* TRUE: never two requests at once for the same instance
  MaxLag        \* a bound: puts queued when a client sends a request

ASSUME LifecycleAssumption ==
  /\ Asked \subseteq InstanceOps
  /\ BadFdus \subseteq Fdus
  /\ Restartable \subseteq Nodes
  /\ Exclusive \in BOOLEAN
  /\ MaxLag \in Nat

VARIABLES
  catalog,      \* descriptors in the global store
  global,       \* instance records in the global store
  local,        \* instance records in each node's local store
  chan,         \* puts queued to each node's monitoring task
  netns,        \* network namespaces existing on each node
  hypervisors,  \* is the hypervisor plugin registered with the node's agent?
  writer,       \* register or unregister call waiting for an agent's write lock
  used,         \* instance uuids drawn so far
  task          \* the request each client has in progress

storeVars == <<catalog, global, local, chan, netns, used>>
lockVars == <<hypervisors, writer>>
vars == <<catalog, global, local, chan, netns, hypervisors, writer, used, task>>

Ops == InstanceOps \cup {"define", "offload"}
Pcs == {"idle", "define", "descriptor", "forward", "plugin", "lock", "poll",
        "remove", "offload", "reply"}
Replies == {"Ok", "NotFound", "TooMuchError", "TransitionNotAllowed",
            "HasInstances"}

(* A request in progress: where its handler is, what the client asked for  *)
(* (req) and what the agent that handles it now runs (op), the agents      *)
(* whose read lock it holds, and the record the plugin read before taking  *)
(* its lock (snap, a set of at most one record).                           *)
Task == [pc    : Pcs,
         req   : Ops \cup {None},
         op    : Ops \cup {None},
         agent : Nodes \cup {None},
         held  : SUBSET Nodes,
         inst  : Instances \cup {None},
         fdu   : Fdus \cup {None},
         snap  : SUBSET FDURecord,
         reply : Replies \cup {None}]

IdleTask == [pc |-> "idle", req |-> None, op |-> None, agent |-> None,
             held |-> {}, inst |-> None, fdu |-> None, snap |-> {},
             reply |-> None]

NewTask(op, n, i, f) ==
  [IdleTask EXCEPT !.req = op, !.op = op, !.agent = n, !.inst = i, !.fdu = f]

TypeOK ==
  /\ catalog \subseteq Fdus
  /\ global \subseteq FDURecord
  /\ local \in [Nodes -> SUBSET FDURecord]
  /\ chan \in [Nodes -> Seq(FDURecord)]
  /\ netns \in [Nodes -> SUBSET NetNs]
  /\ hypervisors \in [Nodes -> BOOLEAN]
  /\ writer \in [Nodes -> {"none", "register", "unregister"}]
  /\ used \subseteq Instances
  /\ task \in [Clients -> Task]

Init ==
  /\ catalog = {}
  /\ global = {}
  /\ local = [n \in Nodes |-> {}]
  /\ chan = [n \in Nodes |-> <<>>]
  /\ netns = [n \in Nodes |-> {}]
  /\ hypervisors = [n \in Nodes |-> FALSE]
  /\ writer = [n \in Nodes |-> "none"]
  /\ used = {}
  /\ task = [c \in Clients |-> IdleTask]

-----------------------------------------------------------------------------
(* Locks, replies and the channel to the monitoring task                   *)

Readers(n) == {c \in Clients : n \in task[c].held}

(* The handler of c goes on at pc; it is done with what it read.           *)
Goto(c, pc) == task' = [task EXCEPT ![c].pc = pc, ![c].snap = {}]

(* The handler of c returns r, and with it the agent that forwarded the    *)
(* request: the read guards are dropped.                                   *)
Answer(req, i, r) ==
  [IdleTask EXCEPT !.pc = "reply", !.req = req, !.inst = i, !.reply = r]

Reply(c, r) ==
  task' = [task EXCEPT ![c] = Answer(task[c].req, task[c].inst, r)]

(* Mutant: the newest put overtakes the ones already queued.               *)
MutQueueFirst(q, r) == <<r>> \o q

(* Mutant: a channel of capacity one that keeps the newest put.            *)
MutQueueLatest(q, r) == <<r>>

(* subscribe_instances: every put is sent on an unbounded FIFO channel.    *)
Queue(q, r) == Append(q, r)

(* The plugin of node n writes r to the local store; the subscription of   *)
(* the node's agent sees the put.                                          *)
LocalPut(n, r) ==
  /\ local' = [local EXCEPT ![n] = add_instance(@, r)]
  /\ chan' = [chan EXCEPT ![n] = Queue(@, r)]

(* Every record of an instance, wherever it is.                            *)
AllRecords ==
  global \cup (UNION {local[n] : n \in Nodes})
         \cup (UNION {{chan[n][k] : k \in 1 .. Len(chan[n])} : n \in Nodes})
         \cup (UNION {task[c].snap : c \in Clients})

(* Namespace uuids that no namespace and no record of a configured         *)
(* instance carries: drawing one of them is drawing a fresh uuid, since    *)
(* the uuid in a DEFINED record is never read again.                       *)
FreshNetNs ==
  {x \in NetNs :
     /\ \A n \in Nodes : x \notin netns[n]
     /\ \A r \in AllRecords : r.netns = x => r.status = "DEFINED"}

(* The bound on namespaces: a configure is requested only while there is a *)
(* uuid left for every client, so that the bound stops no handler halfway. *)
NetNsLeft == Cardinality(FreshNetNs) >= Cardinality(Clients)

(* The bound on the monitoring tasks' backlog, which the code leaves        *)
(* unbounded: a stop and a start sent over and over by two clients, each   *)
(* answered from a stale global record, outrun the monitoring task.        *)
LagBounded == \A n \in Nodes : Len(chan[n]) <= MaxLag

(* Requests a client may issue when Exclusive: nobody works on i.          *)
Free(i) == \A c \in Clients : task[c].inst # i

-----------------------------------------------------------------------------
(* The agent's handlers                                                    *)

(* Onboarding again writes the same descriptor, a step that changes        *)
(* nothing.                                                                *)
onboard_fdu(f) ==
  /\ f \notin catalog
  /\ catalog' = catalog \cup {f}
  /\ UNCHANGED <<global, local, chan, netns, used, lockVars, task>>

(* define_fdu up to the call of the plugin: take the read lock, get the    *)
(* descriptor, find the plugin.  The uuid the plugin is going to draw is   *)
(* chosen here, so that the bound on uuids is a guard of the request.      *)
define_fdu(c, n, f) ==
  /\ task[c].pc = "idle"
  /\ writer[n] = "none"
  /\ \E i \in Instances \ used :
       /\ Free(i)
       /\ \/ /\ f \in catalog /\ hypervisors[n]
             /\ task' = [task EXCEPT ![c] =
                  [NewTask("define", n, i, f) EXCEPT !.pc = "define",
                                                     !.held = {n}]]
          \/ /\ ~(f \in catalog /\ hypervisors[n])
             /\ task' = [task EXCEPT ![c] =
                  Answer("define", None, "NotFound")]
  /\ UNCHANGED <<storeVars, lockVars>>

(* The first half of configure_fdu, start_fdu, stop_fdu, clean_fdu and     *)
(* undefine_fdu at agent n, for the request t of client c: read lock, then *)
(* the instance from the global store; n either owns it or forwards.       *)
Enter(c, t, n) ==
  LET m == get_instance(global, t.inst)
  IN /\ writer[n] = "none"
     /\ \/ \E r \in m :
             /\ m = {r}
             /\ r.node = n
             /\ task' = [task EXCEPT ![c] =
                  [t EXCEPT !.pc = "descriptor", !.held = @ \cup {n},
                            !.fdu = r.fdu_uuid]]
        \/ \E r \in m :
             /\ m = {r}
             /\ r.node # n
             /\ task' = [task EXCEPT ![c] =
                  [t EXCEPT !.pc = "forward", !.held = @ \cup {n},
                            !.agent = r.node, !.op = ForwardedAs(@)]]
        \/ /\ \A r \in m : m # {r}
           /\ task' = [task EXCEPT ![c] =
                Answer(t.req, t.inst, LookupError(m))]

Request(c, op, n, i) ==
  /\ task[c].pc = "idle"
  /\ op \in Asked
  /\ i \in used
  /\ Exclusive => Free(i)
  /\ LagBounded
  /\ op = "configure" => NetNsLeft
  /\ Enter(c, NewTask(op, n, i, None), n)
  /\ UNCHANGED <<storeVars, lockVars>>

(* The forwarded call is served by the owner.                              *)
Arrive(c) ==
  /\ task[c].pc = "forward"
  /\ Enter(c, task[c], task[c].agent)
  /\ UNCHANGED <<storeVars, lockVars>>

(* Mutant: the call to the owner has no timeout.                           *)
MutForwardTimeout(c) ==
  /\ task[c].held \ {task[c].agent} # {}
  /\ UNCHANGED <<storeVars, lockVars, task>>

(* The 60 s timeout of the call to the owner: the forwarding handler       *)
(* returns and drops its guard, the owner's goes on.                       *)
ForwardTimeout(c) ==
  /\ task[c].held \ {task[c].agent} # {}
  /\ task' = [task EXCEPT ![c].held = @ \cap {task[c].agent}]
  /\ UNCHANGED <<storeVars, lockVars>>

(* The second half, at the owner: the descriptor, then the plugin.         *)
GetDescriptor(c) ==
  /\ task[c].pc = "descriptor"
  /\ \/ /\ task[c].fdu \in catalog /\ hypervisors[task[c].agent]
        /\ Goto(c, "plugin")
     \/ /\ ~(task[c].fdu \in catalog /\ hypervisors[task[c].agent])
        /\ Reply(c, "NotFound")
  /\ UNCHANGED <<storeVars, lockVars>>

(* Mutant: the handler answers as soon as the plugin has.                  *)
MutPoll(c) ==
  /\ task[c].pc = "poll"
  /\ Reply(c, "Ok")
  /\ UNCHANGED <<storeVars, lockVars>>

(* One round of the polling loop that ends it; the other rounds change     *)
(* nothing.                                                                *)
Poll(c) ==
  LET m == get_instance(global, task[c].inst)
  IN /\ task[c].pc = "poll"
     /\ \E r \in m : m = {r} => r.status = Target(task[c].op)
     /\ Reply(c, IF \E r \in m : m = {r} THEN "Ok" ELSE "TooMuchError")
     /\ UNCHANGED <<storeVars, lockVars>>

(* undefine_fdu after its plugin call: the global record is removed.       *)
RemoveGlobal(c) ==
  LET m == get_instance(global, task[c].inst)
  IN /\ task[c].pc = "remove"
     /\ \/ \E r \in m :
             /\ m = {r}
             /\ global' = remove_instance(global, r)
             /\ Reply(c, "Ok")
        \/ /\ \A r \in m : m # {r}
           /\ Reply(c, LookupError(m))
           /\ UNCHANGED global
     /\ UNCHANGED <<catalog, local, chan, netns, used, lockVars>>

(* offload_fdu: the checks, and then the removal.  It takes no lock.       *)
offload_fdu(c, f) ==
  /\ task[c].pc = "idle"
  /\ \/ /\ f \notin catalog
        /\ task' = [task EXCEPT ![c] = Answer("offload", None, "NotFound")]
     \/ /\ f \in catalog
        /\ get_all_fdu_instances(global, f) # {}
        /\ task' = [task EXCEPT ![c] = Answer("offload", None, "HasInstances")]
     \/ /\ f \in catalog
        /\ get_all_fdu_instances(global, f) = {}
        /\ task' = [task EXCEPT ![c] =
             [NewTask("offload", None, None, f) EXCEPT !.pc = "offload"]]
  /\ UNCHANGED <<storeVars, lockVars>>

RemoveFdu(c) ==
  /\ task[c].pc = "offload"
  /\ catalog' = catalog \ {task[c].fdu}
  /\ Reply(c, "Ok")
  /\ UNCHANGED <<global, local, chan, netns, used, lockVars>>

(* The reply reaches the client, which may then send its next request.     *)
Return(c) ==
  /\ task[c].pc = "reply"
  /\ task' = [task EXCEPT ![c] = IdleTask]
  /\ UNCHANGED <<storeVars, lockVars>>

-----------------------------------------------------------------------------
(* The hypervisor plugin of the agent that handles the request             *)

(* Mutant: the uuid of the instance is not drawn afresh every time.        *)
MutPluginDefine(c) ==
  LET n == task[c].agent
  IN /\ task[c].pc = "define"
     /\ LocalPut(n, [uuid |-> task[c].inst, fdu_uuid |-> task[c].fdu,
                     node |-> n, status |-> "DEFINED", netns |-> None])
     /\ Goto(c, "poll")
     /\ UNCHANGED <<catalog, global, netns, used, lockVars>>

PluginDefine(c) ==
  LET n == task[c].agent
  IN /\ task[c].pc = "define"
     /\ LocalPut(n, [uuid |-> task[c].inst, fdu_uuid |-> task[c].fdu,
                     node |-> n, status |-> "DEFINED", netns |-> None])
     /\ used' = used \cup {task[c].inst}
     /\ Goto(c, "poll")
     /\ UNCHANGED <<catalog, global, netns, lockVars>>

(* The read and the check of the status, before the plugin's write lock.   *)
PluginGet(c) ==
  LET m == get_instance(local[task[c].agent], task[c].inst)
  IN /\ task[c].pc = "plugin"
     /\ \/ \E r \in m :
             /\ m = {r}
             /\ r.status \in Required(task[c].op)
             /\ task' = [task EXCEPT ![c].pc = "lock", ![c].snap = m]
        \/ \E r \in m :
             /\ m = {r}
             /\ r.status \notin Required(task[c].op)
             /\ Reply(c, "TransitionNotAllowed")
        \/ /\ \A r \in m : m # {r}
           /\ Reply(c, LookupError(m))
     /\ UNCHANGED <<storeVars, lockVars>>

(* The plugin is past its check, with the record r it read then.           *)
Holds(c, op, r) ==
  /\ task[c].pc = "lock"
  /\ task[c].op = op
  /\ r \in task[c].snap

(* start_fdu and stop_fdu: the record read earlier, with a new status.     *)
PluginSwitch(c) ==
  /\ \E op \in {"start", "stop"} : \E r \in task[c].snap :
       /\ Holds(c, op, r)
       /\ LocalPut(task[c].agent, [r EXCEPT !.status = Target(op)])
  /\ Goto(c, "poll")
  /\ UNCHANGED <<catalog, global, netns, used, lockVars>>

(* configure_fdu: descriptor, namespace, connection points, interfaces.    *)
(* An interface that names a missing connection point fails the call after *)
(* the namespace has been created.                                         *)
PluginConfigure(c) ==
  LET n == task[c].agent
      ns == CHOOSE x \in FreshNetNs : TRUE
  IN \E r \in task[c].snap :
       /\ Holds(c, "configure", r)
       /\ \/ /\ r.fdu_uuid \notin catalog
             /\ Reply(c, "NotFound")
             /\ UNCHANGED <<local, chan, netns>>
          \/ /\ r.fdu_uuid \in catalog
             /\ FreshNetNs # {}
             /\ netns' = [netns EXCEPT ![n] = @ \cup {ns}]
             /\ IF r.fdu_uuid \in BadFdus
                  THEN Reply(c, "NotFound") /\ UNCHANGED <<local, chan>>
                  ELSE /\ LocalPut(n, [r EXCEPT !.status = Target("configure"),
                                                !.netns = ns])
                       /\ Goto(c, "poll")
       /\ UNCHANGED <<catalog, global, used, lockVars>>

(* Mutant: cleaning leaves the namespace behind.                           *)
MutPluginClean(c) ==
  LET n == task[c].agent
  IN \E r \in task[c].snap :
       /\ Holds(c, "clean", r)
       /\ LocalPut(n, [r EXCEPT !.status = Target("clean")])
       /\ Goto(c, "poll")
       /\ UNCHANGED <<catalog, global, netns, used, lockVars>>

(* clean_fdu: the namespace named by the record read earlier is deleted.   *)
(* The record keeps its name.                                              *)
PluginClean(c) ==
  LET n == task[c].agent
  IN \E r \in task[c].snap :
       /\ Holds(c, "clean", r)
       /\ \/ /\ r.netns \in netns[n]
             /\ netns' = [netns EXCEPT ![n] = @ \ {r.netns}]
             /\ LocalPut(n, [r EXCEPT !.status = Target("clean")])
             /\ Goto(c, "poll")
          \/ /\ r.netns \notin netns[n]
             /\ Reply(c, "NotFound")
             /\ UNCHANGED <<local, chan, netns>>
       /\ UNCHANGED <<catalog, global, used, lockVars>>

(* undefine_fdu: the local record is removed; removals are not queued.     *)
PluginUndefine(c) ==
  LET n == task[c].agent
      m == get_instance(local[n], task[c].inst)
  IN /\ \E r \in task[c].snap : Holds(c, "undefine", r)
     /\ \/ \E r \in m :
             /\ m = {r}
             /\ local' = [local EXCEPT ![n] = remove_instance(@, r)]
             /\ Goto(c, "remove")
        \/ /\ \A r \in m : m # {r}
           /\ Reply(c, LookupError(m))
           /\ UNCHANGED local
     /\ UNCHANGED <<catalog, global, chan, netns, used, lockVars>>

-----------------------------------------------------------------------------
(* The monitoring task, and the registration of plugins                    *)

(* monitoring_fdus: the oldest put is copied to the global store.          *)
Monitor(n) ==
  /\ chan[n] # <<>>
  /\ global' = add_instance(global, Head(chan[n]))
  /\ chan' = [chan EXCEPT ![n] = Tail(@)]
  /\ UNCHANGED <<catalog, local, netns, used, lockVars, task>>

(* The plugin calls register_plugin or unregister_plugin, which waits for  *)
(* the agent's write lock.  A waiting writer keeps new readers out.        *)
PluginCall(n, kind) ==
  /\ writer[n] = "none"
  /\ \/ kind = "register" /\ ~hypervisors[n]
     \/ kind = "unregister" /\ hypervisors[n] /\ n \in Restartable
  /\ writer' = [writer EXCEPT ![n] = kind]
  /\ UNCHANGED <<storeVars, hypervisors, task>>

(* The write lock is granted.                                              *)
PluginAdmit(n) ==
  /\ writer[n] # "none"
  /\ Readers(n) = {}
  /\ hypervisors' = [hypervisors EXCEPT ![n] = (writer[n] = "register")]
  /\ writer' = [writer EXCEPT ![n] = "none"]
  /\ UNCHANGED <<storeVars, task>>

-----------------------------------------------------------------------------

PluginStep(c) ==
  \/ PluginDefine(c)
  \/ PluginGet(c)
  \/ PluginSwitch(c)
  \/ PluginConfigure(c)
  \/ PluginClean(c)
  \/ PluginUndefine(c)

(* A step of a handler in progress that waits for no lock.                 *)
HandlerStep(c) ==
  \/ GetDescriptor(c)
  \/ Poll(c)
  \/ RemoveGlobal(c)
  \/ RemoveFdu(c)
  \/ Return(c)

Next ==
  \/ \E f \in Fdus : onboard_fdu(f)
  \/ \E c \in Clients :
       \/ \E n \in Nodes, f \in Fdus : define_fdu(c, n, f)
       \/ \E op \in InstanceOps, n \in Nodes, i \in Instances :
            Request(c, op, n, i)
       \/ \E f \in Fdus : offload_fdu(c, f)
       \/ Arrive(c)
       \/ ForwardTimeout(c)
       \/ HandlerStep(c)
       \/ PluginStep(c)
  \/ \E n \in Nodes :
       \/ Monitor(n)
       \/ \E kind \in {"register", "unregister"} : PluginCall(n, kind)
       \/ PluginAdmit(n)

Spec == Init /\ [][Next]_vars

(* Every task of the async runtime is eventually polled, an RPC that is    *)
(* not answered times out, and the read lock of an agent is not withheld   *)
(* forever by registrations that come and go.                              *)
Fairness ==
  /\ \A c \in Clients :
       /\ WF_vars(HandlerStep(c))
       /\ WF_vars(PluginStep(c))
       /\ WF_vars(ForwardTimeout(c))
       /\ SF_vars(Arrive(c))
  /\ \A n \in Nodes : WF_vars(Monitor(n)) /\ WF_vars(PluginAdmit(n))

FairSpec == Spec /\ Fairness

-----------------------------------------------------------------------------
(* Properties that hold whatever the clients do                            *)

(* All copies of an instance - in the global store, in a local store, in   *)
(* the channel of a monitoring task, in the hands of a plugin - agree on   *)
(* its node and its descriptor.  Hence get_instance never finds two paths  *)
(* (zconnector/mod.rs:919 never answers TooMuchError) and the instance has *)
(* one owner, so a request is forwarded at most once.                      *)
OneIdentity ==
  \A r, s \in AllRecords :
    r.uuid = s.uuid => r.node = s.node /\ r.fdu_uuid = s.fdu_uuid

(* A record of instance i is still queued on the way to the global store.  *)
Queued(n, i) == \E k \in 1 .. Len(chan[n]) : chan[n][k].uuid = i

(* The global store converges to the local one: the last queued put of an  *)
(* instance is its local record, and once nothing is queued the global     *)
(* record, if there is one, equals the local record.  This is what the     *)
(* polling loops of the agent's handlers rely on.                          *)
GlobalFollowsLocal ==
  \A n \in Nodes : \A r \in local[n] :
    /\ \A k \in 1 .. Len(chan[n]) :
         /\ chan[n][k].uuid = r.uuid
         /\ \A j \in k + 1 .. Len(chan[n]) : chan[n][j].uuid # r.uuid
         => chan[n][k] = r
    /\ ~Queued(n, r.uuid) =>
         \A g \in global : g.uuid = r.uuid => g = r

-----------------------------------------------------------------------------
(* Properties that hold when no two requests are for the same instance     *)

Has(store, i) == get_instance(store, i) # {}

(* No ghosts: a record in the global store belongs to an instance that the *)
(* owner still has, or whose undefine_fdu is about to remove the record.   *)
(* A put forwarded by the monitoring task after the removal would leave a  *)
(* record nobody can remove, and its descriptor could never be offloaded.  *)
NoGhostRecord ==
  \A r \in global :
    \/ Has(local[r.node], r.uuid)
    \/ \E c \in Clients : task[c].pc = "remove" /\ task[c].inst = r.uuid

(* No lost instance: an instance the owner has is in the global store or   *)
(* on its way there, so some agent can still be asked to remove it.        *)
NoHiddenInstance ==
  \A n \in Nodes : \A r \in local[n] :
    Has(global, r.uuid) \/ Queued(n, r.uuid)

(* The namespaces on a node are those of its configured instances: a       *)
(* configure, clean and configure again neither leaks one nor leaves a     *)
(* configured instance without.                                            *)
NetNsAccounted ==
  \A n \in Nodes :
    netns[n] = {r.netns : r \in {s \in local[n] : s.status # "DEFINED"}}

(* What the node does to an instance is a path of the abstract life cycle. *)
LocalState(i) ==
  IF \E n \in Nodes : Has(local[n], i)
    THEN LET n == CHOOSE m \in Nodes : Has(local[m], i)
         IN (CHOOSE r \in local[n] : r.uuid = i).status
    ELSE IF i \in used THEN "gone" ELSE "none"

LocalAbs == INSTANCE FduAbstract WITH st <- [i \in Instances |-> LocalState(i)]
LocalLifecycle == LocalAbs!Spec

(* What clients see of an instance in the global store is one too: the     *)
(* monitoring task skips no state, repeats none out of order, and brings   *)
(* no instance back.                                                       *)
GlobalState(i) ==
  IF Has(global, i)
    THEN (CHOOSE r \in global : r.uuid = i).status
    ELSE IF i \in used /\ \A n \in Nodes : ~Has(local[n], i)
           THEN "gone" ELSE "none"

GlobalAbs ==
  INSTANCE FduAbstract WITH st <- [i \in Instances |-> GlobalState(i)]
GlobalLifecycle == GlobalAbs!Spec

(* Every request is answered: the polling loop of a handler, which has no  *)
(* bound of its own, sees the status it waits for.                         *)
RequestsAnswered ==
  \A c \in Clients : task[c].pc # "idle" ~> task[c].pc = "reply"

(* A plugin that asks to be registered or unregistered gets the agent's    *)
(* write lock: no handler keeps its read guard forever.                    *)
PluginsAdmitted == \A n \in Nodes : writer[n] # "none" ~> writer[n] = "none"

(* plugins.rs:298 says of undefine_fdu "Undefines the given instance": a   *)
(* client whose undefine_fdu was answered Ok finds no record of it.        *)
UndefineRemoves ==
  \A c \in Clients :
    task[c].pc = "reply" /\ task[c].req = "undefine" /\ task[c].reply = "Ok"
      => ~Has(global, task[c].inst)
=============================================================================
