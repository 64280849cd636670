------------------------- MODULE FduLifecycleProofs -------------------------
(***************************************************************************)
(* What holds of FduLifecycle, for every number of nodes, descriptors,     *)
(* instances and clients.                                                  *)
(*                                                                         *)
(* Whatever the clients do: the types, the copies of an instance agree on  *)
(* its identity, and the global store follows the local ones.  For the     *)
(* last two the steps are first reduced to what they do to the stores      *)
(* (StoreEffect) and to one request (TaskEffect); the invariants are then  *)
(* shown to survive each effect.                                           *)
(*                                                                         *)
(* When no two requests are for the same instance at once: no ghost in the *)
(* global store, no instance hidden from it, namespaces accounted for, and *)
(* each of the two views of an instance a life cycle of FduAbstract.  The  *)
(* invariant says where the records of an instance are in each phase of    *)
(* the one request that may be working on it.  Only two phases disturb the *)
(* agreement of the two stores (Settled): the handler polls for a put that *)
(* may still be queued, or it is about to remove the global record.        *)
(***************************************************************************)
EXTENDS FduLifecycle, TLAPS

-----------------------------------------------------------------------------
(* Type correctness                                                        *)

(* The phases of a request in which an agent is responsible for it.        *)
Busy == {"define", "descriptor", "forward", "plugin", "lock", "poll", "remove"}

(* What a request knows in the phases that use it.                         *)
TaskKnows ==
  \A c \in Clients :
    /\ task[c].pc \in Busy => task[c].agent \in Nodes
    /\ task[c].pc = "define" => task[c].inst \in Instances
                             /\ task[c].fdu \in Fdus /\ task[c].op = "define"
    /\ task[c].pc = "forward" => task[c].op \in Ops

TypeInv == TypeOK /\ TaskKnows

(* Writing a record keeps a store a set of records.                        *)
LEMMA StoreTypes ==
  ASSUME NEW store \in SUBSET FDURecord, NEW r \in FDURecord
  PROVE  /\ add_instance(store, r) \in SUBSET FDURecord
         /\ remove_instance(store, r) \in SUBSET FDURecord
BY DEF add_instance, remove_instance

(* A put of a record keeps the types of a node's store and channel.        *)
LEMMA LocalPutTypes ==
  ASSUME TypeOK, NEW n \in Nodes, NEW r \in FDURecord, LocalPut(n, r)
  PROVE  /\ local' \in [Nodes -> SUBSET FDURecord]
         /\ chan' \in [Nodes -> Seq(FDURecord)]
<1>1. add_instance(local[n], r) \in SUBSET FDURecord
  BY StoreTypes DEF TypeOK
<1>2. Append(chan[n], r) \in Seq(FDURecord)
  BY DEF TypeOK
<1>3. QED BY <1>1, <1>2 DEF LocalPut, Queue, TypeOK

LEMMA IdleTaskType == IdleTask \in Task
BY DEF IdleTask, Task, Pcs

LEMMA AnswerType ==
  ASSUME NEW req \in Ops \cup {None}, NEW i \in Instances \cup {None},
         NEW r \in Replies
  PROVE  /\ Answer(req, i, r) \in Task
         /\ Answer(req, i, r).pc = "reply"
BY DEF Answer, IdleTask, Task, Pcs

LEMMA NewTaskType ==
  ASSUME NEW op \in Ops, NEW n \in Nodes \cup {None},
         NEW i \in Instances \cup {None}, NEW f \in Fdus \cup {None}
  PROVE  /\ NewTask(op, n, i, f) \in Task
         /\ NewTask(op, n, i, f).op = op
         /\ NewTask(op, n, i, f).agent = n
         /\ NewTask(op, n, i, f).inst = i
         /\ NewTask(op, n, i, f).fdu = f
         /\ NewTask(op, n, i, f).snap = {}
BY DEF NewTask, IdleTask, Task, Pcs

LEMMA ReplyTypes ==
  ASSUME TypeInv, NEW c \in Clients, NEW r \in Replies, Reply(c, r)
  PROVE  task' \in [Clients -> Task] /\ TaskKnows'
<1>1. task[c].req \in Ops \cup {None} /\ task[c].inst \in Instances \cup {None}
  BY DEF TypeInv, TypeOK, Task
<1>2. QED BY <1>1, AnswerType DEF Reply, TypeInv, TypeOK, TaskKnows, Busy

LEMMA GotoTypes ==
  ASSUME TypeInv, NEW c \in Clients, task[c].pc \in Busy,
         NEW pc \in Pcs \ {"define", "forward"}, Goto(c, pc)
  PROVE  task' \in [Clients -> Task] /\ TaskKnows'
<1>1. task[c] \in Task
  BY DEF TypeInv, TypeOK
<1>2. [task[c] EXCEPT !.pc = pc, !.snap = {}] \in Task
  BY <1>1 DEF Task
<1>3. task' = [task EXCEPT ![c] = [task[c] EXCEPT !.pc = pc, !.snap = {}]]
  BY DEF Goto, TypeInv, TypeOK, Task
<1>4. QED BY <1>1, <1>2, <1>3 DEF TypeInv, TypeOK, TaskKnows, Task

(* A handler that enters an agent is well typed, whatever it finds.        *)
LEMMA EnterTypes ==
  ASSUME TypeInv, NEW c \in Clients, NEW t \in Task, NEW n \in Nodes,
         t.agent = n, t.op \in Ops, t.pc \in {"idle", "forward"}, Enter(c, t, n)
  PROVE  task' \in [Clients -> Task] /\ TaskKnows'
<1> DEFINE m == get_instance(global, t.inst)
<1>1. CASE \E r \in m : /\ r.node = n
                        /\ task' = [task EXCEPT ![c] =
                             [t EXCEPT !.pc = "descriptor", !.held = @ \cup {n},
                                       !.fdu = r.fdu_uuid]]
  <2>1. PICK r \in m : task' = [task EXCEPT ![c] =
                         [t EXCEPT !.pc = "descriptor", !.held = @ \cup {n},
                                   !.fdu = r.fdu_uuid]]
    BY <1>1
  <2>2. r \in FDURecord
    BY DEF get_instance, TypeInv, TypeOK
  <2>3. [t EXCEPT !.pc = "descriptor", !.held = @ \cup {n},
                  !.fdu = r.fdu_uuid] \in Task
    BY <2>2 DEF Task, Pcs, FDURecord
  <2>4. t.agent \in Nodes
    OBVIOUS
  <2>5. QED BY <2>1, <2>3, <2>4 DEF TypeInv, TypeOK, TaskKnows, Task
<1>2. CASE \E r \in m : /\ r.node # n
                        /\ task' = [task EXCEPT ![c] =
                             [t EXCEPT !.pc = "forward", !.held = @ \cup {n},
                                       !.agent = r.node, !.op = ForwardedAs(@)]]
  <2>1. PICK r \in m : task' = [task EXCEPT ![c] =
                         [t EXCEPT !.pc = "forward", !.held = @ \cup {n},
                                   !.agent = r.node, !.op = ForwardedAs(@)]]
    BY <1>2
  <2>2. r \in FDURecord
    BY DEF get_instance, TypeInv, TypeOK
  <2>3. ForwardedAs(t.op) \in Ops
    BY DEF ForwardedAs, Ops, InstanceOps
  <2>4. [t EXCEPT !.pc = "forward", !.held = @ \cup {n},
                  !.agent = r.node, !.op = ForwardedAs(@)] \in Task
    BY <2>2, <2>3 DEF Task, Pcs, FDURecord
  <2>5. r.node \in Nodes
    BY <2>2 DEF FDURecord
  <2>6. task' \in [Clients -> Task]
    BY <2>1, <2>4 DEF TypeInv, TypeOK
  <2>7. /\ task'[c].pc = "forward" /\ task'[c].agent = r.node
        /\ task'[c].op = ForwardedAs(t.op)
        /\ \A d \in Clients \ {c} : task'[d] = task[d]
    BY <2>1 DEF TypeInv, TypeOK, Task
  <2>8. QED BY <2>3, <2>5, <2>6, <2>7 DEF TypeInv, TaskKnows
<1>3. CASE task' = [task EXCEPT ![c] = Answer(t.req, t.inst, LookupError(m))]
  <2>1. LookupError(m) \in Replies
    BY DEF LookupError, Replies
  <2>2. t.req \in Ops \cup {None} /\ t.inst \in Instances \cup {None}
    BY DEF Task
  <2>3. QED BY <1>3, <2>1, <2>2, AnswerType
            DEF TypeInv, TypeOK, TaskKnows, Busy
<1>4. QED BY <1>1, <1>2, <1>3 DEF Enter

(* Every step keeps the types: one case per action.                        *)
LEMMA TypeInit == Init => TypeInv
BY IdleTaskType DEF Init, TypeInv, TypeOK, TaskKnows, IdleTask, Busy

LEMMA TypeStep == TypeInv /\ [Next]_vars => TypeInv'
<1> SUFFICES ASSUME TypeInv, [Next]_vars PROVE TypeInv'
  OBVIOUS
<1> USE DEF TypeInv
<1>1. ASSUME NEW f \in Fdus, onboard_fdu(f) PROVE TypeInv'
  BY <1>1 DEF onboard_fdu, TypeOK, TaskKnows, lockVars
<1>2. ASSUME NEW c \in Clients, NEW n \in Nodes, NEW f \in Fdus,
             define_fdu(c, n, f)
      PROVE  TypeInv'
  <2>1. PICK i \in Instances :
          \/ task' = [task EXCEPT ![c] =
               [NewTask("define", n, i, f) EXCEPT !.pc = "define",
                                                  !.held = {n}]]
          \/ task' = [task EXCEPT ![c] = Answer("define", None, "NotFound")]
    BY <1>2 DEF define_fdu
  <2>2. CASE task' = [task EXCEPT ![c] =
               [NewTask("define", n, i, f) EXCEPT !.pc = "define",
                                                  !.held = {n}]]
    <3>1. [NewTask("define", n, i, f) EXCEPT !.pc = "define", !.held = {n}]
            \in Task
      BY DEF NewTask, IdleTask, Task, Pcs, Ops
    <3>2. QED BY <1>2, <2>2, <3>1
              DEF define_fdu, NewTask, IdleTask, TypeOK, TaskKnows, storeVars, lockVars
  <2>3. CASE task' = [task EXCEPT ![c] = Answer("define", None, "NotFound")]
    <3>1. Answer("define", None, "NotFound") \in Task
      BY AnswerType DEF Ops, Replies
    <3>2. QED BY <1>2, <2>3, <3>1
              DEF define_fdu, Answer, IdleTask, TypeOK, TaskKnows, storeVars, lockVars, Busy
  <2>4. QED BY <2>1, <2>2, <2>3
<1>3. ASSUME NEW c \in Clients, NEW op \in InstanceOps, NEW n \in Nodes,
             NEW i \in Instances, Request(c, op, n, i)
      PROVE  TypeInv'
  <2>1. NewTask(op, n, i, None) \in Task
    BY NewTaskType DEF Ops
  <2>2. /\ NewTask(op, n, i, None).agent = n
        /\ NewTask(op, n, i, None).op \in Ops
        /\ NewTask(op, n, i, None).pc = "idle"
    BY DEF NewTask, IdleTask, Ops
  <2>3. task' \in [Clients -> Task] /\ TaskKnows'
    BY <1>3, <2>1, <2>2, EnterTypes DEF Request
  <2>4. QED BY <1>3, <2>3 DEF Request, TypeOK, storeVars, lockVars
<1>4. ASSUME NEW c \in Clients, NEW f \in Fdus, offload_fdu(c, f)
      PROVE  TypeInv'
  <2>1. PICK t \in Task : /\ task' = [task EXCEPT ![c] = t]
                          /\ t.pc \in {"reply", "offload"}
    <3>1. /\ Answer("offload", None, "NotFound") \in Task
          /\ Answer("offload", None, "HasInstances") \in Task
          /\ Answer("offload", None, "NotFound").pc = "reply"
          /\ Answer("offload", None, "HasInstances").pc = "reply"
      BY AnswerType DEF Ops, Replies
    <3>2. [NewTask("offload", None, None, f) EXCEPT !.pc = "offload"] \in Task
      BY DEF NewTask, IdleTask, Task, Pcs, Ops
    <3>3. [NewTask("offload", None, None, f) EXCEPT !.pc = "offload"].pc
            = "offload"
      BY DEF NewTask, IdleTask
    <3>4. QED BY <1>4, <3>1, <3>2, <3>3 DEF offload_fdu
  <2>2. QED BY <1>4, <2>1
            DEF offload_fdu, TypeOK, TaskKnows, storeVars, lockVars, Busy
<1>5. ASSUME NEW c \in Clients, Arrive(c) PROVE TypeInv'
  <2>1. task[c] \in Task /\ task[c].agent \in Nodes
    BY <1>5 DEF Arrive, TypeOK, TaskKnows, Busy
  <2>2. task[c].op \in Ops /\ task[c].pc = "forward"
    BY <1>5 DEF Arrive, TaskKnows
  <2>3. QED BY <1>5, <2>1, <2>2, EnterTypes
            DEF Arrive, TypeOK, storeVars, lockVars
<1>6. ASSUME NEW c \in Clients, ForwardTimeout(c) PROVE TypeInv'
  <2>1. [task[c] EXCEPT !.held = @ \cap {task[c].agent}] \in Task
    BY DEF TypeOK, Task
  <2>2. task' = [task EXCEPT ![c] =
                   [task[c] EXCEPT !.held = @ \cap {task[c].agent}]]
    BY <1>6 DEF ForwardTimeout, TypeOK, Task
  <2>3. task' \in [Clients -> Task]
    BY <2>1, <2>2 DEF TypeOK
  <2>4. \A d \in Clients :
          /\ task'[d].pc = task[d].pc /\ task'[d].agent = task[d].agent
          /\ task'[d].inst = task[d].inst /\ task'[d].fdu = task[d].fdu
          /\ task'[d].op = task[d].op
    BY <2>2 DEF TypeOK, Task
  <2>5. TaskKnows'
    BY <2>4 DEF TaskKnows
  <2>6. QED BY <1>6, <2>3, <2>5 DEF ForwardTimeout, TypeOK, storeVars, lockVars
<1>7. ASSUME NEW c \in Clients, HandlerStep(c) PROVE TypeInv'
  <2>1. CASE GetDescriptor(c)
    <3>1. CASE Goto(c, "plugin")
      <4>1. task' \in [Clients -> Task] /\ TaskKnows'
        BY <2>1, <3>1, GotoTypes DEF GetDescriptor, Pcs, Busy
      <4>2. QED BY <2>1, <4>1 DEF GetDescriptor, TypeOK, storeVars, lockVars
    <3>2. CASE Reply(c, "NotFound")
      <4>1. task' \in [Clients -> Task] /\ TaskKnows'
        BY <3>2, ReplyTypes DEF Replies
      <4>2. QED BY <2>1, <4>1 DEF GetDescriptor, TypeOK, storeVars, lockVars
    <3>3. QED BY <2>1, <3>1, <3>2 DEF GetDescriptor
  <2>2. CASE Poll(c)
    <3>1. PICK r \in Replies : Reply(c, r)
      BY <2>2 DEF Poll, Replies
    <3>2. task' \in [Clients -> Task] /\ TaskKnows'
      BY <3>1, ReplyTypes
    <3>3. QED BY <2>2, <3>2 DEF Poll, TypeOK, storeVars, lockVars
  <2>3. CASE RemoveGlobal(c)
    <3>1. PICK r \in Replies : Reply(c, r)
      BY <2>3 DEF RemoveGlobal, LookupError, Replies
    <3>2. task' \in [Clients -> Task] /\ TaskKnows'
      BY <3>1, ReplyTypes
    <3>3. global' \subseteq global
      BY <2>3 DEF RemoveGlobal, remove_instance
    <3>4. QED BY <2>3, <3>2, <3>3 DEF RemoveGlobal, TypeOK, lockVars
  <2>4. CASE RemoveFdu(c)
    <3>1. task' \in [Clients -> Task] /\ TaskKnows'
      BY <2>4, ReplyTypes DEF RemoveFdu, Replies
    <3>2. QED BY <2>4, <3>1 DEF RemoveFdu, TypeOK, lockVars
  <2>5. CASE Return(c)
    BY <2>5, IdleTaskType
       DEF Return, IdleTask, TypeOK, TaskKnows, Busy, storeVars, lockVars
  <2>6. QED BY <1>7, <2>1, <2>2, <2>3, <2>4, <2>5 DEF HandlerStep
<1>8. ASSUME NEW c \in Clients, PluginStep(c) PROVE TypeInv'
  <2> DEFINE n == task[c].agent
  <2>0. \A r \in task[c].snap : r \in FDURecord
    BY DEF TypeOK, Task
  <2>1. CASE PluginDefine(c)
    <3> DEFINE r == [uuid |-> task[c].inst, fdu_uuid |-> task[c].fdu,
                     node |-> n, status |-> "DEFINED", netns |-> None]
    <3>1. task[c].pc = "define" /\ task[c].inst \in Instances
          /\ n \in Nodes /\ r \in FDURecord
      BY <2>1 DEF PluginDefine, TaskKnows, Busy, FDURecord, FDUState
    <3>2. /\ local' \in [Nodes -> SUBSET FDURecord]
          /\ chan' \in [Nodes -> Seq(FDURecord)]
      BY <2>1, <3>1, LocalPutTypes DEF PluginDefine
    <3>3. task' \in [Clients -> Task] /\ TaskKnows'
      BY <2>1, <3>1, GotoTypes DEF PluginDefine, Pcs, Busy
    <3>4. QED BY <2>1, <3>1, <3>2, <3>3 DEF PluginDefine, TypeOK, lockVars
  <2>2. CASE PluginGet(c)
    <3> DEFINE m == get_instance(local[n], task[c].inst)
    <3>1. task[c].pc = "plugin" /\ n \in Nodes
      BY <2>2 DEF PluginGet, TaskKnows, Busy
    <3>2. m \subseteq FDURecord
      BY <3>1 DEF TypeOK, get_instance
    <3>3. CASE task' = [task EXCEPT ![c].pc = "lock", ![c].snap = m]
      <4>1. [task[c] EXCEPT !.pc = "lock", !.snap = m] \in Task
        BY <3>2 DEF TypeOK, Task, Pcs
      <4>2. task' = [task EXCEPT ![c] =
                       [task[c] EXCEPT !.pc = "lock", !.snap = m]]
        BY <3>3 DEF TypeOK, Task
      <4>3. QED BY <2>2, <3>1, <4>1, <4>2
                DEF PluginGet, TypeOK, TaskKnows, Task, storeVars, lockVars
    <3>4. CASE \E r \in Replies : Reply(c, r)
      <4>1. task' \in [Clients -> Task] /\ TaskKnows'
        BY <3>4, ReplyTypes
      <4>2. QED BY <2>2, <4>1 DEF PluginGet, TypeOK, storeVars, lockVars
    <3>5. QED BY <2>2, <3>3, <3>4 DEF PluginGet, LookupError, Replies
  <2>3. CASE PluginSwitch(c)
    <3>1. PICK op \in {"start", "stop"}, r \in task[c].snap :
            /\ Holds(c, op, r)
            /\ LocalPut(n, [r EXCEPT !.status = Target(op)])
      BY <2>3 DEF PluginSwitch
    <3>2. task[c].pc = "lock" /\ n \in Nodes
      BY <3>1 DEF Holds, TaskKnows, Busy
    <3>3. [r EXCEPT !.status = Target(op)] \in FDURecord
      BY <2>0 DEF FDURecord, FDUState, Target
    <3>4. /\ local' \in [Nodes -> SUBSET FDURecord]
          /\ chan' \in [Nodes -> Seq(FDURecord)]
      BY <3>1, <3>2, <3>3, LocalPutTypes
    <3>5. task' \in [Clients -> Task] /\ TaskKnows'
      BY <2>3, <3>2, GotoTypes DEF PluginSwitch, Pcs, Busy
    <3>6. QED BY <2>3, <3>4, <3>5 DEF PluginSwitch, TypeOK, lockVars
  <2>4. CASE PluginConfigure(c)
    <3> DEFINE ns == CHOOSE x \in FreshNetNs : TRUE
    <3>1. PICK r \in task[c].snap :
            /\ Holds(c, "configure", r)
            /\ \/ Reply(c, "NotFound") /\ UNCHANGED <<local, chan, netns>>
               \/ /\ FreshNetNs # {}
                  /\ netns' = [netns EXCEPT ![n] = @ \cup {ns}]
                  /\ \/ Reply(c, "NotFound") /\ UNCHANGED <<local, chan>>
                     \/ /\ LocalPut(n, [r EXCEPT !.status = Target("configure"),
                                                 !.netns = ns])
                        /\ Goto(c, "poll")
      BY <2>4 DEF PluginConfigure
    <3>2. task[c].pc = "lock" /\ n \in Nodes
      BY <3>1 DEF Holds, TaskKnows, Busy
    <3>3. FreshNetNs # {} => ns \in NetNs
      BY DEF FreshNetNs
    <3> HIDE DEF ns
    <3>4. netns' \in [Nodes -> SUBSET NetNs]
      <4>1. CASE UNCHANGED netns
        BY <4>1 DEF TypeOK
      <4>2. CASE ns \in NetNs /\ netns' = [netns EXCEPT ![n] = @ \cup {ns}]
        BY <3>2, <4>2 DEF TypeOK
      <4>3. QED BY <3>1, <3>3, <4>1, <4>2
    <3>5. /\ local' \in [Nodes -> SUBSET FDURecord]
          /\ chan' \in [Nodes -> Seq(FDURecord)]
      <4>1. CASE UNCHANGED <<local, chan>>
        BY <4>1 DEF TypeOK
      <4>2. CASE /\ FreshNetNs # {}
                 /\ LocalPut(n, [r EXCEPT !.status = Target("configure"),
                                          !.netns = ns])
        <5>1. [r EXCEPT !.status = Target("configure"), !.netns = ns]
                \in FDURecord
          BY <2>0, <3>3, <4>2 DEF FDURecord, FDUState, Target
        <5>2. QED BY <3>2, <4>2, <5>1, LocalPutTypes
      <4>3. QED BY <3>1, <4>1, <4>2
    <3>6. task' \in [Clients -> Task] /\ TaskKnows'
      <4>1. CASE Reply(c, "NotFound")
        BY <4>1, ReplyTypes DEF Replies
      <4>2. CASE Goto(c, "poll")
        BY <3>2, <4>2, GotoTypes DEF Pcs, Busy
      <4>3. QED BY <3>1, <4>1, <4>2
    <3>7. QED BY <2>4, <3>4, <3>5, <3>6 DEF PluginConfigure, TypeOK, lockVars
  <2>5. CASE PluginClean(c)
    <3>1. PICK r \in task[c].snap :
            /\ Holds(c, "clean", r)
            /\ \/ /\ netns' = [netns EXCEPT ![n] = @ \ {r.netns}]
                  /\ LocalPut(n, [r EXCEPT !.status = Target("clean")])
                  /\ Goto(c, "poll")
               \/ Reply(c, "NotFound") /\ UNCHANGED <<local, chan, netns>>
      BY <2>5 DEF PluginClean
    <3>2. task[c].pc = "lock" /\ n \in Nodes
      BY <3>1 DEF Holds, TaskKnows, Busy
    <3>3. netns' \in [Nodes -> SUBSET NetNs]
      BY <3>1 DEF TypeOK
    <3>4. /\ local' \in [Nodes -> SUBSET FDURecord]
          /\ chan' \in [Nodes -> Seq(FDURecord)]
      <4>1. CASE UNCHANGED <<local, chan>>
        BY <4>1 DEF TypeOK
      <4>2. CASE LocalPut(n, [r EXCEPT !.status = Target("clean")])
        <5>1. [r EXCEPT !.status = Target("clean")] \in FDURecord
          BY <2>0 DEF FDURecord, FDUState, Target
        <5>2. QED BY <3>2, <4>2, <5>1, LocalPutTypes
      <4>3. QED BY <3>1, <4>1, <4>2
    <3>5. task' \in [Clients -> Task] /\ TaskKnows'
      <4>1. CASE Reply(c, "NotFound")
        BY <4>1, ReplyTypes DEF Replies
      <4>2. CASE Goto(c, "poll")
        BY <3>2, <4>2, GotoTypes DEF Pcs, Busy
      <4>3. QED BY <3>1, <4>1, <4>2
    <3>6. QED BY <2>5, <3>3, <3>4, <3>5 DEF PluginClean, TypeOK, lockVars
  <2>6. CASE PluginUndefine(c)
    <3>1. task[c].pc = "lock" /\ n \in Nodes
      BY <2>6 DEF PluginUndefine, Holds, TaskKnows, Busy
    <3>2. local' \in [Nodes -> SUBSET FDURecord]
      BY <2>6, <3>1 DEF PluginUndefine, remove_instance, TypeOK
    <3>3. Goto(c, "remove") \/ \E r \in Replies : Reply(c, r)
      BY <2>6 DEF PluginUndefine, LookupError, Replies
    <3>4. task' \in [Clients -> Task] /\ TaskKnows'
      BY <3>1, <3>3, GotoTypes, ReplyTypes DEF Pcs, Busy
    <3>5. QED BY <2>6, <3>2, <3>4 DEF PluginUndefine, TypeOK, lockVars
  <2>7. QED BY <1>8, <2>1, <2>2, <2>3, <2>4, <2>5, <2>6 DEF PluginStep
<1>9. ASSUME NEW n \in Nodes, Monitor(n) PROVE TypeInv'
  <2>1. Head(chan[n]) \in FDURecord /\ Tail(chan[n]) \in Seq(FDURecord)
    BY <1>9 DEF Monitor, TypeOK
  <2>2. add_instance(global, Head(chan[n])) \in SUBSET FDURecord
    BY <2>1, StoreTypes DEF TypeOK
  <2>3. QED BY <1>9, <2>1, <2>2 DEF Monitor, TypeOK, TaskKnows, lockVars
<1>10. ASSUME NEW n \in Nodes, NEW kind \in {"register", "unregister"},
              PluginCall(n, kind)
       PROVE  TypeInv'
  BY <1>10 DEF PluginCall, TypeOK, TaskKnows, storeVars
<1>11. ASSUME NEW n \in Nodes, PluginAdmit(n) PROVE TypeInv'
  BY <1>11 DEF PluginAdmit, TypeOK, TaskKnows, storeVars
<1>12. CASE UNCHANGED vars
  BY <1>12 DEF vars, TypeOK, TaskKnows
<1>13. QED
  BY <1>1, <1>2, <1>3, <1>4, <1>5, <1>6, <1>7, <1>8, <1>9, <1>10, <1>11, <1>12
     DEF Next

(* Every reachable state of the agents, plugins and stores is well typed:  *)
(* in particular the plugin never writes a record with a status that       *)
(* FDUState does not have, whatever record it read before taking its lock. *)
THEOREM TypeCorrect == Spec => []TypeOK
<1>1. TypeInv => TypeOK
  BY DEF TypeInv
<1>2. QED BY <1>1, TypeInit, TypeStep, PTL DEF Spec

-----------------------------------------------------------------------------
(* Identity and convergence                                                *)

SameIdentity(r, s) ==
  r.uuid = s.uuid /\ r.node = s.node /\ r.fdu_uuid = s.fdu_uuid

(* A plugin rewrites the record r it read for a request.                   *)
PutKnown(n, r) ==
  /\ LocalPut(n, r)
  /\ \E c \in Clients : \E s \in task[c].snap :
       task[c].agent = n /\ SameIdentity(r, s)
  /\ UNCHANGED <<global, used>>

(* A plugin writes the first record of an instance.                        *)
PutNew(c, r) ==
  /\ LocalPut(task[c].agent, r)
  /\ task[c].pc = "define" /\ task[c].agent \in Nodes
  /\ r.uuid = task[c].inst /\ r.node = task[c].agent
  /\ task'[c].pc = "poll"
  /\ used' = used \cup {r.uuid}
  /\ UNCHANGED global

PutForwarded(n) ==
  /\ chan[n] # <<>>
  /\ global' = add_instance(global, Head(chan[n]))
  /\ chan' = [chan EXCEPT ![n] = Tail(@)]
  /\ UNCHANGED <<local, used>>

LocalRemoved(n, r) ==
  /\ local' = [local EXCEPT ![n] = remove_instance(@, r)]
  /\ UNCHANGED <<global, chan, used>>

GlobalRemoved(r) ==
  /\ global' = remove_instance(global, r)
  /\ UNCHANGED <<local, chan, used>>

StoreEffect ==
  \/ UNCHANGED <<global, local, chan, used>>
  \/ \E n \in Nodes, r \in FDURecord : PutKnown(n, r)
  \/ \E c \in Clients, r \in FDURecord : PutNew(c, r)
  \/ \E n \in Nodes : PutForwarded(n)
  \/ \E n \in Nodes, r \in FDURecord : LocalRemoved(n, r)
  \/ \E r \in FDURecord : GlobalRemoved(r)

TaskEffect(c) ==
  /\ \A d \in Clients \ {c} : task'[d] = task[d]
  /\ \A s \in task'[c].snap :
       /\ task'[c].pc = "lock" /\ task'[c].agent = task[c].agent
       /\ task[c].agent \in Nodes /\ task'[c].inst = task[c].inst
       /\ \/ s \in task[c].snap
          \/ s \in local[task[c].agent] /\ s.uuid = task[c].inst
  /\ task'[c].pc = "define" =>
       \/ task[c].pc = "define" /\ task'[c].inst = task[c].inst
       \/ task'[c].inst \notin used /\ Free(task'[c].inst)

(* Only a request whose plugin is past its check holds a record, and it is *)
(* the record of the instance it is for, which the agent that handles it   *)
(* owns.  Local records and queued puts are the node's own.                *)
Owned ==
  /\ \A n \in Nodes : \A r \in local[n] : r.node = n
  /\ \A n \in Nodes : \A k \in 1 .. Len(chan[n]) : chan[n][k].node = n
  /\ \A c \in Clients : \A s \in task[c].snap :
       /\ task[c].pc = "lock"
       /\ s.node = task[c].agent /\ s.uuid = task[c].inst

(* Every uuid in a record has been drawn, and the uuids of instances being *)
(* defined have not, and differ.                                           *)
UuidsFresh ==
  /\ \A r \in AllRecords : r.uuid \in used
  /\ \A c \in Clients : task[c].pc = "define" =>
       /\ task[c].inst \notin used
       /\ \A d \in Clients \ {c} :
            task[d].pc = "define" => task[d].inst # task[c].inst

Identified == TypeInv /\ Owned /\ UuidsFresh /\ OneIdentity

Inv == Identified /\ GlobalFollowsLocal

-----------------------------------------------------------------------------
(* The effects of a step                                                   *)

LEMMA ReplyEffect ==
  ASSUME TypeInv, NEW c \in Clients, NEW r, Reply(c, r)
  PROVE  TaskEffect(c)
BY DEF Reply, TaskEffect, Answer, IdleTask, TypeInv, TypeOK

LEMMA GotoEffect ==
  ASSUME TypeInv, NEW c \in Clients, NEW pc, pc # "define", Goto(c, pc)
  PROVE  TaskEffect(c) /\ task'[c].pc = pc
BY DEF Goto, TaskEffect, TypeInv, TypeOK, Task

LEMMA EnterEffect ==
  ASSUME TypeInv, NEW c \in Clients, NEW t \in Task, NEW n \in Nodes,
         t.snap = {}, Enter(c, t, n)
  PROVE  TaskEffect(c)
<1> DEFINE m == get_instance(global, t.inst)
<1>1. \A r : /\ [t EXCEPT !.pc = "descriptor", !.held = @ \cup {n},
                          !.fdu = r.fdu_uuid].snap = {}
            /\ [t EXCEPT !.pc = "descriptor", !.held = @ \cup {n},
                          !.fdu = r.fdu_uuid].pc = "descriptor"
  BY DEF Task
<1>2. \A r : /\ [t EXCEPT !.pc = "forward", !.held = @ \cup {n},
                          !.agent = r.node, !.op = ForwardedAs(@)].snap = {}
            /\ [t EXCEPT !.pc = "forward", !.held = @ \cup {n},
                          !.agent = r.node, !.op = ForwardedAs(@)].pc = "forward"
  BY DEF Task
<1>3. /\ Answer(t.req, t.inst, LookupError(m)).snap = {}
      /\ Answer(t.req, t.inst, LookupError(m)).pc = "reply"
  BY DEF Answer, IdleTask
<1>4. ASSUME NEW x, task' = [task EXCEPT ![c] = x], x.snap = {},
             x.pc \in {"descriptor", "forward", "reply"}
      PROVE  TaskEffect(c)
  BY <1>4 DEF TaskEffect, TypeInv, TypeOK
<1>5. ASSUME NEW r,
             task' = [task EXCEPT ![c] =
               [t EXCEPT !.pc = "descriptor", !.held = @ \cup {n},
                         !.fdu = r.fdu_uuid]]
      PROVE  TaskEffect(c)
  <2> DEFINE x == [t EXCEPT !.pc = "descriptor", !.held = @ \cup {n},
                            !.fdu = r.fdu_uuid]
  <2>1. x.snap = {} /\ x.pc \in {"descriptor", "forward", "reply"}
    BY <1>1
  <2>2. task' = [task EXCEPT ![c] = x]
    BY <1>5
  <2> HIDE DEF x
  <2>3. QED BY <1>4, <2>1, <2>2
<1>6. ASSUME NEW r,
             task' = [task EXCEPT ![c] =
               [t EXCEPT !.pc = "forward", !.held = @ \cup {n},
                         !.agent = r.node, !.op = ForwardedAs(@)]]
      PROVE  TaskEffect(c)
  <2> DEFINE x == [t EXCEPT !.pc = "forward", !.held = @ \cup {n},
                            !.agent = r.node, !.op = ForwardedAs(@)]
  <2>1. x.snap = {} /\ x.pc \in {"descriptor", "forward", "reply"}
    BY <1>2
  <2>2. task' = [task EXCEPT ![c] = x]
    BY <1>6
  <2> HIDE DEF x
  <2>3. QED BY <1>4, <2>1, <2>2
<1>7. CASE task' = [task EXCEPT ![c] = Answer(t.req, t.inst, LookupError(m))]
  BY <1>3, <1>4, <1>7
<1>8. QED BY <1>5, <1>6, <1>7, Zenon DEF Enter

LEMMA StepEffect ==
  ASSUME TypeInv, Owned, [Next]_vars
  PROVE  StoreEffect /\ (UNCHANGED task \/ \E c \in Clients : TaskEffect(c))
<1> USE DEF TypeInv
<1> DEFINE Quiet == UNCHANGED <<global, local, chan, used>>
<1>0. Quiet => StoreEffect
  BY DEF StoreEffect
<1>1. ASSUME NEW f \in Fdus, onboard_fdu(f) PROVE Quiet /\ UNCHANGED task
  BY <1>1 DEF onboard_fdu
<1>2. ASSUME NEW c \in Clients, NEW n \in Nodes, NEW f \in Fdus,
             define_fdu(c, n, f)
      PROVE  Quiet /\ TaskEffect(c)
  <2>1. PICK i \in Instances \ used :
          /\ Free(i)
          /\ \/ task' = [task EXCEPT ![c] =
                  [NewTask("define", n, i, f) EXCEPT !.pc = "define",
                                                     !.held = {n}]]
             \/ task' = [task EXCEPT ![c] = Answer("define", None, "NotFound")]
    BY <1>2 DEF define_fdu
  <2>2. /\ [NewTask("define", n, i, f) EXCEPT !.pc = "define",
                                              !.held = {n}].snap = {}
        /\ [NewTask("define", n, i, f) EXCEPT !.pc = "define",
                                              !.held = {n}].inst = i
    BY DEF NewTask, IdleTask
  <2>3. /\ Answer("define", None, "NotFound").snap = {}
        /\ Answer("define", None, "NotFound").pc = "reply"
    BY DEF Answer, IdleTask
  <2>4. PICK x : /\ task' = [task EXCEPT ![c] = x]
                 /\ x.snap = {}
                 /\ x.pc = "reply" \/ x.inst = i
    BY <2>1, <2>2, <2>3
  <2>5. QED BY <1>2, <2>1, <2>4 DEF define_fdu, TaskEffect, TypeOK, storeVars
<1>3. ASSUME NEW c \in Clients, NEW op \in InstanceOps, NEW n \in Nodes,
             NEW i \in Instances, Request(c, op, n, i)
      PROVE  Quiet /\ TaskEffect(c)
  <2>1. /\ NewTask(op, n, i, None) \in Task
        /\ NewTask(op, n, i, None).snap = {}
    BY NewTaskType DEF Ops
  <2>2. QED BY <1>3, <2>1, EnterEffect DEF Request, storeVars
<1>4. ASSUME NEW c \in Clients, NEW f \in Fdus, offload_fdu(c, f)
      PROVE  Quiet /\ TaskEffect(c)
  <2>1. \A r : /\ Answer("offload", None, r).snap = {}
              /\ Answer("offload", None, r).pc = "reply"
    BY DEF Answer, IdleTask
  <2>2. /\ [NewTask("offload", None, None, f) EXCEPT !.pc = "offload"].snap = {}
        /\ [NewTask("offload", None, None, f) EXCEPT !.pc = "offload"].pc
             = "offload"
    BY DEF NewTask, IdleTask
  <2>3. PICK x : /\ task' = [task EXCEPT ![c] = x]
                 /\ x.snap = {}
                 /\ x.pc # "define"
    BY <1>4, <2>1, <2>2 DEF offload_fdu
  <2>4. QED BY <1>4, <2>3 DEF offload_fdu, TaskEffect, TypeOK, storeVars
<1>5. ASSUME NEW c \in Clients, Arrive(c) PROVE Quiet /\ TaskEffect(c)
  <2>1. task[c] \in Task /\ task[c].agent \in Nodes /\ task[c].snap = {}
    BY <1>5 DEF Arrive, TypeOK, TaskKnows, Busy, Owned
  <2>2. QED BY <1>5, <2>1, EnterEffect DEF Arrive, storeVars
<1>6. ASSUME NEW c \in Clients, ForwardTimeout(c) PROVE Quiet /\ TaskEffect(c)
  <2>1. /\ \A d \in Clients \ {c} : task'[d] = task[d]
        /\ task'[c].pc = task[c].pc /\ task'[c].agent = task[c].agent
        /\ task'[c].inst = task[c].inst /\ task'[c].snap = task[c].snap
    BY <1>6 DEF ForwardTimeout, TypeOK, Task
  <2>2. QED BY <1>6, <2>1
            DEF ForwardTimeout, TaskEffect, Owned, TaskKnows, Busy, storeVars
<1>7. ASSUME NEW c \in Clients, HandlerStep(c) PROVE StoreEffect /\ TaskEffect(c)
  <2>1. CASE GetDescriptor(c)
    BY <1>0, <2>1, GotoEffect, ReplyEffect DEF GetDescriptor, storeVars
  <2>2. CASE Poll(c)
    BY <1>0, <2>2, ReplyEffect DEF Poll, storeVars
  <2>3. CASE RemoveGlobal(c)
    <3>1. TaskEffect(c)
      BY <2>3, ReplyEffect DEF RemoveGlobal
    <3>2. Quiet \/ \E r \in FDURecord : GlobalRemoved(r)
      BY <2>3 DEF RemoveGlobal, GlobalRemoved, get_instance, TypeOK
    <3>3. QED BY <1>0, <3>1, <3>2 DEF StoreEffect
  <2>4. CASE RemoveFdu(c)
    BY <1>0, <2>4, ReplyEffect DEF RemoveFdu
  <2>5. CASE Return(c)
    BY <1>0, <2>5 DEF Return, TaskEffect, IdleTask, TypeOK, storeVars
  <2>6. QED BY <1>7, <2>1, <2>2, <2>3, <2>4, <2>5 DEF HandlerStep

<1>8. ASSUME NEW c \in Clients, PluginStep(c) PROVE StoreEffect /\ TaskEffect(c)
  <2> DEFINE n == task[c].agent
  <2>0. \A s \in task[c].snap :
          /\ s \in FDURecord /\ task[c].pc = "lock" /\ n \in Nodes
    BY DEF TypeOK, Task, Owned, TaskKnows, Busy
  <2>1. CASE PluginDefine(c)
    <3> DEFINE r == [uuid |-> task[c].inst, fdu_uuid |-> task[c].fdu,
                     node |-> n, status |-> "DEFINED", netns |-> None]
    <3>1. n \in Nodes /\ r \in FDURecord
      BY <2>1 DEF PluginDefine, TaskKnows, Busy, FDURecord, FDUState
    <3>2. TaskEffect(c) /\ task'[c].pc = "poll"
      BY <2>1, GotoEffect DEF PluginDefine
    <3>3. PutNew(c, r)
      BY <2>1, <3>1, <3>2 DEF PluginDefine, PutNew
    <3>4. QED BY <3>1, <3>2, <3>3 DEF StoreEffect
  <2>2. CASE PluginGet(c)
    <3>1. Quiet
      BY <2>2 DEF PluginGet, storeVars
    <3>2. CASE \E r : Reply(c, r)
      BY <1>0, <3>1, <3>2, ReplyEffect
    <3>3. CASE task' = [task EXCEPT ![c].pc = "lock",
                          ![c].snap = get_instance(local[n], task[c].inst)]
      <4>1. n \in Nodes
        BY <2>2 DEF PluginGet, TaskKnows, Busy
      <4>2. /\ \A d \in Clients \ {c} : task'[d] = task[d]
            /\ task'[c].pc = "lock" /\ task'[c].agent = n
            /\ task'[c].snap = get_instance(local[n], task[c].inst)
            /\ task'[c].inst = task[c].inst
        BY <3>3 DEF TypeOK, Task
      <4>3. TaskEffect(c)
        BY <4>1, <4>2 DEF TaskEffect, get_instance
      <4>4. QED BY <1>0, <3>1, <4>3
    <3>4. QED BY <2>2, <3>2, <3>3 DEF PluginGet
  <2>3. CASE PluginSwitch(c)
    <3>1. PICK op \in {"start", "stop"}, s \in task[c].snap :
            LocalPut(n, [s EXCEPT !.status = Target(op)])
      BY <2>3 DEF PluginSwitch
    <3> DEFINE r == [s EXCEPT !.status = Target(op)]
    <3>2. r \in FDURecord /\ SameIdentity(r, s)
      BY <2>0 DEF FDURecord, FDUState, Target, SameIdentity
    <3>3. PutKnown(n, r)
      BY <2>3, <3>1, <3>2 DEF PluginSwitch, PutKnown
    <3>4. TaskEffect(c)
      BY <2>3, GotoEffect DEF PluginSwitch
    <3>5. QED BY <2>0, <3>2, <3>3, <3>4 DEF StoreEffect
  <2>4. CASE PluginConfigure(c)
    <3> DEFINE ns == CHOOSE x \in FreshNetNs : TRUE
    <3>1. PICK s \in task[c].snap :
            \/ Reply(c, "NotFound") /\ UNCHANGED <<local, chan>>
            \/ /\ FreshNetNs # {}
               /\ LocalPut(n, [s EXCEPT !.status = Target("configure"),
                                        !.netns = ns])
               /\ Goto(c, "poll")
      BY <2>4 DEF PluginConfigure
    <3>2. FreshNetNs # {} => ns \in NetNs
      BY DEF FreshNetNs
    <3> HIDE DEF ns
    <3>3. TaskEffect(c)
      BY <3>1, ReplyEffect, GotoEffect
    <3>4. UNCHANGED <<global, used>>
      BY <2>4 DEF PluginConfigure
    <3>5. CASE UNCHANGED <<local, chan>>
      BY <1>0, <3>3, <3>4, <3>5
    <3>6. CASE ns \in NetNs /\ LocalPut(n, [s EXCEPT
                 !.status = Target("configure"), !.netns = ns])
      <4> DEFINE r == [s EXCEPT !.status = Target("configure"), !.netns = ns]
      <4>1. r \in FDURecord /\ SameIdentity(r, s)
        BY <2>0, <3>6 DEF FDURecord, FDUState, Target, SameIdentity
      <4>2. PutKnown(n, r)
        BY <3>4, <3>6, <4>1 DEF PutKnown
      <4>3. QED BY <2>0, <3>3, <4>1, <4>2 DEF StoreEffect
    <3>7. QED BY <3>1, <3>2, <3>5, <3>6
  <2>5. CASE PluginClean(c)
    <3>1. PICK s \in task[c].snap :
            \/ Reply(c, "NotFound") /\ UNCHANGED <<local, chan>>
            \/ /\ LocalPut(n, [s EXCEPT !.status = Target("clean")])
               /\ Goto(c, "poll")
      BY <2>5 DEF PluginClean
    <3>2. TaskEffect(c)
      BY <3>1, ReplyEffect, GotoEffect
    <3>3. UNCHANGED <<global, used>>
      BY <2>5 DEF PluginClean
    <3>4. CASE UNCHANGED <<local, chan>>
      BY <1>0, <3>2, <3>3, <3>4
    <3>5. CASE LocalPut(n, [s EXCEPT !.status = Target("clean")])
      <4> DEFINE r == [s EXCEPT !.status = Target("clean")]
      <4>1. r \in FDURecord /\ SameIdentity(r, s)
        BY <2>0 DEF FDURecord, FDUState, Target, SameIdentity
      <4>2. PutKnown(n, r)
        BY <3>3, <3>5, <4>1 DEF PutKnown
      <4>3. QED BY <2>0, <3>2, <4>1, <4>2 DEF StoreEffect
    <3>6. QED BY <3>1, <3>4, <3>5
  <2>6. CASE PluginUndefine(c)
    <3>1. TaskEffect(c)
      BY <2>6, ReplyEffect, GotoEffect DEF PluginUndefine
    <3>2. n \in Nodes
      BY <2>6, <2>0 DEF PluginUndefine
    <3>3. Quiet \/ \E r \in FDURecord : LocalRemoved(n, r)
      BY <2>6, <3>2 DEF PluginUndefine, LocalRemoved, get_instance, TypeOK
    <3>4. QED BY <1>0, <3>1, <3>2, <3>3 DEF StoreEffect
  <2>7. QED BY <1>8, <2>1, <2>2, <2>3, <2>4, <2>5, <2>6 DEF PluginStep
<1>9. ASSUME NEW n \in Nodes, Monitor(n) PROVE StoreEffect /\ UNCHANGED task
  BY <1>9 DEF Monitor, StoreEffect, PutForwarded
<1>10. ASSUME NEW n \in Nodes, NEW kind \in {"register", "unregister"},
              PluginCall(n, kind)
       PROVE  Quiet /\ UNCHANGED task
  BY <1>10 DEF PluginCall, storeVars
<1>11. ASSUME NEW n \in Nodes, PluginAdmit(n) PROVE Quiet /\ UNCHANGED task
  BY <1>11 DEF PluginAdmit, storeVars
<1>12. CASE UNCHANGED vars
  BY <1>0, <1>12 DEF vars
<1>13. QED
  BY <1>0, <1>1, <1>2, <1>3, <1>4, <1>5, <1>6, <1>7, <1>8, <1>9, <1>10, <1>11,
     <1>12
     DEF Next

-----------------------------------------------------------------------------
(* The records after a step                                                *)

(* What AllRecords collects.                                               *)
LEMMA AllRecordsMembers ==
  /\ \A x \in global : x \in AllRecords
  /\ \A n \in Nodes : \A x \in local[n] : x \in AllRecords
  /\ \A n \in Nodes : \A k \in 1 .. Len(chan[n]) : chan[n][k] \in AllRecords
  /\ \A c \in Clients : \A x \in task[c].snap : x \in AllRecords
BY DEF AllRecords

LEMMA AllRecordsBound ==
  ASSUME NEW X,
         \A x \in global' : x \in X,
         \A n \in Nodes : \A x \in local'[n] : x \in X,
         \A n \in Nodes : \A k \in 1 .. Len(chan'[n]) : chan'[n][k] \in X,
         \A c \in Clients : \A x \in task'[c].snap : x \in X
  PROVE  \A x \in AllRecords' : x \in X
BY DEF AllRecords

(* The records a plugin holds after a step were somewhere before it.       *)
LEMMA SnapBound ==
  ASSUME TypeInv, UNCHANGED task \/ \E c \in Clients : TaskEffect(c)
  PROVE  \A c \in Clients : \A x \in task'[c].snap : x \in AllRecords
<1>1. CASE UNCHANGED task
  BY <1>1, AllRecordsMembers
<1>2. ASSUME NEW c \in Clients, TaskEffect(c), NEW d \in Clients,
             NEW x \in task'[d].snap
      PROVE  x \in AllRecords
  <2>1. CASE d = c
    BY <1>2, <2>1, AllRecordsMembers DEF TaskEffect
  <2>2. CASE d # c
    BY <1>2, <2>2, AllRecordsMembers DEF TaskEffect
  <2>3. QED BY <2>1, <2>2
<1>3. QED BY <1>1, <1>2

(* The elements of a channel after a put.                                  *)
LEMMA PutElements ==
  ASSUME TypeInv, NEW n \in Nodes, NEW r \in FDURecord, LocalPut(n, r)
  PROVE  /\ \A m \in Nodes \ {n} : local'[m] = local[m] /\ chan'[m] = chan[m]
         /\ local'[n] = {s \in local[n] : ~SamePath(s, r)} \cup {r}
         /\ Len(chan'[n]) = Len(chan[n]) + 1
         /\ \A k \in 1 .. Len(chan[n]) : chan'[n][k] = chan[n][k]
         /\ chan'[n][Len(chan[n]) + 1] = r
         /\ Len(chan[n]) \in Nat
<1>1. chan[n] \in Seq(FDURecord)
  BY DEF TypeInv, TypeOK
<1>2. chan' = [chan EXCEPT ![n] = Append(chan[n], r)]
  BY DEF LocalPut, Queue
<1>3. local' = [local EXCEPT ![n] = {s \in local[n] : ~SamePath(s, r)} \cup {r}]
  BY DEF LocalPut, add_instance
<1>4. QED BY <1>1, <1>2, <1>3 DEF TypeInv, TypeOK

(* The elements of a channel after its oldest put has been forwarded.      *)
LEMMA ForwardedElements ==
  ASSUME TypeInv, NEW n \in Nodes, PutForwarded(n)
  PROVE  /\ \A m \in Nodes \ {n} : chan'[m] = chan[m]
         /\ Len(chan[n]) \in Nat \ {0}
         /\ Len(chan'[n]) = Len(chan[n]) - 1
         /\ \A k \in 1 .. Len(chan'[n]) : chan'[n][k] = chan[n][k + 1]
         /\ global' = {s \in global : ~SamePath(s, chan[n][1])} \cup {chan[n][1]}
<1>1. chan[n] \in Seq(FDURecord) /\ chan[n] # <<>>
  BY DEF TypeInv, TypeOK, PutForwarded
<1>2. chan' = [chan EXCEPT ![n] = Tail(chan[n])]
  BY DEF PutForwarded
<1>3. global' = {s \in global : ~SamePath(s, chan[n][1])} \cup {chan[n][1]}
  BY <1>1 DEF PutForwarded, add_instance
<1>4. QED BY <1>1, <1>2, <1>3 DEF TypeInv, TypeOK

(* A record found after a step is one found before it, unless the step is  *)
(* a put.                                                                  *)
LEMMA RecordsKept ==
  ASSUME TypeInv, UNCHANGED task \/ \E c \in Clients : TaskEffect(c),
         \/ UNCHANGED <<global, local, chan>>
         \/ \E n \in Nodes : PutForwarded(n)
         \/ \E n \in Nodes, r \in FDURecord : LocalRemoved(n, r)
         \/ \E r \in FDURecord : GlobalRemoved(r)
  PROVE  \A x \in AllRecords' : x \in AllRecords
<1>1. \A c \in Clients : \A x \in task'[c].snap : x \in AllRecords
  BY SnapBound
<1>2. CASE UNCHANGED <<global, local, chan>>
  BY <1>1, <1>2, AllRecordsMembers, AllRecordsBound
<1>3. ASSUME NEW n \in Nodes, PutForwarded(n)
      PROVE  \A x \in AllRecords' : x \in AllRecords
  <2>1. \A x \in global' : x \in AllRecords
    BY <1>3, ForwardedElements, AllRecordsMembers
  <2>2. ASSUME NEW m \in Nodes, NEW k \in 1 .. Len(chan'[m])
        PROVE  chan'[m][k] \in AllRecords
    <3>1. CASE m = n
      <4>1. /\ Len(chan[n]) \in Nat \ {0}
            /\ Len(chan'[n]) = Len(chan[n]) - 1
            /\ chan'[n][k] = chan[n][k + 1]
        BY <1>3, <3>1, ForwardedElements
      <4>2. k + 1 \in 1 .. Len(chan[n])
        BY <3>1, <4>1
      <4>3. QED BY <3>1, <4>1, <4>2, AllRecordsMembers
    <3>2. CASE m # n
      BY <1>3, <3>2, ForwardedElements, AllRecordsMembers
    <3>3. QED BY <3>1, <3>2
  <2>3. UNCHANGED local
    BY <1>3 DEF PutForwarded
  <2>4. QED BY <1>1, <2>1, <2>2, <2>3, AllRecordsMembers, AllRecordsBound
<1>4. ASSUME NEW n \in Nodes, NEW r \in FDURecord, LocalRemoved(n, r)
      PROVE  \A x \in AllRecords' : x \in AllRecords
  <2>1. \A m \in Nodes : \A x \in local'[m] : x \in local[m]
    BY <1>4 DEF LocalRemoved, remove_instance, TypeInv, TypeOK
  <2>2. UNCHANGED <<global, chan>>
    BY <1>4 DEF LocalRemoved
  <2>3. QED BY <1>1, <2>1, <2>2, AllRecordsMembers, AllRecordsBound
<1>5. ASSUME NEW r \in FDURecord, GlobalRemoved(r)
      PROVE  \A x \in AllRecords' : x \in AllRecords
  <2>1. (\A x \in global' : x \in global) /\ UNCHANGED <<local, chan>>
    BY <1>5 DEF GlobalRemoved, remove_instance
  <2>2. QED BY <1>1, <2>1, AllRecordsMembers, AllRecordsBound
<1>6. QED BY <1>2, <1>3, <1>4, <1>5

(* After a put of r the records are those of before, and r.                *)
LEMMA RecordsPut ==
  ASSUME TypeInv, UNCHANGED task \/ \E c \in Clients : TaskEffect(c),
         NEW n \in Nodes, NEW r \in FDURecord, LocalPut(n, r), UNCHANGED global
  PROVE  \A x \in AllRecords' : x \in AllRecords \/ x = r
<1>1. \A c \in Clients : \A x \in task'[c].snap : x \in AllRecords
  BY SnapBound
<1>2. \A m \in Nodes : \A x \in local'[m] : x \in AllRecords \/ x = r
  BY PutElements, AllRecordsMembers
<1>3. \A m \in Nodes : \A k \in 1 .. Len(chan'[m]) :
        chan'[m][k] \in AllRecords \/ chan'[m][k] = r
  BY PutElements, AllRecordsMembers
<1> DEFINE X == AllRecords \cup {r}
<1>4. \A x \in AllRecords' : x \in X
  <2>1. /\ \A x \in global' : x \in X
        /\ \A m \in Nodes : \A x \in local'[m] : x \in X
        /\ \A m \in Nodes : \A k \in 1 .. Len(chan'[m]) : chan'[m][k] \in X
        /\ \A c \in Clients : \A x \in task'[c].snap : x \in X
    BY <1>1, <1>2, <1>3, AllRecordsMembers
  <2> HIDE DEF X
  <2>2. QED BY <2>1, AllRecordsBound
<1>5. QED BY <1>4

-----------------------------------------------------------------------------
(* What each effect preserves                                              *)

LEMMA OwnedStep ==
  ASSUME TypeInv, Owned, UuidsFresh, StoreEffect,
         UNCHANGED task \/ \E c \in Clients : TaskEffect(c)
  PROVE  Owned'
<1>1. \A c \in Clients : \A s \in task'[c].snap :
        /\ task'[c].pc = "lock"
        /\ s.node = task'[c].agent /\ s.uuid = task'[c].inst
  <2>1. CASE UNCHANGED task
    BY <2>1 DEF Owned
  <2>2. ASSUME NEW c \in Clients, TaskEffect(c), NEW d \in Clients,
               NEW s \in task'[d].snap
        PROVE  /\ task'[d].pc = "lock"
               /\ s.node = task'[d].agent /\ s.uuid = task'[d].inst
    <3>1. CASE d = c
      BY <2>2, <3>1 DEF TaskEffect, Owned
    <3>2. CASE d # c
      BY <2>2, <3>2 DEF TaskEffect, Owned
    <3>3. QED BY <3>1, <3>2
  <2>3. QED BY <2>1, <2>2
<1> DEFINE Mine == /\ \A n \in Nodes : \A r \in local[n] : r.node = n
                   /\ \A n \in Nodes : \A k \in 1 .. Len(chan[n]) :
                        chan[n][k].node = n
<1>2. Mine'
  <2>0. Mine
    BY DEF Owned
  <2>1. CASE UNCHANGED <<global, local, chan, used>>
    BY <2>0, <2>1
  <2>2. ASSUME NEW n \in Nodes, NEW r \in FDURecord, LocalPut(n, r), r.node = n
        PROVE  Mine'
    BY <2>0, <2>2, PutElements
  <2>3. ASSUME NEW n \in Nodes, NEW r \in FDURecord, PutKnown(n, r)
        PROVE  Mine'
    <3>1. LocalPut(n, r) /\ r.node = n
      BY <2>3 DEF PutKnown, Owned, SameIdentity
    <3>2. QED BY <2>2, <3>1
  <2>4. ASSUME NEW c \in Clients, NEW r \in FDURecord, PutNew(c, r)
        PROVE  Mine'
    <3>1. /\ LocalPut(task[c].agent, r) /\ task[c].agent \in Nodes
          /\ r.node = task[c].agent
      BY <2>4 DEF PutNew
    <3>2. QED BY <2>2, <3>1
  <2>5. ASSUME NEW n \in Nodes, PutForwarded(n)
        PROVE  Mine'
    <3>1. UNCHANGED local
      BY <2>5 DEF PutForwarded
    <3>2. ASSUME NEW m \in Nodes, NEW k \in 1 .. Len(chan'[m])
          PROVE  chan'[m][k].node = m
      <4>1. CASE m = n
        <5>1. /\ Len(chan[n]) \in Nat \ {0}
              /\ Len(chan'[n]) = Len(chan[n]) - 1
              /\ chan'[n][k] = chan[n][k + 1]
          BY <2>5, <4>1, <3>2, ForwardedElements
        <5>2. k + 1 \in 1 .. Len(chan[n])
          BY <4>1, <5>1
        <5>3. QED BY <2>0, <4>1, <5>1, <5>2
      <4>2. CASE m # n
        BY <2>0, <2>5, <4>2, ForwardedElements
      <4>3. QED BY <4>1, <4>2
    <3>3. QED BY <2>0, <3>1, <3>2
  <2>6. ASSUME NEW n \in Nodes, NEW r \in FDURecord, LocalRemoved(n, r)
        PROVE  Mine'
    BY <2>0, <2>6 DEF LocalRemoved, remove_instance, TypeInv, TypeOK
  <2>7. ASSUME NEW r \in FDURecord, GlobalRemoved(r)
        PROVE  Mine'
    BY <2>0, <2>7 DEF GlobalRemoved
  <2>8. QED BY <2>1, <2>3, <2>4, <2>5, <2>6, <2>7 DEF StoreEffect
<1>3. QED BY <1>1, <1>2 DEF Owned

(* A put of a rewritten record brings no new identity, that of a new       *)
(* record an identity nobody has.                                          *)
LEMMA PutIdentity ==
  ASSUME TypeInv, Owned, UuidsFresh, OneIdentity,
         NEW n \in Nodes, NEW r \in FDURecord,
         \/ PutKnown(n, r)
         \/ \E c \in Clients : PutNew(c, r) /\ n = task[c].agent
  PROVE  /\ LocalPut(n, r) /\ UNCHANGED global
         /\ r.uuid \in used' /\ \A i \in used : i \in used'
         /\ \A s \in AllRecords : s.uuid = r.uuid =>
              s.node = r.node /\ s.fdu_uuid = r.fdu_uuid
<1>1. CASE PutKnown(n, r)
  <2>0. PICK c \in Clients : \E s \in task[c].snap : SameIdentity(r, s)
    BY <1>1 DEF PutKnown
  <2>1. PICK s \in task[c].snap : SameIdentity(r, s)
    BY <2>0
  <2>2. s \in AllRecords
    BY AllRecordsMembers
  <2>3. QED BY <1>1, <2>1, <2>2 DEF PutKnown, SameIdentity, OneIdentity,
                                    UuidsFresh
<1>2. ASSUME NEW c \in Clients, PutNew(c, r), task[c].agent = n
      PROVE  /\ LocalPut(n, r) /\ UNCHANGED global
             /\ r.uuid \in used' /\ \A i \in used : i \in used'
             /\ \A s \in AllRecords : s.uuid # r.uuid
  BY <1>2 DEF PutNew, UuidsFresh
<1>3. QED BY <1>1, <1>2

(* A put of either kind.                                                   *)
LEMMA StoreEffectCases ==
  ASSUME StoreEffect
  PROVE  \/ \E n \in Nodes, r \in FDURecord :
              \/ PutKnown(n, r)
              \/ \E c \in Clients : PutNew(c, r) /\ n = task[c].agent
         \/ /\ UNCHANGED used
            /\ \/ UNCHANGED <<global, local, chan>>
               \/ \E n \in Nodes : PutForwarded(n)
               \/ \E n \in Nodes, r \in FDURecord : LocalRemoved(n, r)
               \/ \E r \in FDURecord : GlobalRemoved(r)
BY DEF StoreEffect, PutNew, PutForwarded, LocalRemoved, GlobalRemoved

LEMMA OneIdentityStep ==
  ASSUME TypeInv, Owned, UuidsFresh, OneIdentity, StoreEffect,
         UNCHANGED task \/ \E c \in Clients : TaskEffect(c)
  PROVE  OneIdentity'
<1>1. ASSUME NEW n \in Nodes, NEW r \in FDURecord,
             \/ PutKnown(n, r)
             \/ \E c \in Clients : PutNew(c, r) /\ n = task[c].agent
      PROVE  OneIdentity'
  <2>1. \A x \in AllRecords' : x \in AllRecords \/ x = r
    BY <1>1, PutIdentity, RecordsPut
  <2>2. QED BY <1>1, <2>1, PutIdentity DEF OneIdentity
<1>2. CASE \A x \in AllRecords' : x \in AllRecords
  BY <1>2 DEF OneIdentity
<1>3. QED BY <1>1, <1>2, StoreEffectCases, RecordsKept

LEMMA UuidsFreshStep ==
  ASSUME TypeInv, Owned, UuidsFresh, OneIdentity, StoreEffect,
         UNCHANGED task \/ \E c \in Clients : TaskEffect(c)
  PROVE  UuidsFresh'
<1>1. \A x \in AllRecords' : x.uuid \in used'
  <2>1. ASSUME NEW n \in Nodes, NEW r \in FDURecord,
               \/ PutKnown(n, r)
               \/ \E c \in Clients : PutNew(c, r) /\ n = task[c].agent
        PROVE  \A x \in AllRecords' : x.uuid \in used'
    <3>1. \A x \in AllRecords' : x \in AllRecords \/ x = r
      BY <2>1, PutIdentity, RecordsPut
    <3>2. QED BY <2>1, <3>1, PutIdentity DEF UuidsFresh
  <2>2. CASE UNCHANGED used /\ \A x \in AllRecords' : x \in AllRecords
    BY <2>2 DEF UuidsFresh
  <2>3. QED BY <2>1, <2>2, StoreEffectCases, RecordsKept
<1> DEFINE Drawn == \A c \in Clients : task[c].pc = "define" =>
                     /\ task[c].inst \notin used
                     /\ \A d \in Clients \ {c} :
                          task[d].pc = "define" => task[d].inst # task[c].inst
<1>2. Drawn
  BY DEF UuidsFresh
<1>3. ASSUME UNCHANGED used PROVE Drawn'
  <2>1. CASE UNCHANGED task
    BY <1>2, <1>3, <2>1
  <2>2. ASSUME NEW c \in Clients, TaskEffect(c)
        PROVE  Drawn'
    <3>1. \A d \in Clients \ {c} : task'[d] = task[d]
      BY <2>2 DEF TaskEffect
    <3>2. task'[c].pc = "define" =>
            /\ task'[c].inst \notin used
            /\ \A d \in Clients \ {c} :
                 task[d].pc = "define" => task[d].inst # task'[c].inst
      BY <1>2, <2>2 DEF TaskEffect, Free
    <3>3. ASSUME NEW d \in Clients, task'[d].pc = "define"
          PROVE  /\ task'[d].inst \notin used'
                 /\ \A e \in Clients \ {d} :
                      task'[e].pc = "define" => task'[e].inst # task'[d].inst
      <4>1. CASE d = c
        BY <1>3, <3>1, <3>2, <3>3, <4>1
      <4>2. CASE d # c
        <5>1. task'[d] = task[d]
          BY <3>1, <4>2
        <5>2. ASSUME NEW e \in Clients \ {d}, task'[e].pc = "define"
              PROVE  task'[e].inst # task'[d].inst
          <6>1. CASE e = c
            BY <3>2, <3>3, <4>2, <5>1, <5>2, <6>1
          <6>2. CASE e # c
            BY <1>2, <3>1, <3>3, <5>1, <5>2, <6>2
          <6>3. QED BY <6>1, <6>2
        <5>3. task'[d].inst \notin used'
          BY <1>2, <1>3, <3>3, <5>1
        <5>4. QED BY <5>2, <5>3
      <4>3. QED BY <4>1, <4>2
    <3>4. QED BY <3>3
  <2>3. QED BY <2>1, <2>2
<1>4. ASSUME NEW e \in Clients, NEW r \in FDURecord, PutNew(e, r)
      PROVE  Drawn'
  <2>1. /\ task[e].pc = "define" /\ task'[e].pc = "poll"
        /\ r.uuid = task[e].inst /\ used' = used \cup {r.uuid}
    BY <1>4 DEF PutNew
  <2>2. \A d \in Clients \ {e} : task'[d] = task[d]
    BY <2>1 DEF TaskEffect
  <2>3. ASSUME NEW d \in Clients, task'[d].pc = "define"
        PROVE  /\ task'[d].inst \notin used'
               /\ \A g \in Clients \ {d} :
                    task'[g].pc = "define" => task'[g].inst # task'[d].inst
    <3>1. d # e /\ task'[d] = task[d]
      BY <2>1, <2>2, <2>3
    <3>2. task[d].inst \notin used /\ task[d].inst # task[e].inst
      BY <1>2, <2>1, <2>3, <3>1
    <3>3. task'[d].inst \notin used'
      BY <2>1, <3>1, <3>2
    <3>4. ASSUME NEW g \in Clients \ {d}, task'[g].pc = "define"
          PROVE  task'[g].inst # task'[d].inst
      <4>1. g # e /\ task'[g] = task[g]
        BY <2>1, <2>2, <3>4
      <4>2. QED BY <1>2, <2>3, <3>1, <3>4, <4>1
    <3>5. QED BY <3>3, <3>4
  <2>4. QED BY <2>3
<1>5. UNCHANGED used \/ \E c \in Clients, r \in FDURecord : PutNew(c, r)
  BY DEF StoreEffect, PutKnown, PutForwarded, LocalRemoved, GlobalRemoved
<1>6. QED BY <1>1, <1>3, <1>4, <1>5 DEF UuidsFresh

(* A put of a record whose path is the only one its instance has.          *)
LEMMA PutFollows ==
  ASSUME TypeInv, GlobalFollowsLocal, NEW n \in Nodes, NEW r \in FDURecord,
         LocalPut(n, r), UNCHANGED global,
         \A s \in local[n] : s.uuid = r.uuid => s.fdu_uuid = r.fdu_uuid
  PROVE  GlobalFollowsLocal'
<1> SUFFICES ASSUME NEW m \in Nodes, NEW s \in local'[m]
             PROVE  /\ \A k \in 1 .. Len(chan'[m]) :
                         /\ chan'[m][k].uuid = s.uuid
                         /\ \A j \in k + 1 .. Len(chan'[m]) :
                              chan'[m][j].uuid # s.uuid
                         => chan'[m][k] = s
                    /\ ~Queued(m, s.uuid)' =>
                         \A g \in global' : g.uuid = s.uuid => g = s
  BY DEF GlobalFollowsLocal
<1> DEFINE L == Len(chan[n])
<1>0. /\ \A k \in Nodes \ {n} : local'[k] = local[k] /\ chan'[k] = chan[k]
      /\ local'[n] = {t \in local[n] : ~SamePath(t, r)} \cup {r}
      /\ Len(chan'[n]) = L + 1 /\ L \in Nat
      /\ \A k \in 1 .. L : chan'[n][k] = chan[n][k]
      /\ chan'[n][L + 1] = r
  BY PutElements
<1> HIDE DEF L
<1>1. CASE m # n
  BY <1>0, <1>1 DEF GlobalFollowsLocal, Queued
<1>2. CASE m = n /\ s = r
  <2>1. Queued(n, r.uuid)'
    BY <1>0 DEF Queued
  <2>2. ASSUME NEW k \in 1 .. Len(chan'[n]),
               \A j \in k + 1 .. Len(chan'[n]) : chan'[n][j].uuid # r.uuid
        PROVE  chan'[n][k] = r
    <3>1. k = L + 1
      BY <1>0, <2>2
    <3>2. QED BY <1>0, <3>1
  <2>3. QED BY <1>2, <2>1, <2>2
<1>3. CASE m = n /\ s # r
  <2>1. s \in local[n] /\ s.uuid # r.uuid
    BY <1>0, <1>3 DEF SamePath
  <2>2. ASSUME NEW k \in 1 .. Len(chan'[n]), chan'[n][k].uuid = s.uuid,
               \A j \in k + 1 .. Len(chan'[n]) : chan'[n][j].uuid # s.uuid
        PROVE  chan'[n][k] = s
    <3>1. k \in 1 .. L
      BY <1>0, <2>1, <2>2
    <3>2. \A j \in k + 1 .. L : chan[n][j].uuid # s.uuid
      BY <1>0, <2>2, <3>1
    <3>3. chan[n][k].uuid = s.uuid /\ chan'[n][k] = chan[n][k]
      BY <1>0, <2>2, <3>1
    <3>4. QED BY <2>1, <3>1, <3>2, <3>3 DEF GlobalFollowsLocal, L
  <2>3. ~Queued(n, s.uuid)' => ~Queued(n, s.uuid)
    BY <1>0 DEF Queued, L
  <2>4. QED BY <1>3, <2>1, <2>2, <2>3 DEF GlobalFollowsLocal
<1>4. QED BY <1>1, <1>2, <1>3

(* The monitoring task copies the oldest put of node n.                    *)
LEMMA ForwardedFollows ==
  ASSUME TypeInv, Owned, OneIdentity, GlobalFollowsLocal,
         NEW n \in Nodes, PutForwarded(n)
  PROVE  GlobalFollowsLocal'
<1> SUFFICES ASSUME NEW m \in Nodes, NEW s \in local[m]
             PROVE  /\ \A k \in 1 .. Len(chan'[m]) :
                         /\ chan'[m][k].uuid = s.uuid
                         /\ \A j \in k + 1 .. Len(chan'[m]) :
                              chan'[m][j].uuid # s.uuid
                         => chan'[m][k] = s
                    /\ ~Queued(m, s.uuid)' =>
                         \A g \in global' : g.uuid = s.uuid => g = s
  BY DEF GlobalFollowsLocal, PutForwarded
<1> DEFINE L == Len(chan[n])
           h == chan[n][1]
<1>0. /\ \A k \in Nodes \ {n} : chan'[k] = chan[k]
      /\ L \in Nat \ {0} /\ Len(chan'[n]) = L - 1
      /\ \A k \in 1 .. L - 1 : chan'[n][k] = chan[n][k + 1]
      /\ global' = {g \in global : ~SamePath(g, h)} \cup {h}
  BY ForwardedElements
<1>1. h \in AllRecords /\ h.node = n /\ s \in AllRecords /\ s.node = m
  BY <1>0, AllRecordsMembers DEF Owned
<1>2. \A g \in global : g \in AllRecords
  BY AllRecordsMembers
<1> HIDE DEF L, h
<1>3. CASE m # n
  <2>1. h.uuid # s.uuid
    BY <1>1, <1>3 DEF OneIdentity
  <2>2. chan'[m] = chan[m] /\ \A g \in global' : g.uuid = s.uuid => g \in global
    BY <1>0, <1>3, <2>1
  <2>3. QED BY <2>2 DEF GlobalFollowsLocal, Queued
<1>4. CASE m = n
  <2>1. ASSUME NEW k \in 1 .. Len(chan'[n]), chan'[n][k].uuid = s.uuid,
               \A j \in k + 1 .. Len(chan'[n]) : chan'[n][j].uuid # s.uuid
        PROVE  chan'[n][k] = s
    <3>1. k \in 1 .. L - 1 /\ k + 1 \in 1 .. L
      BY <1>0, <2>1
    <3>2. chan'[n][k] = chan[n][k + 1]
      BY <1>0, <3>1
    <3>3. ASSUME NEW j \in (k + 1) + 1 .. L
          PROVE  chan[n][j].uuid # s.uuid
      <4>1. j - 1 \in k + 1 .. L - 1 /\ j - 1 \in 1 .. L - 1 /\ (j - 1) + 1 = j
        BY <1>0, <3>1
      <4>2. chan'[n][j - 1] = chan[n][j]
        BY <1>0, <4>1
      <4>3. QED BY <1>0, <2>1, <4>1, <4>2
    <3>4. QED BY <1>4, <2>1, <3>1, <3>2, <3>3 DEF GlobalFollowsLocal, L
  <2>2. ASSUME ~Queued(n, s.uuid)', NEW g \in global', g.uuid = s.uuid
        PROVE  g = s
    <3>1. \A k \in 1 .. L - 1 : chan[n][k + 1].uuid # s.uuid
      BY <1>0, <2>2 DEF Queued
    <3>2. \A j \in 1 + 1 .. L : chan[n][j].uuid # s.uuid
      <4>1. \A j \in 1 + 1 .. L : j - 1 \in 1 .. L - 1 /\ (j - 1) + 1 = j
        BY <1>0
      <4>2. QED BY <3>1, <4>1
    <3>3. CASE h.uuid = s.uuid
      <4>1. h = s
        BY <1>0, <1>4, <3>2, <3>3 DEF GlobalFollowsLocal, L, h
      <4>2. CASE g \in global /\ ~SamePath(g, h)
        BY <1>1, <1>2, <2>2, <3>3, <4>2 DEF OneIdentity, SamePath
      <4>3. QED BY <1>0, <2>2, <4>1, <4>2
    <3>4. CASE h.uuid # s.uuid
      <4>1. ~Queued(n, s.uuid)
        <5>1. ASSUME NEW k \in 1 .. L PROVE chan[n][k].uuid # s.uuid
          <6>1. k = 1 \/ k \in 1 + 1 .. L
            BY <1>0
          <6>2. QED BY <3>2, <3>4, <6>1 DEF h
        <5>2. QED BY <5>1 DEF Queued, L
      <4>2. g \in global
        BY <1>0, <2>2, <3>4
      <4>3. QED BY <1>4, <2>2, <4>1, <4>2 DEF GlobalFollowsLocal
    <3>5. QED BY <3>3, <3>4
  <2>3. QED BY <1>4, <2>1, <2>2
<1>5. QED BY <1>3, <1>4

LEMMA GlobalFollowsLocalStep ==
  ASSUME TypeInv, Owned, UuidsFresh, OneIdentity, GlobalFollowsLocal,
         StoreEffect
  PROVE  GlobalFollowsLocal'
<1>1. ASSUME NEW n \in Nodes, NEW r \in FDURecord,
             \/ PutKnown(n, r)
             \/ \E c \in Clients : PutNew(c, r) /\ n = task[c].agent
      PROVE  GlobalFollowsLocal'
  <2>1. /\ LocalPut(n, r) /\ UNCHANGED global
        /\ \A s \in AllRecords : s.uuid = r.uuid => s.fdu_uuid = r.fdu_uuid
    BY <1>1, PutIdentity
  <2>2. \A s \in local[n] : s.uuid = r.uuid => s.fdu_uuid = r.fdu_uuid
    BY <2>1, AllRecordsMembers
  <2>3. QED BY <2>1, <2>2, PutFollows
<1>2. CASE UNCHANGED <<global, local, chan>>
  BY <1>2 DEF GlobalFollowsLocal, Queued
<1>3. ASSUME NEW n \in Nodes, PutForwarded(n) PROVE GlobalFollowsLocal'
  BY <1>3, ForwardedFollows
<1>4. ASSUME NEW n \in Nodes, NEW r \in FDURecord, LocalRemoved(n, r)
      PROVE  GlobalFollowsLocal'
  <2>1. /\ \A m \in Nodes : \A s \in local'[m] : s \in local[m]
        /\ UNCHANGED <<global, chan>>
    BY <1>4 DEF LocalRemoved, remove_instance, TypeInv, TypeOK
  <2>2. QED BY <2>1 DEF GlobalFollowsLocal, Queued
<1>5. ASSUME NEW r \in FDURecord, GlobalRemoved(r)
      PROVE  GlobalFollowsLocal'
  <2>1. (\A g \in global' : g \in global) /\ UNCHANGED <<local, chan>>
    BY <1>5 DEF GlobalRemoved, remove_instance
  <2>2. QED BY <2>1 DEF GlobalFollowsLocal, Queued
<1>6. QED BY <1>1, <1>2, <1>3, <1>4, <1>5, StoreEffectCases

-----------------------------------------------------------------------------
(* The invariant                                                           *)

LEMMA InvInit == Init => Inv
<1> SUFFICES ASSUME Init PROVE Inv
  OBVIOUS
<1>1. TypeInv
  BY TypeInit
<1>2. AllRecords = {}
  BY AllRecordsBound DEF Init, IdleTask, AllRecords
<1>3. /\ \A n \in Nodes : local[n] = {} /\ Len(chan[n]) = 0
      /\ \A c \in Clients : task[c].snap = {} /\ task[c].pc = "idle"
  BY DEF Init, IdleTask
<1>4. QED BY <1>1, <1>2, <1>3
             DEF Inv, Identified, Owned, UuidsFresh, OneIdentity, GlobalFollowsLocal

(* The identities survive every step with these effects.                   *)
LEMMA IdentifiedKept ==
  ASSUME Identified, TypeInv', StoreEffect,
         UNCHANGED task \/ \E c \in Clients : TaskEffect(c)
  PROVE  Identified'
<1>1. TypeInv /\ Owned /\ UuidsFresh /\ OneIdentity
  BY DEF Identified
<1>2. Owned' /\ UuidsFresh' /\ OneIdentity'
  BY <1>1, OwnedStep, UuidsFreshStep, OneIdentityStep
<1>3. QED BY <1>2 DEF Identified

LEMMA IdentifiedStep ==
  ASSUME Identified, [Next]_vars
  PROVE  /\ Identified' /\ StoreEffect
         /\ UNCHANGED task \/ \E c \in Clients : TaskEffect(c)
<1>1. TypeInv /\ Owned
  BY DEF Identified
<1>2. StoreEffect /\ (UNCHANGED task \/ \E c \in Clients : TaskEffect(c))
  BY <1>1, StepEffect
<1>3. TypeInv'
  BY <1>1, TypeStep
<1>4. QED BY <1>2, <1>3, IdentifiedKept

LEMMA InvStep == Inv /\ [Next]_vars => Inv'
<1> SUFFICES ASSUME Inv, [Next]_vars PROVE Inv'
  OBVIOUS
<1>1. Identified' /\ StoreEffect
  BY IdentifiedStep DEF Inv
<1>2. GlobalFollowsLocal'
  BY <1>1, GlobalFollowsLocalStep DEF Inv, Identified
<1>3. QED BY <1>1, <1>2 DEF Inv

LEMMA InvAlways == Spec => []Inv
BY InvInit, InvStep, PTL DEF Spec

(* All copies of an instance agree on its node and on its descriptor, for  *)
(* any number of nodes, clients, descriptors and instances: get_instance   *)
(* (zconnector/mod.rs:919) never finds two paths for one uuid.             *)
THEOREM OneIdentityHolds == Spec => []OneIdentity
<1>1. Inv => OneIdentity
  BY DEF Inv, Identified
<1>2. QED BY <1>1, InvAlways, PTL

(* The monitoring tasks (agent.rs:129-142) make the global store converge  *)
(* to the local ones, for any number of nodes, clients and requests in     *)
(* progress for the same instance.                                         *)
THEOREM GlobalFollowsLocalHolds == Spec => []GlobalFollowsLocal
<1>1. Inv => GlobalFollowsLocal
  BY DEF Inv
<1>2. QED BY <1>1, InvAlways, PTL

-----------------------------------------------------------------------------
(* While no two requests are for the same instance                         *)

(* A store has at most one record of an instance.                          *)
Single ==
  /\ \A r, s \in global : r.uuid = s.uuid => r = s
  /\ \A n \in Nodes : \A r, s \in local[n] : r.uuid = s.uuid => r = s

(* No two clients work on one instance.                                    *)
Apart ==
  /\ \A c, d \in Clients :
       task[c].inst = task[d].inst /\ task[c].inst # None => c = d
  /\ \A c \in Clients : task[c].pc = "idle" => task[c].inst = None

(* The stores agree on instance i, and nothing of it is on its way.        *)
Settled(i) ==
  /\ \A n \in Nodes : ~Queued(n, i)
  /\ \A n \in Nodes : \A r \in local[n] : r.uuid = i => r \in global
  /\ \A g \in global : g.uuid = i => g \in local[g.node]

(* Record r is queued, and is the only one of its instance.                *)
OnceQueued(n, r) ==
  \E k \in 1 .. Len(chan[n]) :
    /\ chan[n][k] = r
    /\ \A j \in 1 .. Len(chan[n]) : chan[n][j].uuid = r.uuid => j = k

(* The operations whose handler polls.                                     *)
Polled == {"define", "configure", "start", "stop", "clean"}

(* The global store before the put of operation op on i has arrived.       *)
Before(op, i) ==
  IF op = "define"
    THEN \A g \in global : g.uuid # i
    ELSE \E g \in global : g.uuid = i /\ g.status \in Required(op)

LockedOn(c) ==
  \A s \in task[c].snap :
    /\ s.uuid = task[c].inst
    /\ s \in local[task[c].agent]
    /\ s.status \in Required(task[c].op)

PollingOn(c) ==
  /\ task[c].op \in Polled
  /\ \E r \in local[task[c].agent] :
       /\ r.uuid = task[c].inst
       /\ r.status = Target(task[c].op)
       /\ \/ Settled(task[c].inst)
          \/ OnceQueued(task[c].agent, r) /\ Before(task[c].op, task[c].inst)

RemovingOn(c) ==
  /\ \A n \in Nodes : ~Queued(n, task[c].inst)
  /\ \A n \in Nodes : \A r \in local[n] : r.uuid # task[c].inst
  /\ \E g \in global : g.uuid = task[c].inst /\ g.status = "DEFINED"

(* Where the records of an instance are in each phase of a request for it. *)
PhaseOf(c) ==
  /\ task[c].pc = "lock" => LockedOn(c)
  /\ task[c].pc = "poll" => PollingOn(c)
  /\ task[c].pc = "remove" => RemovingOn(c)

(* In ClientPrograms crashes and timeouts cut some instances short: of     *)
(* those, S, the rest of the invariant says nothing.                       *)
Phases(S) == \A c \in Clients : task[c].inst \notin S => PhaseOf(c)

(* A request for i is in a phase that disturbs the stores.                 *)
Unsettled(i) ==
  \E c \in Clients : task[c].inst = i /\ task[c].pc \in {"poll", "remove"}

Rest(S) == \A i \in Instances \ S : Unsettled(i) \/ Settled(i)

Core(S) == Single /\ Apart /\ Phases(S) /\ Rest(S)

ExclInv == Identified /\ Core({})

-----------------------------------------------------------------------------
(* What a step does to the stores and to one request                       *)

Others(c) == \A d \in Clients \ {c} : task'[d] = task[d]

StoresSame == UNCHANGED <<global, local, chan, used>>

(* No request gets on.                                                     *)
TasksSame ==
  \A c \in Clients :
    /\ task'[c].pc = task[c].pc /\ task'[c].op = task[c].op
    /\ task'[c].agent = task[c].agent /\ task'[c].inst = task[c].inst
    /\ task'[c].snap = task[c].snap

(* A request begins, ends, or gets on, outside of the two phases that      *)
(* disturb the stores.                                                     *)
Moved(c) ==
  /\ StoresSame /\ Others(c)
  /\ task[c].pc \notin {"poll", "remove"}
  /\ task'[c].pc \notin {"poll", "remove"}
  /\ \/ task'[c].inst \in {task[c].inst, None}
     \/ task'[c].inst \in Instances /\ Free(task'[c].inst)
  /\ task'[c].pc = "idle" => task'[c].inst = None
  /\ task'[c].pc = "lock" => LockedOn(c)'

Answered(c) ==
  /\ StoresSame /\ Others(c)
  /\ task[c].pc = "poll" /\ task'[c].pc = "reply"
  /\ task'[c].inst = task[c].inst
  /\ LET m == get_instance(global, task[c].inst)
     IN \E r \in m : m = {r} => r.status = Target(task[c].op)

Wrote(c, r) ==
  /\ task[c].agent \in Nodes /\ r.uuid = task[c].inst
  /\ LocalPut(task[c].agent, r)
  /\ UNCHANGED global /\ Others(c)
  /\ task'[c].pc = "poll" /\ task'[c].op = task[c].op
  /\ task'[c].agent = task[c].agent /\ task'[c].inst = task[c].inst
  /\ task[c].op \in Polled /\ r.status = Target(task[c].op)
  /\ \/ /\ task[c].pc = "define" /\ task[c].op = "define"
        /\ r.node = task[c].agent /\ r.fdu_uuid = task[c].fdu
        /\ used' = used \cup {r.uuid}
     \/ /\ task[c].pc = "lock" /\ task[c].op # "define"
        /\ \E s \in task[c].snap : SameIdentity(r, s)
        /\ UNCHANGED used

Undefined(c, r) ==
  /\ task[c].agent \in Nodes
  /\ r \in local[task[c].agent] /\ r.uuid = task[c].inst
  /\ LocalRemoved(task[c].agent, r)
  /\ Others(c)
  /\ task[c].pc = "lock" /\ task[c].op = "undefine" /\ task[c].snap # {}
  /\ task'[c].pc = "remove" /\ task'[c].inst = task[c].inst

Removed(c) ==
  LET m == get_instance(global, task[c].inst)
  IN /\ UNCHANGED <<local, chan, used>> /\ Others(c)
     /\ task[c].pc = "remove" /\ task'[c].pc = "reply"
     /\ task'[c].inst = task[c].inst
     /\ \/ \E r \in m : global' = remove_instance(global, r)
        \/ (\A r \in m : m # {r}) /\ UNCHANGED global

Delivered(n) == PutForwarded(n) /\ UNCHANGED task

Effect ==
  \/ StoresSame /\ TasksSame
  \/ \E c \in Clients : Moved(c)
  \/ \E c \in Clients : Answered(c)
  \/ \E c \in Clients, r \in FDURecord : Wrote(c, r)
  \/ \E c \in Clients, r \in FDURecord : Undefined(c, r)
  \/ \E c \in Clients : Removed(c)
  \/ \E n \in Nodes : Delivered(n)

-----------------------------------------------------------------------------
(* The namespaces of a node: every configured instance has one of its own, *)
(* and, unless a configure fails halfway, there are no others.             *)
Configured(n) == {r \in local[n] : r.status # "DEFINED"}

NetNsInv ==
  \A n \in Nodes :
    /\ \A r, s \in Configured(n) : r.netns = s.netns => r = s
    /\ \A r \in Configured(n) : r.netns \in netns[n]
    /\ BadFdus = {} =>
         \A x \in netns[n] : \E r \in Configured(n) : r.netns = x

-----------------------------------------------------------------------------
(* Every step has one of the effects                                       *)

LEMMA ReplyMoves ==
  ASSUME TypeInv, NEW c \in Clients, NEW r, Reply(c, r)
  PROVE  Others(c) /\ task'[c].pc = "reply" /\ task'[c].inst = task[c].inst
BY DEF Reply, Others, Answer, IdleTask, TypeInv, TypeOK

LEMMA GotoMoves ==
  ASSUME TypeInv, NEW c \in Clients, NEW pc, Goto(c, pc)
  PROVE  /\ Others(c) /\ task'[c].pc = pc /\ task'[c].op = task[c].op
         /\ task'[c].agent = task[c].agent /\ task'[c].inst = task[c].inst
BY DEF Goto, Others, TypeInv, TypeOK, Task

LEMMA EnterMoves ==
  ASSUME TypeInv, NEW c \in Clients, NEW t \in Task, NEW n \in Nodes,
         Enter(c, t, n)
  PROVE  /\ Others(c) /\ task'[c].inst = t.inst
         /\ task'[c].pc \in {"descriptor", "forward", "reply"}
<1> DEFINE m == get_instance(global, t.inst)
<1>1. ASSUME NEW x, task' = [task EXCEPT ![c] = x], x.inst = t.inst,
             x.pc \in {"descriptor", "forward", "reply"}
      PROVE  /\ Others(c) /\ task'[c].inst = t.inst
             /\ task'[c].pc \in {"descriptor", "forward", "reply"}
  BY <1>1 DEF Others, TypeInv, TypeOK
<1>2. ASSUME NEW r,
             task' = [task EXCEPT ![c] =
               [t EXCEPT !.pc = "descriptor", !.held = @ \cup {n},
                         !.fdu = r.fdu_uuid]]
      PROVE  \E x : /\ task' = [task EXCEPT ![c] = x]
                    /\ x.inst = t.inst /\ x.pc = "descriptor"
  <2> DEFINE x == [t EXCEPT !.pc = "descriptor", !.held = @ \cup {n},
                            !.fdu = r.fdu_uuid]
  <2>1. x.inst = t.inst /\ x.pc = "descriptor"
    BY DEF Task
  <2>2. task' = [task EXCEPT ![c] = x]
    BY <1>2
  <2> HIDE DEF x
  <2>3. QED BY <2>1, <2>2
<1>3. ASSUME NEW r,
             task' = [task EXCEPT ![c] =
               [t EXCEPT !.pc = "forward", !.held = @ \cup {n},
                         !.agent = r.node, !.op = ForwardedAs(@)]]
      PROVE  \E x : /\ task' = [task EXCEPT ![c] = x]
                    /\ x.inst = t.inst /\ x.pc = "forward"
  <2> DEFINE x == [t EXCEPT !.pc = "forward", !.held = @ \cup {n},
                            !.agent = r.node, !.op = ForwardedAs(@)]
  <2>1. x.inst = t.inst /\ x.pc = "forward"
    BY DEF Task
  <2>2. task' = [task EXCEPT ![c] = x]
    BY <1>3
  <2> HIDE DEF x
  <2>3. QED BY <2>1, <2>2
<1>4. /\ Answer(t.req, t.inst, LookupError(m)).inst = t.inst
      /\ Answer(t.req, t.inst, LookupError(m)).pc = "reply"
  BY DEF Answer, IdleTask
<1>5. \E x : /\ task' = [task EXCEPT ![c] = x] /\ x.inst = t.inst
            /\ x.pc \in {"descriptor", "forward", "reply"}
  <2>1. CASE \E r \in m : task' = [task EXCEPT ![c] =
               [t EXCEPT !.pc = "descriptor", !.held = @ \cup {n},
                         !.fdu = r.fdu_uuid]]
    BY <1>2, <2>1
  <2>2. CASE \E r \in m : task' = [task EXCEPT ![c] =
               [t EXCEPT !.pc = "forward", !.held = @ \cup {n},
                         !.agent = r.node, !.op = ForwardedAs(@)]]
    BY <1>3, <2>2
  <2>3. CASE task' = [task EXCEPT ![c] = Answer(t.req, t.inst, LookupError(m))]
    BY <1>4, <2>3
  <2>4. QED BY <2>1, <2>2, <2>3, Zenon DEF Enter
<1>6. QED BY <1>1, <1>5

(* What the plugin does with its write lock held, when it succeeds.        *)
LEMMA WroteStep ==
  ASSUME TypeInv, Owned, NEW c \in Clients,
         NEW op \in {"configure", "start", "stop", "clean"},
         NEW s \in task[c].snap, Holds(c, op, s),
         NEW r \in FDURecord, SameIdentity(r, s), r.status = Target(op),
         LocalPut(task[c].agent, r), Goto(c, "poll"), UNCHANGED <<global, used>>
  PROVE  Wrote(c, r)
<1>1. /\ task[c].pc = "lock" /\ task[c].op = op /\ task[c].agent \in Nodes
  BY DEF Holds, TypeInv, TaskKnows, Busy
<1>2. r.uuid = task[c].inst
  BY DEF Owned, SameIdentity
<1>3. QED BY <1>1, <1>2, GotoMoves DEF Wrote, Polled

(* What a handler does, and what its plugin does.                          *)
LEMMA HandlerEffect ==
  ASSUME TypeInv, NEW c \in Clients, HandlerStep(c)
  PROVE  Moved(c) \/ Answered(c) \/ Removed(c)
<1> USE DEF TypeInv
<1>1. CASE GetDescriptor(c)
  <2>1. /\ StoresSame /\ task[c].pc = "descriptor"
        /\ Goto(c, "plugin") \/ Reply(c, "NotFound")
    BY <1>1 DEF GetDescriptor, storeVars, StoresSame
  <2>2. /\ Others(c) /\ task'[c].inst = task[c].inst
        /\ task'[c].pc \in {"plugin", "reply"}
    BY <2>1, GotoMoves, ReplyMoves
  <2>3. QED BY <2>1, <2>2 DEF Moved
<1>2. CASE Poll(c)
  <2>1. PICK r : Reply(c, r)
    BY <1>2 DEF Poll
  <2>2. QED BY <1>2, <2>1, ReplyMoves DEF Poll, Answered, storeVars, StoresSame
<1>3. CASE RemoveGlobal(c)
  <2>1. PICK r : Reply(c, r)
    BY <1>3 DEF RemoveGlobal
  <2>2. QED BY <1>3, <2>1, ReplyMoves DEF RemoveGlobal, Removed
<1>4. CASE RemoveFdu(c)
  <2>1. /\ StoresSame /\ task[c].pc = "offload" /\ Reply(c, "Ok")
    BY <1>4 DEF RemoveFdu, StoresSame
  <2>2. QED BY <2>1, ReplyMoves DEF Moved
<1>5. CASE Return(c)
  <2>1. /\ StoresSame /\ task[c].pc = "reply"
        /\ task' = [task EXCEPT ![c] = IdleTask]
    BY <1>5 DEF Return, storeVars, StoresSame
  <2>2. /\ Others(c) /\ task'[c].pc = "idle" /\ task'[c].inst = None
    BY <2>1 DEF Others, IdleTask, TypeOK
  <2>3. QED BY <2>1, <2>2 DEF Moved
<1>6. QED BY <1>1, <1>2, <1>3, <1>4, <1>5 DEF HandlerStep

LEMMA PluginEffect ==
  ASSUME TypeInv, Owned, NEW c \in Clients, PluginStep(c)
  PROVE  \/ Moved(c)
         \/ \E r \in FDURecord : Wrote(c, r)
         \/ \E r \in FDURecord : Undefined(c, r)
<1> USE DEF TypeInv
<1> DEFINE n == task[c].agent
<1>0. \A s \in task[c].snap :
        /\ s \in FDURecord /\ task[c].pc = "lock" /\ n \in Nodes
  BY DEF TypeOK, Task, Owned, TaskKnows, Busy
<1>2. CASE PluginDefine(c)
  <2> DEFINE r == [uuid |-> task[c].inst, fdu_uuid |-> task[c].fdu,
                   node |-> n, status |-> "DEFINED", netns |-> None]
  <2>1. /\ task[c].pc = "define" /\ task[c].op = "define"
        /\ n \in Nodes /\ r \in FDURecord
        /\ r.uuid = task[c].inst /\ r.node = n /\ r.fdu_uuid = task[c].fdu
        /\ r.status = Target("define")
    BY <1>2 DEF PluginDefine, TaskKnows, Busy, FDURecord, FDUState, Target
  <2>2. LocalPut(n, r) /\ used' = used \cup {r.uuid} /\ UNCHANGED global
    BY <1>2 DEF PluginDefine
  <2>3. /\ Others(c) /\ task'[c].pc = "poll" /\ task'[c].op = task[c].op
        /\ task'[c].agent = task[c].agent /\ task'[c].inst = task[c].inst
    BY <1>2, GotoMoves DEF PluginDefine
  <2> HIDE DEF r
  <2>4. Wrote(c, r)
    BY <2>1, <2>2, <2>3 DEF Wrote, Polled
  <2>5. QED BY <2>1, <2>4
<1>3. CASE PluginGet(c)
  <2> DEFINE m == get_instance(local[n], task[c].inst)
  <2>1. StoresSame /\ task[c].pc = "plugin" /\ n \in Nodes
    BY <1>3 DEF PluginGet, storeVars, StoresSame, TaskKnows, Busy
  <2>2. CASE \E r : Reply(c, r)
    BY <2>1, <2>2, ReplyMoves DEF Moved
  <2>3. CASE \E r \in m : /\ m = {r}
                          /\ r.status \in Required(task[c].op)
                          /\ task' = [task EXCEPT ![c].pc = "lock",
                                                  ![c].snap = m]
    <3>1. PICK r \in m : /\ m = {r}
                         /\ r.status \in Required(task[c].op)
      BY <2>3
    <3>2. /\ Others(c) /\ task'[c].pc = "lock" /\ task'[c].agent = n
          /\ task'[c].inst = task[c].inst /\ task'[c].op = task[c].op
          /\ task'[c].snap = m
      BY <2>3 DEF Others, TypeOK, Task
    <3>3. \A s \in m : /\ s.uuid = task[c].inst /\ s \in local[n]
                       /\ s.status \in Required(task[c].op)
      BY <3>1 DEF get_instance
    <3>4. LockedOn(c)'
      BY <2>1, <3>2, <3>3 DEF LockedOn, StoresSame
    <3>5. QED BY <2>1, <3>2, <3>4 DEF Moved
  <2>4. QED BY <1>3, <2>2, <2>3 DEF PluginGet
<1>4. CASE PluginSwitch(c)
  <2>1. PICK op \in {"start", "stop"}, s \in task[c].snap :
          /\ Holds(c, op, s)
          /\ LocalPut(n, [s EXCEPT !.status = Target(op)])
    BY <1>4 DEF PluginSwitch
  <2> DEFINE r == [s EXCEPT !.status = Target(op)]
  <2>2. r \in FDURecord /\ SameIdentity(r, s) /\ r.status = Target(op)
    BY <1>0 DEF FDURecord, FDUState, Target, SameIdentity
  <2>3. LocalPut(n, r) /\ Goto(c, "poll") /\ UNCHANGED <<global, used>>
    BY <1>4, <2>1 DEF PluginSwitch
  <2> HIDE DEF r
  <2>4. Wrote(c, r)
    BY <2>1, <2>2, <2>3, WroteStep
  <2>5. QED BY <2>2, <2>4
<1>5. CASE PluginConfigure(c)
  <2> DEFINE ns == CHOOSE x \in FreshNetNs : TRUE
  <2>1. PICK s \in task[c].snap :
          /\ Holds(c, "configure", s)
          /\ \/ Reply(c, "NotFound") /\ UNCHANGED <<local, chan>>
             \/ /\ FreshNetNs # {}
                /\ LocalPut(n, [s EXCEPT !.status = Target("configure"),
                                         !.netns = ns])
                /\ Goto(c, "poll")
    BY <1>5 DEF PluginConfigure
  <2>2. FreshNetNs # {} => ns \in NetNs
    BY DEF FreshNetNs
  <2> HIDE DEF ns
  <2>3. UNCHANGED <<global, used>>
    BY <1>5 DEF PluginConfigure
  <2>4. CASE Reply(c, "NotFound") /\ UNCHANGED <<local, chan>>
    BY <1>0, <2>3, <2>4, ReplyMoves DEF Moved, StoresSame
  <2>5. CASE /\ ns \in NetNs
             /\ LocalPut(n, [s EXCEPT !.status = Target("configure"),
                                      !.netns = ns])
             /\ Goto(c, "poll")
    <3> DEFINE r == [s EXCEPT !.status = Target("configure"), !.netns = ns]
    <3>1. /\ r \in FDURecord /\ SameIdentity(r, s)
          /\ r.status = Target("configure")
      BY <1>0, <2>5 DEF FDURecord, FDUState, Target, SameIdentity
    <3>2. LocalPut(n, r) /\ Goto(c, "poll")
      BY <2>5
    <3> HIDE DEF r
    <3>3. Wrote(c, r)
      BY <2>1, <2>3, <3>1, <3>2, WroteStep
    <3>4. QED BY <3>1, <3>3
  <2>6. QED BY <2>1, <2>2, <2>4, <2>5
<1>6. CASE PluginClean(c)
  <2>1. PICK s \in task[c].snap :
          /\ Holds(c, "clean", s)
          /\ \/ Reply(c, "NotFound") /\ UNCHANGED <<local, chan>>
             \/ /\ LocalPut(n, [s EXCEPT !.status = Target("clean")])
                /\ Goto(c, "poll")
    BY <1>6 DEF PluginClean
  <2>2. UNCHANGED <<global, used>>
    BY <1>6 DEF PluginClean
  <2>3. CASE Reply(c, "NotFound") /\ UNCHANGED <<local, chan>>
    BY <1>0, <2>2, <2>3, ReplyMoves DEF Moved, StoresSame
  <2>4. CASE /\ LocalPut(n, [s EXCEPT !.status = Target("clean")])
             /\ Goto(c, "poll")
    <3> DEFINE r == [s EXCEPT !.status = Target("clean")]
    <3>1. r \in FDURecord /\ SameIdentity(r, s) /\ r.status = Target("clean")
      BY <1>0 DEF FDURecord, FDUState, Target, SameIdentity
    <3>2. LocalPut(n, r) /\ Goto(c, "poll")
      BY <2>4
    <3> HIDE DEF r
    <3>3. Wrote(c, r)
      BY <2>1, <2>2, <3>1, <3>2, WroteStep
    <3>4. QED BY <3>1, <3>3
  <2>5. QED BY <2>1, <2>3, <2>4
<1>7. CASE PluginUndefine(c)
  <2> DEFINE m == get_instance(local[n], task[c].inst)
  <2>1. /\ task[c].pc = "lock" /\ task[c].op = "undefine"
        /\ task[c].snap # {} /\ n \in Nodes
    BY <1>7, <1>0 DEF PluginUndefine, Holds
  <2>2. UNCHANGED <<global, chan, used>>
    BY <1>7 DEF PluginUndefine
  <2>3. ASSUME NEW r \in m, local' = [local EXCEPT ![n] = remove_instance(@, r)],
               Goto(c, "remove")
        PROVE  \E x \in FDURecord : Undefined(c, x)
    <3>1. r \in local[n] /\ r.uuid = task[c].inst /\ r \in FDURecord
      BY <2>1 DEF get_instance, TypeOK
    <3>2. Undefined(c, r)
      BY <2>1, <2>2, <2>3, <3>1, GotoMoves DEF Undefined, LocalRemoved
    <3>3. QED BY <3>1, <3>2
  <2>4. CASE UNCHANGED local /\ \E r : Reply(c, r)
    BY <2>1, <2>2, <2>4, ReplyMoves DEF Moved, StoresSame
  <2>5. QED BY <1>7, <2>3, <2>4 DEF PluginUndefine
<1>8. QED BY <1>2, <1>3, <1>4, <1>5, <1>6, <1>7 DEF PluginStep

LEMMA EffectStep ==
  ASSUME Exclusive, TypeInv, Owned, [Next]_vars
  PROVE  Effect
<1> USE DEF TypeInv
<1> DEFINE Kept == UNCHANGED <<global, local, chan, used, task>>
<1>0. Kept => Effect
  BY DEF Effect, StoresSame, TasksSame
<1>1. ASSUME NEW f \in Fdus, onboard_fdu(f) PROVE Kept
  BY <1>1 DEF onboard_fdu
<1>2. ASSUME NEW c \in Clients, NEW n \in Nodes, NEW f \in Fdus,
             define_fdu(c, n, f)
      PROVE  Moved(c)
  <2>1. PICK i \in Instances \ used :
          /\ Free(i)
          /\ \/ task' = [task EXCEPT ![c] =
                  [NewTask("define", n, i, f) EXCEPT !.pc = "define",
                                                     !.held = {n}]]
             \/ task' = [task EXCEPT ![c] = Answer("define", None, "NotFound")]
    BY <1>2 DEF define_fdu
  <2>2. /\ [NewTask("define", n, i, f) EXCEPT !.pc = "define",
                                              !.held = {n}].pc = "define"
        /\ [NewTask("define", n, i, f) EXCEPT !.pc = "define",
                                              !.held = {n}].op = "define"
        /\ [NewTask("define", n, i, f) EXCEPT !.pc = "define",
                                              !.held = {n}].inst = i
    BY DEF NewTask, IdleTask
  <2>3. /\ Answer("define", None, "NotFound").pc = "reply"
        /\ Answer("define", None, "NotFound").inst = None
    BY DEF Answer, IdleTask
  <2>4. PICK x : /\ task' = [task EXCEPT ![c] = x]
                 /\ \/ x.pc = "define" /\ x.op = "define" /\ x.inst = i
                    \/ x.pc = "reply" /\ x.inst = None
    BY <2>1, <2>2, <2>3
  <2>5. StoresSame /\ task[c].pc = "idle"
    BY <1>2 DEF define_fdu, storeVars, StoresSame
  <2>6. task'[c] = x /\ Others(c)
    BY <2>4 DEF Others, TypeOK
  <2>7. QED BY <2>1, <2>4, <2>5, <2>6 DEF Moved
<1>3. ASSUME NEW c \in Clients, NEW op \in InstanceOps, NEW n \in Nodes,
             NEW i \in Instances, Request(c, op, n, i)
      PROVE  Moved(c)
  <2>1. NewTask(op, n, i, None) \in Task /\ NewTask(op, n, i, None).inst = i
    BY NewTaskType DEF Ops
  <2>2. /\ StoresSame /\ Free(i) /\ task[c].pc = "idle"
        /\ Enter(c, NewTask(op, n, i, None), n)
    BY <1>3 DEF Request, storeVars, StoresSame
  <2>3. /\ Others(c) /\ task'[c].inst = i
        /\ task'[c].pc \in {"descriptor", "forward", "reply"}
    BY <2>1, <2>2, EnterMoves
  <2>4. QED BY <2>2, <2>3 DEF Moved
<1>4. ASSUME NEW c \in Clients, NEW f \in Fdus, offload_fdu(c, f)
      PROVE  Moved(c)
  <2>1. \A r : /\ Answer("offload", None, r).pc = "reply"
              /\ Answer("offload", None, r).inst = None
    BY DEF Answer, IdleTask
  <2>2. /\ [NewTask("offload", None, None, f) EXCEPT !.pc = "offload"].pc
             = "offload"
        /\ [NewTask("offload", None, None, f) EXCEPT !.pc = "offload"].inst
             = None
    BY DEF NewTask, IdleTask
  <2>3. PICK x : /\ task' = [task EXCEPT ![c] = x]
                 /\ x.pc \in {"reply", "offload"} /\ x.inst = None
    BY <1>4, <2>1, <2>2 DEF offload_fdu
  <2>4. StoresSame /\ task[c].pc = "idle"
    BY <1>4 DEF offload_fdu, storeVars, StoresSame
  <2>5. task'[c] = x /\ Others(c)
    BY <2>3 DEF Others, TypeOK
  <2>6. QED BY <2>3, <2>4, <2>5 DEF Moved
<1>5. ASSUME NEW c \in Clients, Arrive(c) PROVE Moved(c)
  <2>1. /\ task[c] \in Task /\ task[c].agent \in Nodes
        /\ task[c].pc = "forward" /\ StoresSame
        /\ Enter(c, task[c], task[c].agent)
    BY <1>5 DEF Arrive, TypeOK, TaskKnows, Busy, storeVars, StoresSame
  <2>2. /\ Others(c) /\ task'[c].inst = task[c].inst
        /\ task'[c].pc \in {"descriptor", "forward", "reply"}
    BY <2>1, EnterMoves
  <2>3. QED BY <2>1, <2>2 DEF Moved
<1>6. ASSUME NEW c \in Clients, ForwardTimeout(c)
      PROVE  StoresSame /\ TasksSame
  BY <1>6 DEF ForwardTimeout, StoresSame, TasksSame, storeVars, TypeOK, Task
<1>7. ASSUME NEW c \in Clients, HandlerStep(c) PROVE Effect
  BY <1>7, HandlerEffect DEF Effect
<1>8. ASSUME NEW c \in Clients, PluginStep(c) PROVE Effect
  BY <1>8, PluginEffect DEF Effect
<1>9. ASSUME NEW n \in Nodes, Monitor(n) PROVE Delivered(n)
  BY <1>9 DEF Monitor, Delivered, PutForwarded
<1>10. ASSUME NEW n \in Nodes, NEW kind \in {"register", "unregister"},
              PluginCall(n, kind)
       PROVE  Kept
  BY <1>10 DEF PluginCall, storeVars
<1>11. ASSUME NEW n \in Nodes, PluginAdmit(n) PROVE Kept
  BY <1>11 DEF PluginAdmit, storeVars
<1>12. CASE UNCHANGED vars
  BY <1>0, <1>12 DEF vars
<1>13. ASSUME NEW c \in Clients, Moved(c) \/ Answered(c) \/ Removed(c)
       PROVE  Effect
  BY <1>13 DEF Effect
<1>14. (StoresSame /\ TasksSame) \/ (\E n \in Nodes : Delivered(n)) => Effect
  BY DEF Effect
<1>15. QED
  BY <1>0, <1>1, <1>2, <1>3, <1>4, <1>5, <1>6, <1>7, <1>8, <1>9, <1>10,
     <1>11, <1>12, <1>13, <1>14
     DEF Next

-----------------------------------------------------------------------------
(* Instances a step leaves alone                                           *)

(* The records of instance j are where they were.                          *)
SameFor(j) ==
  /\ \A r \in FDURecord : r.uuid = j => (r \in global' <=> r \in global)
  /\ \A n \in Nodes : \A r \in FDURecord :
       r.uuid = j => (r \in local'[n] <=> r \in local[n])
  /\ \A n \in Nodes : Queued(n, j)' <=> Queued(n, j)
  /\ \A n \in Nodes : \A r \in FDURecord :
       r.uuid = j /\ OnceQueued(n, r) => OnceQueued(n, r)'

(* The records of one instance are of one node and under one path.         *)
LEMMA OnePlace ==
  ASSUME Identified
  PROVE  /\ \A g \in global : g \in FDURecord
         /\ \A n \in Nodes : \A r \in local[n] : r \in FDURecord /\ r.node = n
         /\ \A n \in Nodes : \A k \in 1 .. Len(chan[n]) :
              chan[n][k] \in FDURecord /\ chan[n][k].node = n
         /\ \A g, h \in global : g.uuid = h.uuid => SamePath(g, h)
         /\ \A n \in Nodes : \A r \in local[n] : \A g \in global :
              r.uuid = g.uuid => SamePath(r, g) /\ g.node = n
         /\ \A m, n \in Nodes : \A r \in local[m], s \in local[n] :
              r.uuid = s.uuid => SamePath(r, s) /\ m = n
         /\ \A m, n \in Nodes : \A r \in local[m], k \in 1 .. Len(chan[n]) :
              r.uuid = chan[n][k].uuid => SamePath(r, chan[n][k]) /\ m = n
         /\ \A m, n \in Nodes : \A j \in 1 .. Len(chan[m]) :
              \A k \in 1 .. Len(chan[n]) :
                chan[m][j].uuid = chan[n][k].uuid => m = n
<1>1. /\ \A g \in global : g \in FDURecord
      /\ \A n \in Nodes : \A r \in local[n] : r \in FDURecord
      /\ \A n \in Nodes : \A k \in 1 .. Len(chan[n]) : chan[n][k] \in FDURecord
  BY DEF Identified, TypeInv, TypeOK
<1>2. /\ \A n \in Nodes : \A r \in local[n] : r.node = n
      /\ \A n \in Nodes : \A k \in 1 .. Len(chan[n]) : chan[n][k].node = n
  BY DEF Identified, Owned
<1>3. \A r, s \in AllRecords : r.uuid = s.uuid => SamePath(r, s) /\ r.node = s.node
  BY DEF Identified, OneIdentity, SamePath
<1>4. QED BY <1>1, <1>2, <1>3, AllRecordsMembers

(* The agreement of the copies after a step.                               *)
LEMMA OnePathNext ==
  ASSUME Identified'
  PROVE  /\ \A g, h \in global' : g.uuid = h.uuid => SamePath(g, h)
         /\ \A n \in Nodes : \A r, s \in local'[n] :
              r.uuid = s.uuid => SamePath(r, s)
BY DEF Identified, OneIdentity, AllRecords, SamePath

LEMMA SameForStores ==
  ASSUME StoresSame, NEW j
  PROVE  SameFor(j)
BY DEF StoresSame, SameFor, Queued, OnceQueued

LEMMA SameForWrote ==
  ASSUME Identified, NEW c \in Clients, NEW r \in FDURecord, Wrote(c, r),
         NEW j, j # r.uuid
  PROVE  SameFor(j)
<1> DEFINE n == task[c].agent
           L == Len(chan[n])
<1>0. n \in Nodes /\ LocalPut(n, r) /\ UNCHANGED global /\ TypeInv
  BY DEF Wrote, Identified
<1>1. /\ \A m \in Nodes \ {n} : local'[m] = local[m] /\ chan'[m] = chan[m]
      /\ local'[n] = {s \in local[n] : ~SamePath(s, r)} \cup {r}
      /\ Len(chan'[n]) = L + 1 /\ L \in Nat
      /\ \A k \in 1 .. L : chan'[n][k] = chan[n][k]
      /\ chan'[n][L + 1] = r
  BY <1>0, PutElements
<1> HIDE DEF n
<1>2. \A m \in Nodes : \A s \in FDURecord :
        s.uuid = j => (s \in local'[m] <=> s \in local[m])
  BY <1>1 DEF SamePath
<1>3. ASSUME NEW m \in Nodes PROVE Queued(m, j)' <=> Queued(m, j)
  <2>1. CASE m = n
    <3>1. \A i \in 1 .. L + 1 :
            chan'[n][i].uuid = j => i \in 1 .. L /\ chan[n][i].uuid = j
      BY <1>1
    <3>2. \A i \in 1 .. L :
            chan[n][i].uuid = j => i \in 1 .. L + 1 /\ chan'[n][i].uuid = j
      BY <1>1
    <3> HIDE DEF L
    <3>3. QED BY <1>1, <2>1, <3>1, <3>2 DEF Queued, L
  <2>2. CASE m # n
    BY <1>1, <2>2 DEF Queued
  <2>3. QED BY <2>1, <2>2
<1>4. ASSUME NEW m \in Nodes, NEW s \in FDURecord, s.uuid = j, OnceQueued(m, s)
      PROVE  OnceQueued(m, s)'
  <2>1. CASE m = n
    <3>1. PICK k \in 1 .. L :
            /\ chan[n][k] = s
            /\ \A i \in 1 .. L : chan[n][i].uuid = j => i = k
      BY <1>4, <2>1 DEF OnceQueued
    <3>2. \A i \in 1 .. L + 1 : chan'[n][i].uuid = j => i \in 1 .. L
      BY <1>1
    <3>3. \A i \in 1 .. L + 1 : chan'[n][i].uuid = j => i = k
      BY <1>1, <3>1, <3>2
    <3>4. k \in 1 .. L + 1 /\ chan'[n][k] = s
      BY <1>1, <3>1
    <3>5. QED BY <1>1, <1>4, <2>1, <3>3, <3>4 DEF OnceQueued
  <2>2. CASE m # n
    BY <1>1, <1>4, <2>2 DEF OnceQueued
  <2>3. QED BY <2>1, <2>2
<1>5. QED BY <1>0, <1>2, <1>3, <1>4 DEF SameFor

LEMMA SameForUndefined ==
  ASSUME Identified, NEW c \in Clients, NEW r \in FDURecord, Undefined(c, r),
         NEW j, j # r.uuid
  PROVE  SameFor(j)
<1>1. \A m \in Nodes : \A s \in FDURecord :
        s.uuid = j => (s \in local'[m] <=> s \in local[m])
  BY DEF Undefined, LocalRemoved, remove_instance, SamePath, Identified, TypeInv, TypeOK
<1>2. UNCHANGED <<global, chan>>
  BY DEF Undefined, LocalRemoved
<1>3. QED BY <1>1, <1>2 DEF SameFor, Queued, OnceQueued

LEMMA SameForRemoved ==
  ASSUME NEW c \in Clients, Removed(c), NEW j, j # task[c].inst
  PROVE  SameFor(j)
<1>1. UNCHANGED <<local, chan>>
  BY DEF Removed
<1>2. \A r \in get_instance(global, task[c].inst) : r.uuid = task[c].inst
  BY DEF get_instance
<1>3. \/ UNCHANGED global
      \/ \E r : r.uuid = task[c].inst /\ global' = remove_instance(global, r)
  BY <1>2 DEF Removed
<1>4. \A s \in FDURecord : s.uuid = j => (s \in global' <=> s \in global)
  BY <1>3 DEF remove_instance, SamePath
<1>5. QED BY <1>1, <1>4 DEF SameFor, Queued, OnceQueued

LEMMA SameForDelivered ==
  ASSUME Identified, NEW n \in Nodes, Delivered(n), NEW j, j # chan[n][1].uuid
  PROVE  SameFor(j)
<1> DEFINE L == Len(chan[n])
<1>0. TypeInv /\ PutForwarded(n) /\ UNCHANGED local
  BY DEF Identified, Delivered, PutForwarded
<1>1. /\ \A m \in Nodes \ {n} : chan'[m] = chan[m]
      /\ L \in Nat \ {0} /\ Len(chan'[n]) = L - 1
      /\ \A k \in 1 .. L - 1 : chan'[n][k] = chan[n][k + 1]
      /\ global' = {s \in global : ~SamePath(s, chan[n][1])} \cup {chan[n][1]}
  BY <1>0, ForwardedElements
<1>2. \A s \in FDURecord : s.uuid = j => (s \in global' <=> s \in global)
  BY <1>1 DEF SamePath
<1> HIDE DEF L
<1>3. ASSUME NEW k \in 1 .. L, chan[n][k].uuid = j
      PROVE  k - 1 \in 1 .. L - 1 /\ (k - 1) + 1 = k /\ chan'[n][k - 1] = chan[n][k]
  <2>1. k # 1
    BY <1>3
  <2>2. k - 1 \in 1 .. L - 1 /\ (k - 1) + 1 = k
    BY <1>1, <2>1
  <2>3. QED BY <1>1, <2>2
<1>4. ASSUME NEW m \in Nodes PROVE Queued(m, j)' <=> Queued(m, j)
  <2>1. CASE m = n
    <3>1. ASSUME NEW k \in 1 .. L, chan[n][k].uuid = j PROVE Queued(n, j)'
      BY <1>1, <1>3, <3>1 DEF Queued
    <3>2. ASSUME NEW k \in 1 .. L - 1, chan'[n][k].uuid = j PROVE Queued(n, j)
      <4>1. k + 1 \in 1 .. L
        BY <1>1
      <4>2. QED BY <1>1, <3>2, <4>1 DEF Queued, L
    <3>3. QED BY <1>1, <2>1, <3>1, <3>2 DEF Queued, L
  <2>2. CASE m # n
    BY <1>1, <2>2 DEF Queued
  <2>3. QED BY <2>1, <2>2
<1>5. ASSUME NEW m \in Nodes, NEW s \in FDURecord, s.uuid = j, OnceQueued(m, s)
      PROVE  OnceQueued(m, s)'
  <2>1. CASE m = n
    <3>1. PICK k \in 1 .. L :
            /\ chan[n][k] = s
            /\ \A i \in 1 .. L : chan[n][i].uuid = j => i = k
      BY <1>5, <2>1 DEF OnceQueued, L
    <3>2. k - 1 \in 1 .. L - 1 /\ chan'[n][k - 1] = s
      BY <1>3, <1>5, <3>1
    <3>3. ASSUME NEW i \in 1 .. L - 1, chan'[n][i].uuid = j PROVE i = k - 1
      <4>1. i + 1 \in 1 .. L /\ chan[n][i + 1].uuid = j
        BY <1>1, <3>3
      <4>2. i + 1 = k
        BY <3>1, <4>1
      <4>3. QED BY <4>2
    <3>4. QED BY <1>1, <1>5, <2>1, <3>2, <3>3 DEF OnceQueued
  <2>2. CASE m # n
    BY <1>1, <1>5, <2>2 DEF OnceQueued
  <2>3. QED BY <2>1, <2>2
<1>6. QED BY <1>0, <1>2, <1>4, <1>5 DEF SameFor

(* What SameFor keeps of an instance, and of a request for it.             *)
LEMMA SettledKept ==
  ASSUME Identified, Identified', NEW j, SameFor(j), Settled(j)
  PROVE  Settled(j)'
<1>1. /\ \A g \in global' : g \in FDURecord
      /\ \A n \in Nodes : \A r \in local'[n] : r \in FDURecord
      /\ \A g \in global : g.node \in Nodes
  BY DEF Identified, TypeInv, TypeOK, FDURecord
<1>2. \A n \in Nodes : ~Queued(n, j)'
  BY DEF SameFor, Settled
<1>3. \A n \in Nodes : \A r \in local'[n] : r.uuid = j => r \in global'
  BY <1>1 DEF SameFor, Settled
<1>4. \A g \in global' : g.uuid = j => g \in local'[g.node]
  BY <1>1 DEF SameFor, Settled
<1>5. QED BY <1>2, <1>3, <1>4 DEF Settled

SameRequest(d) ==
  /\ task'[d].pc = task[d].pc /\ task'[d].op = task[d].op
  /\ task'[d].agent = task[d].agent /\ task'[d].inst = task[d].inst
  /\ task'[d].snap = task[d].snap

LEMMA PhaseKept ==
  ASSUME Identified, Identified', NEW d \in Clients, PhaseOf(d), SameRequest(d),
         NEW i, i = task[d].inst, SameFor(i)
  PROVE  PhaseOf(d)'
<1>0. PICK n : n = task[d].agent
  OBVIOUS
<1>1. /\ \A m \in Nodes : \A r \in local[m] : r \in FDURecord
      /\ \A m \in Nodes : \A r \in local'[m] : r \in FDURecord
      /\ \A g \in global : g \in FDURecord
      /\ \A g \in global' : g \in FDURecord
      /\ \A s \in task[d].snap : s \in FDURecord
      /\ task[d].pc \in Busy => n \in Nodes
  BY <1>0 DEF Identified, TypeInv, TypeOK, TaskKnows, Task
<1>2. /\ task'[d].inst = i /\ task'[d].agent = n
      /\ task'[d].op = task[d].op /\ task'[d].snap = task[d].snap
      /\ task'[d].pc = task[d].pc
  BY <1>0 DEF SameRequest
<1>3. task[d].pc = "lock" => LockedOn(d)'
  <2>1. SUFFICES ASSUME task[d].pc = "lock", LockedOn(d) PROVE LockedOn(d)'
    BY DEF PhaseOf
  <2>2. n \in Nodes
    BY <1>1, <2>1 DEF Busy
  <2>3. \A s \in task[d].snap : s.uuid = i /\ s \in local'[n]
    BY <1>0, <1>1, <2>1, <2>2 DEF LockedOn, SameFor
  <2>4. QED BY <1>2, <2>1, <2>3 DEF LockedOn
<1>4. task[d].pc = "poll" => PollingOn(d)'
  <2>1. SUFFICES ASSUME task[d].pc = "poll", PollingOn(d) PROVE PollingOn(d)'
    BY DEF PhaseOf
  <2>2. n \in Nodes
    BY <1>1, <2>1 DEF Busy
  <2>3. PICK op : op = task[d].op
    OBVIOUS
  <2>4. PICK r \in local[n] :
          /\ r.uuid = i /\ r.status = Target(op)
          /\ \/ Settled(i)
             \/ OnceQueued(n, r) /\ Before(op, i)
    BY <1>0, <2>1, <2>3 DEF PollingOn
  <2>5. r \in FDURecord /\ r \in local'[n]
    BY <1>1, <2>2, <2>4 DEF SameFor
  <2>6. Settled(i) => Settled(i)'
    BY SettledKept
  <2>7. OnceQueued(n, r) => OnceQueued(n, r)'
    BY <2>2, <2>4, <2>5 DEF SameFor
  <2>8. Before(op, i) => Before(op, i)'
    BY <1>1 DEF Before, SameFor
  <2>9. op \in Polled
    BY <2>1, <2>3 DEF PollingOn
  <2>10. QED BY <1>2, <2>3, <2>4, <2>5, <2>6, <2>7, <2>8, <2>9 DEF PollingOn
<1>5. task[d].pc = "remove" => RemovingOn(d)'
  <2>1. SUFFICES ASSUME RemovingOn(d) PROVE RemovingOn(d)'
    BY DEF PhaseOf
  <2>2. \A m \in Nodes : ~Queued(m, i)'
    BY <2>1 DEF RemovingOn, SameFor
  <2>3. \A m \in Nodes : \A r \in local'[m] : r.uuid # i
    BY <1>1, <2>1 DEF RemovingOn, SameFor
  <2>4. \E g \in global' : g.uuid = i /\ g.status = "DEFINED"
    BY <1>1, <2>1 DEF RemovingOn, SameFor
  <2>5. QED BY <1>2, <2>2, <2>3, <2>4 DEF RemovingOn
<1>6. QED BY <1>2, <1>3, <1>4, <1>5 DEF PhaseOf

(* A step that leaves an instance alone, and every request in one of the   *)
(* disturbing phases for it, keeps what Rest says of it.                   *)
LEMMA RestKept ==
  ASSUME Identified, Identified', NEW j, SameFor(j),
         Unsettled(j) \/ Settled(j),
         \A d \in Clients : task[d].inst = j => SameRequest(d)
  PROVE  Unsettled(j)' \/ Settled(j)'
BY SettledKept DEF Unsettled, SameRequest

-----------------------------------------------------------------------------
(* Every effect keeps the invariant                                        *)

(* No step makes a second record of an instance in a store.                *)
LEMMA SingleStep ==
  ASSUME Identified, Identified', Single, Effect
  PROVE  Single'
<1>1. ASSUME UNCHANGED <<global, local>> PROVE Single'
  BY <1>1 DEF Single
<1>2. ASSUME NEW c \in Clients, NEW r \in FDURecord, Wrote(c, r)
      PROVE  Single'
  <2>1. PICK n : n = task[c].agent
    OBVIOUS
  <2>2. n \in Nodes /\ LocalPut(n, r) /\ UNCHANGED global /\ TypeInv
    BY <1>2, <2>1 DEF Wrote, Identified
  <2>3. /\ local'[n] = {s \in local[n] : ~SamePath(s, r)} \cup {r}
        /\ \A m \in Nodes \ {n} : local'[m] = local[m]
    BY <2>2, PutElements
  <2>4. ASSUME NEW m \in Nodes, NEW s \in local'[m], NEW t \in local'[m],
               s.uuid = t.uuid
        PROVE  s = t
    <3>1. SamePath(s, t)
      BY <2>4, OnePathNext
    <3>2. CASE m = n
      BY <2>3, <2>4, <3>1, <3>2 DEF Single, SamePath
    <3>3. CASE m # n
      BY <2>3, <2>4, <3>3 DEF Single
    <3>4. QED BY <3>2, <3>3
  <2>5. QED BY <2>2, <2>4 DEF Single
<1>3. ASSUME NEW c \in Clients, NEW r \in FDURecord, Undefined(c, r)
      PROVE  Single'
  BY <1>3 DEF Single, Undefined, LocalRemoved, remove_instance, Identified,
              TypeInv, TypeOK
<1>4. ASSUME NEW c \in Clients, Removed(c) PROVE Single'
  BY <1>4 DEF Single, Removed, remove_instance
<1>5. ASSUME NEW n \in Nodes, Delivered(n) PROVE Single'
  <2>1. TypeInv /\ PutForwarded(n) /\ UNCHANGED local
    BY <1>5 DEF Identified, Delivered, PutForwarded
  <2>2. PICK h : global' = {g \in global : ~SamePath(g, h)} \cup {h}
    BY <2>1, ForwardedElements
  <2>3. \A f, g \in global' : f.uuid = g.uuid => SamePath(f, g)
    BY OnePathNext
  <2>4. \A f, g \in global' : f.uuid = g.uuid => f = g
    BY <2>2, <2>3 DEF Single, SamePath
  <2>5. QED BY <2>1, <2>4 DEF Single
<1>6. QED
  BY <1>1, <1>2, <1>3, <1>4, <1>5 DEF Effect, Moved, Answered, StoresSame

(* No request gets on, and only spoiled instances are touched.             *)
LEMMA CutKeeps ==
  ASSUME Identified, Identified', NEW S, Core(S), TasksSame, Single',
         \A j : j \notin S => SameFor(j)
  PROVE  Core(S)'
<1>1. \A d \in Clients : SameRequest(d)
  BY DEF TasksSame, SameRequest
<1>2. ASSUME NEW d \in Clients, task'[d].inst \notin S PROVE PhaseOf(d)'
  <2>1. PICK i : i = task[d].inst
    OBVIOUS
  <2>2. i \notin S
    BY <1>1, <1>2, <2>1 DEF SameRequest
  <2>3. QED BY <1>1, <2>1, <2>2, PhaseKept DEF Core, Phases
<1>3. ASSUME NEW j \in Instances \ S PROVE Unsettled(j)' \/ Settled(j)'
  BY <1>1, RestKept DEF Core, Rest
<1>4. Apart'
  BY DEF Core, Apart, TasksSame
<1>5. QED BY <1>2, <1>3, <1>4 DEF Core, Phases, Rest

LEMMA QuietKeeps ==
  ASSUME Identified, Identified', NEW S, Core(S), StoresSame, TasksSame
  PROVE  Core(S)'
<1>1. \A j : SameFor(j)
  BY SameForStores
<1>2. Single'
  BY DEF Core, Single, StoresSame
<1>3. QED BY <1>1, <1>2, CutKeeps

(* The request for a spoiled instance gets on or ends.                     *)
LEMMA SpoiledKeeps ==
  ASSUME Identified, Identified', NEW S, Core(S), NEW c \in Clients, Others(c),
         task[c].inst \in S,
         \/ task'[c].inst = task[c].inst /\ task'[c].pc # "idle"
         \/ task'[c].inst = None /\ task'[c].pc = "idle",
         Single', \A j : j \notin S => SameFor(j)
  PROVE  Core(S)'
<1>1. \A d \in Clients \ {c} : task'[d] = task[d]
  BY DEF Others
<1>2. ASSUME NEW d \in Clients, task'[d].inst \notin S PROVE PhaseOf(d)'
  <2>1. CASE d = c
    BY <1>2, <2>1 DEF PhaseOf
  <2>2. CASE d # c
    <3>1. PICK i : i = task[d].inst
      OBVIOUS
    <3>2. i \notin S /\ SameRequest(d)
      BY <1>1, <1>2, <2>2, <3>1 DEF SameRequest
    <3>3. QED BY <3>1, <3>2, PhaseKept DEF Core, Phases
  <2>3. QED BY <2>1, <2>2
<1>3. ASSUME NEW j \in Instances \ S PROVE Unsettled(j)' \/ Settled(j)'
  <2>1. \A d \in Clients : task[d].inst = j => SameRequest(d)
    BY <1>1 DEF SameRequest
  <2>2. QED BY <2>1, RestKept DEF Core, Rest
<1>4. Apart'
  BY <1>1 DEF Core, Apart
<1>5. QED BY <1>2, <1>3, <1>4 DEF Core, Phases, Rest

LEMMA MovedKeeps ==
  ASSUME Identified, Identified', NEW S, Core(S), NEW c \in Clients, Moved(c)
  PROVE  Core(S)'
<1>1. \A j : SameFor(j)
  BY SameForStores DEF Moved
<1>2. \A d \in Clients \ {c} : task'[d] = task[d]
  BY DEF Moved, Others
<1>3. ASSUME NEW d \in Clients, task'[d].inst \notin S PROVE PhaseOf(d)'
  <2>1. CASE d = c
    BY <2>1 DEF Moved, PhaseOf
  <2>2. CASE d # c
    BY <1>1, <1>2, <1>3, <2>2, PhaseKept DEF Core, Phases, SameRequest
  <2>3. QED BY <2>1, <2>2
<1>4. ASSUME NEW j \in Instances \ S PROVE Unsettled(j)' \/ Settled(j)'
  <2>1. CASE Settled(j)
    BY <1>1, <2>1, SettledKept
  <2>2. CASE Unsettled(j)
    BY <1>2, <2>2 DEF Unsettled, Moved
  <2>3. QED BY <2>1, <2>2 DEF Core, Rest
<1>5. Single'
  BY DEF Core, Single, Moved, StoresSame
<1>6. Apart'
  <2>1. \A d, e \in Clients \ {c} :
          task'[d].inst = task'[e].inst /\ task'[d].inst # None => d = e
    BY <1>2 DEF Core, Apart
  <2>2. \A d \in Clients \ {c} :
          task'[d].inst = task'[c].inst => task'[d].inst = None
    BY <1>2 DEF Core, Apart, Moved, Free
  <2>3. \A d \in Clients : task'[d].pc = "idle" => task'[d].inst = None
    BY <1>2 DEF Core, Apart, Moved
  <2>4. QED BY <2>1, <2>2, <2>3 DEF Apart
<1>7. QED BY <1>3, <1>4, <1>5, <1>6 DEF Core, Phases, Rest

(* A request that gets on from its instance i, the records of the others   *)
(* staying where they are.                                                 *)
LEMMA OthersKeep ==
  ASSUME Identified, Identified', NEW S, Core(S), NEW c \in Clients, Others(c),
         NEW i \in Instances, task[c].inst = i, task'[c].inst = i,
         task'[c].pc # "idle", Single',
         \A j : j # i => SameFor(j),
         PhaseOf(c)', Unsettled(i)' \/ Settled(i)'
  PROVE  Core(S)'
<1>1. \A d \in Clients \ {c} : task'[d] = task[d] /\ task[d].inst # i
  BY NoneAssumption DEF Others, Core, Apart
<1>2. ASSUME NEW d \in Clients, task'[d].inst \notin S PROVE PhaseOf(d)'
  <2>1. CASE d = c
    BY <2>1
  <2>2. CASE d # c
    <3>1. PICK j : j = task[d].inst
      OBVIOUS
    <3>2. SameFor(j) /\ SameRequest(d) /\ j \notin S
      BY <1>1, <1>2, <2>2, <3>1 DEF SameRequest
    <3>3. QED BY <3>1, <3>2, PhaseKept DEF Core, Phases
  <2>3. QED BY <2>1, <2>2
<1>3. ASSUME NEW j \in Instances \ S PROVE Unsettled(j)' \/ Settled(j)'
  <2>1. CASE j # i
    <3>1. \A d \in Clients : task[d].inst = j => SameRequest(d)
      BY <1>1, <2>1 DEF SameRequest
    <3>2. QED BY <2>1, <3>1, RestKept DEF Core, Rest
  <2>2. QED BY <2>1
<1>4. Apart'
  <2>1. \A d \in Clients \ {c} : task'[d] = task[d]
    BY <1>1
  <2>2. QED BY <2>1 DEF Core, Apart
<1>5. QED BY <1>2, <1>3, <1>4 DEF Core, Phases, Rest

(* Only the request for i can be in a phase that disturbs its records.     *)
LEMMA SettledOutside ==
  ASSUME NEW S, Core(S), NEW c \in Clients,
         task[c].pc \notin {"poll", "remove"},
         task[c].inst \in Instances \ S
  PROVE  Settled(task[c].inst)
<1>1. task[c].inst # None
  BY NoneAssumption
<1>2. QED BY <1>1 DEF Core, Apart, Rest, Unsettled

(* A handler that leaves its polling loop has seen its put arrive.         *)
LEMMA AnsweredKeeps ==
  ASSUME Identified, Identified', NEW S, Core(S), NEW c \in Clients, Answered(c)
  PROVE  Core(S)'
<1>0. SUFFICES ASSUME task[c].inst \notin S PROVE Core(S)'
  <2>1. Single' /\ \A j : SameFor(j)
    BY SameForStores DEF Answered, Core, Single, StoresSame
  <2>2. QED BY <2>1, SpoiledKeeps DEF Answered
<1>1. PICK i : i = task[c].inst
  OBVIOUS
<1>2. /\ StoresSame /\ Others(c) /\ task[c].pc = "poll"
      /\ task'[c].pc = "reply" /\ task'[c].inst = i
  BY <1>1 DEF Answered
<1>3. \A j : SameFor(j)
  BY <1>2, SameForStores
<1>4. PICK r \in local[task[c].agent] :
        /\ r.uuid = i
        /\ \/ Settled(i)
           \/ /\ OnceQueued(task[c].agent, r)
              /\ Before(task[c].op, i)
  BY <1>0, <1>1, <1>2 DEF Core, Phases, PhaseOf, PollingOn
<1>5. i \in Instances /\ task[c].op \in Polled
  <2>1. r \in FDURecord
    BY <1>2 DEF Identified, TypeInv, TypeOK, TaskKnows, Busy
  <2>2. QED BY <1>0, <1>2, <1>4, <2>1 DEF FDURecord, Core, Phases, PhaseOf, PollingOn
<1>6. ~Before(task[c].op, i)
  <2>1. PICK g \in get_instance(global, i) :
          get_instance(global, i) = {g} => g.status = Target(task[c].op)
    BY <1>1 DEF Answered
  <2>2. g \in global /\ g.uuid = i
    BY <2>1 DEF get_instance
  <2>3. \A h \in global : h.uuid = i => h = g
    BY <2>2 DEF Core, Single
  <2>4. get_instance(global, i) = {g}
    BY <2>2, <2>3 DEF get_instance
  <2>5. g.status = Target(task[c].op)
    BY <2>1, <2>4
  <2>6. task[c].op # "define" => Target(task[c].op) \notin Required(task[c].op)
    BY <1>5 DEF Polled, Target, Required
  <2>7. QED BY <2>2, <2>3, <2>5, <2>6 DEF Before
<1>7. Settled(i)'
  BY <1>3, <1>4, <1>6, SettledKept
<1>8. PhaseOf(c)'
  BY <1>2 DEF PhaseOf
<1>9. Single'
  BY <1>2 DEF Core, Single, StoresSame
<1>10. QED
  BY <1>1, <1>2, <1>3, <1>5, <1>7, <1>8, <1>9, OthersKeep

(* A record written by a plugin is queued behind nothing of its instance.  *)
LEMMA WroteKeeps ==
  ASSUME Identified, Identified', NEW S, Core(S), NEW c \in Clients,
         NEW r \in FDURecord, Wrote(c, r), Single'
  PROVE  Core(S)'
<1>0. SUFFICES ASSUME task[c].inst \notin S PROVE Core(S)'
  <2>1. Others(c) /\ task'[c].inst = task[c].inst /\ task'[c].pc = "poll"
        /\ r.uuid = task[c].inst
    BY DEF Wrote
  <2>2. QED BY <2>1, SameForWrote, SpoiledKeeps
<1> DEFINE L == Len(chan[task[c].agent])
<1>1. PICK i, n, op : i = task[c].inst /\ n = task[c].agent /\ op = task[c].op
  OBVIOUS
<1>2. /\ n \in Nodes /\ r.uuid = i /\ i \in Instances
      /\ LocalPut(n, r) /\ UNCHANGED global /\ Others(c)
      /\ task'[c].pc = "poll" /\ task'[c].op = op
      /\ task'[c].agent = n /\ task'[c].inst = i
      /\ op \in Polled /\ r.status = Target(op)
      /\ task[c].pc \in {"define", "lock"}
  BY <1>1 DEF Wrote, FDURecord
<1>3. Settled(i)
  BY <1>0, <1>1, <1>2, SettledOutside
<1>4. /\ local'[n] = {s \in local[n] : ~SamePath(s, r)} \cup {r}
      /\ \A m \in Nodes \ {n} : local'[m] = local[m]
      /\ Len(chan'[n]) = L + 1 /\ L \in Nat
      /\ \A k \in 1 .. L : chan'[n][k] = chan[n][k]
      /\ chan'[n][L + 1] = r
  <2>1. TypeInv
    BY DEF Identified
  <2>2. QED BY <1>1, <1>2, <2>1, PutElements
<1>5. OnceQueued(n, r)'
  <2>1. \A k \in 1 .. L : chan[n][k].uuid # i
    BY <1>1, <1>2, <1>3 DEF Settled, Queued
  <2>2. \A k \in 1 .. L + 1 : chan'[n][k].uuid = i => k = L + 1
    BY <1>4, <2>1
  <2>3. L + 1 \in 1 .. Len(chan'[n])
    BY <1>4
  <2> HIDE DEF L
  <2>4. QED BY <1>2, <1>4, <2>2, <2>3 DEF OnceQueued
<1>6. Before(op, i)'
  <2>1. CASE op = "define"
    <3>1. i \notin used
      BY <1>1, <2>1 DEF Wrote, Identified, UuidsFresh
    <3>2. \A g \in global : g.uuid # i
      BY <3>1, AllRecordsMembers DEF Identified, UuidsFresh
    <3>3. QED BY <1>2, <2>1, <3>2 DEF Before
  <2>2. CASE op # "define"
    <3>1. task[c].pc = "lock" /\ \E s \in task[c].snap : TRUE
      BY <1>1, <2>2 DEF Wrote
    <3>2. PICK s \in local[n] : s.uuid = i /\ s.status \in Required(op)
      BY <1>0, <1>1, <3>1 DEF Core, Phases, PhaseOf, LockedOn
    <3>3. s \in global
      BY <1>2, <1>3, <3>2 DEF Settled
    <3>4. QED BY <1>2, <2>2, <3>2, <3>3 DEF Before
  <2>3. QED BY <2>1, <2>2
<1>7. PollingOn(c)'
  BY <1>2, <1>4, <1>5, <1>6 DEF PollingOn
<1>8. PhaseOf(c)' /\ Unsettled(i)'
  BY <1>2, <1>7 DEF PhaseOf, Unsettled
<1>9. \A j : j # i => SameFor(j)
  BY <1>2, SameForWrote
<1>10. QED
  BY <1>1, <1>2, <1>8, <1>9, OthersKeep

(* Once the plugin has removed the record of an instance the only record   *)
(* left is the one in the global store.                                    *)
LEMMA UndefinedKeeps ==
  ASSUME Identified, Identified', NEW S, Core(S), NEW c \in Clients,
         NEW r \in FDURecord, Undefined(c, r), Single'
  PROVE  Core(S)'
<1>0. SUFFICES ASSUME task[c].inst \notin S PROVE Core(S)'
  <2>1. Others(c) /\ task'[c].inst = task[c].inst /\ task'[c].pc = "remove"
        /\ r.uuid = task[c].inst
    BY DEF Undefined
  <2>2. QED BY <2>1, SameForUndefined, SpoiledKeeps
<1>1. PICK i, n : i = task[c].inst /\ n = task[c].agent
  OBVIOUS
<1>2. /\ n \in Nodes /\ r \in local[n] /\ r.uuid = i /\ i \in Instances
      /\ LocalRemoved(n, r) /\ Others(c)
      /\ task[c].pc = "lock" /\ task[c].op = "undefine" /\ task[c].snap # {}
      /\ task'[c].pc = "remove" /\ task'[c].inst = i
  BY <1>1 DEF Undefined, FDURecord
<1>3. Settled(i)
  BY <1>0, <1>1, <1>2, SettledOutside
<1>4. /\ local'[n] = {s \in local[n] : ~SamePath(s, r)}
      /\ \A m \in Nodes \ {n} : local'[m] = local[m]
      /\ UNCHANGED <<global, chan>>
  BY <1>2 DEF LocalRemoved, remove_instance, Identified, TypeInv, TypeOK
<1>5. \A m \in Nodes : \A s \in local'[m] : s.uuid # i
  <2>1. \A m \in Nodes : \A s \in local[m] : s.uuid = i => SamePath(s, r) /\ m = n
    BY <1>2, OnePlace
  <2>2. QED BY <1>4, <2>1
<1>6. \E g \in global' : g.uuid = i /\ g.status = "DEFINED"
  <2>1. PICK s \in local[n] : s.uuid = i /\ s.status \in Required("undefine")
    BY <1>0, <1>1, <1>2 DEF Core, Phases, PhaseOf, LockedOn
  <2>2. QED BY <1>2, <1>3, <1>4, <2>1 DEF Settled, Required
<1>7. \A m \in Nodes : ~Queued(m, i)'
  BY <1>3, <1>4 DEF Settled, Queued
<1>8. PhaseOf(c)' /\ Unsettled(i)'
  BY <1>2, <1>5, <1>6, <1>7 DEF PhaseOf, RemovingOn, Unsettled
<1>9. \A j : j # i => SameFor(j)
  BY <1>2, SameForUndefined
<1>10. QED
  BY <1>1, <1>2, <1>8, <1>9, OthersKeep

(* And then that one is removed too.                                       *)
LEMMA RemovedKeeps ==
  ASSUME Identified, Identified', NEW S, Core(S), NEW c \in Clients,
         Removed(c), Single'
  PROVE  Core(S)'
<1>0. SUFFICES ASSUME task[c].inst \notin S PROVE Core(S)'
  <2>1. Others(c) /\ task'[c].inst = task[c].inst /\ task'[c].pc = "reply"
    BY DEF Removed
  <2>2. QED BY <2>1, SameForRemoved, SpoiledKeeps
<1>1. PICK i : i = task[c].inst
  OBVIOUS
<1>2. /\ UNCHANGED <<local, chan>> /\ Others(c) /\ task[c].pc = "remove"
      /\ task'[c].pc = "reply" /\ task'[c].inst = i
  BY <1>1 DEF Removed
<1>3. /\ RemovingOn(c) /\ Single
  BY <1>0, <1>2 DEF Core, Phases, PhaseOf
<1>4. PICK g \in global : g.uuid = i /\ global' = remove_instance(global, g)
  <2>1. PICK g \in global : g.uuid = i
    BY <1>1, <1>3 DEF RemovingOn
  <2>2. get_instance(global, i) = {g}
    BY <1>3, <2>1 DEF get_instance, Single
  <2>3. QED BY <1>1, <2>1, <2>2 DEF Removed
<1>5. i \in Instances
  BY <1>4 DEF Identified, TypeInv, TypeOK, FDURecord
<1>6. \A h \in global' : h \in global /\ h.uuid # i
  <2>1. \A h \in global : h.uuid = i => SamePath(h, g)
    BY <1>4, OnePlace
  <2>2. QED BY <1>4, <2>1 DEF remove_instance
<1>7. Settled(i)'
  <2>1. \A m \in Nodes : ~Queued(m, i)'
    BY <1>1, <1>2, <1>3 DEF RemovingOn, Queued
  <2>2. \A m \in Nodes : \A r \in local'[m] : r.uuid # i
    BY <1>1, <1>2, <1>3 DEF RemovingOn
  <2>3. QED BY <1>6, <2>1, <2>2 DEF Settled
<1>8. PhaseOf(c)'
  BY <1>2 DEF PhaseOf
<1>9. \A j : j # i => SameFor(j)
  BY <1>1, SameForRemoved
<1>10. QED
  BY <1>1, <1>2, <1>5, <1>7, <1>8, <1>9, OthersKeep

(* The put the monitoring task copies is the one a handler polls for: no   *)
(* other put of its instance is queued, and it settles the instance.       *)
LEMMA DeliveredSettles ==
  ASSUME Identified, Identified', NEW S, Core(S), NEW n \in Nodes, Delivered(n),
         chan[n][1].uuid \notin S
  PROVE  LET i == chan[n][1].uuid
         IN /\ i \in Instances
            /\ \E c \in Clients :
                 /\ task[c].pc = "poll" /\ task[c].inst = i
                 /\ task[c].agent = n /\ task[c].op \in Polled
                 /\ \E r \in local'[n] :
                      r.uuid = i /\ r.status = Target(task[c].op)
                 /\ Before(task[c].op, i)
            /\ chan[n][1] \in local[n]
            /\ \A m \in Nodes : ~(\E k \in 1 .. Len(chan'[m]) : chan'[m][k].uuid = i)
            /\ \A m \in Nodes : \A r \in local'[m] : r.uuid = i => r \in global'
            /\ \A g \in global' : g.uuid = i => g \in local'[g.node]
<1> DEFINE L == Len(chan[n])
           h == chan[n][1]
<1>0. /\ TypeInv /\ PutForwarded(n) /\ UNCHANGED <<local, task>>
      /\ Single /\ Phases(S) /\ Rest(S)
  BY DEF Identified, Delivered, PutForwarded, Core
<1>1. /\ \A m \in Nodes \ {n} : chan'[m] = chan[m]
      /\ L \in Nat \ {0} /\ Len(chan'[n]) = L - 1
      /\ \A k \in 1 .. L - 1 : chan'[n][k] = chan[n][k + 1]
      /\ global' = {s \in global : ~SamePath(s, h)} \cup {h}
  BY <1>0, ForwardedElements
<1>2. h \in FDURecord /\ h.node = n /\ 1 \in 1 .. L
  BY <1>1, OnePlace
<1>3. PICK i : i = h.uuid /\ i \notin S
  OBVIOUS
<1>4. i \in Instances /\ Queued(n, i)
  BY <1>2, <1>3 DEF FDURecord, Queued
<1>5. ~Settled(i)
  BY <1>4 DEF Settled
<1>6. PICK c \in Clients : task[c].inst = i /\ task[c].pc \in {"poll", "remove"}
  BY <1>0, <1>3, <1>4, <1>5 DEF Rest, Unsettled
<1>7. task[c].pc = "poll" /\ PollingOn(c) /\ task[c].agent \in Nodes
  BY <1>0, <1>3, <1>4, <1>6 DEF Phases, PhaseOf, RemovingOn, TypeInv, TaskKnows, Busy
<1>8. PICK r \in local[task[c].agent] :
        /\ r.uuid = i /\ r.status = Target(task[c].op)
        /\ OnceQueued(task[c].agent, r) /\ Before(task[c].op, i)
  BY <1>5, <1>6, <1>7 DEF PollingOn
<1>9. task[c].agent = n
  BY <1>2, <1>3, <1>7, <1>8, OnePlace DEF L
<1>10. PICK k \in 1 .. L :
         /\ chan[n][k] = r
         /\ \A j \in 1 .. L : chan[n][j].uuid = i => j = k
  BY <1>8, <1>9 DEF OnceQueued
<1>11. k = 1 /\ h = r
  BY <1>2, <1>3, <1>10
<1>12. \A m \in Nodes : \A j \in 1 .. Len(chan'[m]) : chan'[m][j].uuid # i
  <2>1. ASSUME NEW j \in 1 .. L - 1 PROVE chan'[n][j].uuid # i
    <3>1. j + 1 \in 1 .. L /\ j + 1 # 1
      BY <1>1
    <3>2. QED BY <1>1, <1>10, <1>11, <3>1
  <2>2. ASSUME NEW m \in Nodes \ {n}, NEW j \in 1 .. Len(chan[m])
        PROVE  chan[m][j].uuid # i
    BY <1>2, <1>3, <2>2, OnePlace DEF L
  <2>3. QED BY <1>1, <2>1, <2>2
<1> HIDE DEF h, L
<1>13. \A m \in Nodes : \A s \in local[m] : s.uuid = i => s = r /\ m = n
  BY <1>0, <1>8, <1>9, OnePlace DEF Single
<1>14. \A m \in Nodes : \A s \in local'[m] : s.uuid = i => s \in global'
  BY <1>0, <1>1, <1>11, <1>13
<1>15. \A g \in global' : g.uuid = i => g = h
  <2>1. \A g \in global : g.uuid = i => SamePath(g, h)
    BY <1>8, <1>9, <1>11, OnePlace DEF SamePath
  <2>2. QED BY <1>1, <2>1
<1>16. \A g \in global' : g.uuid = i => g \in local'[g.node]
  BY <1>0, <1>2, <1>8, <1>9, <1>11, <1>15
<1>17. /\ task[c].op \in Polled /\ h \in local[n]
       /\ r \in local'[n]
  BY <1>0, <1>7, <1>8, <1>9, <1>11 DEF PollingOn
<1>18. QED
  BY <1>3, <1>4, <1>6, <1>7, <1>8, <1>9, <1>12, <1>14, <1>16, <1>17
     DEF h

LEMMA DeliveredKeeps ==
  ASSUME Identified, Identified', NEW S, Core(S), NEW n \in Nodes, Delivered(n),
         Single'
  PROVE  Core(S)'
<1>1. PICK i : i = chan[n][1].uuid
  OBVIOUS
<1>2. \A j : j # i => SameFor(j)
  BY <1>1, SameForDelivered
<1>3. UNCHANGED task
  BY DEF Delivered
<1>4. CASE i \in S
  BY <1>2, <1>3, <1>4, CutKeeps DEF TasksSame
<1>5. CASE i \notin S
  <2>1. /\ i \in Instances
        /\ \A m \in Nodes : ~(\E k \in 1 .. Len(chan'[m]) : chan'[m][k].uuid = i)
        /\ \A m \in Nodes : \A r \in local'[m] : r.uuid = i => r \in global'
        /\ \A g \in global' : g.uuid = i => g \in local'[g.node]
    BY <1>1, <1>5, DeliveredSettles
  <2>2. PICK c \in Clients :
          /\ task[c].pc = "poll" /\ task[c].inst = i
          /\ task[c].agent = n /\ task[c].op \in Polled
          /\ \E r \in local'[n] : r.uuid = i /\ r.status = Target(task[c].op)
    BY <1>1, <1>5, DeliveredSettles
  <2>3. Settled(i)'
    BY <2>1 DEF Settled, Queued
  <2>4. PhaseOf(c)'
    BY <1>3, <2>2, <2>3 DEF PhaseOf, PollingOn
  <2>5. QED
    BY <1>2, <1>3, <2>1, <2>2, <2>3, <2>4, OthersKeep DEF Others
<1>6. QED BY <1>4, <1>5

LEMMA EffectKeeps ==
  ASSUME Identified, Identified', NEW S, Core(S), Effect
  PROVE  Core(S)'
<1>1. Single'
  BY SingleStep DEF Core
<1>2. QED
  BY <1>1, QuietKeeps, MovedKeeps, AnsweredKeeps, WroteKeeps, UndefinedKeeps,
     RemovedKeeps, DeliveredKeeps
     DEF Effect

(* The more is spoiled, the less is said.                                  *)
LEMMA CoreSpoiled ==
  ASSUME NEW S, NEW T, S \subseteq T, Core(S)
  PROVE  Core(T)
BY DEF Core, Phases, Rest

-----------------------------------------------------------------------------
(* The invariant                                                           *)

LEMMA CoreInit ==
  ASSUME NEW S,
         global = {}, chan = [n \in Nodes |-> <<>>],
         local = [n \in Nodes |-> {}], task = [c \in Clients |-> IdleTask]
  PROVE  Core(S)
<1>1. /\ global = {} /\ \A n \in Nodes : local[n] = {} /\ Len(chan[n]) = 0
      /\ \A c \in Clients : task[c].pc = "idle" /\ task[c].inst = None
  BY DEF IdleTask
<1>2. Single /\ Phases(S) /\ Rest(S)
  BY <1>1 DEF Single, Phases, PhaseOf, Rest, Settled, Queued
<1>3. Apart
  BY <1>1 DEF Apart
<1>4. QED BY <1>2, <1>3 DEF Core

LEMMA ExclStep ==
  ASSUME Exclusive, ExclInv, [Next]_vars
  PROVE  ExclInv'
<1>1. Identified /\ Core({}) /\ TypeInv /\ Owned
  BY DEF ExclInv, Identified
<1>2. Identified'
  BY <1>1, IdentifiedStep
<1>3. Effect
  BY <1>1, EffectStep
<1>4. Core({})'
  BY <1>1, <1>2, <1>3, EffectKeeps
<1>5. QED BY <1>2, <1>4 DEF ExclInv

LEMMA ExclAlways ==
  ASSUME Exclusive
  PROVE  Spec => []ExclInv
<1>1. Init => ExclInv
  BY InvInit, CoreInit DEF ExclInv, Inv, Init
<1>2. ExclInv /\ [Next]_vars => ExclInv'
  BY ExclStep
<1>3. QED BY <1>1, <1>2, PTL DEF Spec

(* While no two requests are for the same instance, every record in the    *)
(* global store is of an instance its owner has, or about to be removed by *)
(* undefine_fdu (agent.rs:1187): the monitoring task never brings one back.*)
THEOREM NoGhostRecordHolds ==
  ASSUME Exclusive
  PROVE  Spec => []NoGhostRecord
<1>1. ExclInv => NoGhostRecord
  <2> SUFFICES ASSUME ExclInv, NEW g \in global
               PROVE  \/ Has(local[g.node], g.uuid)
                      \/ \E c \in Clients : /\ task[c].pc = "remove"
                                            /\ task[c].inst = g.uuid
    BY DEF NoGhostRecord
  <2>1. g \in FDURecord /\ g.uuid \in Instances
    BY DEF ExclInv, Identified, TypeInv, TypeOK, FDURecord
  <2>2. CASE Settled(g.uuid)
    BY <2>2 DEF Settled, Has, get_instance
  <2>3. ASSUME NEW c \in Clients, task[c].inst = g.uuid, task[c].pc = "poll"
        PROVE  Has(local[g.node], g.uuid)
    <3>1. PICK r \in local[task[c].agent] : r.uuid = g.uuid
      BY <2>3 DEF ExclInv, Core, Phases, PhaseOf, PollingOn
    <3>2. task[c].agent \in Nodes
      BY <2>3 DEF ExclInv, Identified, TypeInv, TaskKnows, Busy
    <3>3. g.node = task[c].agent
      BY <3>1, <3>2, OnePlace DEF ExclInv
    <3>4. QED BY <3>1, <3>3 DEF Has, get_instance
  <2>4. QED BY <2>1, <2>2, <2>3 DEF ExclInv, Core, Rest, Unsettled
<1>2. QED BY <1>1, ExclAlways, PTL

(* And every instance a node has is in the global store or queued on its   *)
(* way there, so that an agent can always be asked to remove it.           *)
THEOREM NoHiddenInstanceHolds ==
  ASSUME Exclusive
  PROVE  Spec => []NoHiddenInstance
<1>1. ExclInv => NoHiddenInstance
  <2> SUFFICES ASSUME ExclInv, NEW n \in Nodes, NEW r \in local[n]
               PROVE  Has(global, r.uuid) \/ Queued(n, r.uuid)
    BY DEF NoHiddenInstance
  <2>1. r \in FDURecord /\ r.uuid \in Instances
    BY DEF ExclInv, Identified, TypeInv, TypeOK, FDURecord
  <2>2. CASE Settled(r.uuid)
    BY <2>2 DEF Settled, Has, get_instance
  <2>3. ASSUME NEW c \in Clients, task[c].inst = r.uuid, task[c].pc = "poll",
               ~Settled(r.uuid)
        PROVE  Queued(n, r.uuid)
    <3>1. PICK s \in local[task[c].agent] :
            s.uuid = r.uuid /\ OnceQueued(task[c].agent, s)
      BY <2>3 DEF ExclInv, Core, Phases, PhaseOf, PollingOn
    <3>2. task[c].agent \in Nodes
      BY <2>3 DEF ExclInv, Identified, TypeInv, TaskKnows, Busy
    <3>3. n = task[c].agent
      BY <3>1, <3>2, OnePlace DEF ExclInv
    <3>4. QED BY <3>1, <3>3 DEF OnceQueued, Queued
  <2>4. ~\E c \in Clients : task[c].inst = r.uuid /\ task[c].pc = "remove"
    BY DEF ExclInv, Core, Phases, PhaseOf, RemovingOn
  <2>5. QED BY <2>1, <2>2, <2>3, <2>4 DEF ExclInv, Core, Rest, Unsettled
<1>2. QED BY <1>1, ExclAlways, PTL

-----------------------------------------------------------------------------
(* Namespaces                                                              *)

(* Rewriting the record a plugin read replaces it.                         *)
LEMMA PutReplaces ==
  ASSUME ExclInv, NEW c \in Clients, NEW op, NEW s \in task[c].snap,
         Holds(c, op, s), NEW r \in FDURecord, SameIdentity(r, s),
         LocalPut(task[c].agent, r)
  PROVE  LET n == task[c].agent
         IN /\ n \in Nodes /\ s \in local[n] /\ s.status \in Required(op)
            /\ local'[n] = (local[n] \ {s}) \cup {r}
            /\ \A m \in Nodes \ {n} : local'[m] = local[m]
<1> DEFINE n == task[c].agent
<1>1. /\ n \in Nodes /\ s \in local[n] /\ s.status \in Required(op)
  BY DEF ExclInv, Identified, TypeInv, TaskKnows, Busy, Core, Phases, PhaseOf,
         LockedOn, Holds
<1>2. \A t \in local[n] : SamePath(t, r) <=> t = s
  BY <1>1, OnePlace DEF ExclInv, Core, Single, SamePath, SameIdentity
<1>3. /\ local'[n] = {t \in local[n] : ~SamePath(t, r)} \cup {r}
      /\ \A m \in Nodes \ {n} : local'[m] = local[m]
  BY <1>1, PutElements DEF ExclInv, Identified
<1> HIDE DEF n
<1>4. {t \in local[n] : ~SamePath(t, r)} = local[n] \ {s}
  BY <1>2
<1>5. QED BY <1>1, <1>3, <1>4 DEF n

LEMMA NetNsInit == Init => NetNsInv
BY DEF Init, NetNsInv, Configured

LEMMA NetNsStep ==
  ASSUME ExclInv, NetNsInv, [Next]_vars
  PROVE  NetNsInv'
<1> DEFINE Quiet == UNCHANGED <<local, netns>>
<1>0. Quiet => NetNsInv'
  BY DEF NetNsInv, Configured
<1>1. ASSUME NEW c \in Clients, PluginStep(c) PROVE NetNsInv'
  <2>n. PICK n : n = task[c].agent
    OBVIOUS
  <2> USE <2>n
  <2>0. /\ TypeOK /\ Single /\ \A s \in task[c].snap : s \in FDURecord
        /\ local \in [Nodes -> SUBSET FDURecord]
        /\ netns \in [Nodes -> SUBSET NetNs]
        /\ \A s \in task[c].snap : task[c].pc = "lock" => n \in Nodes
    BY DEF ExclInv, Identified, TypeInv, TypeOK, TaskKnows, Task, Core, Busy
  <2>1. CASE PluginDefine(c)
    <3> DEFINE r == [uuid |-> task[c].inst, fdu_uuid |-> task[c].fdu,
                     node |-> n, status |-> "DEFINED", netns |-> None]
    <3>1. n \in Nodes /\ r \in FDURecord /\ r.status = "DEFINED"
          /\ task[c].inst \notin used /\ r.uuid = task[c].inst
      BY <2>1 DEF PluginDefine, TaskKnows, Busy, FDURecord, FDUState, ExclInv,
                  Identified, TypeInv, UuidsFresh
    <3>2. LocalPut(n, r) /\ UNCHANGED netns
      BY <2>1 DEF PluginDefine
    <3> HIDE DEF r
    <3>3. \A t \in local[n] : ~SamePath(t, r)
      BY <3>1, AllRecordsMembers DEF ExclInv, Identified, UuidsFresh, SamePath
    <3>4. /\ local'[n] = local[n] \cup {r}
          /\ \A m \in Nodes \ {n} : local'[m] = local[m]
      BY <3>1, <3>2, <3>3, PutElements DEF ExclInv, Identified
    <3>5. \A m \in Nodes : Configured(m)' = Configured(m)
      BY <3>1, <3>4 DEF Configured
    <3>6. QED BY <3>2, <3>5 DEF NetNsInv
  <2>2. CASE PluginGet(c)
    BY <1>0, <2>2 DEF PluginGet, storeVars
  <2>3. CASE PluginSwitch(c)
    <3>1. PICK op \in {"start", "stop"}, s \in task[c].snap :
            /\ Holds(c, op, s)
            /\ LocalPut(n, [s EXCEPT !.status = Target(op)])
      BY <2>3 DEF PluginSwitch
    <3> DEFINE r == [s EXCEPT !.status = Target(op)]
    <3>2. /\ r \in FDURecord /\ SameIdentity(r, s) /\ r.netns = s.netns
          /\ r.status # "DEFINED" /\ "DEFINED" \notin Required(op)
      BY <2>0 DEF FDURecord, FDUState, Target, Required, SameIdentity
    <3>3. LocalPut(n, r) /\ UNCHANGED netns
      BY <2>3, <3>1 DEF PluginSwitch
    <3> HIDE DEF r
    <3>4. /\ n \in Nodes /\ s \in local[n] /\ s.status # "DEFINED"
          /\ local'[n] = (local[n] \ {s}) \cup {r}
          /\ \A m \in Nodes \ {n} : local'[m] = local[m]
      BY <3>1, <3>2, <3>3, PutReplaces
    <3>5. /\ s \in Configured(n) /\ Configured(n)' = (Configured(n) \ {s}) \cup {r}
          /\ \A m \in Nodes \ {n} : Configured(m)' = Configured(m)
      BY <3>2, <3>4 DEF Configured
    <3>6. QED BY <3>2, <3>3, <3>5 DEF NetNsInv
  <2>4. CASE PluginConfigure(c)
    <3> DEFINE ns == CHOOSE x \in FreshNetNs : TRUE
    <3>1. PICK s \in task[c].snap :
            /\ Holds(c, "configure", s)
            /\ \/ Quiet
               \/ /\ FreshNetNs # {}
                  /\ netns' = [netns EXCEPT ![n] = @ \cup {ns}]
                  /\ \/ s.fdu_uuid \in BadFdus /\ UNCHANGED local
                     \/ LocalPut(n, [s EXCEPT !.status = Target("configure"),
                                              !.netns = ns])
      BY <2>4 DEF PluginConfigure
    <3>2. FreshNetNs # {} => ns \in FreshNetNs
      OBVIOUS
    <3> HIDE DEF ns
    <3>3. CASE Quiet
      BY <1>0, <3>3
    <3>4. CASE /\ ns \in FreshNetNs
               /\ netns' = [netns EXCEPT ![n] = @ \cup {ns}]
               /\ s.fdu_uuid \in BadFdus /\ UNCHANGED local
      <4>1. /\ \A m \in Nodes : netns[m] \subseteq netns'[m]
            /\ BadFdus # {}
        BY <2>0, <3>4
      <4>2. \A m \in Nodes : Configured(m)' = Configured(m)
        BY <3>4 DEF Configured
      <4>3. QED BY <4>1, <4>2 DEF NetNsInv
    <3>5. CASE /\ ns \in FreshNetNs
               /\ netns' = [netns EXCEPT ![n] = @ \cup {ns}]
               /\ LocalPut(n, [s EXCEPT !.status = Target("configure"),
                                        !.netns = ns])
      <4> DEFINE r == [s EXCEPT !.status = Target("configure"), !.netns = ns]
      <4>1. /\ r \in FDURecord /\ SameIdentity(r, s) /\ r.netns = ns
            /\ r.status # "DEFINED"
        BY <2>0, <3>5 DEF FDURecord, FDUState, Target, SameIdentity, FreshNetNs
      <4>2. LocalPut(n, r)
        BY <3>5
      <4> HIDE DEF r
      <4>3. /\ n \in Nodes /\ s \in local[n] /\ s.status = "DEFINED"
            /\ local'[n] = (local[n] \ {s}) \cup {r}
            /\ \A m \in Nodes \ {n} : local'[m] = local[m]
        BY <3>1, <4>1, <4>2, PutReplaces DEF Required
      <4>4. /\ Configured(n)' = Configured(n) \cup {r}
            /\ \A m \in Nodes \ {n} : Configured(m)' = Configured(m)
        BY <4>1, <4>3 DEF Configured
      <4>5. \A t \in Configured(n) : t.netns # ns
        BY <3>5, <4>3 DEF NetNsInv, FreshNetNs
      <4>6. /\ netns'[n] = netns[n] \cup {ns}
            /\ \A m \in Nodes \ {n} : netns'[m] = netns[m]
        BY <2>0, <3>5, <4>3
      <4>7. QED BY <4>1, <4>4, <4>5, <4>6 DEF NetNsInv
    <3>6. QED BY <3>1, <3>2, <3>3, <3>4, <3>5
  <2>5. CASE PluginClean(c)
    <3>1. PICK s \in task[c].snap :
            /\ Holds(c, "clean", s)
            /\ \/ Quiet
               \/ /\ netns' = [netns EXCEPT ![n] = @ \ {s.netns}]
                  /\ LocalPut(n, [s EXCEPT !.status = Target("clean")])
      BY <2>5 DEF PluginClean
    <3>2. CASE Quiet
      BY <1>0, <3>2
    <3>3. CASE /\ netns' = [netns EXCEPT ![n] = @ \ {s.netns}]
               /\ LocalPut(n, [s EXCEPT !.status = Target("clean")])
      <4> DEFINE r == [s EXCEPT !.status = Target("clean")]
      <4>1. r \in FDURecord /\ SameIdentity(r, s) /\ r.status = "DEFINED"
        BY <2>0 DEF FDURecord, FDUState, Target, SameIdentity
      <4>2. LocalPut(n, r)
        BY <3>3
      <4> HIDE DEF r
      <4>3. /\ n \in Nodes /\ s \in local[n] /\ s.status = "CONFIGURED"
            /\ local'[n] = (local[n] \ {s}) \cup {r}
            /\ \A m \in Nodes \ {n} : local'[m] = local[m]
        BY <3>1, <4>1, <4>2, PutReplaces DEF Required
      <4>4. /\ s \in Configured(n) /\ Configured(n)' = Configured(n) \ {s}
            /\ \A m \in Nodes \ {n} : Configured(m)' = Configured(m)
        BY <4>1, <4>3 DEF Configured
      <4>5. /\ netns'[n] = netns[n] \ {s.netns}
            /\ \A m \in Nodes \ {n} : netns'[m] = netns[m]
        BY <2>0, <3>3, <4>3
      <4>6. QED BY <4>4, <4>5 DEF NetNsInv
    <3>4. QED BY <3>1, <3>2, <3>3
  <2>6. CASE PluginUndefine(c)
    <3> DEFINE m == get_instance(local[n], task[c].inst)
    <3>1. PICK s \in task[c].snap : Holds(c, "undefine", s)
      BY <2>6 DEF PluginUndefine
    <3>2. /\ n \in Nodes /\ s \in local[n] /\ s.status = "DEFINED"
          /\ s.uuid = task[c].inst
      BY <2>0, <3>1 DEF ExclInv, Core, Phases, PhaseOf, LockedOn, Holds, Required
    <3>3. \A r \in m : r = s
      BY <2>0, <3>2 DEF Single, get_instance
    <3>4. UNCHANGED netns
      BY <2>6 DEF PluginUndefine
    <3>5. CASE UNCHANGED local
      BY <1>0, <3>4, <3>5
    <3>6. CASE local' = [local EXCEPT ![n] = remove_instance(@, s)]
      <4>1. \A t \in local[n] : SamePath(t, s) => t = s
        BY <2>0, <3>2 DEF Single, SamePath
      <4>2. \A k \in Nodes : Configured(k)' = Configured(k)
        BY <2>0, <3>2, <3>6, <4>1 DEF Configured, remove_instance, SamePath
      <4>3. QED BY <3>4, <4>2 DEF NetNsInv
    <3>7. QED BY <2>6, <3>3, <3>5, <3>6 DEF PluginUndefine
  <2>7. QED BY <1>1, <2>1, <2>2, <2>3, <2>4, <2>5, <2>6 DEF PluginStep
<1>2. ASSUME NEW f \in Fdus, onboard_fdu(f) PROVE Quiet
  BY <1>2 DEF onboard_fdu
<1>3. ASSUME NEW c \in Clients,
             \/ \E n \in Nodes, f \in Fdus : define_fdu(c, n, f)
             \/ \E op \in InstanceOps, n \in Nodes, i \in Instances :
                  Request(c, op, n, i)
             \/ \E f \in Fdus : offload_fdu(c, f)
             \/ Arrive(c) \/ ForwardTimeout(c)
      PROVE  Quiet
  BY <1>3 DEF define_fdu, Request, offload_fdu, Arrive, ForwardTimeout, storeVars
<1>4. ASSUME NEW c \in Clients, HandlerStep(c) PROVE Quiet
  BY <1>4 DEF HandlerStep, GetDescriptor, Poll, RemoveGlobal, RemoveFdu, Return,
              storeVars
<1>5. ASSUME NEW n \in Nodes,
             \/ Monitor(n)
             \/ \E kind \in {"register", "unregister"} : PluginCall(n, kind)
             \/ PluginAdmit(n)
      PROVE  Quiet
  BY <1>5 DEF Monitor, PluginCall, PluginAdmit, storeVars
<1>6. CASE UNCHANGED vars
  BY <1>0, <1>6 DEF vars
<1>7. QED BY <1>0, <1>1, <1>2, <1>3, <1>4, <1>5, <1>6 DEF Next

(* While no two requests are for the same instance and no descriptor names *)
(* a missing connection point, configure, clean and undefine (dummy plugin *)
(* of the SDK) leave on a node exactly the namespaces of its configured    *)
(* instances.                                                              *)
THEOREM NetNsAccountedHolds ==
  ASSUME Exclusive, BadFdus = {}
  PROVE  Spec => []NetNsAccounted
<1>1. NetNsInv => NetNsAccounted
  <2> SUFFICES ASSUME NetNsInv, NEW n \in Nodes
               PROVE  netns[n] = {r.netns : r \in Configured(n)}
    BY DEF NetNsAccounted, Configured
  <2>1. \A r \in Configured(n) : r.netns \in netns[n]
    BY DEF NetNsInv
  <2>2. \A x \in netns[n] : \E r \in Configured(n) : r.netns = x
    BY DEF NetNsInv
  <2>3. QED BY <2>1, <2>2
<1>2. ExclInv /\ NetNsInv /\ [Next]_vars => NetNsInv'
  BY NetNsStep
<1>3. QED BY <1>1, <1>2, NetNsInit, ExclAlways, PTL DEF Spec

-----------------------------------------------------------------------------
(* The two life cycles                                                     *)

NoLocal(i) == \A n \in Nodes : \A r \in local[n] : r.uuid # i

NoGlobal(i) == \A g \in global : g.uuid # i

LocalKnown ==
  /\ \A n \in Nodes : \A r \in local[n] : LocalState(r.uuid) = r.status
  /\ \A i \in Instances :
       NoLocal(i) => LocalState(i) = (IF i \in used THEN "gone" ELSE "none")

GlobalKnown ==
  /\ \A g \in global : GlobalState(g.uuid) = g.status
  /\ \A i \in Instances : NoGlobal(i) =>
       GlobalState(i) = (IF i \in used /\ NoLocal(i) THEN "gone" ELSE "none")

LEMMA LocalIsKnown == ExclInv => LocalKnown
<1> SUFFICES ASSUME ExclInv PROVE LocalKnown
  OBVIOUS
<1>1. ASSUME NEW n \in Nodes, NEW r \in local[n]
      PROVE  LocalState(r.uuid) = r.status
  <2>1. \A m \in Nodes : Has(local[m], r.uuid) <=> m = n
    BY OnePlace DEF ExclInv, Has, get_instance
  <2>2. (CHOOSE m \in Nodes : Has(local[m], r.uuid)) = n
    BY <2>1
  <2>3. \A s \in local[n] : s.uuid = r.uuid <=> s = r
    BY DEF ExclInv, Core, Single
  <2>4. (CHOOSE s \in local[n] : s.uuid = r.uuid) = r
    BY <2>3
  <2>5. QED BY <2>1, <2>2, <2>4 DEF LocalState
<1>2. ASSUME NEW i \in Instances, NoLocal(i)
      PROVE  LocalState(i) = (IF i \in used THEN "gone" ELSE "none")
  <2>1. \A n \in Nodes : ~Has(local[n], i)
    BY <1>2 DEF NoLocal, Has, get_instance
  <2>2. QED BY <2>1 DEF LocalState
<1>3. QED BY <1>1, <1>2 DEF LocalKnown

LEMMA GlobalIsKnown == ExclInv => GlobalKnown
<1> SUFFICES ASSUME ExclInv PROVE GlobalKnown
  OBVIOUS
<1>1. ASSUME NEW g \in global PROVE GlobalState(g.uuid) = g.status
  <2>1. Has(global, g.uuid)
    BY DEF Has, get_instance
  <2>2. \A s \in global : s.uuid = g.uuid <=> s = g
    BY DEF ExclInv, Core, Single
  <2>3. (CHOOSE s \in global : s.uuid = g.uuid) = g
    BY <2>2
  <2>4. QED BY <2>1, <2>3 DEF GlobalState
<1>2. ASSUME NEW i \in Instances, NoGlobal(i)
      PROVE  GlobalState(i) =
               (IF i \in used /\ NoLocal(i) THEN "gone" ELSE "none")
  <2>1. ~Has(global, i)
    BY <1>2 DEF NoGlobal, Has, get_instance
  <2>2. (\A n \in Nodes : ~Has(local[n], i)) <=> NoLocal(i)
    BY DEF NoLocal, Has, get_instance
  <2>3. QED BY <2>1, <2>2 DEF GlobalState
<1>3. QED BY <1>1, <1>2 DEF GlobalKnown

(* Both at the two ends of a step.                                         *)
LEMMA KnownAcross ==
  ASSUME ExclInv, ExclInv'
  PROVE  LocalKnown /\ LocalKnown' /\ GlobalKnown /\ GlobalKnown'
<1>1. ExclInv => LocalKnown /\ GlobalKnown
  BY LocalIsKnown, GlobalIsKnown
<1>2. ExclInv' => LocalKnown' /\ GlobalKnown'
  BY LocalIsKnown, GlobalIsKnown, PTL
<1>3. QED BY <1>1, <1>2

(* An instance that a step leaves alone keeps its state.                   *)
LEMMA StateKept ==
  ASSUME ExclInv, ExclInv', NEW i \in Instances, SameFor(i),
         i \in used' <=> i \in used
  PROVE  LocalState(i)' = LocalState(i) /\ GlobalState(i)' = GlobalState(i)
<1>0. LocalKnown /\ LocalKnown' /\ GlobalKnown /\ GlobalKnown'
  BY KnownAcross
<1>1. /\ \A g \in global : g \in FDURecord
      /\ \A g \in global' : g \in FDURecord
      /\ \A n \in Nodes : \A r \in local[n] : r \in FDURecord
      /\ \A n \in Nodes : \A r \in local'[n] : r \in FDURecord
  BY DEF ExclInv, Identified, TypeInv, TypeOK
<1>2. NoLocal(i)' <=> NoLocal(i)
  BY <1>1 DEF NoLocal, SameFor
<1>3. NoGlobal(i)' <=> NoGlobal(i)
  BY <1>1 DEF NoGlobal, SameFor
<1>4. LocalState(i)' = LocalState(i)
  <2>1. CASE NoLocal(i)
    BY <1>0, <1>2, <2>1 DEF LocalKnown
  <2>2. CASE ~NoLocal(i)
    <3>1. PICK n \in Nodes : \E r \in local[n] : r.uuid = i
      BY <2>2 DEF NoLocal
    <3>2. PICK r \in local[n] : r.uuid = i
      BY <3>1
    <3>3. r \in local'[n]
      BY <1>1, <3>2 DEF SameFor
    <3>4. QED BY <1>0, <3>2, <3>3 DEF LocalKnown
  <2>3. QED BY <2>1, <2>2
<1>5. GlobalState(i)' = GlobalState(i)
  <2>1. CASE NoGlobal(i)
    BY <1>0, <1>2, <1>3, <2>1 DEF GlobalKnown
  <2>2. CASE ~NoGlobal(i)
    <3>1. PICK g \in global : g.uuid = i
      BY <2>2 DEF NoGlobal
    <3>2. g \in global'
      BY <1>1, <3>1 DEF SameFor
    <3>3. QED BY <1>0, <3>1, <3>2 DEF GlobalKnown
  <2>3. QED BY <2>1, <2>2
<1>6. QED BY <1>4, <1>5

(* Nothing moves, or one instance makes one move.                          *)
LocalMove(i) ==
  /\ \A j \in Instances \ {i} : LocalState(j)' = LocalState(j)
  /\ \/ LocalState(i)' = LocalState(i)
     \/ <<LocalState(i), LocalState(i)'>> \in LocalAbs!Transitions

GlobalMove(i) ==
  /\ \A j \in Instances \ {i} : GlobalState(j)' = GlobalState(j)
  /\ \/ GlobalState(i)' = GlobalState(i)
     \/ <<GlobalState(i), GlobalState(i)'>> \in GlobalAbs!Transitions

LEMMA LocalMoves ==
  ASSUME NEW i \in Instances, LocalMove(i)
  PROVE  [LocalAbs!Next]_[j \in Instances |-> LocalState(j)]
<1>1. CASE LocalState(i)' = LocalState(i)
  BY <1>1 DEF LocalMove
<1>2. CASE <<LocalState(i), LocalState(i)'>> \in LocalAbs!Transitions
  <2>1. PICK s : s = LocalState(i)'
    OBVIOUS
  <2>2. s \in LocalAbs!States
    BY <1>2, <2>1 DEF LocalAbs!Transitions, LocalAbs!States
  <2>3. LocalAbs!Move(i, s)
    BY <1>2, <2>1 DEF LocalAbs!Move, LocalMove
  <2>4. QED BY <2>2, <2>3 DEF LocalAbs!Next
<1>3. QED BY <1>1, <1>2 DEF LocalMove

LEMMA GlobalMoves ==
  ASSUME NEW i \in Instances, GlobalMove(i)
  PROVE  [GlobalAbs!Next]_[j \in Instances |-> GlobalState(j)]
<1>1. CASE GlobalState(i)' = GlobalState(i)
  BY <1>1 DEF GlobalMove
<1>2. CASE <<GlobalState(i), GlobalState(i)'>> \in GlobalAbs!Transitions
  <2>1. PICK s : s = GlobalState(i)'
    OBVIOUS
  <2>2. s \in GlobalAbs!States
    BY <1>2, <2>1 DEF GlobalAbs!Transitions, GlobalAbs!States
  <2>3. GlobalAbs!Move(i, s)
    BY <1>2, <2>1 DEF GlobalAbs!Move, GlobalMove
  <2>4. QED BY <2>2, <2>3 DEF GlobalAbs!Next
<1>3. QED BY <1>1, <1>2 DEF GlobalMove

-----------------------------------------------------------------------------
(* The move that each effect is                                            *)

LEMMA WroteIsMove ==
  ASSUME ExclInv, ExclInv', NEW c \in Clients, NEW r \in FDURecord, Wrote(c, r)
  PROVE  LocalMove(r.uuid) /\ GlobalMove(r.uuid) /\ r.uuid \in Instances
<1> DEFINE L == Len(chan[task[c].agent])
<1>0. /\ LocalKnown /\ LocalKnown' /\ GlobalKnown /\ GlobalKnown'
      /\ Identified /\ Core({})
  BY KnownAcross DEF ExclInv
<1>1. PICK i, n, op : i = task[c].inst /\ n = task[c].agent /\ op = task[c].op
  OBVIOUS
<1>2. /\ n \in Nodes /\ r.uuid = i /\ i \in Instances
      /\ LocalPut(n, r) /\ UNCHANGED global
      /\ op \in Polled /\ r.status = Target(op)
      /\ task[c].pc \in {"define", "lock"}
      /\ used' = used \/ used' = used \cup {i}
  BY <1>1 DEF Wrote, FDURecord
<1>3. \A j \in Instances \ {i} :
        LocalState(j)' = LocalState(j) /\ GlobalState(j)' = GlobalState(j)
  <2>1. \A j \in Instances \ {i} : SameFor(j) /\ (j \in used' <=> j \in used)
    BY <1>0, <1>2, SameForWrote
  <2>2. QED BY <2>1, StateKept
<1>4. r \in local'[n]
  BY <1>0, <1>2, PutElements DEF Identified
<1>5. LocalState(i)' = Target(op) /\ ~NoLocal(i)'
  BY <1>0, <1>2, <1>4 DEF LocalKnown, NoLocal
<1>6. CASE op = "define"
  <2>1. i \notin used
    BY <1>0, <1>1, <1>6 DEF Wrote, Identified, UuidsFresh
  <2>2. NoGlobal(i) /\ NoLocal(i)
    BY <1>0, <2>1, AllRecordsMembers DEF Identified, UuidsFresh, NoGlobal, NoLocal
  <2>3. LocalState(i) = "none" /\ GlobalState(i) = "none"
    BY <1>0, <1>2, <2>1, <2>2 DEF LocalKnown, GlobalKnown
  <2>4. GlobalState(i)' = "none"
    BY <1>0, <1>2, <1>5, <2>2 DEF GlobalKnown, NoGlobal
  <2>5. <<LocalState(i), LocalState(i)'>> \in LocalAbs!Transitions
    BY <1>5, <1>6, <2>3 DEF Target, LocalAbs!Transitions
  <2>6. QED BY <1>2, <1>3, <2>3, <2>4, <2>5 DEF LocalMove, GlobalMove
<1>7. CASE op # "define"
  <2>1. task[c].pc = "lock" /\ \E s \in task[c].snap : TRUE
    BY <1>1, <1>7 DEF Wrote
  <2>2. PICK s \in local[n] : s.uuid = i /\ s.status \in Required(op)
    BY <1>0, <1>1, <2>1 DEF Core, Phases, PhaseOf, LockedOn
  <2>3. Settled(i)
    BY <1>0, <1>1, <1>2, SettledOutside
  <2>4. s \in global /\ s \in global'
    BY <1>2, <2>2, <2>3 DEF Settled
  <2>5. LocalState(i) = s.status /\ GlobalState(i)' = GlobalState(i)
    BY <1>0, <1>2, <2>2, <2>4 DEF LocalKnown, GlobalKnown
  <2>6. <<LocalState(i), LocalState(i)'>> \in LocalAbs!Transitions
    BY <1>2, <1>5, <1>7, <2>2, <2>5
       DEF Polled, Required, Target, LocalAbs!Transitions
  <2>7. QED BY <1>2, <1>3, <2>5, <2>6 DEF LocalMove, GlobalMove
<1>8. QED BY <1>6, <1>7

LEMMA UndefinedIsMove ==
  ASSUME ExclInv, ExclInv', NEW c \in Clients, NEW r \in FDURecord,
         Undefined(c, r)
  PROVE  LocalMove(r.uuid) /\ GlobalMove(r.uuid) /\ r.uuid \in Instances
<1>0. /\ LocalKnown /\ LocalKnown' /\ GlobalKnown /\ GlobalKnown'
      /\ Identified /\ Core({}) /\ Core({})'
  BY KnownAcross DEF ExclInv
<1>1. PICK i, n : i = task[c].inst /\ n = task[c].agent
  OBVIOUS
<1>2. /\ n \in Nodes /\ r \in local[n] /\ r.uuid = i /\ i \in Instances
      /\ UNCHANGED <<global, used>>
      /\ task[c].pc = "lock" /\ task[c].op = "undefine" /\ task[c].snap # {}
      /\ task'[c].pc = "remove" /\ task'[c].inst = i
  BY <1>1 DEF Undefined, LocalRemoved, FDURecord
<1>3. \A j \in Instances \ {i} :
        LocalState(j)' = LocalState(j) /\ GlobalState(j)' = GlobalState(j)
  <2>1. \A j \in Instances \ {i} : SameFor(j) /\ (j \in used' <=> j \in used)
    BY <1>0, <1>2, SameForUndefined
  <2>2. QED BY <2>1, StateKept
<1>4. i \in used
  BY <1>0, <1>2, AllRecordsMembers DEF Identified, UuidsFresh
<1>5. NoLocal(i)'
  BY <1>0, <1>2 DEF Core, Phases, PhaseOf, RemovingOn, NoLocal
<1>6. LocalState(i)' = "gone"
  BY <1>0, <1>2, <1>4, <1>5 DEF LocalKnown
<1>7. PICK s \in local[n] : s.uuid = i /\ s.status \in Required("undefine")
  BY <1>0, <1>1, <1>2 DEF Core, Phases, PhaseOf, LockedOn
<1>8. s \in global /\ s \in global'
  BY <1>0, <1>1, <1>2, <1>7, SettledOutside DEF Settled
<1>9. LocalState(i) = "DEFINED" /\ GlobalState(i)' = GlobalState(i)
  BY <1>0, <1>2, <1>7, <1>8 DEF LocalKnown, GlobalKnown, Required
<1>10. <<LocalState(i), LocalState(i)'>> \in LocalAbs!Transitions
  BY <1>6, <1>9 DEF LocalAbs!Transitions
<1>11. QED BY <1>2, <1>3, <1>9, <1>10 DEF LocalMove, GlobalMove

LEMMA RemovedIsMove ==
  ASSUME ExclInv, ExclInv', NEW c \in Clients, Removed(c)
  PROVE  \E i \in Instances : LocalMove(i) /\ GlobalMove(i)
<1>0. /\ LocalKnown /\ LocalKnown' /\ GlobalKnown /\ GlobalKnown'
      /\ Identified /\ Core({})
  BY KnownAcross DEF ExclInv
<1>1. PICK i : i = task[c].inst
  OBVIOUS
<1>2. /\ UNCHANGED <<local, used>> /\ task[c].pc = "remove"
      /\ RemovingOn(c) /\ Single
  BY <1>0 DEF Removed, Core, Phases, PhaseOf
<1>3. PICK g \in global : g.uuid = i /\ g.status = "DEFINED"
  BY <1>1, <1>2 DEF RemovingOn
<1>4. g \in FDURecord /\ i \in Instances /\ i \in used
  BY <1>0, <1>3, AllRecordsMembers
     DEF Identified, TypeInv, TypeOK, FDURecord, UuidsFresh
<1>5. \A j \in Instances \ {i} :
        LocalState(j)' = LocalState(j) /\ GlobalState(j)' = GlobalState(j)
  <2>1. \A j \in Instances \ {i} : SameFor(j) /\ (j \in used' <=> j \in used)
    BY <1>0, <1>1, <1>2, SameForRemoved
  <2>2. QED BY <2>1, StateKept
<1>6. NoLocal(i) /\ NoLocal(i)'
  BY <1>1, <1>2 DEF RemovingOn, NoLocal
<1>7. NoGlobal(i)'
  <2>1. get_instance(global, i) = {g}
    BY <1>2, <1>3 DEF get_instance, Single
  <2>2. global' = remove_instance(global, g)
    BY <1>1, <2>1 DEF Removed
  <2>3. \A h \in global : h.uuid = i => SamePath(h, g)
    BY <1>0, <1>3, OnePlace
  <2>4. QED BY <2>2, <2>3 DEF remove_instance, NoGlobal
<1>8. LocalState(i)' = LocalState(i)
  BY <1>0, <1>2, <1>4, <1>6 DEF LocalKnown
<1>9. GlobalState(i) = "DEFINED" /\ GlobalState(i)' = "gone"
  BY <1>0, <1>2, <1>3, <1>4, <1>6, <1>7 DEF GlobalKnown
<1>10. <<GlobalState(i), GlobalState(i)'>> \in GlobalAbs!Transitions
  BY <1>9 DEF GlobalAbs!Transitions
<1>11. QED BY <1>4, <1>5, <1>8, <1>10 DEF LocalMove, GlobalMove

LEMMA DeliveredIsMove ==
  ASSUME ExclInv, ExclInv', NEW n \in Nodes, Delivered(n)
  PROVE  \E i \in Instances : LocalMove(i) /\ GlobalMove(i)
<1>0. /\ LocalKnown /\ LocalKnown' /\ GlobalKnown /\ GlobalKnown'
      /\ Identified /\ Identified' /\ Core({})
  BY KnownAcross DEF ExclInv
<1>1. PICK h, i : h = chan[n][1] /\ i = h.uuid
  OBVIOUS
<1>2. UNCHANGED <<local, used>>
  BY DEF Delivered, PutForwarded
<1>3. h \in local[n] /\ h \in local'[n] /\ i \in Instances /\ i \in used
  <2>1. h \in local[n] /\ i \in Instances
    BY <1>0, <1>1, DeliveredSettles
  <2>2. QED BY <1>0, <1>1, <1>2, <2>1, AllRecordsMembers DEF Identified, UuidsFresh
<1>4. PICK c \in Clients :
        /\ task[c].op \in Polled
        /\ \E r \in local'[n] : r.uuid = i /\ r.status = Target(task[c].op)
        /\ Before(task[c].op, i)
  BY <1>0, <1>1, DeliveredSettles
<1>5. h.status = Target(task[c].op)
  BY <1>1, <1>2, <1>3, <1>4 DEF ExclInv, Core, Single
<1>6. h \in global'
  BY <1>0, <1>1, ForwardedElements DEF Identified, Delivered
<1>7. \A j \in Instances \ {i} :
        LocalState(j)' = LocalState(j) /\ GlobalState(j)' = GlobalState(j)
  <2>1. \A j \in Instances \ {i} : SameFor(j) /\ (j \in used' <=> j \in used)
    BY <1>0, <1>1, <1>2, SameForDelivered
  <2>2. QED BY <2>1, StateKept
<1>8. LocalState(i)' = LocalState(i)
  BY <1>0, <1>1, <1>3 DEF LocalKnown
<1>9. GlobalState(i)' = Target(task[c].op)
  BY <1>0, <1>1, <1>5, <1>6 DEF GlobalKnown
<1>10. <<GlobalState(i), GlobalState(i)'>> \in GlobalAbs!Transitions
  <2>1. CASE task[c].op = "define"
    <3>1. NoGlobal(i) /\ ~NoLocal(i)
      BY <1>1, <1>3, <1>4, <2>1 DEF Before, NoGlobal, NoLocal
    <3>2. GlobalState(i) = "none"
      BY <1>0, <1>3, <3>1 DEF GlobalKnown
    <3>3. QED BY <1>9, <2>1, <3>2 DEF Target, GlobalAbs!Transitions
  <2>2. CASE task[c].op # "define"
    <3>1. GlobalState(i) \in Required(task[c].op)
      BY <1>0, <1>4, <2>2 DEF Before, GlobalKnown
    <3>2. QED BY <1>4, <1>9, <2>2, <3>1
              DEF Polled, Required, Target, GlobalAbs!Transitions
  <2>3. QED BY <2>1, <2>2
<1>11. QED BY <1>3, <1>7, <1>8, <1>10 DEF LocalMove, GlobalMove

(* The effects that are no move at all.                                    *)
LEMMA StoresSameIsStutter ==
  ASSUME StoresSame
  PROVE  /\ UNCHANGED [i \in Instances |-> LocalState(i)]
         /\ UNCHANGED [i \in Instances |-> GlobalState(i)]
<1>1. \A i \in Instances : LocalState(i)' = LocalState(i)
  BY DEF StoresSame, LocalState, Has, get_instance
<1>2. \A i \in Instances : GlobalState(i)' = GlobalState(i)
  BY DEF StoresSame, GlobalState, Has, get_instance
<1>3. QED BY <1>1, <1>2

-----------------------------------------------------------------------------
(* The refinements                                                         *)

LEMMA RefinedInit ==
  Init => /\ LocalAbs!Init
          /\ GlobalAbs!Init
<1> SUFFICES ASSUME Init PROVE LocalAbs!Init /\ GlobalAbs!Init
  OBVIOUS
<1>1. /\ global = {} /\ used = {} /\ \A n \in Nodes : local[n] = {}
  BY DEF Init
<1>2. \A i \in Instances : LocalState(i) = "none"
  BY <1>1 DEF LocalState, Has, get_instance
<1>3. \A i \in Instances : GlobalState(i) = "none"
  BY <1>1 DEF GlobalState, Has, get_instance
<1>4. QED BY <1>2, <1>3 DEF LocalAbs!Init, GlobalAbs!Init

LEMMA RefinedStep ==
  ASSUME Exclusive, ExclInv, ExclInv', [Next]_vars
  PROVE  /\ [LocalAbs!Next]_[i \in Instances |-> LocalState(i)]
         /\ [GlobalAbs!Next]_[i \in Instances |-> GlobalState(i)]
<1>1. Effect
  BY EffectStep DEF ExclInv, Identified
<1>2. CASE StoresSame
  BY <1>2, StoresSameIsStutter
<1>3. CASE \E i \in Instances : LocalMove(i) /\ GlobalMove(i)
  BY <1>3, LocalMoves, GlobalMoves
<1>4. StoresSame \/ \E i \in Instances : LocalMove(i) /\ GlobalMove(i)
  BY <1>1, WroteIsMove, UndefinedIsMove, RemovedIsMove, DeliveredIsMove
     DEF Effect, Moved, Answered
<1>5. QED BY <1>2, <1>3, <1>4

(* While no two requests are for the same instance, what the plugin of a   *)
(* node does to its instances (plugins.rs and the plugin of the examples,  *)
(* through zconnector/local.rs) is a path of the abstract life cycle.      *)
THEOREM LocalLifecycleHolds ==
  ASSUME Exclusive
  PROVE  Spec => LocalLifecycle
<1>1. Init => LocalAbs!Init
  BY RefinedInit
<1>2. ExclInv /\ ExclInv' /\ [Next]_vars
        => [LocalAbs!Next]_[i \in Instances |-> LocalState(i)]
  BY RefinedStep
<1>3. QED BY <1>1, <1>2, ExclAlways, PTL DEF Spec, LocalLifecycle, LocalAbs!Spec

(* And so is what clients see of them in the global store: the monitoring  *)
(* task of the agent (agent.rs:129-142) skips no state, repeats none out   *)
(* of order, and brings no instance back.                                  *)
THEOREM GlobalLifecycleHolds ==
  ASSUME Exclusive
  PROVE  Spec => GlobalLifecycle
<1>1. Init => GlobalAbs!Init
  BY RefinedInit
<1>2. ExclInv /\ ExclInv' /\ [Next]_vars
        => [GlobalAbs!Next]_[i \in Instances |-> GlobalState(i)]
  BY RefinedStep
<1>3. QED
  BY <1>1, <1>2, ExclAlways, PTL DEF Spec, GlobalLifecycle, GlobalAbs!Spec
=============================================================================
