------------------------ MODULE ClientProgramsProofs ------------------------
(***************************************************************************)
(* What ClientPrograms promises for every number of nodes, clients,        *)
(* instances and crashes, when no two programs work on the same instance   *)
(* at once: crashes stay contained, descriptors are kept, what runs has    *)
(* been reported, and what has been reported as deleted is gone for good.  *)
(*                                                                         *)
(* The requests of the programs are those of FduLifecycle, so that the     *)
(* invariant of FduLifecycleProofs carries over for the instances that no  *)
(* crash or timeout has disturbed.  What the programs add is an order of   *)
(* the calls: each starts from what the answer to the one before it says.  *)
(***************************************************************************)
EXTENDS ClientPrograms, FduLifecycleProofs

(* The calls a program may still have to make.                             *)
Calls == {instantiate_fdu, delete_fdu_instance, delete_fdu,
          <<"configure", "start">>, <<"start">>, <<"clean", "undefine">>,
          <<"undefine">>}

(* What a request knows of its program and its instance.                   *)
ReqKnown(c) ==
  /\ prog[c] # NoProgram => task[c].pc # "idle" /\ c \notin orphans
  /\ task[c].inst # None => prog[c] # NoProgram \/ task[c].inst \in disturbed
  /\ c \notin orphans =>
       task[c].pc = "define" \/ task[c].inst \in used \cup {None}
  /\ task[c].inst = None =>
       \/ task[c].pc = "idle"
       \/ task[c].pc \in {"offload", "reply"} /\ task[c].req = "offload"
       \/ task[c].pc = "reply" /\ task[c].reply # "Ok"
  /\ task[c].pc # "reply" => task[c].reply = None
  /\ task[c].pc \in Busy =>
       \/ task[c].op = task[c].req
       \/ task[c].op = "clean" /\ task[c].req = "undefine"
  /\ task[c].pc = "remove" => task[c].req = "undefine"
  /\ task[c].pc = "offload" => task[c].req = "offload"

Known == \A c \in Clients : ReqKnown(c)

(* The record the plugin read before it took its lock is still there.      *)
Locked == \A c \in Clients : task[c].pc = "lock" => LockedOn(c)

Base == ProgramsTypeOK /\ Identified /\ Core(disturbed) /\ Known /\ Locked

(* ------------------------------------------------------------------------*)
(* What the stores hold of instance i, besides its local record            *)

(* No copy of i has status st.                                             *)
Absent(i, st) ==
  /\ \A g \in global : g.uuid = i => g.status # st
  /\ \A n \in Nodes : \A k \in 1 .. Len(chan[n]) :
       chan[n][k].uuid = i => chan[n][k].status # st

(* All copies are in the global store, with status st.                     *)
SeenAll(i, st) ==
  /\ \A n \in Nodes : ~Queued(n, i)
  /\ \A g \in global : g.uuid = i => g.status = st

(* A copy with status st is the last there is: once the global store has   *)
(* it, nothing of i is queued.                                             *)
Newest(i, st) ==
  /\ \A n \in Nodes : \A j, k \in 1 .. Len(chan[n]) :
       chan[n][k].uuid = i /\ chan[n][k].status = st /\ chan[n][j].uuid = i
         => j <= k
  /\ (\E g \in global : g.uuid = i /\ g.status = st) =>
       \A n \in Nodes : ~Queued(n, i)

LocalAll(i, st) ==
  \A n \in Nodes : \A r \in local[n] : r.uuid = i => r.status = st

(* What the request of client c can rely on: the answer to the call before *)
(* it, and what its plugin has written.                                    *)
Waiting(c) == task[c].pc \in {"descriptor", "forward", "plugin", "lock"}

SaidOk(c) == task[c].pc = "reply" /\ task[c].reply = "Ok"

History(c) ==
  LET i == task[c].inst
      q == task[c].req
  IN /\ q = "define" /\ task[c].pc = "poll" => Newest(i, "DEFINED")
     /\ q = "define" /\ SaidOk(c) => SeenAll(i, "DEFINED")
     /\ q = "configure" /\ Waiting(c) => SeenAll(i, "DEFINED")
     /\ q = "configure" /\ task[c].pc = "poll" => Newest(i, "CONFIGURED")
     /\ q = "configure" /\ SaidOk(c) => SeenAll(i, "CONFIGURED")
     /\ q = "start" /\ Waiting(c) => SeenAll(i, "CONFIGURED")
     /\ q = "stop" /\ (task[c].pc = "poll" \/ SaidOk(c)) => Absent(i, "DEFINED")
     /\ q = "clean" /\ Waiting(c) => Absent(i, "DEFINED")
     /\ q = "clean" /\ task[c].pc = "poll" =>
          Newest(i, "DEFINED") /\ LocalAll(i, "DEFINED")
     /\ q = "clean" /\ SaidOk(c) =>
          SeenAll(i, "DEFINED") /\ LocalAll(i, "DEFINED")
     /\ q = "undefine" /\ Waiting(c) =>
          SeenAll(i, "DEFINED") /\ LocalAll(i, "DEFINED")
     /\ q = "undefine" => task[c].pc # "poll"
     /\ q = "undefine" /\ task[c].pc = "remove" =>
          /\ \A n \in Nodes : ~Queued(n, i)
          /\ \A n \in Nodes : \A r \in local[n] : r.uuid # i
     /\ q = "undefine" /\ SaidOk(c) => Records(i) = {} /\ i \in used

Histories ==
  /\ \A c \in Clients : History(c)
  /\ \A n \in Nodes : \A r \in local[n] :
       r.status = "RUNNING" => Absent(r.uuid, "DEFINED")

Gone == DeletedForGood

(* Descriptors.                                                            *)
Excused(i) == i \in overtaken \cup disturbed

Described ==
  /\ DescriptorKept
  /\ \A c \in Clients : task[c].pc = "define" =>
       task[c].fdu \in catalog \/ Excused(task[c].inst)
  /\ \A c \in Clients : task[c].pc = "poll" /\ task[c].op = "define" =>
       \A r \in AllRecords : r.uuid = task[c].inst => r.fdu_uuid = task[c].fdu
  /\ \A c \in Clients \ orphans : task[c].pc = "offload" =>
       /\ \A r \in AllRecords : r.fdu_uuid = task[c].fdu => Excused(r.uuid)
       /\ \A d \in Clients : task[d].pc = "define" /\ task[d].fdu = task[c].fdu
            => Excused(task[d].inst)

(* Running instances.                                                      *)
Starting(c) ==
  /\ prog[c] # NoProgram /\ prog[c].calls = <<"start">>
  /\ task[c].pc = "poll" \/ SaidOk(c)

Reported ==
  \A n \in Nodes : \A r \in local[n] :
    r.status = "RUNNING" =>
      \/ r.uuid \in reported \cup disturbed
      \/ \E c \in Clients : task[c].inst = r.uuid /\ Starting(c)

-----------------------------------------------------------------------------
(* The calls of a program                                                  *)

LEMMA CallsTail ==
  ASSUME NEW s \in Calls, Len(s) > 1
  PROVE  /\ Tail(s) \in Calls /\ Head(Tail(s)) = s[2]
         /\ s[2] \in {"configure", "start", "clean", "undefine"}
         /\ s[2] = "configure" => Head(s) = "define"
         /\ s[2] = "start" => Head(s) = "configure"
         /\ s[2] = "clean" => Head(s) = "stop"
         /\ s[2] = "undefine" => Head(s) = "clean"
<1>1. CASE s = <<"define", "configure", "start">>
  BY <1>1 DEF Calls
<1>2. CASE s = <<"stop", "clean", "undefine">>
  BY <1>2 DEF Calls
<1>3. CASE s = <<"configure", "start">>
  BY <1>3 DEF Calls
<1>4. CASE s = <<"clean", "undefine">>
  BY <1>4 DEF Calls
<1>5. CASE s \in {<<"offload">>, <<"start">>, <<"undefine">>}
  BY <1>5
<1>6. QED
  BY <1>1, <1>2, <1>3, <1>4, <1>5
     DEF Calls, instantiate_fdu, delete_fdu_instance, delete_fdu

LEMMA CallsHead ==
  ASSUME NEW s \in Calls
  PROVE  /\ Head(s) \in Ops
         /\ Head(s) = "start" => s = <<"start">>
BY DEF Calls, instantiate_fdu, delete_fdu_instance, delete_fdu, Ops, InstanceOps

-----------------------------------------------------------------------------
(* What a step does to the request of one client                           *)

(* The handler of request t has entered an agent.                          *)
Entered(c, t) ==
  /\ Others(c)
  /\ task'[c].req = t.req /\ task'[c].inst = t.inst /\ task'[c].snap = {}
  /\ \/ /\ task'[c].pc \in {"descriptor", "forward"}
        /\ task'[c].reply = t.reply
        /\ task'[c].op \in {t.op, ForwardedAs(t.op)}
     \/ task'[c].pc = "reply" /\ task'[c].reply # "Ok"

LEMMA EnterForm ==
  ASSUME TypeInv, NEW c \in Clients, NEW t \in Task, NEW n \in Nodes,
         t.snap = {}, Enter(c, t, n)
  PROVE  Entered(c, t)
<1> DEFINE m == get_instance(global, t.inst)
<1>1. ASSUME NEW x, task' = [task EXCEPT ![c] = x],
             x.req = t.req, x.inst = t.inst, x.snap = {},
             \/ /\ x.pc \in {"descriptor", "forward"}
                /\ x.reply = t.reply /\ x.op \in {t.op, ForwardedAs(t.op)}
             \/ x.pc = "reply" /\ x.reply # "Ok"
      PROVE  Entered(c, t)
  <2>1. task'[c] = x /\ Others(c)
    BY <1>1 DEF Others, TypeInv, TypeOK
  <2>2. QED BY <1>1, <2>1 DEF Entered
<1>2. ASSUME NEW r,
             task' = [task EXCEPT ![c] =
               [t EXCEPT !.pc = "descriptor", !.held = @ \cup {n},
                         !.fdu = r.fdu_uuid]]
      PROVE  Entered(c, t)
  <2> DEFINE x == [t EXCEPT !.pc = "descriptor", !.held = @ \cup {n},
                            !.fdu = r.fdu_uuid]
  <2>1. /\ x.req = t.req /\ x.inst = t.inst /\ x.snap = {}
        /\ x.pc = "descriptor" /\ x.reply = t.reply /\ x.op = t.op
    BY DEF Task
  <2>2. task' = [task EXCEPT ![c] = x]
    BY <1>2
  <2> HIDE DEF x
  <2>3. QED BY <1>1, <2>1, <2>2
<1>3. ASSUME NEW r,
             task' = [task EXCEPT ![c] =
               [t EXCEPT !.pc = "forward", !.held = @ \cup {n},
                         !.agent = r.node, !.op = ForwardedAs(@)]]
      PROVE  Entered(c, t)
  <2> DEFINE x == [t EXCEPT !.pc = "forward", !.held = @ \cup {n},
                            !.agent = r.node, !.op = ForwardedAs(@)]
  <2>1. /\ x.req = t.req /\ x.inst = t.inst /\ x.snap = {}
        /\ x.pc = "forward" /\ x.reply = t.reply /\ x.op = ForwardedAs(t.op)
    BY DEF Task
  <2>2. task' = [task EXCEPT ![c] = x]
    BY <1>3
  <2> HIDE DEF x
  <2>3. QED BY <1>1, <2>1, <2>2
<1>4. ASSUME task' = [task EXCEPT ![c] = Answer(t.req, t.inst, LookupError(m))]
      PROVE  Entered(c, t)
  <2> DEFINE x == Answer(t.req, t.inst, LookupError(m))
  <2>1. /\ x.req = t.req /\ x.inst = t.inst /\ x.snap = {}
        /\ x.pc = "reply" /\ x.reply # "Ok"
    BY DEF Answer, IdleTask, LookupError
  <2>2. task' = [task EXCEPT ![c] = x]
    BY <1>4
  <2> HIDE DEF x
  <2>3. QED BY <1>1, <2>1, <2>2
<1>5. QED BY <1>2, <1>3, <1>4, Zenon DEF Enter

(* The handler of c, or its plugin, gets on with the request.              *)
SameCall(c) ==
  /\ task'[c].op = task[c].op /\ task'[c].reply = task[c].reply
  /\ task'[c].fdu = task[c].fdu

Single1(c) ==
  \E r \in global : get_instance(global, task[c].inst) = {r}

GetsOn(c) ==
  /\ Others(c)
  /\ task'[c].req = task[c].req /\ task'[c].inst = task[c].inst
  /\ \/ task[c].pc = "forward" /\ Entered(c, task[c])
     \/ task[c].pc = "descriptor" /\ task'[c].pc = "plugin" /\ SameCall(c)
     \/ task[c].pc = "plugin" /\ task'[c].pc = "lock" /\ SameCall(c)
     \/ task[c].pc \in {"define", "lock"} /\ task'[c].pc = "poll" /\ SameCall(c)
     \/ /\ task[c].pc = "lock" /\ task'[c].pc = "remove" /\ SameCall(c)
        /\ task[c].op = "undefine"
     \/ /\ task[c].pc \in {"descriptor", "plugin", "lock"}
        /\ task'[c].pc = "reply" /\ task'[c].reply # "Ok"
     \/ /\ task[c].pc = "poll" /\ task'[c].pc = "reply"
        /\ IF Single1(c)
             THEN /\ task'[c].reply = "Ok"
                  /\ \A g \in global :
                       g.uuid = task[c].inst => g.status = Target(task[c].op)
             ELSE /\ task'[c].reply # "Ok"
                  /\ \E g \in global : g.uuid = task[c].inst
     \/ /\ task[c].pc = "remove" /\ task'[c].pc = "reply"
        /\ task'[c].reply = "Ok" =>
             /\ Single1(c)
             /\ \A g \in global' : g \in global /\ g.uuid # task[c].inst
     \/ task[c].pc = "offload" /\ task'[c].pc = "reply"

LEMMA ReplyForm ==
  ASSUME TypeInv, NEW c \in Clients, NEW r, Reply(c, r)
  PROVE  /\ Others(c) /\ task'[c].pc = "reply" /\ task'[c].reply = r
         /\ task'[c].req = task[c].req /\ task'[c].inst = task[c].inst
         /\ task'[c].snap = {}
BY DEF Reply, Others, Answer, IdleTask, TypeInv, TypeOK

LEMMA GotoForm ==
  ASSUME TypeInv, NEW c \in Clients, NEW pc, Goto(c, pc)
  PROVE  /\ Others(c) /\ task'[c].pc = pc /\ SameCall(c)
         /\ task'[c].req = task[c].req /\ task'[c].inst = task[c].inst
BY DEF Goto, Others, SameCall, TypeInv, TypeOK, Task

LEMMA HandlerGetsOn ==
  ASSUME TypeInv, NEW c \in Clients,
         GetDescriptor(c) \/ Poll(c) \/ RemoveGlobal(c) \/ RemoveFdu(c)
  PROVE  /\ GetsOn(c)
         /\ \/ UNCHANGED catalog
            \/ task[c].pc = "offload" /\ catalog' = catalog \ {task[c].fdu}
<1> DEFINE m == get_instance(global, task[c].inst)
<1>0. /\ \A r \in m : r \in global /\ r.uuid = task[c].inst
      /\ \A g \in global : g.uuid = task[c].inst => g \in m
  BY DEF get_instance
<1>1. CASE GetDescriptor(c)
  <2>1. /\ task[c].pc = "descriptor"
        /\ Goto(c, "plugin") \/ Reply(c, "NotFound")
        /\ UNCHANGED catalog
    BY <1>1 DEF GetDescriptor, storeVars
  <2>2. CASE Goto(c, "plugin")
    BY <2>1, <2>2, GotoForm DEF GetsOn
  <2>3. CASE Reply(c, "NotFound")
    BY <2>1, <2>3, ReplyForm DEF GetsOn
  <2>4. QED BY <2>1, <2>2, <2>3
<1>2. CASE Poll(c)
  <2>1. /\ task[c].pc = "poll" /\ UNCHANGED catalog
        /\ \E r \in m : m = {r} => r.status = Target(task[c].op)
        /\ Reply(c, IF \E r \in m : m = {r} THEN "Ok" ELSE "TooMuchError")
    BY <1>2 DEF Poll, storeVars
  <2>2. /\ Others(c) /\ task'[c].pc = "reply"
        /\ task'[c].reply = IF \E r \in m : m = {r} THEN "Ok" ELSE "TooMuchError"
        /\ task'[c].req = task[c].req /\ task'[c].inst = task[c].inst
    BY <2>1, ReplyForm
  <2>3. CASE Single1(c)
    <3>1. PICK r \in global : m = {r}
      BY <2>3 DEF Single1
    <3>2. task'[c].reply = "Ok" /\ r.status = Target(task[c].op)
      BY <2>1, <2>2, <3>1
    <3>3. \A g \in global : g.uuid = task[c].inst => g = r
      BY <1>0, <3>1
    <3>4. QED BY <2>1, <2>2, <2>3, <3>2, <3>3 DEF GetsOn
  <2>4. CASE ~Single1(c)
    <3>1. ~\E r \in m : m = {r}
      BY <1>0, <2>4 DEF Single1
    <3>2. \E g \in global : g.uuid = task[c].inst
      BY <1>0, <2>1
    <3>3. QED BY <2>1, <2>2, <2>4, <3>1, <3>2 DEF GetsOn
  <2>5. QED BY <2>3, <2>4
<1>3. CASE RemoveGlobal(c)
  <2>1. /\ task[c].pc = "remove" /\ UNCHANGED catalog
        /\ \/ \E r \in m : /\ m = {r} /\ global' = remove_instance(global, r)
                           /\ Reply(c, "Ok")
           \/ Reply(c, LookupError(m))
    BY <1>3 DEF RemoveGlobal
  <2>2. CASE Reply(c, LookupError(m))
    BY <2>1, <2>2, ReplyForm DEF GetsOn, LookupError
  <2>3. ASSUME NEW r \in m, m = {r}, global' = remove_instance(global, r),
               Reply(c, "Ok")
        PROVE  GetsOn(c)
    <3>1. Single1(c)
      BY <1>0, <2>3 DEF Single1
    <3>2. \A g \in global' : g \in global /\ g.uuid # task[c].inst
      BY <1>0, <2>3 DEF remove_instance, SamePath
    <3>3. QED BY <2>1, <2>3, <3>1, <3>2, ReplyForm DEF GetsOn
  <2>4. QED BY <2>1, <2>2, <2>3
<1>4. CASE RemoveFdu(c)
  <2>1. /\ task[c].pc = "offload" /\ Reply(c, "Ok")
        /\ catalog' = catalog \ {task[c].fdu}
    BY <1>4 DEF RemoveFdu
  <2>2. QED BY <2>1, ReplyForm DEF GetsOn
<1>5. QED BY <1>1, <1>2, <1>3, <1>4

LEMMA ArriveGetsOn ==
  ASSUME TypeInv, Owned, NEW c \in Clients, Arrive(c)
  PROVE  GetsOn(c) /\ UNCHANGED catalog
<1>1. /\ task[c] \in Task /\ task[c].agent \in Nodes
      /\ task[c].pc = "forward" /\ UNCHANGED catalog
      /\ Enter(c, task[c], task[c].agent)
  BY DEF Arrive, TypeInv, TypeOK, TaskKnows, Busy, storeVars
<1>2. task[c].snap = {}
  BY <1>1 DEF Owned
<1>3. Entered(c, task[c])
  BY <1>1, <1>2, EnterForm
<1>4. QED BY <1>1, <1>3 DEF GetsOn, Entered

LEMMA PluginGetsOn ==
  ASSUME TypeInv, Owned, NEW c \in Clients, PluginStep(c)
  PROVE  GetsOn(c) /\ UNCHANGED catalog /\ AtPlugin(c)
<1>0. \A s \in task[c].snap : task[c].pc = "lock"
  BY DEF Owned
<1>1. ASSUME task[c].pc \in {"plugin", "lock"}, NEW r, r # "Ok", Reply(c, r)
      PROVE  GetsOn(c)
  BY <1>1, ReplyForm DEF GetsOn
<1>2. ASSUME task[c].pc \in {"define", "lock"}, Goto(c, "poll")
      PROVE  GetsOn(c)
  BY <1>2, GotoForm DEF GetsOn
<1>3. CASE PluginDefine(c)
  BY <1>2, <1>3 DEF PluginDefine, AtPlugin
<1>4. CASE PluginGet(c)
  <2> DEFINE m == get_instance(local[task[c].agent], task[c].inst)
  <2>1. task[c].pc = "plugin" /\ UNCHANGED catalog
    BY <1>4 DEF PluginGet, storeVars
  <2>2. LookupError(m) # "Ok"
    BY DEF LookupError
  <2>3. ASSUME task' = [task EXCEPT ![c].pc = "lock", ![c].snap = m]
        PROVE  GetsOn(c)
    <3>1. /\ Others(c) /\ task'[c].pc = "lock" /\ SameCall(c)
          /\ task'[c].req = task[c].req /\ task'[c].inst = task[c].inst
      BY <2>3 DEF Others, SameCall, TypeInv, TypeOK, Task
    <3>2. QED BY <2>1, <3>1 DEF GetsOn
  <2>4. \/ task' = [task EXCEPT ![c].pc = "lock", ![c].snap = m]
        \/ Reply(c, "TransitionNotAllowed")
        \/ Reply(c, LookupError(m))
    BY <1>4 DEF PluginGet
  <2>5. QED BY <1>1, <2>1, <2>2, <2>3, <2>4 DEF AtPlugin
<1>5. CASE PluginSwitch(c)
  <2>1. task[c].pc = "lock" /\ Goto(c, "poll") /\ UNCHANGED catalog
    BY <1>0, <1>5 DEF PluginSwitch
  <2>2. QED BY <1>2, <2>1 DEF AtPlugin
<1>6. CASE PluginConfigure(c)
  <2>1. /\ task[c].pc = "lock" /\ UNCHANGED catalog
        /\ Reply(c, "NotFound") \/ Goto(c, "poll")
    BY <1>0, <1>6 DEF PluginConfigure
  <2>2. QED BY <1>1, <1>2, <2>1 DEF AtPlugin
<1>7. CASE PluginClean(c)
  <2>1. /\ task[c].pc = "lock" /\ UNCHANGED catalog
        /\ Reply(c, "NotFound") \/ Goto(c, "poll")
    BY <1>0, <1>7 DEF PluginClean
  <2>2. QED BY <1>1, <1>2, <2>1 DEF AtPlugin
<1>8. CASE PluginUndefine(c)
  <2> DEFINE m == get_instance(local[task[c].agent], task[c].inst)
  <2>1. /\ task[c].pc = "lock" /\ task[c].op = "undefine" /\ UNCHANGED catalog
        /\ Goto(c, "remove") \/ Reply(c, LookupError(m))
    BY <1>0, <1>8 DEF PluginUndefine, Holds
  <2>2. LookupError(m) # "Ok"
    BY DEF LookupError
  <2>3. Goto(c, "remove") => GetsOn(c)
    BY <2>1, GotoForm DEF GetsOn
  <2>4. QED BY <1>1, <2>1, <2>2, <2>3 DEF AtPlugin
<1>9. QED BY <1>3, <1>4, <1>5, <1>6, <1>7, <1>8 DEF PluginStep

-----------------------------------------------------------------------------
(* The steps of the programs are steps of the system, or a request's end   *)

(* The actions that are steps of FduLifecycle.                             *)
Wrapped(c) ==
  \/ \E n \in Nodes, f \in Fdus : InstantiateFdu(c, n, f) \/ DeleteFdu(c, n, f)
  \/ \E n \in Nodes, i \in Instances : DeleteInstance(c, n, i)
  \/ Finish(c) \/ TimeOut(c) \/ Handler(c) \/ Forwarded(c) \/ Plugin(c)

Nobody ==
  \/ \E f \in Fdus : DefineFdu(f)
  \/ \E n \in Nodes : Boot(n) \/ Register(n) \/ Admit(n) \/ Forward(n)
  \/ UNCHANGED allVars

LEMMA StepCases ==
  ASSUME [ProgramsNext]_allVars
  PROVE  \/ Nobody
         \/ \E c \in Clients : Wrapped(c)
         \/ \E c \in Clients : NextCall(c) \/ PluginDies(c) \/ Forget(c)
         \/ \E n \in Nodes : Crash(n) \/ Subscribe(n)
BY DEF ProgramsNext, Nobody, Wrapped

LEMMA WrappedIsNext ==
  ASSUME Nobody \/ \E c \in Clients : Wrapped(c)
  PROVE  [Next]_vars
<1>1. CASE Nobody
  BY <1>1 DEF Nobody, DefineFdu, Boot, Register, Admit, Forward, Next, allVars
<1>2. ASSUME NEW c \in Clients, Wrapped(c) PROVE Next
  <2>1. ASSUME NEW n \in Nodes, NEW f \in Fdus, InstantiateFdu(c, n, f)
        PROVE  Next
    BY <2>1 DEF InstantiateFdu, Next
  <2>2. ASSUME NEW n \in Nodes, NEW f \in Fdus, DeleteFdu(c, n, f)
        PROVE  Next
    BY <2>2 DEF DeleteFdu, Next
  <2>3. ASSUME NEW n \in Nodes, NEW i \in Instances, DeleteInstance(c, n, i)
        PROVE  Next
    BY <2>3 DEF DeleteInstance, Next, InstanceOps
  <2>4. CASE Finish(c)
    BY <2>4 DEF Finish, HandlerStep, Next
  <2>5. CASE TimeOut(c)
    BY <2>5 DEF TimeOut, Next
  <2>6. CASE Handler(c)
    BY <2>6 DEF Handler, HandlerStep, Next
  <2>7. CASE Forwarded(c)
    BY <2>7 DEF Forwarded, Next
  <2>8. CASE Plugin(c)
    BY <2>8 DEF Plugin, Next
  <2>9. QED
    BY <1>2, <2>1, <2>2, <2>3, <2>4, <2>5, <2>6, <2>7, <2>8 DEF Wrapped
<1>3. QED BY <1>1, <1>2

(* The next call of a program: a request for the same instance.            *)
NextTask(c) ==
  NewTask(prog[c].calls[2], prog[c].entry, task[c].inst, None)

LEMMA NextCallForm ==
  ASSUME ProgramsTypeOK, TaskKnows, NEW c \in Clients, NextCall(c)
  PROVE  LET s == prog[c].calls
             q == s[2]
         IN /\ s \in Calls /\ Len(s) > 1 /\ q \in Ops
            /\ prog[c].entry \in Nodes
            /\ NextTask(c) \in Task /\ NextTask(c).snap = {}
            /\ NextTask(c).req = q /\ NextTask(c).op = q
            /\ NextTask(c).inst = task[c].inst /\ NextTask(c).reply = None
            /\ Entered(c, NextTask(c))
            /\ task' \in [Clients -> Task] /\ TaskKnows'
            /\ UNCHANGED <<storeVars, lockVars>>
<1> DEFINE s == prog[c].calls
           n == prog[c].entry
<1>1. s \in Calls /\ n \in Nodes /\ Len(s) > 1
  <2>1. prog[c] \in Programs
    BY DEF NextCall, ProgramsTypeOK
  <2>2. QED BY <2>1 DEF Programs, Calls, NextCall
<1>2. s[2] \in {"configure", "start", "clean", "undefine"}
  BY <1>1, CallsTail
<1>3. s[2] \in Ops
  BY <1>2 DEF Ops, InstanceOps
<1>4. task[c].inst \in Instances \cup {None} /\ TypeInv
  BY DEF ProgramsTypeOK, TypeOK, Task, TypeInv
<1>5. /\ NextTask(c) \in Task /\ NextTask(c).snap = {}
      /\ NextTask(c).req = s[2] /\ NextTask(c).op = s[2]
      /\ NextTask(c).inst = task[c].inst /\ NextTask(c).reply = None
      /\ NextTask(c).agent = n /\ NextTask(c).pc = "idle"
  <2>1. NextTask(c) \in Task
    BY <1>1, <1>3, <1>4, NewTaskType DEF NextTask
  <2>2. QED BY <2>1 DEF NextTask, NewTask, IdleTask
<1>6. Enter(c, NextTask(c), n) /\ UNCHANGED <<storeVars, lockVars>>
  BY DEF NextCall, NextTask
<1> HIDE DEF s, n
<1>7. Entered(c, NextTask(c))
  BY <1>1, <1>4, <1>5, <1>6, EnterForm
<1>8. task' \in [Clients -> Task] /\ TaskKnows'
  BY <1>1, <1>3, <1>4, <1>5, <1>6, EnterTypes
<1>9. QED BY <1>1, <1>3, <1>5, <1>6, <1>7, <1>8 DEF s, n

LEMMA PluginDiesForm ==
  ASSUME TypeInv, NEW c \in Clients, PluginDies(c)
  PROVE  /\ Others(c) /\ task'[c].pc = "reply" /\ task'[c].snap = {}
         /\ task'[c].req = task[c].req /\ task'[c].inst = task[c].inst
         /\ task'[c].reply = task[c].reply
         /\ TypeInv'
<1>1. task' = [task EXCEPT ![c] = [task[c] EXCEPT !.pc = "reply", !.snap = {}]]
  BY DEF PluginDies, TypeInv, TypeOK, Task
<1>2. [task[c] EXCEPT !.pc = "reply", !.snap = {}] \in Task
  BY DEF TypeInv, TypeOK, Task, Pcs
<1>3. /\ Others(c) /\ task'[c].pc = "reply" /\ task'[c].snap = {}
      /\ task'[c].req = task[c].req /\ task'[c].inst = task[c].inst
      /\ task'[c].reply = task[c].reply
      /\ task' \in [Clients -> Task]
  BY <1>1, <1>2 DEF Others, TypeInv, TypeOK, Task
<1>4. TaskKnows'
  BY <1>3 DEF TaskKnows, Others, Busy, TypeInv
<1>5. netns' \in [Nodes -> SUBSET NetNs]
  <2>1. FreshNetNs # {} => (CHOOSE x \in FreshNetNs : TRUE) \in NetNs
    BY DEF FreshNetNs
  <2> DEFINE ns == CHOOSE x \in FreshNetNs : TRUE
             a == task[c].agent
  <2>0. \/ UNCHANGED netns
        \/ FreshNetNs # {} /\ netns' = [netns EXCEPT ![a] = @ \cup {ns}]
        \/ \E r : netns' = [netns EXCEPT ![a] = @ \ {r.netns}]
    BY DEF PluginDies
  <2> HIDE DEF ns, a
  <2>2. PICK X : \/ UNCHANGED netns
                 \/ /\ netns' = [netns EXCEPT ![a] = X]
                    /\ \A x \in X : x \in netns[a] \/ x \in NetNs
    <3>1. CASE FreshNetNs # {} /\ netns' = [netns EXCEPT ![a] = @ \cup {ns}]
      <4>1. \A x \in netns[a] \cup {ns} : x \in netns[a] \/ x \in NetNs
        BY <2>1, <3>1 DEF ns
      <4>2. QED BY <3>1, <4>1
    <3>2. ASSUME NEW r, netns' = [netns EXCEPT ![a] = @ \ {r.netns}]
          PROVE  netns' = [netns EXCEPT ![a] = netns[a] \ {r.netns}]
      BY <3>2
    <3>3. QED BY <2>0, <3>1, <3>2
  <2> USE DEF a
  <2>3. CASE UNCHANGED netns
    BY <2>3 DEF TypeInv, TypeOK
  <2>4. CASE /\ netns' = [netns EXCEPT ![task[c].agent] = X]
             /\ \A x \in X : x \in netns[task[c].agent] \/ x \in NetNs
    <3>1. task[c].agent \in Nodes
      BY DEF PluginDies, AtPlugin, TypeInv, TaskKnows, Busy
    <3>2. X \in SUBSET NetNs
      BY <2>4, <3>1 DEF TypeInv, TypeOK
    <3>3. QED BY <2>4, <3>2 DEF TypeInv, TypeOK
  <2>5. QED BY <2>2, <2>3, <2>4
<1>6. QED BY <1>3, <1>4, <1>5 DEF PluginDies, TypeInv, TypeOK, lockVars

LEMMA ForgetForm ==
  ASSUME TypeInv, NEW c \in Clients, Forget(c)
  PROVE  /\ Others(c) /\ task'[c] = IdleTask
         /\ TypeInv'
<1>1. Others(c) /\ task'[c] = IdleTask /\ task' \in [Clients -> Task]
  BY IdleTaskType DEF Forget, Others, TypeInv, TypeOK
<1>2. TaskKnows'
  BY <1>1 DEF TaskKnows, Others, Busy, IdleTask, TypeInv
<1>3. QED BY <1>1, <1>2 DEF Forget, TypeInv, TypeOK, storeVars, lockVars

LEMMA CrashForm ==
  ASSUME TypeInv, NEW n \in Nodes, Crash(n)
  PROVE  /\ TasksSame
         /\ \A c \in Clients : /\ task'[c].req = task[c].req
                              /\ task'[c].fdu = task[c].fdu
                              /\ task'[c].reply = task[c].reply
         /\ TypeInv'
<1>1. \A c \in Clients :
        /\ task'[c] = [task[c] EXCEPT !.held = @ \ {n}]
        /\ [task[c] EXCEPT !.held = @ \ {n}] \in Task
  BY DEF Crash, TypeInv, TypeOK, Task
<1>2. /\ TasksSame
      /\ \A c \in Clients : /\ task'[c].req = task[c].req
                           /\ task'[c].fdu = task[c].fdu
                           /\ task'[c].reply = task[c].reply
  <2>1. ASSUME NEW c \in Clients
        PROVE  /\ task'[c].pc = task[c].pc /\ task'[c].op = task[c].op
               /\ task'[c].agent = task[c].agent /\ task'[c].inst = task[c].inst
               /\ task'[c].snap = task[c].snap /\ task'[c].req = task[c].req
               /\ task'[c].fdu = task[c].fdu /\ task'[c].reply = task[c].reply
    <3>1. PICK t \in Task : t = task[c]
      BY DEF TypeInv, TypeOK
    <3>2. task'[c] = [t EXCEPT !.held = @ \ {n}]
      BY <1>1, <3>1
    <3>3. QED BY <3>1, <3>2 DEF Task
  <2>2. QED BY <2>1 DEF TasksSame
<1>3. task' \in [Clients -> Task]
  BY <1>1 DEF Crash
<1>4. TaskKnows'
  BY <1>2 DEF TaskKnows, TasksSame, TypeInv
<1>5. chan' \in [Nodes -> Seq(FDURecord)]
  BY DEF Crash, TypeInv, TypeOK
<1>6. /\ hypervisors' \in [Nodes -> BOOLEAN]
      /\ writer' \in [Nodes -> {"none", "register", "unregister"}]
  BY DEF Crash, TypeInv, TypeOK
<1>7. QED BY <1>2, <1>3, <1>4, <1>5, <1>6 DEF Crash, TypeInv, TypeOK

LEMMA SubscribeForm ==
  ASSUME TypeInv, NEW n \in Nodes, Subscribe(n)
  PROVE  TypeInv'
<1>1. chan' \in [Nodes -> Seq(FDURecord)]
  BY DEF Subscribe, TypeInv, TypeOK
<1>2. QED BY <1>1 DEF Subscribe, TypeInv, TypeOK, TaskKnows, lockVars

LEMMA TypeInvStep ==
  ASSUME ProgramsTypeOK, TaskKnows, [ProgramsNext]_allVars
  PROVE  TypeInv'
<1>0. TypeInv
  BY DEF ProgramsTypeOK, TypeInv
<1>1. ASSUME NEW c \in Clients, NextCall(c) PROVE TypeInv'
  BY <1>0, <1>1, NextCallForm DEF TypeInv, TypeOK, storeVars, lockVars
<1>2. QED
  BY <1>0, <1>1, StepCases, WrappedIsNext, TypeStep, PluginDiesForm, ForgetForm,
     CrashForm, SubscribeForm

-----------------------------------------------------------------------------
(* The stores, for the instances that nothing has disturbed                *)

(* A crash, or a new subscription, drops what is queued at node n.         *)
Cut(n) ==
  /\ chan' = [chan EXCEPT ![n] = <<>>]
  /\ UNCHANGED <<global, local, used>>
  /\ TasksSame

LEMMA CutIdentified ==
  ASSUME Identified, TypeInv', NEW n \in Nodes, Cut(n)
  PROVE  /\ Identified'
         /\ \A x \in AllRecords' : x \in AllRecords
<1>1. /\ \A m \in Nodes : \A k \in 1 .. Len(chan'[m]) :
           k \in 1 .. Len(chan[m]) /\ chan'[m][k] = chan[m][k]
      /\ UNCHANGED <<global, local, used>>
      /\ \A c \in Clients : /\ task'[c].pc = task[c].pc
                           /\ task'[c].agent = task[c].agent
                           /\ task'[c].inst = task[c].inst
                           /\ task'[c].snap = task[c].snap
  BY DEF Cut, TasksSame, Identified, TypeInv, TypeOK
<1>2. \A x \in AllRecords' : x \in AllRecords
  BY <1>1, AllRecordsMembers, AllRecordsBound
<1>3. Owned'
  BY <1>1 DEF Identified, Owned
<1>4. UuidsFresh'
  BY <1>1, <1>2 DEF Identified, UuidsFresh
<1>5. OneIdentity'
  BY <1>2 DEF Identified, OneIdentity
<1>6. QED BY <1>2, <1>3, <1>4, <1>5 DEF Identified

LEMMA CutSameFor ==
  ASSUME TypeInv, NEW n \in Nodes, Cut(n), NEW j, j \notin Puts(n)
  PROVE  SameFor(j)
<1>1. chan'[n] = <<>> /\ \A m \in Nodes \ {n} : chan'[m] = chan[m]
  BY DEF Cut, TypeInv, TypeOK
<1>2. \A k \in 1 .. Len(chan[n]) : chan[n][k].uuid # j
  BY DEF Puts
<1>3. ASSUME NEW m \in Nodes
      PROVE  /\ Queued(m, j)' <=> Queued(m, j)
             /\ \A r : r.uuid = j /\ OnceQueued(m, r) => OnceQueued(m, r)'
  <2>1. CASE m = n
    BY <1>1, <1>2, <2>1 DEF Queued, OnceQueued
  <2>2. CASE m # n
    BY <1>1, <2>2 DEF Queued, OnceQueued
  <2>3. QED BY <2>1, <2>2
<1>4. QED BY <1>3 DEF SameFor, Cut

LEMMA LockedEffect ==
  ASSUME Identified, Apart, Locked, Effect
  PROVE  Locked'
<1>1. ASSUME NEW d \in Clients, task'[d].pc = "lock", SameRequest(d),
             \A r \in local[task[d].agent] :
               r.uuid = task[d].inst => r \in local'[task[d].agent]
      PROVE  LockedOn(d)'
  <2>1. LockedOn(d)
    BY <1>1 DEF Locked, SameRequest
  <2>2. PICK a : a = task[d].agent
    OBVIOUS
  <2>3. \A s \in task[d].snap : s.uuid = task[d].inst /\ s \in local'[a]
    BY <1>1, <2>1, <2>2 DEF LockedOn
  <2>4. QED BY <1>1, <2>1, <2>2, <2>3 DEF LockedOn, SameRequest
<1>2. CASE StoresSame /\ TasksSame
  BY <1>1, <1>2 DEF Locked, StoresSame, TasksSame, SameRequest
<1>3. ASSUME NEW c \in Clients, Moved(c), NEW d \in Clients, task'[d].pc = "lock"
      PROVE  LockedOn(d)'
  BY <1>1, <1>3 DEF Moved, Others, StoresSame, SameRequest
<1>4. ASSUME NEW c \in Clients, Answered(c) \/ Removed(c),
             NEW d \in Clients, task'[d].pc = "lock"
      PROVE  LockedOn(d)'
  BY <1>1, <1>4 DEF Answered, Removed, Others, StoresSame, SameRequest
<1>5. ASSUME NEW c \in Clients, NEW i, i = task[c].inst, i \in Instances,
             Others(c), task'[c].pc # "lock",
             \A n \in Nodes : \A s \in local[n] : s.uuid # i => s \in local'[n],
             NEW d \in Clients, task'[d].pc = "lock"
      PROVE  LockedOn(d)'
  <2>1. d # c /\ task'[d] = task[d]
    BY <1>5 DEF Others
  <2>2. task[d].inst # i
    BY <1>5, <2>1, NoneAssumption DEF Apart
  <2>3. task[d].agent \in Nodes
    BY <1>5, <2>1 DEF Identified, TypeInv, TaskKnows, Busy
  <2>4. QED BY <1>1, <1>5, <2>1, <2>2, <2>3 DEF SameRequest
<1>6. ASSUME NEW c \in Clients, NEW r \in FDURecord, Wrote(c, r),
             NEW d \in Clients, task'[d].pc = "lock"
      PROVE  LockedOn(d)'
  <2>1. PICK i, n : i = task[c].inst /\ n = task[c].agent
    OBVIOUS
  <2>2. /\ n \in Nodes /\ LocalPut(n, r) /\ r.uuid = i /\ i \in Instances
        /\ Others(c) /\ task'[c].pc # "lock"
    BY <1>6, <2>1 DEF Wrote, FDURecord
  <2>3. /\ local'[n] = {s \in local[n] : ~SamePath(s, r)} \cup {r}
        /\ \A m \in Nodes \ {n} : local'[m] = local[m]
    BY <2>2, PutElements DEF Identified
  <2>4. \A m \in Nodes : \A s \in local[m] : s.uuid # i => s \in local'[m]
    BY <2>2, <2>3 DEF SamePath
  <2>5. QED BY <1>5, <1>6, <2>1, <2>2, <2>4
<1>7. ASSUME NEW c \in Clients, NEW r \in FDURecord, Undefined(c, r),
             NEW d \in Clients, task'[d].pc = "lock"
      PROVE  LockedOn(d)'
  <2>1. PICK i : i = task[c].inst
    OBVIOUS
  <2>2. /\ r.uuid = i /\ i \in Instances /\ Others(c) /\ task'[c].pc # "lock"
    BY <1>7, <2>1 DEF Undefined, FDURecord
  <2>3. \A m \in Nodes : \A s \in local[m] : s.uuid # i => s \in local'[m]
    BY <1>7, <2>2 DEF Undefined, LocalRemoved, remove_instance, SamePath,
                      Identified, TypeInv, TypeOK
  <2>4. QED BY <1>5, <1>7, <2>1, <2>2, <2>3
<1>8. ASSUME NEW n \in Nodes, Delivered(n), NEW d \in Clients, task'[d].pc = "lock"
      PROVE  LockedOn(d)'
  BY <1>1, <1>8 DEF Delivered, PutForwarded, SameRequest
<1>9. QED
  BY <1>2, <1>3, <1>4, <1>6, <1>7, <1>8 DEF Effect, Locked

Guarded == Identified /\ Core(disturbed) /\ Locked

(* A step of FduLifecycle, or one that has the same effect.                *)
LEMMA EffectGuarded ==
  ASSUME Guarded, Identified', Effect, disturbed \subseteq disturbed'
  PROVE  Guarded'
<1>1. PICK S : S = disturbed'
  OBVIOUS
<1>2. Core(S)
  BY <1>1 DEF Guarded, Core, Phases, Rest
<1>3. Core(S)'
  BY <1>2, EffectKeeps DEF Guarded
<1>4. Core(disturbed)'
  BY <1>1, <1>3 DEF Core, Phases, Rest
<1>5. Locked'
  BY LockedEffect DEF Guarded, Core
<1>6. QED BY <1>4, <1>5 DEF Guarded

LEMMA CutGuarded ==
  ASSUME Guarded, TypeInv', NEW n \in Nodes, Cut(n),
         disturbed \cup Puts(n) \subseteq disturbed'
  PROVE  Guarded'
<1>1. PICK S : S = disturbed'
  OBVIOUS
<1>2. Core(S)
  BY <1>1 DEF Guarded, Core, Phases, Rest
<1>3. Identified'
  BY CutIdentified DEF Guarded
<1>4. \A j : j \notin S => SameFor(j)
  BY <1>1, CutSameFor DEF Guarded, Identified
<1>5. Single' /\ TasksSame
  BY <1>2 DEF Core, Single, Cut
<1>6. Core(S)'
  BY <1>2, <1>3, <1>4, <1>5, CutKeeps DEF Guarded
<1>7. Core(disturbed)'
  BY <1>1, <1>6 DEF Core, Phases, Rest
<1>8. Locked'
  BY DEF Guarded, Locked, LockedOn, Cut, TasksSame
<1>9. QED BY <1>3, <1>7, <1>8 DEF Guarded

LEMMA NextCallGuarded ==
  ASSUME Guarded, ProgramsTypeOK, NEW c \in Clients, NextCall(c)
  PROVE  Guarded'
<1>0. TypeInv /\ TaskKnows
  BY DEF Guarded, Identified, TypeInv
<1>1. /\ Entered(c, NextTask(c)) /\ NextTask(c).inst = task[c].inst
      /\ UNCHANGED <<storeVars, lockVars>>
  BY <1>0, NextCallForm
<1>2. TypeInv'
  BY <1>0, NextCallForm DEF TypeInv, TypeOK, storeVars, lockVars
<1>3. /\ Others(c) /\ task'[c].inst = task[c].inst /\ task'[c].snap = {}
      /\ task'[c].pc \in {"descriptor", "forward", "reply"}
  BY <1>1 DEF Entered
<1>4. task[c].pc = "reply" /\ UNCHANGED disturbed
  BY DEF NextCall, lossVars
<1>5. Moved(c)
  BY <1>1, <1>3, <1>4 DEF Moved, StoresSame, storeVars
<1>6. TaskEffect(c)
  BY <1>3 DEF TaskEffect, Others
<1>7. Identified'
  BY <1>1, <1>2, <1>6, IdentifiedKept DEF Guarded, StoreEffect, storeVars
<1>8. Effect
  BY <1>5 DEF Effect
<1>9. QED BY <1>4, <1>7, <1>8, EffectGuarded

LEMMA PluginDiesGuarded ==
  ASSUME Guarded, NEW c \in Clients, PluginDies(c)
  PROVE  Guarded'
<1>1. /\ Others(c) /\ task'[c].pc = "reply" /\ task'[c].snap = {}
      /\ task'[c].inst = task[c].inst /\ TypeInv'
  BY PluginDiesForm DEF Guarded, Identified
<1>2. /\ UNCHANGED <<global, local, chan, used, disturbed>>
      /\ task[c].pc \in {"define", "plugin", "lock"}
  BY DEF PluginDies, lossVars, AtPlugin
<1>3. Moved(c) /\ TaskEffect(c)
  BY <1>1, <1>2 DEF Moved, TaskEffect, StoresSame, Others
<1>4. Identified'
  BY <1>1, <1>2, <1>3, IdentifiedKept DEF Guarded, StoreEffect
<1>5. Effect
  BY <1>3 DEF Effect
<1>6. QED BY <1>2, <1>4, <1>5, EffectGuarded

LEMMA ForgetGuarded ==
  ASSUME Guarded, NEW c \in Clients, Forget(c),
         task[c].inst \in disturbed \cup {None}
  PROVE  Guarded'
<1>1. /\ Others(c) /\ task'[c].pc = "idle" /\ task'[c].snap = {}
      /\ task'[c].inst = None /\ TypeInv'
  BY ForgetForm DEF Guarded, Identified, IdleTask
<1>2. StoresSame /\ UNCHANGED disturbed
  BY DEF Forget, lossVars, storeVars, StoresSame
<1>3. TaskEffect(c)
  BY <1>1 DEF TaskEffect, Others
<1>4. Identified'
  BY <1>1, <1>2, <1>3, IdentifiedKept DEF Guarded, StoreEffect, StoresSame
<1>5. CASE task[c].pc \notin {"poll", "remove"}
  <2>1. Moved(c)
    BY <1>1, <1>2, <1>5 DEF Moved
  <2>2. Effect
    BY <2>1 DEF Effect
  <2>3. QED BY <1>2, <1>4, <2>2, EffectGuarded
<1>6. CASE task[c].pc \in {"poll", "remove"}
  <2>1. PICK S : S = disturbed
    OBVIOUS
  <2>2. Core(S)
    BY <2>1 DEF Guarded, Core, Phases, Rest
  <2>3. task[c].inst \in S
    <3>1. SUFFICES ASSUME task[c].inst = None, None \notin disturbed
                   PROVE  FALSE
      BY <2>1
    <3>2. PhaseOf(c)
      BY <3>1 DEF Guarded, Core, Phases
    <3>3. \A g \in global : g.uuid # None
      BY NoneAssumption DEF Guarded, Identified, TypeInv, TypeOK, FDURecord
    <3>4. \A n \in Nodes : \A r \in local[n] : r.uuid # None
      BY NoneAssumption DEF Guarded, Identified, TypeInv, TypeOK, FDURecord
    <3>5. task[c].agent \in Nodes
      BY <1>6 DEF Guarded, Identified, TypeInv, TaskKnows, Busy
    <3>6. QED BY <1>6, <3>1, <3>2, <3>3, <3>4, <3>5
              DEF PhaseOf, PollingOn, RemovingOn
  <2>4. Single' /\ \A j : SameFor(j)
    BY <1>2, <2>2, SameForStores DEF Core, Single, StoresSame
  <2>5. Core(S)'
    BY <1>1, <1>4, <2>2, <2>3, <2>4, SpoiledKeeps DEF Guarded
  <2>6. Core(disturbed)'
    BY <1>2, <2>1, <2>5 DEF Core, Phases, Rest
  <2>7. Locked'
    BY <1>1, <1>2 DEF Guarded, Locked, LockedOn, Others, StoresSame
  <2>8. QED BY <1>4, <2>6, <2>7 DEF Guarded
<1>7. QED BY <1>5, <1>6

LEMMA CrashGuarded ==
  ASSUME Guarded, NEW n \in Nodes, Crash(n) \/ Subscribe(n)
  PROVE  Guarded'
<1>1. TypeInv /\ TypeInv'
  BY CrashForm, SubscribeForm DEF Guarded, Identified
<1>2. TasksSame
  BY <1>1, CrashForm DEF Subscribe, TasksSame
<1>3. Cut(n) /\ disturbed \cup Puts(n) \subseteq disturbed'
  BY <1>2 DEF Cut, Crash, Subscribe
<1>4. QED BY <1>1, <1>3, CutGuarded

LEMMA GuardedStep ==
  ASSUME Exclusive, Base, [ProgramsNext]_allVars
  PROVE  Guarded'
<1>0. Guarded /\ ProgramsTypeOK /\ Known
  BY DEF Base, Guarded
<1>1. CASE Nobody \/ \E c \in Clients : Wrapped(c)
  <2>1. [Next]_vars
    BY <1>1, WrappedIsNext
  <2>2. Identified'
    BY <1>0, <2>1, IdentifiedStep DEF Guarded
  <2>3. Effect
    BY <1>0, <2>1, EffectStep DEF Guarded, Identified
  <2>4. disturbed \subseteq disturbed'
    BY <1>1 DEF Nobody, Wrapped, DefineFdu, Boot, Register, Admit, Forward,
                InstantiateFdu, DeleteFdu, DeleteInstance, Finish, TimeOut,
                Handler, Forwarded, Plugin, allVars, lossVars
  <2>5. QED BY <1>0, <2>2, <2>3, <2>4, EffectGuarded
<1>2. ASSUME NEW c \in Clients, Forget(c) PROVE Guarded'
  <2>1. task[c].inst \in disturbed \cup {None}
    BY <1>0, <1>2 DEF Forget, Known, ReqKnown
  <2>2. QED BY <1>0, <1>2, <2>1, ForgetGuarded
<1>3. QED
  BY <1>0, <1>1, <1>2, StepCases, NextCallGuarded, PluginDiesGuarded,
     CrashGuarded

-----------------------------------------------------------------------------
(* Types, and what the requests know                                       *)

(* The part of ProgramsTypeOK that is about the programs.                  *)
ProgTypes ==
  /\ prog \in [Clients -> Programs \cup {NoProgram}]
  /\ agent \in [Nodes -> {"down", "deaf", "up"}]
  /\ orphans \subseteq Clients
  /\ crashes \in 0 .. MaxCrashes
  /\ reported \subseteq used /\ deleted \subseteq used
  /\ disturbed \subseteq Instances /\ deafened \subseteq disturbed
  /\ overtaken \subseteq Instances

ProgKnown(c) ==
  /\ c \in orphans => prog[c] = NoProgram /\ task[c].pc # "idle"
  /\ prog[c] # NoProgram => task[c].req = Head(prog[c].calls)

LEMMA ProgTypeParts ==
  ProgramsTypeOK <=> TypeOK /\ ProgTypes /\ \A c \in Clients : ProgKnown(c)
BY DEF ProgramsTypeOK, ProgTypes, ProgKnown

(* What the other clients know stays true.                                 *)
Grows ==
  /\ used \subseteq used' /\ disturbed \subseteq disturbed'

LEMMA KnownKept ==
  ASSUME NEW d \in Clients, ReqKnown(d), ProgKnown(d), Grows,
         task'[d].pc = task[d].pc, task'[d].req = task[d].req,
         task'[d].op = task[d].op, task'[d].inst = task[d].inst,
         task'[d].reply = task[d].reply,
         prog'[d] = prog[d], d \in orphans' <=> d \in orphans
  PROVE  ReqKnown(d)' /\ ProgKnown(d)'
BY DEF ReqKnown, ProgKnown, Grows

LEMMA UsedGrows ==
  ASSUME Effect
  PROVE  used \subseteq used'
BY DEF Effect, StoresSame, Moved, Answered, Wrote, Undefined, Removed,
       LocalRemoved, Delivered, PutForwarded

LEMMA ProgramStart ==
  ASSUME ProgTypes, NEW c \in Clients, NEW n \in Nodes,
         NEW calls \in Calls, Begin(c, n, calls)
  PROVE  /\ prog' \in [Clients -> Programs \cup {NoProgram}]
         /\ prog'[c] # NoProgram /\ prog'[c].calls = calls
         /\ prog'[c].entry = n
         /\ \A d \in Clients \ {c} : prog'[d] = prog[d]
<1>1. [entry |-> n, calls |-> calls] \in Programs
  BY DEF Programs, Calls
<1>2. n # None
  BY NoneAssumption
<1>3. prog' = [prog EXCEPT ![c] = [entry |-> n, calls |-> calls]]
  BY DEF Begin
<1>4. QED BY <1>1, <1>2, <1>3 DEF ProgTypes, NoProgram

LEMMA FirstCalls ==
  /\ instantiate_fdu \in Calls /\ Head(instantiate_fdu) = "define"
  /\ delete_fdu_instance \in Calls /\ Head(delete_fdu_instance) = "stop"
  /\ delete_fdu \in Calls /\ Head(delete_fdu) = "offload"
BY DEF Calls, instantiate_fdu, delete_fdu_instance, delete_fdu

(* The first request of a program.                                         *)
LEMMA DefineForm ==
  ASSUME TypeInv, NEW c \in Clients, NEW n \in Nodes, NEW f \in Fdus,
         define_fdu(c, n, f)
  PROVE  /\ Others(c) /\ UNCHANGED <<storeVars, lockVars>>
         /\ task[c].pc = "idle"
         /\ task'[c].req = "define"
         /\ \/ /\ task'[c].pc = "define" /\ task'[c].op = "define"
               /\ task'[c].fdu = f /\ f \in catalog /\ task'[c].reply = None
               /\ task'[c].inst \in Instances \ used
            \/ /\ task'[c].pc = "reply" /\ task'[c].reply # "Ok"
               /\ task'[c].inst = None
<1>1. PICK i \in Instances \ used :
        \/ f \in catalog /\ task' = [task EXCEPT ![c] =
             [NewTask("define", n, i, f) EXCEPT !.pc = "define", !.held = {n}]]
        \/ task' = [task EXCEPT ![c] = Answer("define", None, "NotFound")]
  BY DEF define_fdu
<1>2. /\ [NewTask("define", n, i, f) EXCEPT !.pc = "define", !.held = {n}].pc
           = "define"
      /\ [NewTask("define", n, i, f) EXCEPT !.pc = "define", !.held = {n}].op
           = "define"
      /\ [NewTask("define", n, i, f) EXCEPT !.pc = "define", !.held = {n}].req
           = "define"
      /\ [NewTask("define", n, i, f) EXCEPT !.pc = "define", !.held = {n}].inst
           = i
      /\ [NewTask("define", n, i, f) EXCEPT !.pc = "define", !.held = {n}].fdu
           = f
      /\ [NewTask("define", n, i, f) EXCEPT !.pc = "define", !.held = {n}].reply
           = None
  BY DEF NewTask, IdleTask
<1>3. /\ Answer("define", None, "NotFound").pc = "reply"
      /\ Answer("define", None, "NotFound").req = "define"
      /\ Answer("define", None, "NotFound").inst = None
      /\ Answer("define", None, "NotFound").reply # "Ok"
  BY DEF Answer, IdleTask
<1>4. PICK x : /\ task' = [task EXCEPT ![c] = x] /\ x.req = "define"
               /\ \/ /\ x.pc = "define" /\ x.op = "define" /\ x.inst = i
                     /\ x.fdu = f /\ f \in catalog /\ x.reply = None
                  \/ x.pc = "reply" /\ x.inst = None /\ x.reply # "Ok"
  BY <1>1, <1>2, <1>3
<1>5. task'[c] = x /\ Others(c)
  BY <1>4 DEF Others, TypeInv, TypeOK
<1>6. QED BY <1>4, <1>5 DEF define_fdu

LEMMA RequestForm ==
  ASSUME TypeInv, NEW c \in Clients, NEW op \in InstanceOps, NEW n \in Nodes,
         NEW i \in Instances, Request(c, op, n, i)
  PROVE  /\ UNCHANGED <<storeVars, lockVars>> /\ task[c].pc = "idle"
         /\ i \in used
         /\ Others(c) /\ task'[c].req = op /\ task'[c].inst = i
         /\ \/ /\ task'[c].pc \in {"descriptor", "forward"}
               /\ task'[c].reply = None
               /\ task'[c].op \in {op, ForwardedAs(op)}
            \/ task'[c].pc = "reply" /\ task'[c].reply # "Ok"
<1> DEFINE t == NewTask(op, n, i, None)
<1>1. /\ t \in Task /\ t.snap = {} /\ t.req = op /\ t.op = op /\ t.inst = i
      /\ t.reply = None
  <2>1. t \in Task
    BY NewTaskType DEF Ops
  <2>2. QED BY <2>1 DEF NewTask, IdleTask
<1>2. Enter(c, t, n) /\ UNCHANGED <<storeVars, lockVars>>
  BY DEF Request
<1> HIDE DEF t
<1>3. Entered(c, t)
  BY <1>1, <1>2, EnterForm
<1>4. QED BY <1>1, <1>2, <1>3 DEF Entered, Request

LEMMA OffloadForm ==
  ASSUME TypeInv, NEW c \in Clients, NEW f \in Fdus, offload_fdu(c, f)
  PROVE  /\ UNCHANGED <<storeVars, lockVars>> /\ task[c].pc = "idle"
         /\ Others(c) /\ task'[c].req = "offload" /\ task'[c].inst = None
         /\ \/ /\ task'[c].pc = "offload" /\ task'[c].reply = None
               /\ task'[c].fdu = f /\ get_all_fdu_instances(global, f) = {}
            \/ task'[c].pc = "reply" /\ task'[c].reply # "Ok"
<1> DEFINE t == [NewTask("offload", None, None, f) EXCEPT !.pc = "offload"]
<1>1. /\ t.pc = "offload" /\ t.reply = None /\ t.fdu = f /\ t.req = "offload"
      /\ t.inst = None
  BY DEF NewTask, IdleTask
<1>2. \A r : /\ Answer("offload", None, r).pc = "reply"
            /\ Answer("offload", None, r).req = "offload"
            /\ Answer("offload", None, r).inst = None
            /\ Answer("offload", None, r).reply = r
  BY DEF Answer, IdleTask
<1>3. \/ task' = [task EXCEPT ![c] = Answer("offload", None, "NotFound")]
      \/ task' = [task EXCEPT ![c] = Answer("offload", None, "HasInstances")]
      \/ get_all_fdu_instances(global, f) = {} /\ task' = [task EXCEPT ![c] = t]
  BY DEF offload_fdu
<1> HIDE DEF t
<1>4. PICK x : /\ task' = [task EXCEPT ![c] = x] /\ x.req = "offload"
               /\ x.inst = None
               /\ \/ /\ x.pc = "offload" /\ x.reply = None /\ x.fdu = f
                     /\ get_all_fdu_instances(global, f) = {}
                  \/ x.pc = "reply" /\ x.reply # "Ok"
  BY <1>1, <1>2, <1>3
<1>5. task'[c] = x /\ Others(c)
  BY <1>4 DEF Others, TypeInv, TypeOK
<1>6. QED BY <1>4, <1>5 DEF offload_fdu

Knows(c) == ReqKnown(c) /\ ProgKnown(c)

(* The identities of the records survive crashes and timeouts.             *)
LEMMA IdentifiedPrograms ==
  ASSUME Identified, ProgramsTypeOK, [ProgramsNext]_allVars
  PROVE  Identified'
<1>0. TypeInv /\ TaskKnows /\ TypeInv'
  BY TypeInvStep DEF Identified, TypeInv
<1>1. CASE Nobody \/ \E c \in Clients : Wrapped(c)
  BY <1>1, WrappedIsNext, IdentifiedStep
<1>2. ASSUME NEW c \in Clients, NextCall(c) \/ PluginDies(c) \/ Forget(c)
      PROVE  Identified'
  <2>1. UNCHANGED <<global, local, chan, used>>
    BY <1>2 DEF NextCall, PluginDies, Forget, storeVars
  <2>2. /\ Others(c) /\ task'[c].snap = {}
        /\ task'[c].pc # "define"
    BY <1>0, <1>2, NextCallForm, PluginDiesForm, ForgetForm
       DEF Entered, IdleTask
  <2>3. TaskEffect(c)
    BY <2>2 DEF TaskEffect, Others
  <2>4. QED BY <1>0, <2>1, <2>3, IdentifiedKept DEF StoreEffect
<1>3. ASSUME NEW n \in Nodes, Crash(n) \/ Subscribe(n)
      PROVE  Identified'
  <2>1. TasksSame
    BY <1>0, <1>3, CrashForm DEF Subscribe, TasksSame
  <2>2. Cut(n)
    BY <1>3, <2>1 DEF Cut, Crash, Subscribe
  <2>3. QED BY <1>0, <2>2, CutIdentified
<1>4. QED BY <1>1, <1>2, <1>3, StepCases

(* What a request in progress for one client leaves to the others.         *)
LEMMA KnownOthers ==
  ASSUME \A d \in Clients : Knows(d), NEW c \in Clients, Others(c), Grows,
         \A d \in Clients \ {c} :
           prog'[d] = prog[d] /\ (d \in orphans' <=> d \in orphans)
  PROVE  \A d \in Clients \ {c} : Knows(d)'
BY KnownKept DEF Knows, Others

LEMMA ProgTypesKept ==
  ASSUME ProgTypes, Grows, reported' = reported, deleted' = deleted,
         prog' \in [Clients -> Programs \cup {NoProgram}],
         agent' \in [Nodes -> {"down", "deaf", "up"}], orphans' \subseteq Clients,
         crashes' \in 0 .. MaxCrashes, disturbed' \subseteq Instances,
         deafened' \subseteq disturbed', overtaken' \subseteq Instances
  PROVE  ProgTypes'
BY DEF ProgTypes, Grows

LEMMA NobodyTyped ==
  ASSUME ProgTypes, \A d \in Clients : Knows(d), Nobody
  PROVE  ProgTypes' /\ \A d \in Clients : Knows(d)'
<1>1. UNCHANGED <<task, prog, orphans, crashes, userVars, lossVars, used>>
  BY DEF Nobody, DefineFdu, Boot, Register, Admit, Forward, allVars, vars,
         onboard_fdu, PluginCall, PluginAdmit, Monitor, storeVars, faultVars
<1>2. Grows
  BY <1>1 DEF Grows, lossVars
<1>3. agent' \in [Nodes -> {"down", "deaf", "up"}]
  BY DEF Nobody, DefineFdu, Boot, Register, Admit, Forward, allVars, faultVars,
         ProgTypes
<1>4. ProgTypes'
  BY <1>1, <1>2, <1>3, ProgTypesKept DEF ProgTypes, userVars, lossVars
<1>5. \A d \in Clients : Knows(d)'
  BY <1>1, <1>2, KnownKept DEF Knows
<1>6. QED BY <1>4, <1>5

(* A client that does nothing has no program.                              *)
LEMMA IdleKnown ==
  ASSUME ProgTypes, NEW c \in Clients, Knows(c), task[c].pc = "idle"
  PROVE  c \notin orphans
BY DEF Knows, ProgKnown

LEMMA InstantiateTyped ==
  ASSUME TypeInv, TypeInv', ProgTypes, \A d \in Clients : Knows(d),
         NEW c \in Clients, NEW n \in Nodes, NEW f \in Fdus, InstantiateFdu(c, n, f)
  PROVE  ProgTypes' /\ \A d \in Clients : Knows(d)'
<1>1. PICK m \in Nodes : define_fdu(c, m, f)
  BY DEF InstantiateFdu
<1>2. /\ Others(c) /\ UNCHANGED <<storeVars, lockVars>>
      /\ task'[c].req = "define" /\ task[c].pc = "idle"
      /\ \/ /\ task'[c].pc = "define" /\ task'[c].op = "define"
            /\ task'[c].reply = None /\ task'[c].inst \in Instances
         \/ /\ task'[c].pc = "reply" /\ task'[c].reply # "Ok"
            /\ task'[c].inst = None
  BY <1>1, DefineForm
<1>3. /\ prog' \in [Clients -> Programs \cup {NoProgram}]
      /\ prog'[c] # NoProgram /\ prog'[c].calls = instantiate_fdu
      /\ \A d \in Clients \ {c} : prog'[d] = prog[d]
  BY ProgramStart, FirstCalls DEF InstantiateFdu
<1>4. /\ UNCHANGED <<faultVars, reported, deleted, lossVars, used>> /\ Grows
  BY <1>2 DEF InstantiateFdu, Grows, lossVars, storeVars
<1>5. overtaken' \subseteq Instances
  BY <1>2 DEF InstantiateFdu, ProgTypes
<1>6. ProgTypes'
  BY <1>3, <1>4, <1>5, ProgTypesKept DEF ProgTypes, faultVars, lossVars
<1>7. c \notin orphans'
  BY <1>2, <1>4, IdleKnown DEF faultVars
<1>8. Knows(c)'
  BY <1>2, <1>3, <1>7, FirstCalls, NoneAssumption
     DEF Knows, ReqKnown, ProgKnown, Busy
<1>9. \A d \in Clients \ {c} : Knows(d)'
  BY <1>2, <1>3, <1>4, KnownOthers DEF faultVars
<1>10. QED BY <1>6, <1>8, <1>9

LEMMA DeleteInstanceTyped ==
  ASSUME TypeInv, ProgTypes, \A d \in Clients : Knows(d),
         NEW c \in Clients, NEW n \in Nodes, NEW i \in Instances,
         DeleteInstance(c, n, i)
  PROVE  ProgTypes' /\ \A d \in Clients : Knows(d)'
<1>1. "stop" \in InstanceOps /\ ForwardedAs("stop") = "stop"
  BY DEF InstanceOps, ForwardedAs
<1>2. /\ UNCHANGED <<storeVars, lockVars>> /\ task[c].pc = "idle"
      /\ i \in used /\ Others(c) /\ task'[c].req = "stop" /\ task'[c].inst = i
      /\ \/ /\ task'[c].pc \in {"descriptor", "forward"}
            /\ task'[c].reply = None /\ task'[c].op = "stop"
         \/ task'[c].pc = "reply" /\ task'[c].reply # "Ok"
  BY <1>1, RequestForm DEF DeleteInstance
<1>3. /\ prog' \in [Clients -> Programs \cup {NoProgram}]
      /\ prog'[c] # NoProgram /\ prog'[c].calls = delete_fdu_instance
      /\ \A d \in Clients \ {c} : prog'[d] = prog[d]
  BY ProgramStart, FirstCalls DEF DeleteInstance
<1>4. /\ UNCHANGED <<faultVars, userVars, lossVars, used>> /\ Grows
  BY <1>2 DEF DeleteInstance, Grows, lossVars, storeVars
<1>5. ProgTypes'
  BY <1>3, <1>4, ProgTypesKept DEF ProgTypes, faultVars, lossVars, userVars
<1>6. c \notin orphans'
  BY <1>2, <1>4, IdleKnown DEF faultVars
<1>7. Knows(c)'
  BY <1>2, <1>3, <1>4, <1>6, FirstCalls, NoneAssumption
     DEF Knows, ReqKnown, ProgKnown, Busy
<1>8. \A d \in Clients \ {c} : Knows(d)'
  BY <1>2, <1>3, <1>4, KnownOthers DEF faultVars
<1>9. QED BY <1>5, <1>7, <1>8

LEMMA DeleteFduTyped ==
  ASSUME TypeInv, ProgTypes, \A d \in Clients : Knows(d),
         NEW c \in Clients, NEW n \in Nodes, NEW f \in Fdus, DeleteFdu(c, n, f)
  PROVE  ProgTypes' /\ \A d \in Clients : Knows(d)'
<1>1. /\ UNCHANGED <<storeVars, lockVars>> /\ task[c].pc = "idle"
      /\ Others(c) /\ task'[c].req = "offload" /\ task'[c].inst = None
      /\ \/ task'[c].pc = "offload" /\ task'[c].reply = None
         \/ task'[c].pc = "reply" /\ task'[c].reply # "Ok"
  BY OffloadForm DEF DeleteFdu
<1>2. /\ prog' \in [Clients -> Programs \cup {NoProgram}]
      /\ prog'[c] # NoProgram /\ prog'[c].calls = delete_fdu
      /\ \A d \in Clients \ {c} : prog'[d] = prog[d]
  BY ProgramStart, FirstCalls DEF DeleteFdu
<1>3. /\ UNCHANGED <<faultVars, reported, deleted, lossVars, used>> /\ Grows
  BY <1>1 DEF DeleteFdu, Grows, lossVars, storeVars
<1>4. overtaken' \subseteq Instances
  <2>1. ASSUME NEW d \in Clients, task[d].op = "define",
               task[d].pc \in {"define", "poll"}
        PROVE  task[d].inst \in Instances
    <3>1. task[d].inst # None
      BY <2>1 DEF Knows, ReqKnown, Busy
    <3>2. QED BY <3>1 DEF TypeInv, TypeOK, Task
  <2>2. InDefinition(f) \subseteq Instances
    BY <2>1 DEF InDefinition
  <2>3. QED BY <2>2 DEF DeleteFdu, ProgTypes
<1>5. ProgTypes'
  BY <1>2, <1>3, <1>4, ProgTypesKept DEF ProgTypes, faultVars, lossVars
<1>6. c \notin orphans'
  BY <1>1, <1>3, IdleKnown DEF faultVars
<1>7. Knows(c)'
  BY <1>1, <1>2, <1>6, FirstCalls, NoneAssumption
     DEF Knows, ReqKnown, ProgKnown, Busy
<1>8. \A d \in Clients \ {c} : Knows(d)'
  BY <1>1, <1>2, <1>3, KnownOthers DEF faultVars
<1>9. QED BY <1>5, <1>7, <1>8

LEMMA NextCallTyped ==
  ASSUME ProgramsTypeOK, TaskKnows, \A d \in Clients : Knows(d),
         NEW c \in Clients, NextCall(c)
  PROVE  ProgTypes' /\ \A d \in Clients : Knows(d)'
<1>0. ProgTypes
  BY ProgTypeParts
<1> DEFINE s == prog[c].calls
           q == s[2]
<1>1. /\ s \in Calls /\ Len(s) > 1 /\ prog[c].entry \in Nodes
      /\ NextTask(c).req = q /\ NextTask(c).op = q
      /\ NextTask(c).inst = task[c].inst /\ NextTask(c).reply = None
      /\ Entered(c, NextTask(c))
      /\ UNCHANGED <<storeVars, lockVars>>
  BY NextCallForm
<1>2. /\ Tail(s) \in Calls /\ Head(Tail(s)) = q
      /\ q \in {"configure", "start", "clean", "undefine"}
      /\ Head(s) # "offload"
  BY <1>1, CallsTail
<1>3. /\ prog[c] # NoProgram /\ prog[c] \in Programs
      /\ task[c].pc = "reply" /\ task[c].reply = "Ok"
  BY <1>0 DEF NextCall, ProgTypes
<1>4. PICK x : x = [prog[c] EXCEPT !.calls = Tail(s)]
  OBVIOUS
<1>5. /\ x \in Programs /\ x.calls = Tail(s) /\ x # NoProgram
  <2>1. [prog[c] EXCEPT !.calls = Tail(s)] \in Programs
    BY <1>2, <1>3 DEF Programs, Calls
  <2>2. [prog[c] EXCEPT !.calls = Tail(s)].calls = Tail(s)
    BY <1>3 DEF Programs
  <2>3. x \in Programs /\ x.calls = Tail(s)
    BY <1>4, <2>1, <2>2
  <2>4. x.entry \in Nodes
    BY <2>3 DEF Programs
  <2>5. QED BY <2>3, <2>4, NoneAssumption DEF NoProgram
<1>6. prog' = [prog EXCEPT ![c] = x]
  BY <1>4 DEF NextCall
<1>7. /\ prog' \in [Clients -> Programs \cup {NoProgram}]
      /\ prog'[c] = x /\ \A d \in Clients \ {c} : prog'[d] = prog[d]
  BY <1>0, <1>5, <1>6 DEF ProgTypes
<1>8. UNCHANGED <<faultVars, userVars, lossVars, used>> /\ Grows
  BY <1>1 DEF NextCall, Grows, lossVars, storeVars
<1>9. ProgTypes'
  BY <1>0, <1>7, <1>8, ProgTypesKept DEF ProgTypes, faultVars, lossVars, userVars
<1>10. /\ task[c].req = Head(s) /\ c \notin orphans
       /\ task[c].inst \in used
  <2>1. task[c].req = Head(s) /\ c \notin orphans
    BY <1>3 DEF Knows, ReqKnown, ProgKnown
  <2>2. task[c].inst # None
    BY <1>2, <1>3, <2>1 DEF Knows, ReqKnown
  <2>3. QED BY <1>3, <2>1, <2>2 DEF Knows, ReqKnown
<1> HIDE DEF s, q
<1>11. /\ Others(c)
       /\ task'[c].req = q /\ task'[c].inst = task[c].inst
       /\ \/ /\ task'[c].pc \in {"descriptor", "forward"}
             /\ task'[c].reply = None
             /\ task'[c].op \in {q, ForwardedAs(q)}
          \/ task'[c].pc = "reply" /\ task'[c].reply # "Ok"
  BY <1>1 DEF Entered
<1>12. ReqKnown(c)'
  <2>1. ForwardedAs(q) \in {q, "clean"} /\ (ForwardedAs(q) # q => q = "undefine")
    BY DEF ForwardedAs
  <2>2. task'[c].inst \in used' /\ task'[c].inst # None
    BY <1>8, <1>10, <1>11, <1>0, NoneAssumption DEF TypeOK, ProgramsTypeOK
  <2>3. c \notin orphans' /\ prog'[c] # NoProgram
    BY <1>5, <1>7, <1>8, <1>10 DEF faultVars
  <2>4. QED BY <1>11, <2>1, <2>2, <2>3 DEF ReqKnown, Busy
<1>13. ProgKnown(c)'
  <2>1. c \notin orphans'
    BY <1>8, <1>10 DEF faultVars
  <2>2. QED BY <1>2, <1>5, <1>7, <1>11, <2>1 DEF ProgKnown
<1>14. \A d \in Clients \ {c} : Knows(d)'
  BY <1>7, <1>8, <1>11, KnownOthers DEF faultVars
<1>15. QED BY <1>9, <1>12, <1>13, <1>14 DEF Knows

LEMMA FinishTyped ==
  ASSUME TypeInv, ProgTypes, \A d \in Clients : Knows(d),
         NEW c \in Clients, Finish(c)
  PROVE  ProgTypes' /\ \A d \in Clients : Knows(d)'
<1>1. /\ Others(c) /\ task'[c] = IdleTask /\ task[c].pc = "reply"
      /\ UNCHANGED <<storeVars, lockVars>>
  BY DEF Finish, Return, Others, TypeInv, TypeOK
<1>2. /\ prog' \in [Clients -> Programs \cup {NoProgram}]
      /\ prog'[c] = NoProgram /\ \A d \in Clients \ {c} : prog'[d] = prog[d]
  BY DEF Finish, ProgTypes
<1>3. UNCHANGED <<faultVars, lossVars, overtaken, used>> /\ Grows
  BY <1>1 DEF Finish, Grows, lossVars, storeVars
<1>4. ASSUME task[c].reply = "Ok", Len(prog[c].calls) = 1,
             Head(prog[c].calls) \in {"start", "undefine"}
      PROVE  task[c].inst \in used
  <2>1. prog[c] # NoProgram
    BY <1>4 DEF NoProgram
  <2>2. task[c].inst # None
    BY <1>1, <1>4, <2>1 DEF Knows, ReqKnown, ProgKnown
  <2>3. QED BY <1>1, <2>1, <2>2 DEF Knows, ReqKnown
<1>5. reported' \subseteq used' /\ deleted' \subseteq used'
  BY <1>3, <1>4 DEF Finish, ProgTypes
<1>6. ProgTypes'
  BY <1>2, <1>3, <1>5 DEF ProgTypes, faultVars, lossVars
<1>7. c \notin orphans'
  BY DEF Finish, faultVars
<1>8. Knows(c)'
  BY <1>1, <1>2, <1>7 DEF Knows, ReqKnown, ProgKnown, Busy, IdleTask
<1>9. \A d \in Clients \ {c} : Knows(d)'
  BY <1>1, <1>2, <1>3, KnownOthers DEF faultVars
<1>10. QED BY <1>6, <1>8, <1>9

LEMMA TimeOutForm ==
  ASSUME TypeInv, NEW c \in Clients, TimeOut(c)
  PROVE  /\ Others(c)
         /\ task'[c].pc = task[c].pc /\ task'[c].req = task[c].req
         /\ task'[c].op = task[c].op /\ task'[c].inst = task[c].inst
         /\ task'[c].reply = task[c].reply /\ task'[c].fdu = task[c].fdu
         /\ UNCHANGED <<storeVars, lockVars>>
<1>1. task' = [task EXCEPT ![c].held = @ \cap {task[c].agent}]
  BY DEF TimeOut, ForwardTimeout
<1>2. PICK t \in Task : t = task[c]
  BY DEF TypeInv, TypeOK
<1>3. /\ task'[c] = [t EXCEPT !.held = @ \cap {task[c].agent}]
      /\ Others(c)
  BY <1>1, <1>2 DEF Others, TypeInv, TypeOK
<1>4. QED BY <1>2, <1>3 DEF Task, TimeOut, ForwardTimeout

LEMMA TimeOutTyped ==
  ASSUME TypeInv, ProgTypes, \A d \in Clients : Knows(d),
         NEW c \in Clients, TimeOut(c)
  PROVE  ProgTypes' /\ \A d \in Clients : Knows(d)'
<1>1. /\ Others(c)
      /\ task'[c].pc = task[c].pc /\ task'[c].req = task[c].req
      /\ task'[c].op = task[c].op /\ task'[c].inst = task[c].inst
      /\ task'[c].reply = task[c].reply
      /\ UNCHANGED <<storeVars, lockVars>>
  BY TimeOutForm
<1>2. /\ prog' \in [Clients -> Programs \cup {NoProgram}]
      /\ prog'[c] = NoProgram /\ \A d \in Clients \ {c} : prog'[d] = prog[d]
  BY DEF TimeOut, ProgTypes
<1>3. /\ UNCHANGED <<faultVars, userVars, deafened, used>> /\ Grows
      /\ task[c].inst # None => task[c].inst \in disturbed'
  BY <1>1 DEF TimeOut, Grows, storeVars
<1>4. disturbed' \subseteq Instances /\ deafened' \subseteq disturbed'
  BY DEF TimeOut, ProgTypes, TypeInv, TypeOK, Task
<1>5. ProgTypes'
  BY <1>2, <1>3, <1>4, ProgTypesKept DEF ProgTypes, faultVars, userVars
<1>6. Knows(c)'
  BY <1>1, <1>2, <1>3 DEF Knows, ReqKnown, ProgKnown, faultVars, Grows
<1>7. \A d \in Clients \ {c} : Knows(d)'
  BY <1>1, <1>2, <1>3, KnownOthers DEF faultVars
<1>8. QED BY <1>5, <1>6, <1>7

(* A plugin step from define writes the first record of the instance.      *)
LEMMA DefineDraws ==
  ASSUME TypeInv, Owned, NEW c \in Clients, PluginStep(c), task[c].pc = "define"
  PROVE  task'[c].inst \in used'
BY PluginGetsOn DEF PluginStep, PluginDefine, PluginGet, PluginSwitch,
       PluginConfigure, PluginClean, PluginUndefine, Holds, GetsOn

LEMMA GetsOnTyped ==
  ASSUME TypeInv, Owned, ProgTypes, \A d \in Clients : Knows(d),
         NEW c \in Clients, Handler(c) \/ Forwarded(c) \/ Plugin(c)
  PROVE  ProgTypes' /\ \A d \in Clients : Knows(d)'
<1>1. GetsOn(c)
  BY HandlerGetsOn, ArriveGetsOn, PluginGetsOn DEF Handler, Forwarded, Plugin
<1>2. UNCHANGED <<prog, faultVars, userVars, lossVars>>
  BY DEF Handler, Forwarded, Plugin
<1>3. used \subseteq used'
  BY DEF Handler, Forwarded, Plugin, GetDescriptor, Poll, RemoveGlobal,
         RemoveFdu, Arrive, PluginStep, PluginDefine, PluginGet, PluginSwitch,
         PluginConfigure, PluginClean, PluginUndefine, storeVars
<1>4. Grows
  BY <1>2, <1>3 DEF Grows, lossVars
<1>5. ProgTypes'
  BY <1>2, <1>4, ProgTypesKept DEF ProgTypes, faultVars, lossVars, userVars
<1>6. task[c].pc = "define" => task'[c].inst \in used'
  BY DefineDraws DEF Handler, Forwarded, Plugin, GetDescriptor, Poll,
                     RemoveGlobal, RemoveFdu, Arrive
<1>7. ReqKnown(c)'
  <2>1. ReqKnown(c) /\ task'[c].req = task[c].req /\ task'[c].inst = task[c].inst
    BY <1>1 DEF Knows, GetsOn
  <2>2. task'[c].pc \in Busy => task[c].pc \in Busy
    BY <1>1 DEF GetsOn, Entered, Busy
  <2>3. task[c].pc \in Busy \cup {"offload"} /\ task'[c].pc # "idle"
    BY <1>1 DEF GetsOn, Entered, Busy
  <2>4. task'[c].pc = "reply" \/ task'[c].reply = task[c].reply
    BY <1>1 DEF GetsOn, Entered, SameCall
  <2>5. task'[c].pc \in Busy =>
          task'[c].op \in {task[c].op, ForwardedAs(task[c].op)}
    BY <1>1 DEF GetsOn, Entered, SameCall, Busy
  <2>6. /\ ForwardedAs(task[c].op) # task[c].op =>
             task[c].op = "undefine" /\ ForwardedAs(task[c].op) = "clean"
    BY DEF ForwardedAs
  <2>7. task[c].pc = "offload" => task'[c].pc = "reply"
    BY <1>1 DEF GetsOn
  <2>8. task[c].pc # "define" /\ c \notin orphans =>
          task[c].inst \in used \cup {None}
    BY <2>1 DEF ReqKnown
  <2>9. c \notin orphans' => task'[c].inst \in used' \cup {None}
    BY <1>2, <1>3, <1>6, <2>1, <2>8 DEF faultVars
  <2>10. task'[c].pc \in Busy =>
           \/ task'[c].op = task'[c].req
           \/ task'[c].op = "clean" /\ task'[c].req = "undefine"
    BY <2>1, <2>2, <2>5, <2>6 DEF ReqKnown
  <2>11. task'[c].inst = None =>
           task'[c].pc = "reply" /\ task'[c].req = "offload"
    BY <2>1, <2>3, <2>7 DEF ReqKnown, Busy
  <2>12. prog'[c] # NoProgram => task'[c].pc # "idle" /\ c \notin orphans'
    BY <1>2, <2>1, <2>3 DEF ReqKnown, faultVars
  <2>13. task'[c].inst # None => prog'[c] # NoProgram \/ task'[c].inst \in disturbed'
    BY <1>2, <2>1 DEF ReqKnown, lossVars
  <2>14. task'[c].pc # "reply" => task'[c].reply = None
    BY <2>1, <2>3, <2>4 DEF ReqKnown, Busy
  <2>15. task'[c].pc = "remove" =>
           task[c].pc = "lock" /\ task[c].op = "undefine"
    BY <1>1 DEF GetsOn, Entered
  <2>16. task'[c].pc = "remove" => task'[c].req = "undefine"
    BY <2>1, <2>15 DEF ReqKnown, Busy
  <2>17. task'[c].pc # "offload"
    BY <1>1 DEF GetsOn, Entered
  <2>18. QED BY <2>9, <2>10, <2>11, <2>12, <2>13, <2>14, <2>16, <2>17 DEF ReqKnown
<1>8. ProgKnown(c)'
  BY <1>1, <1>2 DEF Knows, ProgKnown, GetsOn, Entered, faultVars
<1>9. \A d \in Clients \ {c} : Knows(d)'
  BY <1>1, <1>2, <1>4, KnownOthers DEF GetsOn, faultVars
<1>10. QED BY <1>5, <1>7, <1>8, <1>9 DEF Knows

LEMMA PluginDiesTyped ==
  ASSUME TypeInv, ProgTypes, \A d \in Clients : Knows(d),
         NEW c \in Clients, PluginDies(c)
  PROVE  ProgTypes' /\ \A d \in Clients : Knows(d)'
<1>1. /\ Others(c) /\ task'[c].pc = "reply"
      /\ task'[c].req = task[c].req /\ task'[c].inst = task[c].inst
      /\ task'[c].reply = task[c].reply
  BY PluginDiesForm
<1>2. /\ c \in orphans /\ task[c].pc \in {"define", "plugin", "lock"}
      /\ UNCHANGED <<prog, faultVars, userVars, lossVars, used>> /\ Grows
  BY DEF PluginDies, AtPlugin, Grows, lossVars
<1>3. ProgTypes'
  BY <1>2, ProgTypesKept DEF ProgTypes, faultVars, lossVars, userVars
<1>4. Knows(c)'
  <2>1. /\ prog[c] = NoProgram /\ task[c].inst # None
        /\ task[c].inst \in disturbed
    BY <1>2 DEF Knows, ReqKnown, ProgKnown
  <2>2. QED BY <1>1, <1>2, <2>1
            DEF Knows, ReqKnown, ProgKnown, Busy, faultVars, lossVars
<1>5. \A d \in Clients \ {c} : Knows(d)'
  BY <1>1, <1>2, KnownOthers DEF faultVars
<1>6. QED BY <1>3, <1>4, <1>5

LEMMA ForgetTyped ==
  ASSUME TypeInv, ProgTypes, \A d \in Clients : Knows(d),
         NEW c \in Clients, Forget(c)
  PROVE  ProgTypes' /\ \A d \in Clients : Knows(d)'
<1>1. Others(c) /\ task'[c] = IdleTask
  BY ForgetForm
<1>2. /\ c \in orphans /\ orphans' = orphans \ {c}
      /\ UNCHANGED <<prog, agent, crashes, userVars, lossVars, used>> /\ Grows
  BY DEF Forget, Grows, lossVars, storeVars
<1>3. ProgTypes'
  BY <1>2, ProgTypesKept DEF ProgTypes, lossVars, userVars
<1>4. Knows(c)'
  BY <1>1, <1>2 DEF Knows, ReqKnown, ProgKnown, Busy, IdleTask
<1>5. \A d \in Clients \ {c} : Knows(d)'
  BY <1>1, <1>2, KnownOthers
<1>6. QED BY <1>3, <1>4, <1>5

LEMMA PutsTyped ==
  ASSUME TypeInv, NEW n \in Nodes
  PROVE  Puts(n) \subseteq Instances
<1>1. PICK q \in Seq(FDURecord) : q = chan[n]
  BY DEF TypeInv, TypeOK
<1>2. \A k \in 1 .. Len(q) : q[k].uuid \in Instances
  <2>1. ASSUME NEW k \in 1 .. Len(q) PROVE q[k] \in FDURecord
    OBVIOUS
  <2>2. QED BY <2>1 DEF FDURecord
<1>3. QED BY <1>1, <1>2 DEF Puts

LEMMA CrashTyped ==
  ASSUME TypeInv, ProgTypes, \A d \in Clients : Knows(d),
         NEW n \in Nodes, Crash(n)
  PROVE  ProgTypes' /\ \A d \in Clients : Knows(d)'
<1>1. /\ TasksSame
      /\ \A c \in Clients : /\ task'[c].req = task[c].req
                           /\ task'[c].reply = task[c].reply
  BY CrashForm
<1> DEFINE hit == {c \in Clients : \/ c \in orphans' \/ c \in Readers(n)
                                   \/ prog[c].entry = n}
<1>2. /\ prog' = [c \in Clients |-> IF c \in hit THEN NoProgram ELSE prog[c]]
      /\ disturbed' = disturbed \cup Puts(n)
                          \cup ({task[c].inst : c \in hit} \ {None})
  BY DEF Crash
<1>3. PICK lost \in SUBSET {c \in Readers(n) : task[c].pc = "forward"} :
        orphans' = orphans \cup HandledAt(n) \cup lost
  BY DEF Crash
<1>4. /\ orphans \subseteq orphans' /\ orphans' \subseteq Clients
      /\ \A c \in orphans' : c \in orphans \/ task[c].pc # "idle"
  BY <1>3 DEF Readers, HandledAt, ProgTypes
<1>5. prog' \in [Clients -> Programs \cup {NoProgram}]
  BY <1>2 DEF ProgTypes
<1>6. disturbed' \subseteq Instances
  <2>1. Puts(n) \subseteq Instances
    BY PutsTyped
  <2>2. \A c \in Clients : task[c].inst \in Instances \cup {None}
    BY DEF TypeInv, TypeOK, Task
  <2>3. \A i \in {task[c].inst : c \in hit} \ {None} : i \in Instances
    BY <2>2
  <2> HIDE DEF hit
  <2>4. QED BY <1>2, <2>1, <2>3 DEF ProgTypes
<1>7. ASSUME NEW c \in Clients
      PROVE  /\ c \in hit => /\ prog'[c] = NoProgram
                            /\ task[c].inst \in disturbed' \cup {None}
             /\ c \notin hit => prog'[c] = prog[c] /\ c \notin orphans'
  BY <1>2
<1> HIDE DEF hit
<1>8. /\ UNCHANGED <<userVars, deafened, used>> /\ disturbed \subseteq disturbed'
      /\ agent' \in [Nodes -> {"down", "deaf", "up"}] /\ crashes' \in 0 .. MaxCrashes
  BY <1>2, ProgramAssumption DEF Crash, ProgTypes
<1>9. ProgTypes'
  BY <1>4, <1>5, <1>6, <1>8, ProgTypesKept DEF ProgTypes, Grows, userVars
<1>10. ASSUME NEW c \in Clients PROVE ReqKnown(c)'
  <2>1. /\ task'[c].pc = task[c].pc /\ task'[c].op = task[c].op
        /\ task'[c].inst = task[c].inst /\ task'[c].req = task[c].req
        /\ task'[c].reply = task[c].reply
    BY <1>1 DEF TasksSame
  <2>2. ReqKnown(c)
    BY DEF Knows
  <2>3. prog'[c] # NoProgram => prog[c] # NoProgram /\ c \notin orphans'
    BY <1>7
  <2>4. task[c].inst # None => prog'[c] # NoProgram \/ task[c].inst \in disturbed'
    BY <1>7, <1>8, <2>2 DEF ReqKnown
  <2>5. c \notin orphans' => c \notin orphans
    BY <1>4
  <2>6. QED BY <1>8, <2>1, <2>2, <2>3, <2>4, <2>5 DEF ReqKnown
<1>11. ASSUME NEW c \in Clients PROVE ProgKnown(c)'
  <2>1. task'[c].pc = task[c].pc /\ task'[c].req = task[c].req /\ ProgKnown(c)
    BY <1>1 DEF TasksSame, Knows
  <2>2. c \in orphans' => prog'[c] = NoProgram /\ task[c].pc # "idle"
    BY <1>4, <1>7, <2>1 DEF ProgKnown
  <2>3. prog'[c] # NoProgram => prog'[c] = prog[c]
    BY <1>7
  <2>4. QED BY <2>1, <2>2, <2>3 DEF ProgKnown
<1>12. QED BY <1>9, <1>10, <1>11 DEF Knows

LEMMA SubscribeTyped ==
  ASSUME TypeInv, ProgTypes, \A d \in Clients : Knows(d),
         NEW n \in Nodes, Subscribe(n)
  PROVE  ProgTypes' /\ \A d \in Clients : Knows(d)'
<1>1. /\ UNCHANGED <<used, task, prog, orphans, crashes, userVars>>
      /\ disturbed' = disturbed \cup Puts(n) /\ deafened' = deafened \cup Puts(n)
      /\ agent' = [agent EXCEPT ![n] = "up"]
  BY DEF Subscribe
<1>2. Puts(n) \subseteq Instances
  BY PutsTyped
<1>3. ProgTypes' /\ Grows
  BY <1>1, <1>2 DEF ProgTypes, Grows, userVars
<1>4. QED BY <1>1, <1>3, KnownKept DEF Knows

(* Types, the identities of the records, and what requests know of their   *)
(* programs: none of it needs the programs to keep apart.                  *)
Typed == ProgramsTypeOK /\ Identified /\ Known

LEMMA TypedInit == ProgramsInit => Typed
<1> SUFFICES ASSUME ProgramsInit PROVE Typed
  OBVIOUS
<1>1. TypeOK
  BY IdleTaskType DEF ProgramsInit, TypeOK
<1>2. \A c \in Clients : /\ task[c] = IdleTask /\ prog[c] = NoProgram
                        /\ c \notin orphans
  BY DEF ProgramsInit
<1>3. ProgramsTypeOK
  BY <1>1, <1>2, ProgramAssumption DEF ProgramsInit, ProgramsTypeOK
<1>4. Known
  BY <1>2 DEF Known, ReqKnown, IdleTask, Busy
<1>5. AllRecords = {}
  BY AllRecordsBound DEF ProgramsInit, IdleTask, AllRecords
<1>6. Identified
  BY <1>1, <1>2, <1>5
     DEF ProgramsInit, Identified, TypeInv, TaskKnows, Busy, Owned, UuidsFresh,
         OneIdentity, IdleTask
<1>7. QED BY <1>3, <1>4, <1>6 DEF Typed

LEMMA TypedStep == Typed /\ [ProgramsNext]_allVars => Typed'
<1> SUFFICES ASSUME Typed, [ProgramsNext]_allVars PROVE Typed'
  OBVIOUS
<1>1. Identified /\ Identified' /\ ProgramsTypeOK /\ TypeInv /\ TypeInv'
  BY IdentifiedPrograms DEF Typed, Identified
<1>2. ProgTypes /\ Owned /\ TaskKnows /\ \A d \in Clients : Knows(d)
  BY <1>1, ProgTypeParts DEF Typed, Known, Knows, Identified, TypeInv
<1>3. ASSUME NEW c \in Clients, Wrapped(c)
      PROVE  ProgTypes' /\ \A d \in Clients : Knows(d)'
  BY <1>1, <1>2, <1>3, InstantiateTyped, DeleteInstanceTyped, DeleteFduTyped,
     FinishTyped, TimeOutTyped, GetsOnTyped DEF Wrapped
<1>4. ASSUME NEW c \in Clients, NextCall(c) \/ PluginDies(c) \/ Forget(c)
      PROVE  ProgTypes' /\ \A d \in Clients : Knows(d)'
  BY <1>1, <1>2, <1>4, NextCallTyped, PluginDiesTyped, ForgetTyped
<1>5. ASSUME NEW n \in Nodes, Crash(n) \/ Subscribe(n)
      PROVE  ProgTypes' /\ \A d \in Clients : Knows(d)'
  BY <1>1, <1>2, <1>5, CrashTyped, SubscribeTyped
<1>6. ProgTypes' /\ \A d \in Clients : Knows(d)'
  BY <1>2, <1>3, <1>4, <1>5, NobodyTyped, StepCases
<1>7. ProgramsTypeOK' /\ Known'
  BY <1>1, <1>6 DEF ProgramsTypeOK, ProgTypes, Knows, Known, ProgKnown, TypeInv
<1>8. QED BY <1>1, <1>7 DEF Typed

LEMMA TypedAlways == ProgramsSpec => []Typed
BY TypedInit, TypedStep, PTL DEF ProgramsSpec

(* Types, for any number of nodes, clients, crashes and timeouts: a        *)
(* program waits for the answer to the first of its calls, and what a      *)
(* program reports as created or removed is an instance that was defined.  *)
THEOREM ProgramsTypeCorrect == ProgramsSpec => []ProgramsTypeOK
<1>1. Typed => ProgramsTypeOK
  BY DEF Typed
<1>2. QED BY <1>1, TypedAlways, PTL

-----------------------------------------------------------------------------
(* What crashes and timeouts cost                                          *)

LEMMA BaseInit == ProgramsInit => Base
<1> SUFFICES ASSUME ProgramsInit PROVE Base
  OBVIOUS
<1>1. Typed
  BY TypedInit
<1>2. Core(disturbed)
  BY CoreInit DEF ProgramsInit
<1>3. Locked
  BY DEF ProgramsInit, Locked, IdleTask
<1>4. QED BY <1>1, <1>2, <1>3 DEF Base, Typed

LEMMA BaseStep ==
  ASSUME Exclusive, Base, [ProgramsNext]_allVars
  PROVE  Base'
<1>1. Typed'
  BY TypedStep DEF Base, Typed
<1>2. Guarded'
  BY GuardedStep
<1>3. QED BY <1>1, <1>2 DEF Base, Typed, Guarded

LEMMA BaseAlways ==
  ASSUME Exclusive
  PROVE  ProgramsSpec => []Base
<1>1. Base /\ [ProgramsNext]_allVars => Base'
  BY BaseStep
<1>2. QED BY <1>1, BaseInit, PTL DEF ProgramsSpec

(* A crash, or a timeout, costs only the instances that it cut short, and  *)
(* a late subscription (agent.rs:131) those that were put before it: of    *)
(* every other the global store has a record exactly while its owner does, *)
(* and the same one once nothing is queued.                                *)
THEOREM CrashContainedHolds ==
  ASSUME Exclusive
  PROVE  ProgramsSpec => []CrashContained
<1>1. Base => CrashContained
  <2> SUFFICES ASSUME Base PROVE CrashContained
    OBVIOUS
  <2>0. Identified /\ Phases(disturbed) /\ Rest(disturbed)
    BY DEF Base, Core
  <2>1. ASSUME NEW g \in global, g.uuid \notin disturbed
        PROVE  \/ \E c \in Clients : task[c].pc = "remove" /\ task[c].inst = g.uuid
               \/ \E r \in local[g.node] : r.uuid = g.uuid
    <3>1. g.uuid \in Instances
      BY <2>0, OnePlace DEF FDURecord
    <3>2. CASE Settled(g.uuid)
      BY <3>2 DEF Settled
    <3>3. ASSUME NEW c \in Clients, task[c].inst = g.uuid, task[c].pc = "poll"
          PROVE  \E r \in local[g.node] : r.uuid = g.uuid
      <4>1. PICK r \in local[task[c].agent] : r.uuid = g.uuid
        BY <2>0, <2>1, <3>3 DEF Phases, PhaseOf, PollingOn
      <4>2. task[c].agent \in Nodes
        BY <2>0, <3>3 DEF Identified, TypeInv, TaskKnows, Busy
      <4>3. g.node = task[c].agent
        BY <2>0, <4>1, <4>2, OnePlace
      <4>4. QED BY <4>1, <4>3
    <3>4. QED BY <2>0, <2>1, <3>1, <3>2, <3>3 DEF Rest, Unsettled
  <2>2. ASSUME NEW n \in Nodes, NEW r \in local[n], r.uuid \notin disturbed
        PROVE  Queued(n, r.uuid) \/ r \in global
    <3>1. r.uuid \in Instances
      BY <2>0, OnePlace DEF FDURecord
    <3>2. CASE Settled(r.uuid)
      BY <3>2 DEF Settled
    <3>3. ASSUME NEW c \in Clients, task[c].inst = r.uuid, task[c].pc = "poll",
                 ~Settled(r.uuid)
          PROVE  Queued(n, r.uuid)
      <4>1. PICK s \in local[task[c].agent] :
              s.uuid = r.uuid /\ OnceQueued(task[c].agent, s)
        BY <2>0, <2>2, <3>3 DEF Phases, PhaseOf, PollingOn
      <4>2. task[c].agent \in Nodes
        BY <2>0, <3>3 DEF Identified, TypeInv, TaskKnows, Busy
      <4>3. n = task[c].agent
        BY <2>0, <4>1, <4>2, OnePlace
      <4>4. QED BY <4>1, <4>3 DEF OnceQueued, Queued
    <3>4. ~\E c \in Clients : task[c].inst = r.uuid /\ task[c].pc = "remove"
      BY <2>0, <2>2 DEF Phases, PhaseOf, RemovingOn
    <3>5. QED BY <2>0, <2>2, <3>1, <3>2, <3>3, <3>4 DEF Rest, Unsettled
  <2>3. QED BY <2>1, <2>2 DEF CrashContained
<1>2. QED BY <1>1, BaseAlways, PTL

-----------------------------------------------------------------------------
(* Which request a step is about, and which record it writes               *)

SameTask(d) ==
  /\ task'[d].pc = task[d].pc /\ task'[d].req = task[d].req
  /\ task'[d].op = task[d].op /\ task'[d].inst = task[d].inst
  /\ task'[d].fdu = task[d].fdu /\ task'[d].reply = task[d].reply

(* The handler of c, or its plugin, takes a step.                          *)
GoesOn(c) == Handler(c) \/ Forwarded(c) \/ Plugin(c)

(* A step of the program of c, or of its request.                          *)
Acts(c) ==
  \/ \E n \in Nodes, f \in Fdus : InstantiateFdu(c, n, f) \/ DeleteFdu(c, n, f)
  \/ \E n \in Nodes, i \in Instances : DeleteInstance(c, n, i)
  \/ NextCall(c) \/ Finish(c) \/ GoesOn(c) \/ PluginDies(c) \/ Forget(c)

LEMMA GoesOnForm ==
  ASSUME TypeInv, Owned, NEW c \in Clients, GoesOn(c)
  PROVE  GetsOn(c) /\ UNCHANGED <<prog, faultVars, userVars, lossVars>>
BY HandlerGetsOn, ArriveGetsOn, PluginGetsOn
   DEF GoesOn, Handler, Forwarded, Plugin

LEMMA ActsAlone ==
  ASSUME Typed, NEW c \in Clients, Acts(c)
  PROVE  Others(c) /\ \A d \in Clients \ {c} : prog'[d] = prog[d]
<1>0. TypeInv /\ TaskKnows /\ Owned /\ ProgTypes /\ ProgramsTypeOK
  BY ProgTypeParts DEF Typed, Identified, TypeInv
<1>1. ASSUME NEW n \in Nodes, NEW f \in Fdus,
             InstantiateFdu(c, n, f) \/ DeleteFdu(c, n, f)
      PROVE  Others(c) /\ \A d \in Clients \ {c} : prog'[d] = prog[d]
  BY <1>0, <1>1, DefineForm, OffloadForm, ProgramStart, FirstCalls
     DEF InstantiateFdu, DeleteFdu
<1>2. ASSUME NEW n \in Nodes, NEW i \in Instances, DeleteInstance(c, n, i)
      PROVE  Others(c) /\ \A d \in Clients \ {c} : prog'[d] = prog[d]
  BY <1>0, <1>2, RequestForm, ProgramStart, FirstCalls
     DEF DeleteInstance, InstanceOps
<1>3. CASE NextCall(c)
  <2>1. Others(c)
    BY <1>0, <1>3, NextCallForm DEF Entered
  <2>2. QED BY <1>0, <1>3, <2>1 DEF NextCall, ProgTypes
<1>4. CASE Finish(c)
  BY <1>0, <1>4 DEF Finish, Return, Others, TypeInv, TypeOK, ProgTypes
<1>5. CASE GoesOn(c)
  BY <1>0, <1>5, GoesOnForm DEF GetsOn
<1>6. CASE PluginDies(c) \/ Forget(c)
  BY <1>0, <1>6, PluginDiesForm, ForgetForm DEF PluginDies, Forget
<1>7. QED BY <1>1, <1>2, <1>3, <1>4, <1>5, <1>6 DEF Acts

LEMMA TaskShape ==
  ASSUME Typed, [ProgramsNext]_allVars
  PROVE  \/ \A d \in Clients : SameTask(d)
         \/ \E c \in Clients : Acts(c)
<1>0. TypeInv
  BY DEF Typed, Identified
<1>1. CASE Nobody
  <2>1. UNCHANGED task
    BY <1>1 DEF Nobody, DefineFdu, Boot, Register, Admit, Forward, allVars, vars,
                onboard_fdu, PluginCall, PluginAdmit, Monitor
  <2>2. QED BY <2>1 DEF SameTask
<1>2. ASSUME NEW c \in Clients, Wrapped(c)
      PROVE  Acts(c) \/ \A d \in Clients : SameTask(d)
  <2>1. CASE TimeOut(c)
    BY <1>0, <2>1, TimeOutForm DEF SameTask, Others
  <2>2. CASE ~TimeOut(c)
    BY <1>2, <2>2 DEF Wrapped, Acts, GoesOn
  <2>3. QED BY <2>1, <2>2
<1>3. ASSUME NEW n \in Nodes, Crash(n) \/ Subscribe(n)
      PROVE  \A d \in Clients : SameTask(d)
  <2>1. CASE Crash(n)
    BY <1>0, <2>1, CrashForm DEF TasksSame, SameTask
  <2>2. CASE Subscribe(n)
    BY <2>2 DEF Subscribe, SameTask
  <2>3. QED BY <1>3, <2>1, <2>2
<1>4. QED BY <1>1, <1>2, <1>3, StepCases DEF Acts

(* A step of a plugin writes a record; all others only move or drop some.  *)
StoreKept ==
  \/ StoresSame
  \/ \E n \in Nodes : PutForwarded(n)
  \/ \E n \in Nodes, r \in FDURecord : LocalRemoved(n, r)
  \/ \E r \in FDURecord : GlobalRemoved(r)
  \/ \E n \in Nodes : Cut(n)

LEMMA StoreShape ==
  ASSUME Identified, [ProgramsNext]_allVars
  PROVE  \/ \E c \in Clients : \E r \in FDURecord : Plugin(c) /\ Wrote(c, r)
         \/ StoreKept
<1>0. TypeInv /\ Owned
  BY DEF Identified
<1>1. ASSUME NEW c \in Clients, Plugin(c)
      PROVE  StoreKept \/ \E r \in FDURecord : Wrote(c, r)
  <2>1. CASE Moved(c)
    BY <2>1 DEF Moved, StoreKept
  <2>2. ASSUME NEW r \in FDURecord, Undefined(c, r)
        PROVE  StoreKept
    BY <2>2 DEF Undefined, StoreKept
  <2>3. QED BY <1>0, <1>1, <2>1, <2>2, PluginEffect DEF Plugin
<1>2. ASSUME NEW c \in Clients, Handler(c)
      PROVE  StoreKept
  <2>1. CASE RemoveGlobal(c)
    <3>1. \A r \in get_instance(global, task[c].inst) : r \in FDURecord
      BY <1>0 DEF get_instance, TypeInv, TypeOK
    <3>2. QED BY <2>1, <3>1 DEF RemoveGlobal, StoreKept, GlobalRemoved, StoresSame
  <2>2. QED BY <1>2, <2>1 DEF Handler, GetDescriptor, Poll, RemoveFdu, storeVars,
                              StoreKept, StoresSame
<1>3. ASSUME NEW c \in Clients, Wrapped(c), ~Plugin(c), ~Handler(c)
      PROVE  StoresSame
  BY <1>3 DEF Wrapped, InstantiateFdu, DeleteFdu, DeleteInstance, Finish,
              TimeOut, Forwarded, define_fdu, offload_fdu, Request,
              Return, ForwardTimeout, Arrive, storeVars, StoresSame
<1>4. CASE Nobody
  BY <1>4 DEF Nobody, DefineFdu, Boot, Register, Admit, Forward, allVars, vars,
              onboard_fdu, PluginCall, PluginAdmit, Monitor, storeVars,
              StoreKept, StoresSame, PutForwarded
<1>5. ASSUME NEW c \in Clients, NextCall(c) \/ PluginDies(c) \/ Forget(c)
      PROVE  StoresSame
  BY <1>5 DEF NextCall, PluginDies, Forget, storeVars, StoresSame
<1>6. ASSUME NEW n \in Nodes, Crash(n) \/ Subscribe(n)
      PROVE  Cut(n)
  BY <1>0, <1>6, CrashForm DEF Crash, Subscribe, Cut, TasksSame
<1>7. QED BY <1>1, <1>2, <1>3, <1>4, <1>5, <1>6, StepCases DEF Wrapped, StoreKept

(* The one step that brings a new record is its plugin's.                  *)
LEMMA RecordsFrom ==
  ASSUME Typed, [ProgramsNext]_allVars, NEW x \in AllRecords'
  PROVE  \/ x \in AllRecords
         \/ \E c \in Clients : x \in FDURecord /\ Plugin(c) /\ Wrote(c, x)
<1>0. Identified /\ TypeInv /\ ProgramsTypeOK /\ TypeInv'
  BY TypeInvStep DEF Typed, Identified, TypeInv
<1>1. \/ UNCHANGED task \/ \E c \in Clients : TaskEffect(c)
      \/ \E n \in Nodes : Cut(n)
  <2>1. CASE Nobody \/ \E c \in Clients : Wrapped(c)
    BY <1>0, <2>1, WrappedIsNext, IdentifiedStep
  <2>2. ASSUME NEW c \in Clients, NextCall(c) \/ PluginDies(c) \/ Forget(c)
        PROVE  TaskEffect(c)
    <3>1. Others(c) /\ task'[c].snap = {} /\ task'[c].pc # "define"
      BY <1>0, <2>2, NextCallForm, PluginDiesForm, ForgetForm
         DEF Entered, IdleTask, TypeInv
    <3>2. QED BY <3>1 DEF TaskEffect, Others
  <2>3. ASSUME NEW n \in Nodes, Crash(n) \/ Subscribe(n)
        PROVE  Cut(n)
    BY <1>0, <2>3, CrashForm DEF Crash, Subscribe, Cut, TasksSame
  <2>4. QED BY <2>1, <2>2, <2>3, StepCases
<1>2. ASSUME NEW n \in Nodes, Cut(n) PROVE x \in AllRecords
  BY <1>0, <1>2, CutIdentified
<1>3. ASSUME UNCHANGED task \/ \E c \in Clients : TaskEffect(c),
             StoreKept, \A n \in Nodes : ~Cut(n)
      PROVE  x \in AllRecords
  BY <1>0, <1>3, RecordsKept DEF StoreKept, StoresSame
<1>4. ASSUME UNCHANGED task \/ \E c \in Clients : TaskEffect(c),
             NEW c \in Clients, NEW r \in FDURecord, Plugin(c), Wrote(c, r),
             x \notin AllRecords
      PROVE  x \in FDURecord /\ Plugin(c) /\ Wrote(c, x)
  <2>1. x = r
    <3>1. PICK a \in Nodes : LocalPut(a, r) /\ UNCHANGED global
      BY <1>4 DEF Wrote
    <3>2. QED BY <1>0, <1>4, <3>1, RecordsPut
  <2>2. QED BY <1>4, <2>1
<1>5. QED BY <1>0, <1>1, <1>2, <1>3, <1>4, StoreShape

LEMMA Writes ==
  ASSUME Identified, [ProgramsNext]_allVars
  PROVE  \/ \E c \in Clients : \E r \in FDURecord : Plugin(c) /\ Wrote(c, r)
         \/ \A n \in Nodes : \A r \in local'[n] : r \in local[n]
<1>1. TypeInv
  BY DEF Identified
<1>2. StoreKept => \A n \in Nodes : \A r \in local'[n] : r \in local[n]
  BY <1>1 DEF StoreKept, StoresSame, PutForwarded, LocalRemoved, GlobalRemoved,
              Cut, remove_instance, TypeInv, TypeOK
<1>3. QED BY <1>2, StoreShape

-----------------------------------------------------------------------------
(* What runs has been reported                                             *)

(* A start that is past its put is reported, unless it is disturbed.       *)
LEMMA StartingKept ==
  ASSUME Base, [ProgramsNext]_allVars, NEW d \in Clients, Starting(d),
         task[d].inst # None
  PROVE  \/ task[d].inst \in reported' \cup disturbed'
         \/ task'[d].inst = task[d].inst /\ Starting(d)'
<1> DEFINE i == task[d].inst
           Goal == \/ i \in reported' \cup disturbed'
                   \/ task'[d].inst = i /\ Starting(d)'
<1>0. /\ TypeInv /\ Owned /\ ProgTypes /\ Typed
      /\ Single
      /\ prog[d] # NoProgram /\ prog[d].calls = <<"start">>
      /\ task[d].pc = "poll" \/ SaidOk(d)
      /\ d \notin orphans
  BY ProgTypeParts DEF Base, Typed, Core, Starting, Known, ReqKnown, Identified
<1>1. ASSUME SameTask(d), prog'[d] = prog[d]
      PROVE  Goal
  BY <1>0, <1>1 DEF Starting, SaidOk, SameTask
<1>2. CASE Nobody
  <2>1. UNCHANGED <<task, prog>>
    BY <1>2 DEF Nobody, DefineFdu, Boot, Register, Admit, Forward, allVars, vars,
                onboard_fdu, PluginCall, PluginAdmit, Monitor
  <2>2. QED BY <1>1, <2>1 DEF SameTask
<1>3. ASSUME NEW c \in Clients, Acts(c), c # d
      PROVE  Goal
  BY <1>0, <1>1, <1>3, ActsAlone DEF Others, SameTask
<1>4. CASE Acts(d)
  <2>1. task[d].pc \in {"poll", "reply"}
    BY <1>0 DEF SaidOk
  <2>2. ~\E n \in Nodes, f \in Fdus : InstantiateFdu(d, n, f) \/ DeleteFdu(d, n, f)
    BY <2>1 DEF InstantiateFdu, DeleteFdu, Idle
  <2>3. ~\E n \in Nodes, j \in Instances : DeleteInstance(d, n, j)
    BY <2>1 DEF DeleteInstance, Idle
  <2>4. ~NextCall(d)
    BY <1>0 DEF NextCall
  <2>5. ~PluginDies(d) /\ ~Forget(d)
    BY <1>0 DEF PluginDies, Forget
  <2>6. CASE Finish(d)
    <3>1. SaidOk(d)
      BY <1>0, <2>6 DEF Finish, Return, SaidOk
    <3>2. Len(prog[d].calls) = 1 /\ Head(prog[d].calls) = "start"
      BY <1>0
    <3>3. QED BY <2>6, <3>1, <3>2 DEF Finish, SaidOk
  <2>7. CASE GoesOn(d)
    <3>1. GetsOn(d) /\ UNCHANGED prog
      BY <1>0, <2>7, GoesOnForm
    <3>2. task[d].pc = "poll"
      BY <2>1, <3>1 DEF GetsOn
    <3>3. task'[d].pc = "reply" /\ task'[d].inst = i
      BY <3>1, <3>2 DEF GetsOn
    <3>4. Single1(d) \/ \E g \in global : g.uuid = i
      BY <3>1, <3>2 DEF GetsOn
    <3>5. Single1(d)
      BY <1>0, <3>4 DEF Single1, Single, get_instance
    <3>6. task'[d].reply = "Ok"
      BY <3>1, <3>2, <3>5 DEF GetsOn
    <3>7. QED BY <1>0, <3>1, <3>3, <3>6 DEF Starting, SaidOk
  <2>8. QED BY <1>4, <2>2, <2>3, <2>4, <2>5, <2>6, <2>7 DEF Acts
<1>5. ASSUME NEW c \in Clients, TimeOut(c)
      PROVE  Goal
  <2>1. CASE c = d
    BY <1>5, <2>1 DEF TimeOut
  <2>2. CASE c # d
    <3>1. SameTask(d)
      BY <1>0, <1>5, <2>2, TimeOutForm DEF Others, SameTask
    <3>2. prog'[d] = prog[d]
      BY <1>0, <1>5, <2>2 DEF TimeOut, ProgTypes
    <3>3. QED BY <1>1, <3>1, <3>2
  <2>3. QED BY <2>1, <2>2
<1>6. ASSUME NEW n \in Nodes, Crash(n)
      PROVE  Goal
  <2> DEFINE hit == {c \in Clients : \/ c \in orphans' \/ c \in Readers(n)
                                     \/ prog[c].entry = n}
  <2>1. /\ prog' = [c \in Clients |-> IF c \in hit THEN NoProgram ELSE prog[c]]
        /\ disturbed' = disturbed \cup Puts(n)
                            \cup ({task[c].inst : c \in hit} \ {None})
    BY <1>6 DEF Crash
  <2>2. d \in hit => i \in disturbed'
    BY <2>1
  <2>3. d \notin hit => prog'[d] = prog[d]
    BY <2>1
  <2>4. SameTask(d)
    BY <1>0, <1>6, CrashForm DEF TasksSame, SameTask
  <2> HIDE DEF hit
  <2>5. QED BY <1>1, <2>2, <2>3, <2>4
<1>7. ASSUME NEW n \in Nodes, Subscribe(n)
      PROVE  Goal
  BY <1>1, <1>7 DEF Subscribe, SameTask
<1>8. QED
  <2>1. ASSUME NEW c \in Clients, Wrapped(c) PROVE Acts(c) \/ TimeOut(c)
    BY <2>1 DEF Wrapped, Acts, GoesOn
  <2>2. ASSUME NEW c \in Clients, NextCall(c) \/ PluginDies(c) \/ Forget(c)
        PROVE  Acts(c)
    BY <2>2 DEF Acts
  <2>3. QED BY <1>2, <1>3, <1>4, <1>5, <1>6, <1>7, <2>1, <2>2, StepCases

LEMMA ReportedStep ==
  ASSUME Base, Reported, [ProgramsNext]_allVars
  PROVE  Reported'
<1>0. /\ Identified /\ TypeInv /\ Typed
      /\ \A n \in Nodes : \A r \in local[n] : r \in FDURecord
  BY OnePlace DEF Base, Typed, Identified
<1>1. reported \subseteq reported' /\ disturbed \subseteq disturbed'
  <2>1. \A c \in Clients : Wrapped(c) =>
          reported \subseteq reported' /\ disturbed \subseteq disturbed'
    BY DEF Wrapped, InstantiateFdu, DeleteFdu, DeleteInstance, Finish, TimeOut,
           Handler, Forwarded, Plugin, userVars, lossVars
  <2>2. Nobody => reported \subseteq reported' /\ disturbed \subseteq disturbed'
    BY DEF Nobody, DefineFdu, Boot, Register, Admit, Forward, allVars, userVars,
           lossVars
  <2>3. QED
    BY <2>1, <2>2, StepCases DEF NextCall, PluginDies, Forget, Crash, Subscribe,
                                 userVars, lossVars
<1>2. ASSUME NEW n \in Nodes, NEW r \in local[n], r.status = "RUNNING"
      PROVE  \/ r.uuid \in reported' \cup disturbed'
             \/ \E c \in Clients : task'[c].inst = r.uuid /\ Starting(c)'
  <2>1. r.uuid \in Instances /\ r.uuid # None
    BY <1>0, NoneAssumption DEF FDURecord
  <2>2. CASE r.uuid \in reported \cup disturbed
    BY <1>1, <2>2
  <2>3. ASSUME NEW c \in Clients, task[c].inst = r.uuid, Starting(c)
        PROVE  \/ r.uuid \in reported' \cup disturbed'
               \/ \E d \in Clients : task'[d].inst = r.uuid /\ Starting(d)'
    BY <2>1, <2>3, StartingKept
  <2>4. QED BY <1>2, <2>2, <2>3 DEF Reported
<1>3. ASSUME NEW c \in Clients, NEW r \in FDURecord, Plugin(c), Wrote(c, r),
             r.status = "RUNNING"
      PROVE  \/ r.uuid \in disturbed'
             \/ task'[c].inst = r.uuid /\ Starting(c)'
  <2>1. /\ r.uuid = task[c].inst /\ task'[c].inst = task[c].inst
        /\ task'[c].pc = "poll" /\ task[c].pc \in {"define", "lock"}
        /\ task[c].op = "start"
    BY <1>3 DEF Wrote, Polled, Target
  <2>2. task[c].inst # None
    BY <2>1, NoneAssumption DEF FDURecord
  <2>3. task[c].req = "start"
    BY <2>1 DEF Base, Known, ReqKnown, Busy
  <2>4. prog' = prog /\ disturbed' = disturbed
    BY <1>3 DEF Plugin, lossVars
  <2>5. CASE prog[c] # NoProgram
    <3>1. prog[c].calls \in Calls
      BY <2>5 DEF Base, ProgramsTypeOK, Programs, Calls
    <3>2. Head(prog[c].calls) = "start"
      BY <2>3, <2>5 DEF Base, ProgramsTypeOK
    <3>3. prog[c].calls = <<"start">>
      BY <3>1, <3>2, CallsHead
    <3>4. QED BY <2>1, <2>4, <2>5, <3>3 DEF Starting
  <2>6. CASE prog[c] = NoProgram
    BY <2>1, <2>2, <2>4, <2>6 DEF Base, Known, ReqKnown
  <2>7. QED BY <2>5, <2>6
<1>4. ASSUME NEW n \in Nodes, NEW s \in local'[n]
      PROVE  \/ s \in local[n]
             \/ \E c \in Clients : s \in FDURecord /\ Plugin(c) /\ Wrote(c, s)
  <2>1. ASSUME NEW c \in Clients, NEW r \in FDURecord, Plugin(c), Wrote(c, r)
        PROVE  s \in local[n] \/ s = r
    <3>1. PICK a \in Nodes : LocalPut(a, r)
      BY <2>1 DEF Wrote
    <3>2. /\ \A m \in Nodes \ {a} : local'[m] = local[m]
          /\ local'[a] = {x \in local[a] : ~SamePath(x, r)} \cup {r}
      BY <1>0, <3>1, PutElements
    <3>3. QED BY <3>2
  <2>2. QED BY <1>0, <2>1, Writes
<1>5. QED BY <1>2, <1>3, <1>4 DEF Reported

(* An instance that runs and that nobody works on has been reported to the *)
(* client of its instantiate_fdu (fog05-rest/src/main.rs:156), or was cut  *)
(* short by a crash or a timeout: its start_fdu never fails on an instance *)
(* that the owner has started.                                             *)
THEOREM RunningReportedHolds ==
  ASSUME Exclusive
  PROVE  ProgramsSpec => []RunningReported
<1>1. ProgramsInit => Reported
  BY DEF ProgramsInit, Reported
<1>2. Base /\ Reported /\ [ProgramsNext]_allVars => Reported'
  BY ReportedStep
<1>3. Base /\ Reported => RunningReported
  BY DEF Reported, RunningReported, Free
<1>4. QED BY <1>1, <1>2, <1>3, BaseAlways, PTL DEF ProgramsSpec

-----------------------------------------------------------------------------
(* Descriptors                                                             *)

(* How a request gets to the phases that Described is about.               *)
LEMMA PhaseStarts ==
  ASSUME Typed, [ProgramsNext]_allVars, NEW d \in Clients
  PROVE  /\ task'[d].pc = "define" =>
              \/ SameTask(d)
              \/ \E n \in Nodes, f \in Fdus : InstantiateFdu(d, n, f)
         /\ task'[d].pc = "offload" =>
              \/ SameTask(d)
              \/ \E n \in Nodes, f \in Fdus : DeleteFdu(d, n, f)
         /\ task'[d].pc = "poll" => SameTask(d) \/ GoesOn(d)
         /\ d \in orphans => d \in orphans' \/ task'[d].pc = "idle"
<1>0. TypeInv /\ Owned /\ ProgramsTypeOK /\ TaskKnows
  BY DEF Typed, Identified, TypeInv
<1>1. CASE SameTask(d)
  <2>1. d \in orphans => d \in orphans' \/ task'[d].pc = "idle"
    <3>1. ASSUME NEW c \in Clients, Forget(c)
          PROVE  d \in orphans => d \in orphans' \/ task'[d].pc = "idle"
      <4>1. task'[c].pc = "idle" /\ \A e \in orphans : e = c \/ e \in orphans'
        <5>1. task'[c].pc = "idle"
          BY <1>0, <3>1, ForgetForm DEF IdleTask
        <5>2. QED BY <3>1, <5>1 DEF Forget
      <4>2. QED BY <4>1
    <3>2. ASSUME NEW n \in Nodes, Crash(n) PROVE d \in orphans => d \in orphans'
      BY <3>2 DEF Crash
    <3>3. ASSUME NEW c \in Clients, Wrapped(c) PROVE orphans' = orphans
      BY <3>3 DEF Wrapped, InstantiateFdu, DeleteFdu, DeleteInstance, Finish,
                  TimeOut, Handler, Forwarded, Plugin, faultVars
    <3>4. Nobody => orphans' = orphans
      BY DEF Nobody, DefineFdu, Boot, Register, Admit, Forward, allVars, faultVars
    <3>5. QED
      BY <3>1, <3>2, <3>3, <3>4, StepCases
         DEF NextCall, PluginDies, Subscribe, faultVars
  <2>2. QED BY <1>1, <2>1
<1>2. ASSUME NEW c \in Clients, Acts(c), ~SameTask(d)
      PROVE  Acts(d)
  <2>1. CASE c # d
    BY <1>2, <2>1, ActsAlone DEF Others, SameTask
  <2>2. QED BY <1>2, <2>1
<1>3. CASE Acts(d)
  <2>1. ASSUME NEW n \in Nodes, NEW f \in Fdus, InstantiateFdu(d, n, f)
        PROVE  task'[d].pc \notin {"offload", "poll"} /\ orphans' = orphans
    BY <1>0, <2>1, DefineForm DEF InstantiateFdu, faultVars
  <2>2. ASSUME NEW n \in Nodes, NEW f \in Fdus, DeleteFdu(d, n, f)
        PROVE  task'[d].pc \notin {"define", "poll"} /\ orphans' = orphans
    BY <1>0, <2>2, OffloadForm DEF DeleteFdu, faultVars
  <2>3. ASSUME NEW n \in Nodes, NEW i \in Instances, DeleteInstance(d, n, i)
        PROVE  /\ task'[d].pc \notin {"define", "offload", "poll"}
               /\ orphans' = orphans
    BY <1>0, <2>3, RequestForm DEF DeleteInstance, InstanceOps, faultVars
  <2>4. CASE NextCall(d)
    <3>1. task'[d].pc \notin {"define", "offload", "poll"}
      BY <1>0, <2>4, NextCallForm DEF Entered
    <3>2. QED BY <2>4, <3>1, <2>1 DEF NextCall, faultVars
  <2>5. CASE Finish(d)
    <3>1. task'[d].pc = "idle"
      BY <1>0, <2>5 DEF Finish, Return, IdleTask, TypeInv, TypeOK
    <3>2. QED BY <3>1
  <2>6. CASE GoesOn(d)
    <3>1. task'[d].pc \notin {"define", "offload"} /\ orphans' = orphans
      BY <1>0, <2>6, GoesOnForm DEF GetsOn, Entered, faultVars
    <3>2. QED BY <2>6, <3>1
  <2>7. CASE PluginDies(d)
    BY <1>0, <2>7, PluginDiesForm DEF PluginDies, faultVars
  <2>8. CASE Forget(d)
    BY <1>0, <2>8, ForgetForm DEF IdleTask
  <2>9. QED
    BY <1>3, <2>1, <2>2, <2>3, <2>4, <2>5, <2>6, <2>7, <2>8 DEF Acts
<1>4. QED BY <1>1, <1>2, <1>3, TaskShape

(* A descriptor is removed by an offload_fdu that is past its check.       *)
LEMMA CatalogShape ==
  ASSUME Typed, [ProgramsNext]_allVars, NEW f \in catalog
  PROVE  \/ f \in catalog'
         \/ \E c \in Clients \ orphans : task[c].pc = "offload" /\ task[c].fdu = f
<1>0. TypeInv /\ Owned
  BY DEF Typed, Identified
<1>1. CASE Nobody
  BY <1>1 DEF Nobody, DefineFdu, Boot, Register, Admit, Forward, allVars, vars,
              onboard_fdu, PluginCall, PluginAdmit, Monitor, storeVars
<1>2. ASSUME NEW c \in Clients, Handler(c)
      PROVE  f \in catalog' \/ (c \notin orphans /\ task[c].pc = "offload"
                                 /\ task[c].fdu = f)
  BY <1>0, <1>2, HandlerGetsOn DEF Handler
<1>3. ASSUME NEW c \in Clients, Forwarded(c) \/ Plugin(c)
      PROVE  f \in catalog'
  BY <1>0, <1>3, ArriveGetsOn, PluginGetsOn DEF Forwarded, Plugin
<1>4. ASSUME NEW c \in Clients, Wrapped(c), ~Handler(c), ~Forwarded(c), ~Plugin(c)
      PROVE  f \in catalog'
  BY <1>4 DEF Wrapped, InstantiateFdu, DeleteFdu, DeleteInstance, Finish,
              TimeOut, define_fdu, offload_fdu, Request, Return, ForwardTimeout,
              storeVars
<1>5. QED
  BY <1>1, <1>2, <1>3, <1>4, StepCases
     DEF Wrapped, NextCall, PluginDies, Forget, Crash, Subscribe, storeVars

ExcusedNext(i) == i \in overtaken' \cup disturbed'

LEMMA ExcusedStays ==
  ASSUME [ProgramsNext]_allVars, NEW i, Excused(i)
  PROVE  ExcusedNext(i)
<1>1. ASSUME NEW c \in Clients, Wrapped(c)
      PROVE  overtaken \subseteq overtaken' /\ disturbed \subseteq disturbed'
  BY <1>1 DEF Wrapped, InstantiateFdu, DeleteFdu, DeleteInstance, Finish, TimeOut,
              Handler, Forwarded, Plugin, userVars, lossVars
<1>2. Nobody => overtaken \subseteq overtaken' /\ disturbed \subseteq disturbed'
  BY DEF Nobody, DefineFdu, Boot, Register, Admit, Forward, allVars, userVars,
         lossVars
<1>3. overtaken \subseteq overtaken' /\ disturbed \subseteq disturbed'
  BY <1>1, <1>2, StepCases
     DEF NextCall, PluginDies, Forget, Crash, Subscribe, userVars, lossVars
<1>4. QED BY <1>3 DEF Excused, ExcusedNext

(* The record of an instance that nothing has cut short is in the global   *)
(* store, unless its define_fdu is in progress.                            *)
LEMMA InGlobal ==
  ASSUME Base, NEW x \in AllRecords, x.uuid \notin disturbed
  PROVE  \/ \E g \in global : g.uuid = x.uuid
         \/ \E d \in Clients : /\ task[d].pc = "poll" /\ task[d].op = "define"
                               /\ task[d].inst = x.uuid
<1> DEFINE i == x.uuid
<1>0. /\ Identified /\ Locked /\ Phases(disturbed) /\ Rest(disturbed)
      /\ TypeInv
  BY DEF Base, Core, Identified
<1>1. \/ x \in global
      \/ \E n \in Nodes : x \in local[n]
      \/ \E n \in Nodes : Queued(n, i)
  <2>1. ASSUME NEW d \in Clients, x \in task[d].snap
        PROVE  \E n \in Nodes : x \in local[n]
    <3>1. task[d].pc = "lock"
      BY <1>0, <2>1 DEF Identified, Owned
    <3>2. task[d].agent \in Nodes
      BY <1>0, <3>1 DEF TypeInv, TaskKnows, Busy
    <3>3. QED BY <1>0, <2>1, <3>1, <3>2 DEF Locked, LockedOn
  <2>2. QED BY <2>1 DEF AllRecords, Queued
<1>2. i \in Instances
  BY <1>0 DEF Identified, UuidsFresh, TypeInv, TypeOK
<1>3. CASE Settled(i)
  BY <1>1, <1>3 DEF Settled
<1>4. ASSUME NEW d \in Clients, task[d].inst = i, task[d].pc = "remove"
      PROVE  \E g \in global : g.uuid = i
  BY <1>0, <1>4 DEF Phases, PhaseOf, RemovingOn
<1>5. ASSUME NEW d \in Clients, task[d].inst = i, task[d].pc = "poll",
             task[d].op # "define", ~Settled(i)
      PROVE  \E g \in global : g.uuid = i
  BY <1>0, <1>5 DEF Phases, PhaseOf, PollingOn, Before
<1>6. QED BY <1>0, <1>2, <1>3, <1>4, <1>5 DEF Rest, Unsettled

LEMMA KeptStep ==
  ASSUME Base, Described, [ProgramsNext]_allVars
  PROVE  DescriptorKept'
<1>0. Typed
  BY DEF Base, Typed
<1>1. ASSUME NEW f \in catalog, NEW i, \E x \in AllRecords : x.fdu_uuid = f /\ x.uuid = i
      PROVE  f \in catalog' \/ ExcusedNext(i)
  BY <1>0, <1>1, CatalogShape, ExcusedStays DEF Described
<1>2. ASSUME NEW x \in AllRecords
      PROVE  x.fdu_uuid \in catalog' \/ ExcusedNext(x.uuid)
  BY <1>1, ExcusedStays DEF Described, DescriptorKept, Excused, ExcusedNext
<1>3. ASSUME NEW c \in Clients, NEW x \in FDURecord, Plugin(c), Wrote(c, x)
      PROVE  x.fdu_uuid \in catalog' \/ ExcusedNext(x.uuid)
  <2>1. CASE task[c].pc = "define"
    <3>1. x.fdu_uuid = task[c].fdu /\ x.uuid = task[c].inst
      BY <1>3, <2>1 DEF Wrote
    <3>2. UNCHANGED catalog
      BY <1>0, <1>3, PluginGetsOn DEF Plugin, Typed, Identified
    <3>3. QED BY <2>1, <3>1, <3>2, ExcusedStays DEF Described
  <2>2. CASE task[c].pc # "define"
    <3>1. PICK s \in task[c].snap : SameIdentity(x, s)
      BY <1>3, <2>2 DEF Wrote
    <3>2. s \in AllRecords
      BY <3>1, AllRecordsMembers
    <3>3. QED BY <1>2, <3>1, <3>2 DEF SameIdentity
  <2>3. QED BY <2>1, <2>2
<1>4. \A x \in AllRecords' : x.fdu_uuid \in catalog' \/ ExcusedNext(x.uuid)
  BY <1>0, <1>2, <1>3, RecordsFrom
<1>5. QED BY <1>4 DEF DescriptorKept, Excused, ExcusedNext

LEMMA DefineDescribed ==
  ASSUME Base, Described, [ProgramsNext]_allVars, NEW d \in Clients,
         task'[d].pc = "define"
  PROVE  task'[d].fdu \in catalog' \/ ExcusedNext(task'[d].inst)
<1>0. Typed /\ TypeInv
  BY DEF Base, Typed, Identified
<1>1. CASE SameTask(d)
  <2>1. PICK f, i : f = task[d].fdu /\ i = task[d].inst
    OBVIOUS
  <2>2. task'[d].fdu = f /\ task'[d].inst = i /\ task[d].pc = "define"
    BY <1>1, <2>1 DEF SameTask
  <2>3. CASE Excused(i)
    BY <2>2, <2>3, ExcusedStays DEF Excused, ExcusedNext
  <2>4. CASE f \in catalog
    <3>1. f \in catalog' \/ Excused(i)
      BY <1>0, <2>1, <2>2, <2>4, CatalogShape DEF Described
    <3>2. QED BY <2>2, <2>3, <3>1
  <2>5. QED BY <2>1, <2>2, <2>3, <2>4 DEF Described
<1>2. ASSUME NEW n \in Nodes, NEW f \in Fdus, InstantiateFdu(d, n, f)
      PROVE  task'[d].fdu \in catalog'
  <2>1. PICK m \in Nodes : define_fdu(d, m, f)
    BY <1>2 DEF InstantiateFdu
  <2>2. QED BY <1>0, <2>1, DefineForm DEF storeVars
<1>3. QED BY <1>0, <1>1, <1>2, PhaseStarts

LEMMA PollDescribed ==
  ASSUME Base, Described, [ProgramsNext]_allVars, NEW d \in Clients,
         task'[d].pc = "poll", task'[d].op = "define",
         NEW x \in AllRecords', x.uuid = task'[d].inst
  PROVE  x.fdu_uuid = task'[d].fdu
<1>0. /\ Typed /\ TypeInv /\ Owned /\ UuidsFresh /\ Apart
      /\ \A r, s \in AllRecords : r.uuid = s.uuid => r.fdu_uuid = s.fdu_uuid
  BY DEF Base, Typed, Core, Identified, OneIdentity
<1>1. ASSUME NEW c \in Clients, Plugin(c), Wrote(c, x), d # c
      PROVE  FALSE
  <2>1. x.uuid = task[c].inst /\ x.uuid # None /\ Others(c)
    <3>1. x \in FDURecord \/ x \in AllRecords
      BY <1>0, RecordsFrom
    <3>2. x.uuid \in Instances
      BY <1>0, <3>1 DEF FDURecord, UuidsFresh, TypeInv, TypeOK
    <3>3. QED BY <1>1, <3>2, NoneAssumption DEF Wrote
  <2>2. task[d].inst = task[c].inst
    BY <1>1, <2>1 DEF Others
  <2>3. QED BY <1>0, <1>1, <2>1, <2>2 DEF Apart
<1>2. CASE SameTask(d)
  <2>1. /\ task[d].pc = "poll" /\ task[d].op = "define"
        /\ task[d].inst = x.uuid /\ task'[d].fdu = task[d].fdu
    BY <1>2 DEF SameTask
  <2>2. CASE x \in AllRecords
    BY <2>1, <2>2 DEF Described
  <2>3. ~(Plugin(d) /\ Wrote(d, x))
    BY <2>1 DEF Wrote
  <2>4. QED BY <1>0, <1>1, <2>2, <2>3, RecordsFrom
<1>3. CASE GoesOn(d)
  <2>1. GetsOn(d)
    BY <1>0, <1>3, GoesOnForm
  <2>2. task[d].pc \in {"define", "lock"} /\ SameCall(d)
    BY <2>1 DEF GetsOn, Entered
  <2>3. Plugin(d)
    BY <1>3, <2>2 DEF GoesOn, Handler, Forwarded, GetDescriptor, Poll,
                      RemoveGlobal, RemoveFdu, Arrive
  <2>4. PICK r \in FDURecord : Wrote(d, r)
    BY <1>0, <2>3, PluginEffect DEF Plugin, Moved, Undefined
  <2>5. /\ task[d].pc = "define" /\ r.fdu_uuid = task[d].fdu
        /\ r.uuid = task[d].inst /\ task'[d].inst = task[d].inst
        /\ task'[d].fdu = task[d].fdu
    BY <2>2, <2>4 DEF Wrote, SameCall
  <2>6. \A s \in AllRecords : s.uuid # task[d].inst
    BY <1>0, <2>5 DEF UuidsFresh
  <2>7. PICK c \in Clients : Plugin(c) /\ Wrote(c, x)
    BY <1>0, <2>5, <2>6, RecordsFrom
  <2>8. c = d
    BY <1>1, <2>7
  <2>9. QED BY <2>5, <2>7, <2>8 DEF Wrote
<1>4. QED BY <1>0, <1>2, <1>3, PhaseStarts

LEMMA OffloadDescribed ==
  ASSUME Base, Described, [ProgramsNext]_allVars,
         NEW c \in Clients, c \notin orphans', task'[c].pc = "offload"
  PROVE  /\ \A x \in AllRecords' : x.fdu_uuid = task'[c].fdu => ExcusedNext(x.uuid)
         /\ \A d \in Clients : task'[d].pc = "define" /\ task'[d].fdu = task'[c].fdu
              => ExcusedNext(task'[d].inst)
<1>0. /\ Typed /\ TypeInv /\ Owned /\ Identified
      /\ \A r, s \in AllRecords : r.uuid = s.uuid => r.fdu_uuid = s.fdu_uuid
  BY DEF Base, Typed, Identified, OneIdentity
<1>1. ASSUME SameTask(c), NEW x \in AllRecords', x.fdu_uuid = task'[c].fdu
      PROVE  ExcusedNext(x.uuid)
  <2>1. task[c].pc = "offload" /\ c \notin orphans /\ x.fdu_uuid = task[c].fdu
    BY <1>0, <1>1, PhaseStarts DEF SameTask
  <2>2. ASSUME NEW y \in AllRecords, y.fdu_uuid = task[c].fdu
        PROVE  ExcusedNext(y.uuid)
    BY <2>1, <2>2, ExcusedStays DEF Described
  <2>3. ASSUME NEW d \in Clients, Wrote(d, x), x.uuid = x.uuid
        PROVE  ExcusedNext(x.uuid)
    <3>1. CASE task[d].pc = "define"
      BY <2>1, <2>3, <3>1, ExcusedStays DEF Wrote, Described
    <3>2. CASE task[d].pc # "define"
      <4>1. PICK s \in task[d].snap : SameIdentity(x, s)
        BY <2>3, <3>2 DEF Wrote
      <4>2. QED BY <2>1, <2>2, <4>1, AllRecordsMembers DEF SameIdentity
    <3>3. QED BY <3>1, <3>2
  <2>4. QED BY <1>0, <1>1, <2>1, <2>2, <2>3, RecordsFrom
<1>2. ASSUME SameTask(c), NEW d \in Clients, task'[d].pc = "define",
             task'[d].fdu = task'[c].fdu
      PROVE  ExcusedNext(task'[d].inst)
  <2>1. task[c].pc = "offload" /\ c \notin orphans /\ task'[d].fdu = task[c].fdu
    BY <1>0, <1>2, PhaseStarts DEF SameTask
  <2>2. CASE SameTask(d)
    <3>1. PICK i : i = task[d].inst
      OBVIOUS
    <3>2. Excused(i) /\ task'[d].inst = i
      BY <1>2, <2>1, <2>2, <3>1 DEF Described, SameTask
    <3>3. QED BY <3>2, ExcusedStays DEF Excused, ExcusedNext
  <2>3. ASSUME NEW n \in Nodes, NEW f \in Fdus, InstantiateFdu(d, n, f)
        PROVE  ExcusedNext(task'[d].inst)
    <3>1. PICK m \in Nodes : define_fdu(d, m, f)
      BY <2>3 DEF InstantiateFdu
    <3>2. task'[d].fdu = f /\ task'[d].inst \in Instances
      BY <1>0, <1>2, <3>1, DefineForm
    <3>3. Removing(f)
      BY <2>1, <3>2 DEF Removing
    <3>4. task'[d].inst \in overtaken'
      BY <2>3, <3>2, <3>3, NoneAssumption DEF InstantiateFdu
    <3>5. QED BY <3>4 DEF Excused, ExcusedNext
  <2>4. QED BY <1>0, <1>2, <2>2, <2>3, PhaseStarts
<1>3. ASSUME NEW n \in Nodes, NEW f \in Fdus, DeleteFdu(c, n, f)
      PROVE  /\ \A x \in AllRecords' : x.fdu_uuid = task'[c].fdu => ExcusedNext(x.uuid)
             /\ \A d \in Clients :
                  task'[d].pc = "define" /\ task'[d].fdu = task'[c].fdu
                    => ExcusedNext(task'[d].inst)
  <2>1. /\ Others(c) /\ task'[c].fdu = f /\ get_all_fdu_instances(global, f) = {}
    BY <1>0, <1>3, OffloadForm DEF DeleteFdu
  <2>2. overtaken' = overtaken \cup InDefinition(f) /\ UNCHANGED disturbed
    BY <1>3 DEF DeleteFdu, lossVars
  <2>3. ~\E d \in Clients : Plugin(d)
    <3>1. ASSUME NEW d \in Clients, Plugin(d) PROVE FALSE
      <4>1. UNCHANGED prog
        BY <3>1 DEF Plugin
      <4>2. prog'[c] # NoProgram /\ prog[c] = NoProgram
        BY <1>0, <1>3, ProgTypeParts, ProgramStart, FirstCalls
           DEF DeleteFdu, Idle, Typed
      <4>3. QED BY <4>1, <4>2
    <3>2. QED BY <3>1
  <2>4. ASSUME NEW x \in AllRecords', x.fdu_uuid = f, x.uuid \notin disturbed
        PROVE  x.uuid \in overtaken'
    <3>1. x \in AllRecords
      BY <1>0, <2>3, RecordsFrom
    <3>2. ~\E g \in global : g.uuid = x.uuid
      <4>1. \A g \in global : g.fdu_uuid # f /\ g \in AllRecords
        BY <2>1, AllRecordsMembers DEF get_all_fdu_instances
      <4>2. QED BY <1>0, <2>4, <3>1, <4>1
    <3>3. PICK d \in Clients : /\ task[d].pc = "poll" /\ task[d].op = "define"
                               /\ task[d].inst = x.uuid
      BY <2>4, <3>1, <3>2, InGlobal
    <3>4. task[d].fdu = f
      BY <2>4, <3>1, <3>3 DEF Described
    <3>5. x.uuid \in InDefinition(f)
      BY <3>3, <3>4 DEF InDefinition
    <3>6. QED BY <2>2, <3>5
  <2>5. ASSUME NEW d \in Clients, task'[d].pc = "define", task'[d].fdu = f
        PROVE  task'[d].inst \in overtaken'
    <3>1. d # c /\ task'[d] = task[d]
      BY <1>0, <1>3, <2>1, <2>5, OffloadForm DEF DeleteFdu, Others
    <3>2. task[d].op = "define"
      BY <1>0, <2>5, <3>1 DEF TypeInv, TaskKnows
    <3>3. task[d].inst \in InDefinition(f)
      BY <2>5, <3>1, <3>2 DEF InDefinition
    <3>4. QED BY <2>2, <3>1, <3>3
  <2>6. QED BY <2>1, <2>2, <2>4, <2>5 DEF Excused, ExcusedNext
<1>4. QED BY <1>0, <1>1, <1>2, <1>3, PhaseStarts

LEMMA DescribedStep ==
  ASSUME Base, Described, [ProgramsNext]_allVars
  PROVE  Described'
<1>1. DescriptorKept'
  BY KeptStep
<1>2. \A c \in Clients : task'[c].pc = "define" =>
        task'[c].fdu \in catalog' \/ ExcusedNext(task'[c].inst)
  BY DefineDescribed
<1>3. \A c \in Clients : task'[c].pc = "poll" /\ task'[c].op = "define" =>
        \A r \in AllRecords' : r.uuid = task'[c].inst => r.fdu_uuid = task'[c].fdu
  BY PollDescribed
<1>4. \A c \in Clients : c \notin orphans' /\ task'[c].pc = "offload" =>
        /\ \A r \in AllRecords' : r.fdu_uuid = task'[c].fdu => ExcusedNext(r.uuid)
        /\ \A d \in Clients : task'[d].pc = "define" /\ task'[d].fdu = task'[c].fdu
             => ExcusedNext(task'[d].inst)
  BY OffloadDescribed
<1>5. QED BY <1>1, <1>2, <1>3, <1>4 DEF Described, Excused, ExcusedNext

(* A descriptor is never taken from under an instance, but by an           *)
(* offload_fdu (agent.rs:1398) that overlaps the define_fdu of that very   *)
(* instance, or under one that a crash or a timeout has cut short.         *)
THEOREM DescriptorKeptHolds ==
  ASSUME Exclusive
  PROVE  ProgramsSpec => []DescriptorKept
<1>1. ProgramsInit => Described
  <2> SUFFICES ASSUME ProgramsInit PROVE Described
    OBVIOUS
  <2>1. AllRecords = {} /\ \A c \in Clients : task[c].pc = "idle"
    BY AllRecordsBound DEF ProgramsInit, IdleTask, AllRecords
  <2>2. QED BY <2>1 DEF Described, DescriptorKept
<1>2. Base /\ Described /\ [ProgramsNext]_allVars => Described'
  BY DescribedStep
<1>3. Described => DescriptorKept
  BY DEF Described
<1>4. QED BY <1>1, <1>2, <1>3, BaseAlways, PTL DEF ProgramsSpec

-----------------------------------------------------------------------------
(* What is said of the copies of an instance stays true                    *)

NoneQueued(i) == \A n \in Nodes : ~Queued(n, i)
NoneLocal(i) == \A n \in Nodes : \A r \in local[n] : r.uuid # i

Stays(i) ==
  /\ \A st \in FDUState : /\ Absent(i, st) => Absent(i, st)'
                          /\ SeenAll(i, st) => SeenAll(i, st)'
                          /\ Newest(i, st) => Newest(i, st)'
                          /\ LocalAll(i, st) => LocalAll(i, st)'
  /\ NoneQueued(i) => NoneQueued(i)'
  /\ NoneLocal(i) => NoneLocal(i)'

(* It is still true of fewer copies.                                       *)
LEMMA StaysFewer ==
  ASSUME NEW i,
         \A g \in global' : g.uuid = i => g \in global,
         \A n \in Nodes : \A r \in local'[n] : r.uuid = i => r \in local[n],
         \A n \in Nodes : \A k \in 1 .. Len(chan'[n]) : chan'[n][k].uuid = i =>
           k \in 1 .. Len(chan[n]) /\ chan'[n][k] = chan[n][k]
  PROVE  Stays(i)
<1>1. \A n \in Nodes : Queued(n, i)' => Queued(n, i)
  BY DEF Queued
<1>2. NoneQueued(i) => NoneQueued(i)'
  BY <1>1 DEF NoneQueued
<1>3. NoneLocal(i) => NoneLocal(i)'
  BY DEF NoneLocal
<1>4. ASSUME NEW st, Absent(i, st) PROVE Absent(i, st)'
  BY <1>4 DEF Absent
<1>5. ASSUME NEW st, SeenAll(i, st) PROVE SeenAll(i, st)'
  BY <1>1, <1>5 DEF SeenAll
<1>6. ASSUME NEW st, Newest(i, st) PROVE Newest(i, st)'
  <2>1. ASSUME NEW n \in Nodes, NEW j \in 1 .. Len(chan'[n]),
               NEW k \in 1 .. Len(chan'[n]), chan'[n][k].uuid = i,
               chan'[n][k].status = st, chan'[n][j].uuid = i
        PROVE  j <= k
    BY <1>6, <2>1 DEF Newest
  <2>2. (\E g \in global' : g.uuid = i /\ g.status = st) =>
          \A n \in Nodes : ~Queued(n, i)'
    BY <1>1, <1>6 DEF Newest
  <2>3. QED BY <2>1, <2>2 DEF Newest
<1>7. ASSUME NEW st, LocalAll(i, st) PROVE LocalAll(i, st)'
  BY <1>7 DEF LocalAll
<1>8. QED BY <1>2, <1>3, <1>4, <1>5, <1>6, <1>7 DEF Stays

(* It is still true when the oldest put of node n has been forwarded.      *)
LEMMA StaysForwarded ==
  ASSUME Identified, NEW n \in Nodes, PutForwarded(n), NEW i
  PROVE  Stays(i)
<1> DEFINE g0 == chan[n][1]
<1>0. /\ UNCHANGED local /\ TypeInv
      /\ \A m \in Nodes \ {n} : chan'[m] = chan[m]
      /\ Len(chan[n]) \in Nat \ {0} /\ Len(chan'[n]) = Len(chan[n]) - 1
      /\ \A k \in 1 .. Len(chan'[n]) : chan'[n][k] = chan[n][k + 1]
      /\ \A g \in global' : g \in global \/ g = g0
  <2>1. TypeInv /\ UNCHANGED local
    BY DEF PutForwarded, Identified
  <2>2. /\ \A m \in Nodes \ {n} : chan'[m] = chan[m]
        /\ Len(chan[n]) \in Nat \ {0} /\ Len(chan'[n]) = Len(chan[n]) - 1
        /\ \A k \in 1 .. Len(chan'[n]) : chan'[n][k] = chan[n][k + 1]
        /\ global' = {s \in global : ~SamePath(s, g0)} \cup {g0}
    BY <2>1, ForwardedElements
  <2> HIDE DEF g0
  <2>3. \A g \in global' : g \in global \/ g = g0
    BY <2>2
  <2>4. QED BY <2>1, <2>2, <2>3
<1>1. \A k \in 1 .. Len(chan'[n]) :
        k + 1 \in 1 .. Len(chan[n]) /\ k + 1 # 1 /\ chan'[n][k] = chan[n][k + 1]
  BY <1>0
<1>2. 1 \in 1 .. Len(chan[n])
  BY <1>0
<1> HIDE DEF g0
<1>3. \A m \in Nodes : Queued(m, i)' => Queued(m, i)
  <2>1. Queued(n, i)' => Queued(n, i)
    BY <1>1 DEF Queued
  <2>2. \A m \in Nodes \ {n} : Queued(m, i)' => Queued(m, i)
    BY <1>0 DEF Queued
  <2>3. QED BY <2>1, <2>2
<1>4. g0.uuid = i => Queued(n, i)
  BY <1>2 DEF Queued, g0
<1>5. ASSUME NEW st, Absent(i, st) PROVE Absent(i, st)'
  <2>1. \A g \in global' : g.uuid = i => g.status # st
    BY <1>0, <1>2, <1>5 DEF Absent, g0
  <2>2. \A m \in Nodes : \A k \in 1 .. Len(chan'[m]) :
          chan'[m][k].uuid = i => chan'[m][k].status # st
    BY <1>0, <1>1, <1>5 DEF Absent
  <2>3. QED BY <2>1, <2>2 DEF Absent
<1>6. ASSUME NEW st, SeenAll(i, st) PROVE SeenAll(i, st)'
  BY <1>0, <1>3, <1>4, <1>6 DEF SeenAll
<1>7. ASSUME NEW st, Newest(i, st) PROVE Newest(i, st)'
  <2>1. ASSUME NEW m \in Nodes, NEW j \in 1 .. Len(chan'[m]),
               NEW k \in 1 .. Len(chan'[m]), chan'[m][k].uuid = i,
               chan'[m][k].status = st, chan'[m][j].uuid = i
        PROVE  j <= k
    <3>1. CASE m = n
      <4>1. /\ j + 1 \in 1 .. Len(chan[n]) /\ k + 1 \in 1 .. Len(chan[n])
            /\ chan[n][k + 1].uuid = i /\ chan[n][k + 1].status = st
            /\ chan[n][j + 1].uuid = i
        BY <1>1, <2>1, <3>1
      <4>2. j + 1 <= k + 1
        BY <1>7, <4>1 DEF Newest
      <4>3. QED BY <4>2
    <3>2. CASE m # n
      BY <1>0, <1>7, <2>1, <3>2 DEF Newest
    <3>3. QED BY <3>1, <3>2
  <2>2. ASSUME NEW g \in global', g.uuid = i, g.status = st,
               NEW m \in Nodes, Queued(m, i)'
        PROVE  FALSE
    <3>1. CASE g \in global
      BY <1>3, <1>7, <2>2, <3>1 DEF Newest
    <3>2. CASE g = g0
      <4>1. PICK k \in 1 .. Len(chan'[m]) : chan'[m][k].uuid = i
        BY <2>2 DEF Queued
      <4>2. m # n => k \in 1 .. Len(chan[m]) /\ chan[m][k].uuid = i
        BY <1>0, <4>1
      <4>3. m = n
        BY <1>2, <2>2, <3>2, <4>2, OnePlace DEF g0
      <4>4. k + 1 \in 1 .. Len(chan[n]) /\ chan[n][k + 1].uuid = i
        BY <1>1, <4>1, <4>3
      <4>5. k + 1 <= 1
        BY <1>2, <1>7, <2>2, <3>2, <4>4 DEF Newest, g0
      <4>6. QED BY <4>1, <4>5
    <3>3. QED BY <1>0, <2>2, <3>1, <3>2
  <2>3. QED BY <2>1, <2>2 DEF Newest
<1>8. ASSUME NEW st, LocalAll(i, st) PROVE LocalAll(i, st)'
  BY <1>0, <1>8 DEF LocalAll
<1>9. (NoneQueued(i) => NoneQueued(i)') /\ (NoneLocal(i) => NoneLocal(i)')
  BY <1>0, <1>3 DEF NoneQueued, NoneLocal
<1>10. QED BY <1>5, <1>6, <1>7, <1>8, <1>9 DEF Stays

LEMMA StaysKept ==
  ASSUME Identified, NEW i,
         \/ StoreKept
         \/ \E c \in Clients : \E r \in FDURecord : Wrote(c, r) /\ r.uuid # i
  PROVE  Stays(i)
<1>0. TypeInv
  BY DEF Identified
<1>1. CASE StoresSame
  BY <1>1, StaysFewer DEF StoresSame
<1>2. ASSUME NEW n \in Nodes, NEW r \in FDURecord, LocalRemoved(n, r)
      PROVE  Stays(i)
  <2>1. \A m \in Nodes : \A x \in local'[m] : x \in local[m]
    BY <1>0, <1>2 DEF LocalRemoved, remove_instance, TypeInv, TypeOK
  <2>2. UNCHANGED <<global, chan>>
    BY <1>2 DEF LocalRemoved
  <2>3. QED BY <2>1, <2>2, StaysFewer
<1>3. ASSUME NEW r \in FDURecord, GlobalRemoved(r)
      PROVE  Stays(i)
  <2>1. (\A x \in global' : x \in global) /\ UNCHANGED <<local, chan>>
    BY <1>3 DEF GlobalRemoved, remove_instance
  <2>2. QED BY <2>1, StaysFewer
<1>4. ASSUME NEW n \in Nodes, Cut(n)
      PROVE  Stays(i)
  <2>1. \A m \in Nodes : \A k \in 1 .. Len(chan'[m]) :
          k \in 1 .. Len(chan[m]) /\ chan'[m][k] = chan[m][k]
    BY <1>0, <1>4 DEF Cut, TypeInv, TypeOK
  <2>2. UNCHANGED <<global, local>>
    BY <1>4 DEF Cut
  <2>3. QED BY <2>1, <2>2, StaysFewer
<1>5. ASSUME NEW c \in Clients, NEW r \in FDURecord, Wrote(c, r), r.uuid # i
      PROVE  Stays(i)
  <2>1. PICK n \in Nodes : LocalPut(n, r) /\ UNCHANGED global
    BY <1>5 DEF Wrote
  <2>2. /\ \A m \in Nodes \ {n} : local'[m] = local[m] /\ chan'[m] = chan[m]
        /\ local'[n] = {s \in local[n] : ~SamePath(s, r)} \cup {r}
        /\ Len(chan'[n]) = Len(chan[n]) + 1 /\ Len(chan[n]) \in Nat
        /\ \A k \in 1 .. Len(chan[n]) : chan'[n][k] = chan[n][k]
        /\ chan'[n][Len(chan[n]) + 1] = r
    BY <1>0, <2>1, PutElements
  <2>3. \A m \in Nodes : \A x \in local'[m] : x.uuid = i => x \in local[m]
    BY <1>5, <2>2
  <2>4. \A m \in Nodes : \A k \in 1 .. Len(chan'[m]) : chan'[m][k].uuid = i =>
          k \in 1 .. Len(chan[m]) /\ chan'[m][k] = chan[m][k]
    <3>1. \A k \in 1 .. Len(chan'[n]) : chan'[n][k].uuid = i =>
            k \in 1 .. Len(chan[n]) /\ chan'[n][k] = chan[n][k]
      BY <1>5, <2>2
    <3>2. QED BY <2>2, <3>1
  <2>5. QED BY <2>1, <2>3, <2>4, StaysFewer
<1>6. QED BY <1>1, <1>2, <1>3, <1>4, <1>5, StaysForwarded DEF StoreKept

(* An instance without records, once drawn, has none ever after.           *)
LEMMA GoneStays ==
  ASSUME Typed, [ProgramsNext]_allVars, NEW i \in used, Records(i) = {}
  PROVE  Records(i)' = {} /\ i \in used'
<1>0. Typed' /\ UuidsFresh /\ TypeInv
  BY TypedStep DEF Typed, Identified
<1>1. ASSUME NEW x \in AllRecords', x.uuid = i PROVE FALSE
  <2>1. x \notin AllRecords
    BY <1>1 DEF Records
  <2>2. PICK c \in Clients : Plugin(c) /\ Wrote(c, x)
    BY <2>1, RecordsFrom
  <2>3. CASE task[c].pc = "define"
    BY <1>0, <1>1, <2>2, <2>3 DEF Wrote, UuidsFresh
  <2>4. CASE task[c].pc # "define"
    <3>1. PICK s \in task[c].snap : SameIdentity(x, s)
      BY <2>2, <2>4 DEF Wrote
    <3>2. s \in AllRecords /\ s.uuid = i
      BY <1>1, <3>1, AllRecordsMembers DEF SameIdentity
    <3>3. QED BY <3>2 DEF Records
  <2>5. QED BY <2>3, <2>4
<1>2. i \in used'
  <2>1. ASSUME NEW c \in Clients, NEW r \in FDURecord, Wrote(c, r)
        PROVE  i \in used'
    BY <2>1 DEF Wrote
  <2>2. StoreKept => i \in used'
    BY DEF StoreKept, StoresSame, PutForwarded, LocalRemoved, GlobalRemoved, Cut
  <2>3. QED BY <2>1, <2>2, StoreShape DEF Typed
<1>3. QED BY <1>1, <1>2 DEF Records

-----------------------------------------------------------------------------
(* What a program can rely on                                              *)

(* A request whose instance nothing is written of keeps what it knows.     *)
LEMMA InstStays ==
  ASSUME Base, [ProgramsNext]_allVars, NEW d \in Clients,
         ~(task[d].pc \in {"define", "lock"} /\ task'[d].pc = "poll"),
         NEW i, i = task[d].inst
  PROVE  /\ Stays(i)
         /\ Records(i) = {} /\ i \in used => Records(i)' = {} /\ i \in used'
<1>0. Identified /\ Apart /\ Typed
  BY DEF Base, Core, Typed
<1>1. ASSUME NEW c \in Clients, NEW r \in FDURecord, Wrote(c, r)
      PROVE  r.uuid # i
  <2>1. r.uuid = task[c].inst /\ r.uuid # None
    BY <1>1, NoneAssumption DEF Wrote, FDURecord
  <2>2. c # d
    BY <1>1 DEF Wrote
  <2>3. QED BY <1>0, <2>1, <2>2 DEF Apart
<1>2. Stays(i)
  <2>1. CASE StoreKept
    BY <1>0, <2>1, StaysKept
  <2>2. ASSUME NEW c \in Clients, NEW r \in FDURecord, Wrote(c, r)
        PROVE  Stays(i)
    BY <1>0, <1>1, <2>2, StaysKept
  <2>3. QED BY <1>0, <2>1, <2>2, StoreShape
<1>3. QED BY <1>0, <1>2, GoneStays

LEMMA StaysParts ==
  ASSUME NEW i, Stays(i)
  PROVE  /\ Absent(i, "DEFINED") => Absent(i, "DEFINED")'
         /\ \A st \in {"DEFINED", "CONFIGURED"} :
              /\ SeenAll(i, st) => SeenAll(i, st)'
              /\ Newest(i, st) => Newest(i, st)'
         /\ LocalAll(i, "DEFINED") => LocalAll(i, "DEFINED")'
         /\ NoneQueued(i) => NoneQueued(i)'
         /\ NoneLocal(i) => NoneLocal(i)'
BY DEF Stays, FDUState

LEMMA HistoryKept ==
  ASSUME Base, [ProgramsNext]_allVars, NEW d \in Clients, History(d),
         SameTask(d)
  PROVE  History(d)'
<1>1. PICK i : i = task[d].inst
  OBVIOUS
<1>2. /\ Stays(i)
      /\ Records(i) = {} /\ i \in used => Records(i)' = {} /\ i \in used'
  BY <1>1, InstStays DEF SameTask
<1>3. /\ task'[d].pc = task[d].pc /\ task'[d].req = task[d].req
      /\ task'[d].inst = i /\ task'[d].reply = task[d].reply
  BY <1>1 DEF SameTask
<1>4. QED
  BY <1>1, <1>2, <1>3, StaysParts
     DEF History, Waiting, SaidOk, NoneQueued, NoneLocal

(* The phases in which a request relies on nothing.                        *)
LEMMA PlainHistory ==
  ASSUME NEW d \in Clients,
         \/ task'[d].pc \in {"idle", "define", "offload"}
         \/ task'[d].pc = "reply" /\ task'[d].reply # "Ok"
         \/ task'[d].req = "offload"
         \/ task'[d].req = "stop" /\ task'[d].pc \in {"descriptor", "forward"}
  PROVE  History(d)'
BY DEF History, Waiting, SaidOk

(* The next call of a program starts from the answer to the one before it. *)
LEMMA NextCallHistory ==
  ASSUME Base, [ProgramsNext]_allVars, NEW d \in Clients, History(d), NextCall(d)
  PROVE  History(d)'
<1>1. PICK i : i = task[d].inst
  OBVIOUS
<1>2. ProgramsTypeOK /\ TaskKnows /\ ProgKnown(d)
  BY ProgTypeParts DEF Base, Identified, TypeInv
<1>3. PICK q : /\ q = prog[d].calls[2]
               /\ q \in {"configure", "start", "clean", "undefine"}
               /\ q = "configure" => task[d].req = "define"
               /\ q = "start" => task[d].req = "configure"
               /\ q = "clean" => task[d].req = "stop"
               /\ q = "undefine" => task[d].req = "clean"
  <2>1. prog[d].calls \in Calls /\ Len(prog[d].calls) > 1
    BY <1>2, NextCallForm
  <2>2. task[d].req = Head(prog[d].calls)
    BY <1>2 DEF NextCall, ProgKnown
  <2>3. QED BY <2>1, <2>2, CallsTail
<1>4. /\ task'[d].req = q /\ task'[d].inst = i
      /\ \/ task'[d].pc \in {"descriptor", "forward"}
         \/ task'[d].pc = "reply" /\ task'[d].reply # "Ok"
  BY <1>1, <1>2, <1>3, NextCallForm DEF Entered
<1>5. SaidOk(d)
  BY DEF NextCall, SaidOk
<1>6. Stays(i)
  BY <1>1, <1>4, InstStays
<1>7. CASE task'[d].pc = "reply" /\ task'[d].reply # "Ok"
  BY <1>7, PlainHistory
<1>8. CASE task'[d].pc \in {"descriptor", "forward"}
  <2>1. /\ q = "configure" => SeenAll(i, "DEFINED")'
        /\ q = "start" => SeenAll(i, "CONFIGURED")'
        /\ q = "clean" => Absent(i, "DEFINED")'
        /\ q = "undefine" => SeenAll(i, "DEFINED")' /\ LocalAll(i, "DEFINED")'
    BY <1>1, <1>3, <1>5, <1>6, StaysParts DEF History
  <2>2. QED BY <1>3, <1>4, <1>8, <2>1 DEF History, Waiting, SaidOk
<1>9. QED BY <1>4, <1>7, <1>8

(* A handler that polls answers Ok once the global store has the status it *)
(* waits for, and that was the newest put.                                 *)
LEMMA AnsweredHistory ==
  ASSUME Base, [ProgramsNext]_allVars, NEW d \in Clients, History(d), GetsOn(d),
         task[d].pc = "poll", task'[d].pc = "reply", task'[d].reply = "Ok"
  PROVE  History(d)'
<1>1. PICK i : i = task[d].inst
  OBVIOUS
<1>2. /\ task'[d].req = task[d].req /\ task'[d].inst = i
      /\ Single1(d)
      /\ \A g \in global : g.uuid = i => g.status = Target(task[d].op)
  BY <1>1 DEF GetsOn
<1>3. PICK g \in global : g.uuid = i /\ g.status = Target(task[d].op)
  BY <1>1, <1>2 DEF Single1, get_instance
<1>4. Stays(i)
  BY <1>1, InstStays
<1>5. task[d].op = task[d].req \/ task[d].req = "undefine"
  BY DEF Base, Known, ReqKnown, Busy
<1>6. ASSUME NEW st, st = Target(task[d].op), Newest(i, st)
      PROVE  SeenAll(i, st)
  <2>1. \A n \in Nodes : ~Queued(n, i)
    BY <1>3, <1>6 DEF Newest
  <2>2. QED BY <1>2, <1>6, <2>1 DEF SeenAll
<1>7. /\ task[d].req = "define" => SeenAll(i, "DEFINED")
      /\ task[d].req = "configure" => SeenAll(i, "CONFIGURED")
      /\ task[d].req = "stop" => Absent(i, "DEFINED")
      /\ task[d].req = "clean" => SeenAll(i, "DEFINED") /\ LocalAll(i, "DEFINED")
      /\ task[d].req # "undefine"
  BY <1>1, <1>5, <1>6 DEF History, Target
<1>8. /\ task[d].req = "define" => SeenAll(i, "DEFINED")'
      /\ task[d].req = "configure" => SeenAll(i, "CONFIGURED")'
      /\ task[d].req = "stop" => Absent(i, "DEFINED")'
      /\ task[d].req = "clean" =>
           SeenAll(i, "DEFINED")' /\ LocalAll(i, "DEFINED")'
  BY <1>4, <1>7, StaysParts
<1>9. QED BY <1>2, <1>7, <1>8 DEF History, Waiting, SaidOk

(* undefine_fdu removes the local record when nothing of it is queued.     *)
LEMMA LocalRemovedHistory ==
  ASSUME Base, [ProgramsNext]_allVars, NEW d \in Clients, History(d), GoesOn(d),
         task[d].pc = "lock", task'[d].pc = "remove"
  PROVE  History(d)'
<1>1. PICK i : i = task[d].inst
  OBVIOUS
<1>2. TypeInv /\ Owned /\ Identified
  BY DEF Base, Identified
<1>3. GetsOn(d)
  BY <1>2, GoesOnForm
<1>4. task'[d].inst = i /\ task[d].req = "undefine"
  BY <1>1, <1>3 DEF GetsOn, Entered, Base, Known, ReqKnown, Busy
<1>5. NoneQueued(i)'
  <2>1. NoneQueued(i)
    BY <1>1, <1>4 DEF History, Waiting, SeenAll, NoneQueued
  <2>2. Stays(i)
    BY <1>1, InstStays
  <2>3. QED BY <2>1, <2>2, StaysParts
<1>6. NoneLocal(i)'
  <2>1. Plugin(d)
    BY <1>3 DEF GoesOn, Handler, Forwarded, GetDescriptor, Poll, RemoveGlobal,
                RemoveFdu, Arrive
  <2>2. PICK r \in FDURecord : Undefined(d, r)
    BY <1>2, <2>1, PluginEffect DEF Plugin, Moved, Wrote
  <2>3. PICK n \in Nodes : /\ n = task[d].agent /\ r \in local[n] /\ r.uuid = i
                           /\ local' = [local EXCEPT ![n] = remove_instance(@, r)]
    BY <1>1, <2>2 DEF Undefined, LocalRemoved
  <2>4. /\ local'[n] = {s \in local[n] : ~SamePath(s, r)}
        /\ \A m \in Nodes \ {n} : local'[m] = local[m]
    BY <1>2, <2>3 DEF TypeInv, TypeOK, remove_instance
  <2>5. \A m \in Nodes : \A s \in local[m] :
          s.uuid = i => SamePath(s, r) /\ m = n
    BY <1>2, <2>3, OnePlace
  <2>6. QED BY <2>4, <2>5 DEF NoneLocal
<1>7. QED
  BY <1>4, <1>5, <1>6 DEF History, Waiting, SaidOk, NoneQueued, NoneLocal

(* Its handler then removes the global record, the last one.               *)
LEMMA GlobalRemovedHistory ==
  ASSUME Base, [ProgramsNext]_allVars, NEW d \in Clients, History(d), GetsOn(d),
         task[d].pc = "remove", task'[d].pc = "reply", task'[d].reply = "Ok"
  PROVE  History(d)'
<1>1. PICK i : i = task[d].inst
  OBVIOUS
<1>0. Typed /\ Typed' /\ Owned' /\ UuidsFresh /\ Apart
  <2>1. Typed /\ Apart
    BY DEF Base, Core, Typed
  <2>2. Typed'
    BY <2>1, TypedStep
  <2>3. QED BY <2>1, <2>2 DEF Typed, Identified
<1>2. /\ task'[d].inst = i /\ task'[d].req = "undefine" /\ Others(d)
      /\ Single1(d)
      /\ \A g \in global' : g \in global /\ g.uuid # i
  <2>1. task[d].req = "undefine"
    BY DEF Base, Known, ReqKnown
  <2>2. QED BY <1>1, <2>1 DEF GetsOn
<1>3. PICK g \in global : g.uuid = i
  BY <1>1, <1>2 DEF Single1, get_instance
<1>4. i \in used /\ i # None
  <2>1. i \in used
    BY <1>0, <1>3, AllRecordsMembers DEF UuidsFresh
  <2>2. used \subseteq Instances
    BY DEF Base, Identified, TypeInv, TypeOK
  <2>3. QED BY <2>1, <2>2, NoneAssumption
<1>5. i \in used'
  <2>1. used \subseteq used'
    <3>1. ASSUME NEW c \in Clients, NEW r \in FDURecord, Wrote(c, r)
          PROVE  used \subseteq used'
      BY <3>1 DEF Wrote
    <3>2. StoreKept => used \subseteq used'
      BY DEF StoreKept, StoresSame, PutForwarded, LocalRemoved, GlobalRemoved, Cut
    <3>3. QED BY <1>0, <3>1, <3>2, StoreShape DEF Typed
  <2>2. QED BY <1>4, <2>1
<1>6. NoneQueued(i)' /\ NoneLocal(i)'
  <2>1. NoneQueued(i) /\ NoneLocal(i)
    BY <1>1, <1>2 DEF History, GetsOn, NoneQueued, NoneLocal
  <2>2. Stays(i)
    BY <1>1, InstStays
  <2>3. QED BY <2>1, <2>2, StaysParts
<1>7. \A c \in Clients : \A s \in task'[c].snap : s.uuid # i
  <2>1. \A c \in Clients : \A s \in task'[c].snap :
          task'[c].pc = "lock" /\ s.uuid = task'[c].inst
    BY <1>0 DEF Owned
  <2>2. \A c \in Clients : task'[c].pc = "lock" => task[c].inst # i /\ c # d
    BY <1>0, <1>1, <1>2, <1>4 DEF Apart
  <2>3. QED BY <1>2, <2>1, <2>2 DEF Others
<1>8. \A x \in AllRecords' : x.uuid # i
  <2>1. \A n \in Nodes : \A k \in 1 .. Len(chan'[n]) : chan'[n][k].uuid # i
    BY <1>6 DEF NoneQueued, Queued
  <2>2. \A n \in Nodes : \A x \in local'[n] : x.uuid # i
    BY <1>6 DEF NoneLocal
  <2>3. QED BY <1>2, <1>7, <2>1, <2>2 DEF AllRecords
<1>9. Records(i)' = {}
  BY <1>8 DEF Records
<1>10. QED BY <1>2, <1>5, <1>9 DEF History, Waiting, SaidOk

-----------------------------------------------------------------------------
(* What a plugin writes                                                    *)

LEMMA SeenElsewhere ==
  ASSUME NEW i, NEW st, NEW other, SeenAll(i, st), other # st
  PROVE  Absent(i, other)
BY DEF SeenAll, Absent, Queued

(* The put of record r is the newest of its instance.                      *)
LEMMA WroteFacts ==
  ASSUME Base, NEW c \in Clients, NEW r \in FDURecord, Wrote(c, r),
         NEW i, i = r.uuid
  PROVE  /\ LocalAll(i, r.status)'
         /\ \A st : Absent(i, st) /\ r.status # st => Absent(i, st)'
         /\ task[c].pc = "define" \/ Absent(i, r.status) =>
              Newest(i, r.status)'
<1>1. PICK n \in Nodes : /\ n = task[c].agent /\ LocalPut(n, r)
                         /\ UNCHANGED global
  BY DEF Wrote
<1>2. TypeInv /\ Identified /\ UuidsFresh
  BY DEF Base, Identified
<1>3. PICK L \in Nat : L = Len(chan[n])
  BY <1>1, <1>2, PutElements
<1>4. /\ \A m \in Nodes \ {n} : local'[m] = local[m] /\ chan'[m] = chan[m]
      /\ local'[n] = {s \in local[n] : ~SamePath(s, r)} \cup {r}
      /\ Len(chan'[n]) = L + 1
      /\ \A k \in 1 .. L : chan'[n][k] = chan[n][k]
      /\ chan'[n][L + 1] = r
  BY <1>1, <1>2, <1>3, PutElements
<1>5. ASSUME NEW k \in 1 .. Len(chan'[n])
      PROVE  (k \in 1 .. Len(chan[n]) /\ chan'[n][k] = chan[n][k]) \/ k = L + 1
  BY <1>3, <1>4
<1>6. \A m \in Nodes : \A x \in local[m] : x.uuid = i => m = n /\ SamePath(x, r)
  <2>1. CASE task[c].pc = "define"
    <3>1. i \notin used
      BY <2>1 DEF Wrote, Base, Identified, UuidsFresh
    <3>2. \A x \in AllRecords : x.uuid # i
      BY <1>2, <3>1 DEF UuidsFresh
    <3>3. QED BY <3>2, AllRecordsMembers
  <2>2. CASE task[c].pc # "define"
    <3>1. PICK s \in task[c].snap : task[c].pc = "lock" /\ SameIdentity(r, s)
      BY <2>2 DEF Wrote
    <3>2. s \in local[n]
      BY <1>1, <3>1 DEF Base, Locked, LockedOn
    <3>3. \A m \in Nodes : \A x \in local[m] :
            x.uuid = s.uuid => SamePath(x, s) /\ m = n
      BY <1>2, <3>2, OnePlace
    <3>4. QED BY <3>1, <3>3 DEF SameIdentity, SamePath
  <2>3. QED BY <2>1, <2>2
<1>7. LocalAll(i, r.status)'
  BY <1>4, <1>6 DEF LocalAll
<1>8. ASSUME NEW st, Absent(i, st), r.status # st
      PROVE  Absent(i, st)'
  <2>1. \A m \in Nodes : \A k \in 1 .. Len(chan'[m]) :
          chan'[m][k].uuid = i => chan'[m][k].status # st
    <3>1. ASSUME NEW k \in 1 .. Len(chan'[n]), chan'[n][k].uuid = i
          PROVE  chan'[n][k].status # st
      BY <1>4, <1>5, <1>8, <3>1 DEF Absent
    <3>2. QED BY <1>4, <1>8, <3>1 DEF Absent
  <2>2. QED BY <1>1, <1>8, <2>1 DEF Absent
<1>9. ASSUME task[c].pc = "define" \/ Absent(i, r.status)
      PROVE  Newest(i, r.status)'
  <2>1. Absent(i, r.status)
    <3>1. CASE task[c].pc = "define"
      <4>1. i \notin used
        BY <3>1 DEF Wrote, Base, Identified, UuidsFresh
      <4>2. \A x \in AllRecords : x.uuid # i
        BY <1>2, <4>1 DEF UuidsFresh
      <4>3. QED BY <4>2, AllRecordsMembers DEF Absent
    <3>2. QED BY <1>9, <3>1
  <2>2. ASSUME NEW m \in Nodes, NEW k \in 1 .. Len(chan'[m]),
               NEW j \in 1 .. Len(chan'[m]),
               chan'[m][k].uuid = i, chan'[m][k].status = r.status
        PROVE  j <= k
    <3>1. m = n
      BY <1>4, <2>1, <2>2 DEF Absent
    <3>2. k = L + 1
      BY <1>5, <2>1, <2>2, <3>1 DEF Absent
    <3>3. QED BY <1>3, <1>4, <3>1, <3>2
  <2>3. \A g \in global' : ~(g.uuid = i /\ g.status = r.status)
    BY <1>1, <2>1 DEF Absent
  <2>4. QED BY <2>2, <2>3 DEF Newest
<1>10. QED BY <1>7, <1>8, <1>9

LEMMA WroteHistory ==
  ASSUME Base, Histories, [ProgramsNext]_allVars, NEW d \in Clients, GoesOn(d),
         task'[d].pc = "poll", ~SameTask(d)
  PROVE  History(d)'
<1>1. TypeInv /\ Owned /\ Identified /\ UuidsFresh
  BY DEF Base, Identified
<1>2. GetsOn(d)
  BY <1>1, GoesOnForm
<1>3. task[d].pc \in {"define", "lock"}
  BY <1>2 DEF GetsOn, Entered
<1>4. Plugin(d)
  BY <1>3 DEF GoesOn, Handler, Forwarded, GetDescriptor, Poll,
              RemoveGlobal, RemoveFdu, Arrive
<1>5. PICK r \in FDURecord : Wrote(d, r)
  BY <1>1, <1>3, <1>4, PluginEffect, <1>2 DEF Plugin, Moved, Undefined
<1>6. PICK i : i = r.uuid
  OBVIOUS
<1>7. /\ task[d].inst = i /\ task'[d].inst = i
      /\ task'[d].req = task[d].req
      /\ task[d].op \in Polled /\ r.status = Target(task[d].op)
  BY <1>2, <1>5, <1>6 DEF Wrote, GetsOn
<1>8. \/ task[d].op = task[d].req
      \/ task[d].op = "clean" /\ task[d].req = "undefine"
  BY <1>3 DEF Base, Known, ReqKnown, Busy
<1>9. History(d)
  BY DEF Histories
<1>10. task[d].pc = "lock" =>
         \E n \in Nodes : \E s \in local[n] :
           s.uuid = i /\ s.status \in Required(task[d].op)
  BY <1>5, <1>7 DEF Wrote, Base, Locked, LockedOn
<1>11. task[d].op # "define" => task[d].pc = "lock" /\ Waiting(d)
  BY <1>5 DEF Wrote, Waiting
<1>12. task[d].op = "define" => task[d].pc = "define"
  BY <1>5 DEF Wrote
<1>13. CASE task[d].req = "define"
  <2>1. Newest(i, "DEFINED")'
    BY <1>5, <1>6, <1>7, <1>8, <1>12, <1>13, WroteFacts DEF Target
  <2>2. QED BY <1>7, <1>13, <2>1 DEF History, Waiting, SaidOk
<1>14. CASE task[d].req = "configure"
  <2>1. SeenAll(i, "DEFINED") /\ r.status = "CONFIGURED"
    BY <1>7, <1>8, <1>9, <1>11, <1>14 DEF History, Target
  <2>2. Absent(i, r.status)
    BY <2>1, SeenElsewhere
  <2>3. Newest(i, "CONFIGURED")'
    BY <1>5, <1>6, <2>1, <2>2, WroteFacts
  <2>4. QED BY <1>7, <1>14, <2>3 DEF History, Waiting, SaidOk
<1>15. CASE task[d].req = "stop"
  <2>1. task[d].op = "stop" /\ r.status = "CONFIGURED"
    BY <1>7, <1>8, <1>15 DEF Target
  <2>2. PICK n \in Nodes : \E s \in local[n] : s.uuid = i /\ s.status = "RUNNING"
    BY <1>10, <1>11, <2>1 DEF Required
  <2>3. Absent(i, "DEFINED")
    BY <2>2 DEF Histories
  <2>4. Absent(i, "DEFINED")'
    BY <1>5, <1>6, <2>1, <2>3, WroteFacts
  <2>5. QED BY <1>7, <1>15, <2>4 DEF History, Waiting, SaidOk
<1>16. CASE task[d].req = "clean"
  <2>1. Absent(i, "DEFINED") /\ r.status = "DEFINED"
    BY <1>7, <1>8, <1>9, <1>11, <1>16 DEF History, Target
  <2>2. Newest(i, "DEFINED")' /\ LocalAll(i, "DEFINED")'
    BY <1>5, <1>6, <2>1, WroteFacts
  <2>3. QED BY <1>7, <1>16, <2>2 DEF History, Waiting, SaidOk
<1>17. CASE task[d].req = "undefine"
  <2>1. task[d].op = "clean"
    BY <1>7, <1>8, <1>17 DEF Polled
  <2>2. LocalAll(i, "DEFINED")
    BY <1>7, <1>9, <1>11, <1>17, <2>1 DEF History
  <2>3. PICK n \in Nodes : \E s \in local[n] :
          s.uuid = i /\ s.status = "CONFIGURED"
    BY <1>10, <1>11, <2>1 DEF Required
  <2>4. QED BY <2>2, <2>3 DEF LocalAll
<1>18. CASE task[d].req \notin {"define", "configure", "stop", "clean", "undefine"}
  BY <1>7, <1>18, <1>2 DEF History, Waiting
<1>19. QED BY <1>13, <1>14, <1>15, <1>16, <1>17, <1>18

(* The request of d gets on.                                               *)
LEMMA GoesOnHistory ==
  ASSUME Base, Histories, [ProgramsNext]_allVars, NEW d \in Clients, GoesOn(d),
         ~SameTask(d)
  PROVE  History(d)'
<1>1. TypeInv /\ Owned
  BY DEF Base, Identified
<1>2. GetsOn(d) /\ History(d)
  BY <1>1, GoesOnForm DEF Histories
<1>3. PICK i : i = task[d].inst
  OBVIOUS
<1>4. /\ task'[d].inst = i /\ task'[d].req = task[d].req
      /\ task[d].pc = "offload" => task[d].req = "offload"
  BY <1>2, <1>3 DEF GetsOn, Base, Known, ReqKnown
<1>5. CASE Waiting(d)' /\ Waiting(d)
  <2>1. Stays(i)
    BY <1>3, <1>5, InstStays DEF Waiting
  <2>2. QED
    BY <1>2, <1>3, <1>4, <1>5, <2>1, StaysParts DEF History, Waiting, SaidOk
<1>6. CASE task'[d].pc = "poll"
  BY <1>6, WroteHistory
<1>7. CASE task[d].pc = "lock" /\ task'[d].pc = "remove"
  BY <1>2, <1>7, LocalRemovedHistory
<1>8. CASE task'[d].pc = "reply" /\ task'[d].reply # "Ok"
  BY <1>8, PlainHistory
<1>9. CASE task[d].pc = "offload"
  BY <1>4, <1>9, PlainHistory
<1>10. CASE task[d].pc = "poll" /\ task'[d].pc = "reply" /\ task'[d].reply = "Ok"
  BY <1>2, <1>10, AnsweredHistory
<1>11. CASE task[d].pc = "remove" /\ task'[d].pc = "reply" /\ task'[d].reply = "Ok"
  BY <1>2, <1>11, GlobalRemovedHistory
<1>12. QED
  BY <1>2, <1>5, <1>6, <1>7, <1>8, <1>9, <1>10, <1>11
     DEF GetsOn, Entered, Waiting

LEMMA ActsHistory ==
  ASSUME Base, Histories, [ProgramsNext]_allVars, NEW d \in Clients, Acts(d),
         ~SameTask(d)
  PROVE  History(d)'
<1>0. TypeInv /\ TaskKnows /\ ProgramsTypeOK /\ Known /\ History(d)
  BY DEF Base, Identified, TypeInv, Histories
<1>1. ASSUME NEW n \in Nodes, NEW f \in Fdus, InstantiateFdu(d, n, f)
      PROVE  History(d)'
  <2>1. \/ task'[d].pc = "define"
        \/ task'[d].pc = "reply" /\ task'[d].reply # "Ok"
    BY <1>0, <1>1, DefineForm DEF InstantiateFdu
  <2>2. QED BY <2>1, PlainHistory
<1>2. ASSUME NEW n \in Nodes, NEW f \in Fdus, DeleteFdu(d, n, f)
      PROVE  History(d)'
  <2>1. task'[d].req = "offload"
    BY <1>0, <1>2, OffloadForm DEF DeleteFdu
  <2>2. QED BY <2>1, PlainHistory
<1>3. ASSUME NEW n \in Nodes, NEW i \in Instances, DeleteInstance(d, n, i)
      PROVE  History(d)'
  <2>1. /\ task'[d].req = "stop"
        /\ \/ task'[d].pc \in {"descriptor", "forward"}
           \/ task'[d].pc = "reply" /\ task'[d].reply # "Ok"
    BY <1>0, <1>3, RequestForm DEF DeleteInstance, InstanceOps
  <2>2. QED BY <2>1, PlainHistory
<1>4. CASE Finish(d)
  <2>1. task'[d].pc = "idle"
    BY <1>0, <1>4 DEF Finish, Return, IdleTask, TypeInv, TypeOK
  <2>2. QED BY <2>1, PlainHistory
<1>5. CASE Forget(d)
  <2>1. task'[d].pc = "idle"
    BY <1>0, <1>5, ForgetForm DEF IdleTask
  <2>2. QED BY <2>1, PlainHistory
<1>6. CASE PluginDies(d)
  <2>1. task[d].pc # "reply" => task[d].reply = None
    BY <1>0 DEF Known, ReqKnown
  <2>2. task'[d].pc = "reply" /\ task'[d].reply = None
    BY <1>0, <1>6, <2>1, PluginDiesForm DEF PluginDies, AtPlugin
  <2>3. None # "Ok"
    BY ProgramAssumption DEF Replies
  <2>4. QED BY <2>2, <2>3, PlainHistory
<1>7. QED
  BY <1>0, <1>1, <1>2, <1>3, <1>4, <1>5, <1>6, NextCallHistory, GoesOnHistory
     DEF Acts

(* A running instance has been started, after a configure that had been    *)
(* answered: nothing of it is left that is DEFINED.                        *)
LEMMA RunningStep ==
  ASSUME Base, Histories, [ProgramsNext]_allVars,
         NEW n \in Nodes, NEW x \in local'[n], x.status = "RUNNING"
  PROVE  Absent(x.uuid, "DEFINED")'
<1>0. TypeInv /\ Identified
  BY DEF Base, Identified
<1>1. PICK i : i = x.uuid
  OBVIOUS
<1>2. ASSUME NEW c \in Clients, NEW r \in FDURecord, Wrote(c, r), r.uuid = i
      PROVE  Absent(i, "DEFINED")'
  <2>1. r.status = "RUNNING"
    <3>1. LocalAll(i, r.status)'
      BY <1>2, WroteFacts
    <3>2. QED BY <1>1, <3>1 DEF LocalAll
  <2>2. task[c].op = "start" /\ task[c].pc = "lock" /\ task[c].inst = i
    BY <1>2, <2>1 DEF Wrote, Polled, Target
  <2>3. task[c].req = "start"
    BY <2>2 DEF Base, Known, ReqKnown, Busy
  <2>4. SeenAll(i, "CONFIGURED")
    BY <2>2, <2>3 DEF Histories, History, Waiting
  <2>5. Absent(i, "DEFINED")
    BY <2>4, SeenElsewhere
  <2>6. QED BY <1>2, <2>1, <2>5, WroteFacts
<1>3. ASSUME \A c \in Clients : \A r \in FDURecord : Wrote(c, r) => r.uuid # i
      PROVE  Absent(i, "DEFINED")'
  <2>1. x \in local[n]
    <3>1. CASE \A m \in Nodes : \A r \in local'[m] : r \in local[m]
      BY <3>1
    <3>2. ASSUME NEW c \in Clients, NEW r \in FDURecord, Wrote(c, r)
          PROVE  x \in local[n]
      <4>1. PICK m \in Nodes : LocalPut(m, r)
        BY <3>2 DEF Wrote
      <4>2. /\ \A a \in Nodes \ {m} : local'[a] = local[a]
            /\ local'[m] = {s \in local[m] : ~SamePath(s, r)} \cup {r}
        BY <1>0, <4>1, PutElements
      <4>3. r # x
        BY <1>1, <1>3, <3>2
      <4>4. QED BY <4>2, <4>3
    <3>3. QED BY <1>0, <3>1, <3>2, Writes
  <2>2. Absent(i, "DEFINED")
    BY <1>1, <2>1 DEF Histories
  <2>3. Stays(i)
    BY <1>0, <1>3, StoreShape, StaysKept
  <2>4. QED BY <2>2, <2>3, StaysParts
<1>4. QED BY <1>1, <1>2, <1>3

LEMMA HistoriesStep ==
  Base /\ Histories /\ [ProgramsNext]_allVars => Histories'
<1> SUFFICES ASSUME Base, Histories, [ProgramsNext]_allVars PROVE Histories'
  OBVIOUS
<1>0. Typed
  BY DEF Base, Typed
<1>1. ASSUME NEW d \in Clients PROVE History(d)'
  <2>1. CASE SameTask(d)
    BY <2>1, HistoryKept DEF Histories
  <2>2. CASE ~SameTask(d)
    <3>1. PICK c \in Clients : Acts(c)
      BY <1>0, <2>2, TaskShape
    <3>2. c = d
      BY <1>0, <2>2, <3>1, ActsAlone DEF Others, SameTask
    <3>3. QED BY <2>2, <3>1, <3>2, ActsHistory
  <2>3. QED BY <2>1, <2>2
<1>2. \A n \in Nodes : \A r \in local'[n] :
        r.status = "RUNNING" => Absent(r.uuid, "DEFINED")'
  BY RunningStep
<1>3. QED BY <1>1, <1>2 DEF Histories

-----------------------------------------------------------------------------
(* What has been removed is gone                                           *)

LEMMA GoneStep ==
  Base /\ Histories /\ Gone /\ [ProgramsNext]_allVars => Gone'
<1> SUFFICES ASSUME Base, Histories, Gone, [ProgramsNext]_allVars PROVE Gone'
  OBVIOUS
<1>0. Typed /\ ProgramsTypeOK /\ deleted \subseteq used
  BY ProgTypeParts DEF Base, Typed, ProgTypes
<1>1. ASSUME NEW i \in deleted PROVE Records(i)' = {}
  BY <1>0, <1>1, GoneStays DEF Gone, DeletedForGood
<1>2. ASSUME NEW c \in Clients, Finish(c), NEW i \in deleted', i \notin deleted
      PROVE  Records(i)' = {}
  <2>1. /\ task[c].pc = "reply" /\ task[c].reply = "Ok"
        /\ Len(prog[c].calls) = 1 /\ Head(prog[c].calls) = "undefine"
        /\ i = task[c].inst
    BY <1>2 DEF Finish, Return
  <2>2. prog[c] # NoProgram
    BY <2>1 DEF NoProgram
  <2>3. task[c].req = "undefine" /\ SaidOk(c)
    BY <1>0, <2>1, <2>2, ProgTypeParts DEF ProgKnown, SaidOk
  <2>4. Records(i) = {} /\ i \in used
    BY <2>1, <2>3 DEF Histories, History
  <2>5. QED BY <1>0, <2>4, GoneStays
<1>3. ASSUME \A c \in Clients : ~Finish(c)
      PROVE  deleted' = deleted
  <2>1. CASE Nobody
    BY <2>1 DEF Nobody, DefineFdu, Boot, Register, Admit, Forward, allVars,
                userVars
  <2>2. ASSUME NEW c \in Clients, Wrapped(c)
        PROVE  deleted' = deleted
    BY <1>3, <2>2 DEF Wrapped, InstantiateFdu, DeleteFdu, DeleteInstance,
                      TimeOut, Handler, Forwarded, Plugin, userVars
  <2>3. ASSUME NEW c \in Clients, NextCall(c) \/ PluginDies(c) \/ Forget(c)
        PROVE  deleted' = deleted
    BY <2>3 DEF NextCall, PluginDies, Forget, userVars
  <2>4. ASSUME NEW n \in Nodes, Crash(n) \/ Subscribe(n)
        PROVE  deleted' = deleted
    BY <2>4 DEF Crash, Subscribe, userVars
  <2>5. QED BY <2>1, <2>2, <2>3, <2>4, StepCases
<1>4. ASSUME NEW i \in deleted' PROVE Records(i)' = {}
  BY <1>1, <1>2, <1>3, <1>4
<1>5. QED BY <1>4 DEF Gone, DeletedForGood

(* An instance whose delete_fdu_instance (fog05-rest/src/main.rs:195, and  *)
(* fim.rs:375 of fosctl) has been answered without an error leaves no copy *)
(* in any store or queue, and none comes back, through any crash: the      *)
(* answer to its clean_fdu came after its newest put had reached the       *)
(* global store.                                                           *)
THEOREM DeletedForGoodHolds ==
  ASSUME Exclusive
  PROVE  ProgramsSpec => []DeletedForGood
<1>1. ProgramsInit => Histories /\ Gone
  <2> SUFFICES ASSUME ProgramsInit PROVE Histories /\ Gone
    OBVIOUS
  <2>1. \A d \in Clients : task[d].pc = "idle"
    BY DEF ProgramsInit, IdleTask
  <2>2. \A n \in Nodes : local[n] = {}
    BY DEF ProgramsInit
  <2>3. \A d \in Clients : History(d)
    BY <2>1 DEF History, Waiting, SaidOk
  <2>4. QED BY <2>2, <2>3 DEF Histories, Gone, DeletedForGood, ProgramsInit
<1>2. Base /\ Histories /\ Gone /\ [ProgramsNext]_allVars => (Histories /\ Gone)'
  BY HistoriesStep, GoneStep
<1>3. Gone => DeletedForGood
  BY DEF Gone
<1>4. QED BY <1>1, <1>2, <1>3, BaseAlways, PTL DEF ProgramsSpec
=============================================================================
