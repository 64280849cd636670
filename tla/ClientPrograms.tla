---------------------------- MODULE ClientPrograms ----------------------------
(***************************************************************************)
(* The programs through which users reach the system - the REST server,    *)
(* fosctl and FDUApi - on top of the agents and plugins of FduLifecycle,   *)
(* with agents that crash and start again.                                 *)
(*                                                                         *)
(* A program picks an entry point among the nodes of the global store and  *)
(* sends it its calls one after the other; the first one that fails ends   *)
(* the program with an error, and nothing is undone.                       *)
(*                                                                         *)
(* A crash of an agent ends its handlers, drops their read guards, the     *)
(* puts its monitoring task has not forwarded yet and the registrations of *)
(* its plugins.  Its plugin is another process: what it was asked to do    *)
(* goes on, until that process is replaced by one that finds the new       *)
(* agent.  The stores outlive the agents.  The servers of a new agent      *)
(* answer before its monitoring task has subscribed to the local store.    *)
(***************************************************************************)
EXTENDS FduLifecycle

CONSTANTS
  Creators,     \* clients that create instances
  Crashable,    \* nodes whose agent may crash
  MaxCrashes    \* a bound: how often an agent crashes

ASSUME ProgramAssumption ==
  /\ Creators \subseteq Clients
  /\ Crashable \subseteq Nodes
  /\ MaxCrashes \in Nat
  /\ None \notin Replies

VARIABLES
  prog,       \* the program each client runs
  agent,      \* each node's agent
  orphans,    \* clients whose handler died with its agent
  crashes,    \* the number of crashes so far
  reported,   \* history: instances that a program has reported as created
  deleted,    \* history: instances that a program has reported as removed
  disturbed,  \* history: instances with a put or a request cut short
  deafened,   \* history: instances with a put that nobody had subscribed to
  overtaken   \* history: instances defined while their descriptor was removed

faultVars == <<agent, orphans, crashes>>
userVars == <<reported, deleted, overtaken>>
lossVars == <<disturbed, deafened>>
allVars == <<vars, prog, faultVars, userVars, lossVars>>

(* main.rs of fog05-rest, fim.rs of fosctl, api.rs: the calls a program    *)
(* makes.  The schedule_fdu of instantiate_fdu is a define_fdu at a node   *)
(* of the system's choice.                                                 *)
instantiate_fdu == <<"define", "configure", "start">>

(* Mutant: delete_fdu_instance leaves the cleaning to undefine_fdu.         *)
MutDeleteInstance == <<"stop", "undefine">>

delete_fdu_instance == <<"stop", "clean", "undefine">>

delete_fdu == <<"offload">>

(* A program: its entry point and the calls it still has to make, the one  *)
(* in progress first.                                                      *)
Programs == [entry : Nodes, calls : {instantiate_fdu, delete_fdu_instance,
                                     delete_fdu, <<"configure", "start">>,
                                     <<"start">>, <<"clean", "undefine">>,
                                     <<"undefine">>}]
NoProgram == [entry |-> None, calls |-> <<>>]

(* Types; a program waits for the answer to the first of its calls, unless *)
(* it has ended before; only instances that exist are reported.            *)
ProgramsTypeOK ==
  /\ TypeOK
  /\ prog \in [Clients -> Programs \cup {NoProgram}]
  /\ agent \in [Nodes -> {"down", "deaf", "up"}]
  /\ orphans \subseteq Clients
  /\ crashes \in 0 .. MaxCrashes
  /\ reported \subseteq used /\ deleted \subseteq used
  /\ disturbed \subseteq Instances /\ deafened \subseteq disturbed
  /\ overtaken \subseteq Instances
  /\ \A c \in orphans : prog[c] = NoProgram /\ task[c].pc # "idle"
  /\ \A c \in Clients : prog[c] # NoProgram => task[c].req = Head(prog[c].calls)

(* The agents are up, with their plugins, and nobody has done anything yet. *)
ProgramsInit ==
  /\ catalog = {} /\ global = {} /\ used = {}
  /\ local = [n \in Nodes |-> {}]
  /\ chan = [n \in Nodes |-> <<>>]
  /\ netns = [n \in Nodes |-> {}]
  /\ hypervisors = [n \in Nodes |-> TRUE]
  /\ writer = [n \in Nodes |-> "none"]
  /\ task = [c \in Clients |-> IdleTask]
  /\ prog = [c \in Clients |-> NoProgram]
  /\ agent = [n \in Nodes |-> "up"]
  /\ orphans = {} /\ crashes = 0
  /\ reported = {} /\ deleted = {}
  /\ disturbed = {} /\ deafened = {} /\ overtaken = {}

-----------------------------------------------------------------------------
(* Programs                                                                *)

Idle(c) == prog[c] = NoProgram /\ task[c].pc = "idle"

Begin(c, n, calls) ==
  prog' = [prog EXCEPT ![c] = [entry |-> n, calls |-> calls]]

(* onboard_fdu through any entry point.                                    *)
DefineFdu(f) ==
  /\ \E n \in Nodes : agent[n] # "down"
  /\ onboard_fdu(f)
  /\ UNCHANGED <<prog, faultVars, userVars, lossVars>>

(* An offload_fdu of f is past its check of the instances.                 *)
Removing(f) ==
  \E c \in Clients \ orphans : task[c].pc = "offload" /\ task[c].fdu = f

(* Instances of f whose define_fdu has not been answered yet.              *)
InDefinition(f) ==
  {task[c].inst : c \in {d \in Clients : /\ task[d].op = "define"
                                        /\ task[d].pc \in {"define", "poll"}
                                        /\ task[d].fdu = f}}

(* The descriptor is found and the first call made.                        *)
InstantiateFdu(c, n, f) ==
  /\ c \in Creators
  /\ Idle(c)
  /\ agent[n] # "down"
  /\ f \in catalog
  /\ LagBounded /\ NetNsLeft
  /\ \E m \in Nodes : agent[m] # "down" /\ define_fdu(c, m, f)
  /\ Begin(c, n, instantiate_fdu)
  /\ overtaken' = IF Removing(f) THEN overtaken \cup ({task'[c].inst} \ {None})
                                ELSE overtaken
  /\ UNCHANGED <<faultVars, reported, deleted, lossVars>>

DeleteInstance(c, n, i) ==
  /\ Idle(c)
  /\ agent[n] # "down"
  /\ Has(global, i)
  /\ Request(c, "stop", n, i)
  /\ Begin(c, n, delete_fdu_instance)
  /\ UNCHANGED <<faultVars, userVars, lossVars>>

(* Mutant: the instances are not looked for.                               *)
MutDeleteFdu(c, n, f) ==
  /\ Idle(c)
  /\ agent[n] # "down"
  /\ f \in catalog
  /\ task' = [task EXCEPT ![c] =
       [NewTask("offload", None, None, f) EXCEPT !.pc = "offload"]]
  /\ Begin(c, n, delete_fdu)
  /\ overtaken' = overtaken \cup InDefinition(f)
  /\ UNCHANGED <<storeVars, lockVars, faultVars, reported, deleted, lossVars>>

DeleteFdu(c, n, f) ==
  /\ Idle(c)
  /\ agent[n] # "down"
  /\ f \in catalog
  /\ offload_fdu(c, f)
  /\ Begin(c, n, delete_fdu)
  /\ overtaken' = overtaken \cup InDefinition(f)
  /\ UNCHANGED <<faultVars, reported, deleted, lossVars>>

(* The next call is made at the same entry point, after an Ok.             *)
NextCall(c) ==
  /\ prog[c] # NoProgram
  /\ task[c].pc = "reply" /\ task[c].reply = "Ok"
  /\ Len(prog[c].calls) > 1
  /\ LET t == prog[c].calls[2]
     IN Enter(c, NewTask(t, prog[c].entry, task[c].inst, None), prog[c].entry)
  /\ prog' = [prog EXCEPT ![c].calls = Tail(@)]
  /\ UNCHANGED <<storeVars, lockVars, faultVars, userVars, lossVars>>

(* Mutant: the answer is not looked at.                                    *)
MutFinish(c) ==
  /\ c \notin orphans
  /\ Return(c)
  /\ prog' = [prog EXCEPT ![c] = NoProgram]
  /\ reported' = reported \cup {task[c].inst}
  /\ UNCHANGED <<deleted, overtaken, faultVars, lossVars>>

(* The program ends with the answer to its last call or with an error.     *)
(* The answer to a call nobody waits for any more is dropped.              *)
Finish(c) ==
  LET ok == task[c].reply = "Ok" /\ Len(prog[c].calls) = 1
  IN /\ c \notin orphans
     /\ Return(c)
     /\ task[c].reply # "Ok" \/ Len(prog[c].calls) <= 1
     /\ prog' = [prog EXCEPT ![c] = NoProgram]
     /\ reported' = IF ok /\ Head(prog[c].calls) = "start"
                      THEN reported \cup {task[c].inst} ELSE reported
     /\ deleted' = IF ok /\ Head(prog[c].calls) = "undefine"
                     THEN deleted \cup {task[c].inst} ELSE deleted
     /\ UNCHANGED <<overtaken, faultVars, lossVars>>

(* A forwarded call times out at the entry point: the program ends with an *)
(* error, and the owner's handler goes on.                                 *)
TimeOut(c) ==
  /\ ForwardTimeout(c)
  /\ prog' = [prog EXCEPT ![c] = NoProgram]
  /\ disturbed' = disturbed \cup ({task[c].inst} \ {None})
  /\ UNCHANGED <<faultVars, userVars, deafened>>

-----------------------------------------------------------------------------
(* Crashes                                                                 *)

AtPlugin(c) == task[c].pc \in {"define", "plugin", "lock"}

Puts(n) == {chan[n][k].uuid : k \in 1 .. Len(chan[n])}

(* The clients whose handler, or forwarded call, runs at agent n.          *)
(* An offload_fdu runs at the entry point of its program.                  *)
HandledAt(n) ==
  {c \in Clients : \/ task[c].agent = n /\ task[c].pc \notin {"idle", "reply"}
                   \/ task[c].pc = "offload" /\ prog[c].entry = n}

(* Mutant: the monitoring task ends on its own and is started again.       *)
MutCrash(n) ==
  /\ n \in Crashable /\ crashes < MaxCrashes
  /\ agent[n] = "up"
  /\ crashes' = crashes + 1
  /\ agent' = [agent EXCEPT ![n] = "deaf"]
  /\ chan' = [chan EXCEPT ![n] = <<>>]
  /\ disturbed' = disturbed \cup Puts(n)
  /\ UNCHANGED <<catalog, global, local, netns, lockVars, used, task, prog,
                 orphans, userVars, deafened>>

(* The agent of n crashes.  A request that n was forwarding may or may not *)
(* have reached the owner (lost).  A program whose entry point is n gets   *)
(* an error, and so does one whose request was handled at n.               *)
Crash(n) ==
  /\ n \in Crashable /\ crashes < MaxCrashes
  /\ agent[n] # "down"
  /\ crashes' = crashes + 1
  /\ agent' = [agent EXCEPT ![n] = "down"]
  /\ hypervisors' = [hypervisors EXCEPT ![n] = FALSE]
  /\ writer' = [writer EXCEPT ![n] = "none"]
  /\ chan' = [chan EXCEPT ![n] = <<>>]
  /\ task' = [c \in Clients |-> [task[c] EXCEPT !.held = @ \ {n}]]
  /\ \E lost \in SUBSET {c \in Readers(n) : task[c].pc = "forward"} :
       orphans' = orphans \cup HandledAt(n) \cup lost
  /\ LET hit == {c \in Clients : \/ c \in orphans' \/ c \in Readers(n)
                                 \/ prog[c].entry = n}
     IN /\ prog' = [c \in Clients |-> IF c \in hit THEN NoProgram ELSE prog[c]]
        /\ disturbed' = disturbed \cup Puts(n)
                          \cup ({task[c].inst : c \in hit} \ {None})
  /\ UNCHANGED <<catalog, global, local, netns, used, userVars, deafened>>

(* Mutant: a new agent clears its node's records from the global store.    *)
MutBoot(n) ==
  /\ agent[n] = "down"
  /\ agent' = [agent EXCEPT ![n] = "deaf"]
  /\ global' = {r \in global : r.node # n}
  /\ UNCHANGED <<catalog, local, chan, netns, lockVars, used, task, prog,
                 orphans, crashes, userVars, lossVars>>

(* The agent is started again: its servers answer and its new node_info is *)
(* in the global store.  Nothing else of its former life is known to it.   *)
Boot(n) ==
  /\ agent[n] = "down"
  /\ agent' = [agent EXCEPT ![n] = "deaf"]
  /\ UNCHANGED <<vars, prog, orphans, crashes, userVars, lossVars>>

(* Its monitoring task subscribes to the local store.  What was written    *)
(* before that is not delivered.                                           *)
Subscribe(n) ==
  /\ agent[n] = "deaf"
  /\ agent' = [agent EXCEPT ![n] = "up"]
  /\ chan' = [chan EXCEPT ![n] = <<>>]
  /\ disturbed' = disturbed \cup Puts(n)
  /\ deafened' = deafened \cup Puts(n)
  /\ UNCHANGED <<catalog, global, local, netns, lockVars, used, task, prog,
                 orphans, crashes, userVars>>

(* What the plugin was doing for an agent that has crashed is cut short:   *)
(* its own call of the agent fails, or its process is replaced.  A         *)
(* configure may have made the namespace, a clean may have deleted it.     *)
PluginDies(c) ==
  LET n == task[c].agent
  IN /\ c \in orphans /\ AtPlugin(c)
     /\ task' = [task EXCEPT ![c].pc = "reply", ![c].snap = {}]
     /\ \/ UNCHANGED netns
        \/ /\ \E r \in task[c].snap : Holds(c, "configure", r)
           /\ FreshNetNs # {}
           /\ netns' = [netns EXCEPT ![n] = @ \cup {CHOOSE x \in FreshNetNs : TRUE}]
        \/ \E r \in task[c].snap :
             /\ Holds(c, "clean", r)
             /\ r.netns \in netns[n]
             /\ netns' = [netns EXCEPT ![n] = @ \ {r.netns}]
     /\ UNCHANGED <<catalog, global, local, chan, used, lockVars, prog,
                    faultVars, userVars, lossVars>>

(* Nobody is left to take the plugin's answer; an agent that had forwarded *)
(* the request has timed out.                                              *)
Forget(c) ==
  /\ c \in orphans
  /\ ~AtPlugin(c) /\ task[c].held = {}
  /\ task' = [task EXCEPT ![c] = IdleTask]
  /\ orphans' = orphans \ {c}
  /\ UNCHANGED <<storeVars, lockVars, prog, agent, crashes, userVars, lossVars>>

(* A plugin looks its agent up when its process starts, so the one that    *)
(* registers with a new agent does nothing any more for the old one.       *)
Register(n) ==
  /\ agent[n] # "down"
  /\ \A c \in orphans : task[c].agent # n
  /\ \E kind \in {"register", "unregister"} : PluginCall(n, kind)
  /\ UNCHANGED <<prog, faultVars, userVars, lossVars>>

-----------------------------------------------------------------------------
(* The agents, as long as they live                                        *)

(* Mutant: a handler polls once.                                           *)
MutHandler(c) ==
  /\ c \notin orphans
  /\ \/ GetDescriptor(c) \/ Poll(c) \/ RemoveGlobal(c) \/ RemoveFdu(c)
     \/ /\ task[c].pc = "poll"
        /\ Reply(c, "NotFound")
        /\ UNCHANGED <<storeVars, lockVars>>
  /\ UNCHANGED <<prog, faultVars, userVars, lossVars>>

Handler(c) ==
  /\ c \notin orphans
  /\ GetDescriptor(c) \/ Poll(c) \/ RemoveGlobal(c) \/ RemoveFdu(c)
  /\ UNCHANGED <<prog, faultVars, userVars, lossVars>>

Forwarded(c) ==
  /\ c \notin orphans
  /\ Arrive(c)
  /\ UNCHANGED <<prog, faultVars, userVars, lossVars>>

Plugin(c) ==
  /\ PluginStep(c)
  /\ UNCHANGED <<prog, faultVars, userVars, lossVars>>

Forward(n) ==
  /\ agent[n] = "up"
  /\ Monitor(n)
  /\ UNCHANGED <<prog, faultVars, userVars, lossVars>>

Admit(n) ==
  /\ PluginAdmit(n)
  /\ UNCHANGED <<prog, faultVars, userVars, lossVars>>

ProgramsNext ==
  \/ \E f \in Fdus : DefineFdu(f)
  \/ \E c \in Clients :
       \/ \E n \in Nodes, f \in Fdus : InstantiateFdu(c, n, f)
       \/ \E n \in Nodes, i \in Instances : DeleteInstance(c, n, i)
       \/ \E n \in Nodes, f \in Fdus : DeleteFdu(c, n, f)
       \/ NextCall(c) \/ Finish(c) \/ TimeOut(c)
       \/ Handler(c) \/ Forwarded(c) \/ Plugin(c)
       \/ PluginDies(c) \/ Forget(c)
  \/ \E n \in Nodes :
       \/ Crash(n) \/ Boot(n) \/ Subscribe(n)
       \/ Register(n) \/ Admit(n) \/ Forward(n)

ProgramsSpec == ProgramsInit /\ [][ProgramsNext]_allVars

(* As in FduLifecycle; a new agent gets on with its start, and programs    *)
(* with their calls.                                                       *)
ProgramsFairness ==
  /\ \A c \in Clients :
       /\ WF_allVars(Handler(c)) /\ WF_allVars(Plugin(c) \/ PluginDies(c))
       /\ WF_allVars(TimeOut(c)) /\ WF_allVars(Forget(c))
       /\ WF_allVars(Finish(c))
       /\ SF_allVars(Forwarded(c)) /\ SF_allVars(NextCall(c))
  /\ \A n \in Nodes :
       WF_allVars(Forward(n)) /\ WF_allVars(Admit(n)) /\ WF_allVars(Subscribe(n))

FairPrograms == ProgramsSpec /\ ProgramsFairness

-----------------------------------------------------------------------------
(* Properties                                                              *)

Records(i) == {r \in AllRecords : r.uuid = i}

(* An instance that a program has reported as removed is gone for good:    *)
(* no store has it, nothing queued brings it back, whichever entry point   *)
(* the program had - at one that is not the owner undefine_fdu is another  *)
(* operation (agent.rs:1386) - and whatever crashed before.  The programs' *)
(* clean_fdu is what makes sure of it: its handler returns after the last  *)
(* put of the instance has reached the global store.                       *)
DeletedForGood == \A i \in deleted : Records(i) = {}

(* An instance that nobody works on and that is RUNNING has been reported  *)
(* to the client of an instantiate_fdu, unless a crash or a timeout cut    *)
(* that program short: a start that has succeeded is never answered with   *)
(* an error, which would leave an instance running whose uuid its client   *)
(* never learns.                                                           *)
RunningReported ==
  \A n \in Nodes : \A r \in local[n] :
    r.status = "RUNNING" /\ Free(r.uuid) =>
      r.uuid \in reported \cup disturbed

(* A crash costs only the instances that had a put queued or a request in  *)
(* progress at the agent: for all others the global store keeps a record   *)
(* exactly while the owner does, and the same one once nothing is queued.  *)
CrashContained ==
  /\ \A g \in global :
       \/ g.uuid \in disturbed
       \/ \E c \in Clients : task[c].pc = "remove" /\ task[c].inst = g.uuid
       \/ \E r \in local[g.node] : r.uuid = g.uuid
  /\ \A n \in Nodes : \A r \in local[n] :
       \/ r.uuid \in disturbed
       \/ Queued(n, r.uuid)
       \/ r \in global

(* A descriptor is taken from a surviving instance only by an offload_fdu  *)
(* whose check and removal (agent.rs:1398), between which it holds no lock,*)
(* overlap the define_fdu of that instance.  The check sees every instance *)
(* whose define_fdu has been answered, in whatever state of its life, on   *)
(* whatever node and through whatever entry point, because it has reached  *)
(* the global store and stays there until it is undefined.                 *)
DescriptorKept ==
  \A r \in AllRecords :
    r.fdu_uuid \in catalog \/ r.uuid \in overtaken \cup disturbed

(* Every handler ends, and gives its read guard back, through crashes of   *)
(* its own and of other agents: a polling loop never waits for a put that  *)
(* was lost with an agent.  The one put it can wait for in vain is one     *)
(* made before the monitoring task of a new agent has subscribed.          *)
HandlersEnd ==
  \A c \in Clients :
    task[c].pc # "idle" ~>
      \/ task[c].pc = "idle"
      \/ task[c].pc = "poll" /\ task[c].inst \in deafened
=============================================================================
