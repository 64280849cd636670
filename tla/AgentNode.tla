------------------------------ MODULE AgentNode ------------------------------
(***************************************************************************)
(* A node: its agent's main loop and the plugin processes that register    *)
(* with it, through starts, stops and crashes of all of them.              *)
(*                                                                         *)
(* Every start of the agent (an incarnation) serves its interfaces under   *)
(* fresh uuids.  A plugin looks the agent up once, when it starts, and     *)
(* from then on calls that incarnation.  Plugins unwrap the answer of      *)
(* every call to the agent: an error, or no answer, ends the process.  The *)
(* stores outlive the processes.                                           *)
(*                                                                         *)
(* Of the node's status only READY or NOTREADY is kept, and of the two     *)
(* copies of status and info the global one: nothing reads the local ones. *)
(***************************************************************************)
EXTENDS Naturals

CONSTANTS
  Plugins,      \* plugin processes, by the uuid of their server
  KindOf,       \* the kind each one registers as
  Hypervisors,  \* the kinds of hypervisors
  MaxStarts,    \* a bound: how often the agent is started
  None          \* "no value"

Networking == "NETWORKING"
Kinds == Hypervisors \cup {Networking}

ASSUME NodeAssumption ==
  /\ Networking \notin Hypervisors
  /\ KindOf \in [Plugins -> Kinds]
  /\ MaxStarts \in Nat
  /\ None \notin Plugins \cup Nat \cup {"READY", "NOTREADY"}

VARIABLES
  incarnation,  \* the agent's service uuid: the number of starts so far
  main,         \* the agent's main loop
  stopping,     \* how far Agent::stop has got
  slot,         \* AgentInner: the registered plugin of each kind
  measured,     \* the status computed and not yet published
  making,       \* plugins whose default network is still to be created
  info,         \* node_info in the global store: the incarnation it names
  status,       \* node_status in the global store
  records,      \* plugin records in the node's local store
  network,      \* is the default network in the node's local store?
  pc,           \* each plugin process
  peer,         \* the incarnation of the agent that it calls
  withdrawn,    \* history: has stop removed what the agent had advertised?
  lost          \* history: plugins whose default network task has failed

agentVars == <<incarnation, main, stopping, slot, measured, making>>
storeVars == <<info, status, records, network>>
pluginVars == <<pc, peer>>
historyVars == <<withdrawn, lost>>
vars == <<agentVars, storeVars, pluginVars, historyVars>>

NodeStatusEnum == {"READY", "NOTREADY"}

TypeOK ==
  /\ incarnation \in 0 .. MaxStarts
  /\ main \in {"down", "serving", "loop", "measured", "ending"}
  /\ stopping \in {"no", "sent", "status", "done"}
  /\ slot \in [Kinds -> Plugins \cup {None}]
  /\ \A k \in Kinds : slot[k] # None => KindOf[slot[k]] = k
  /\ measured \in NodeStatusEnum \cup {None}
  /\ making \cup lost \subseteq {p \in Plugins : KindOf[p] = Networking}
  /\ info \in 0 .. incarnation \cup {None}
  /\ status \in NodeStatusEnum \cup {None}
  /\ records \subseteq Plugins
  /\ network \in BOOLEAN
  /\ pc \in [Plugins -> {"new", "registering", "registered", "serving",
                         "unregistering", "dead"}]
  /\ peer \in [Plugins -> 0 .. incarnation]
  /\ withdrawn \in BOOLEAN

NoPlugin == [k \in Kinds |-> None]

Init ==
  /\ incarnation = 0 /\ main = "down" /\ stopping = "no"
  /\ slot = NoPlugin /\ measured = None /\ making = {}
  /\ info = None /\ status = None /\ records = {} /\ network = FALSE
  /\ pc = [p \in Plugins |-> "new"]
  /\ peer = [p \in Plugins |-> 0]
  /\ withdrawn = FALSE /\ lost = {}

-----------------------------------------------------------------------------
(* The records of the node in the stores                                   *)

add_node_info(i) == info' = i
remove_node_info == info' = None
add_node_status(s) == status' = s
remove_node_status == status' = None
get_plugin(p) == p \in records
add_plugin(p) == records' = records \cup {p}
remove_plugin(p) == records' = records \ {p}

-----------------------------------------------------------------------------
(* The agent                                                               *)

(* The process starts and its servers answer: pid file and main are not    *)
(* modelled but for the single process they allow.                         *)
Start ==
  /\ main = "down"
  /\ incarnation < MaxStarts
  /\ incarnation' = incarnation + 1
  /\ main' = "serving"
  /\ slot' = NoPlugin
  /\ stopping' = "no"
  /\ withdrawn' = FALSE
  /\ UNCHANGED <<measured, making, storeVars, pluginVars, lost>>

advertise ==
  /\ main = "serving"
  /\ add_node_info(incarnation)
  /\ main' = "loop"
  /\ UNCHANGED <<incarnation, stopping, slot, measured, making,
                 status, records, network, pluginVars, historyVars>>

(* Mutant: a networking plugin is enough.                                  *)
MutMeasure ==
  /\ main = "loop"
  /\ measured' = IF slot[Networking] # None THEN "READY" ELSE "NOTREADY"
  /\ main' = "measured"
  /\ UNCHANGED <<incarnation, stopping, slot, making, storeVars, pluginVars,
                 historyVars>>

(* A round of monitoring_hw up to its first put, with the read guard held. *)
Measure ==
  /\ main = "loop"
  /\ measured' =
       IF slot[Networking] # None /\ \E k \in Hypervisors : slot[k] # None
         THEN "READY" ELSE "NOTREADY"
  /\ main' = "measured"
  /\ UNCHANGED <<incarnation, stopping, slot, making, storeVars, pluginVars,
                 historyVars>>

(* Mutant: every round advertises the node again.                          *)
MutPublish ==
  /\ main = "measured"
  /\ add_node_status(measured)
  /\ add_node_info(incarnation)
  /\ measured' = None
  /\ main' = "loop"
  /\ UNCHANGED <<incarnation, stopping, slot, making, records, network,
                 pluginVars, historyVars>>

(* The rest of the round: the put, and the guard is dropped.               *)
Publish ==
  /\ main = "measured"
  /\ add_node_status(measured)
  /\ measured' = None
  /\ main' = "loop"
  /\ UNCHANGED <<incarnation, stopping, slot, making, info, records, network,
                 pluginVars, historyVars>>

(* Agent::stop, called by another thread whenever Ctrl-C comes, while the  *)
(* main loop goes on: send, remove_node_status, remove_node_info.          *)
StopSend ==
  /\ main # "down" /\ stopping = "no"
  /\ stopping' = "sent"
  /\ UNCHANGED <<incarnation, main, slot, measured, making, storeVars,
                 pluginVars, historyVars>>

StopStatus ==
  /\ stopping = "sent"
  /\ remove_node_status
  /\ stopping' = "status"
  /\ UNCHANGED <<incarnation, main, slot, measured, making, info, records,
                 network, pluginVars, historyVars>>

StopInfo ==
  /\ stopping = "status"
  /\ remove_node_info
  /\ stopping' = "done"
  /\ withdrawn' = (main # "serving")
  /\ UNCHANGED <<incarnation, main, slot, measured, making, status, records,
                 network, pluginVars, lost>>

(* The race of the monitoring loop and the stop channel is decided at any  *)
(* await of the loop; the loop is dropped there, and its guard with it.    *)
EndLoop ==
  /\ stopping # "no"
  /\ main \in {"loop", "measured"}
  /\ main' = "ending"
  /\ measured' = None
  /\ UNCHANGED <<incarnation, stopping, slot, making, storeVars, pluginVars,
                 historyVars>>

(* The process is gone, with its tasks and its memory.                     *)
Gone ==
  /\ main' = "down"
  /\ stopping' = "no"
  /\ slot' = NoPlugin
  /\ measured' = None
  /\ making' = {}
  /\ UNCHANGED <<incarnation, storeVars, pluginVars, historyVars>>

(* The servers have been stopped and main returns.                         *)
Exit == main = "ending" /\ stopping = "done" /\ Gone

Crash == main # "down" /\ Gone

-----------------------------------------------------------------------------
(* The plugins                                                             *)

(* Mutant: a plugin's calls reach whichever agent runs.                    *)
MutAnswers(p) == main \in {"serving", "loop", "ending"}

(* A call of p that needs the agent's write lock is answered: p calls the  *)
(* incarnation that runs, and the monitoring loop holds no guard.          *)
Answers(p) ==
  /\ peer[p] = incarnation
  /\ main \in {"serving", "loop", "ending"}

(* A call of p finds no server, or a server that is being stopped.         *)
Unreachable(p) == peer[p] # incarnation \/ main \in {"down", "ending"}

(* The process finds a local agent, and a hypervisor plugin finds a local  *)
(* networking plugin as well; a process that finds none panics, which      *)
(* changes nothing.                                                        *)
PluginStart(p) ==
  /\ pc[p] = "new"
  /\ main # "down"
  /\ KindOf[p] \in Hypervisors =>
       \E q \in Plugins : pc[q] = "serving" /\ KindOf[q] = Networking
  /\ pc' = [pc EXCEPT ![p] = "registering"]
  /\ peer' = [peer EXCEPT ![p] = incarnation]
  /\ UNCHANGED <<agentVars, storeVars, historyVars>>

(* Mutant: the default network is created when another plugin of the kind  *)
(* has been there before.                                                  *)
MutRegister(p) ==
  /\ pc[p] = "registering"
  /\ Answers(p)
  /\ slot[KindOf[p]] = None
  /\ slot' = [slot EXCEPT ![KindOf[p]] = p]
  /\ add_plugin(p)
  /\ making' = IF KindOf[p] = Networking /\ records # {}
                 THEN making \cup {p} ELSE making
  /\ pc' = [pc EXCEPT ![p] = "registered"]
  /\ UNCHANGED <<incarnation, main, stopping, measured, info, status, network,
                 peer, historyVars>>

(* Mutant: the task is spawned for every plugin.                           *)
MutSpawn(p) ==
  /\ pc[p] = "registering"
  /\ Answers(p)
  /\ slot[KindOf[p]] = None
  /\ slot' = [slot EXCEPT ![KindOf[p]] = p]
  /\ add_plugin(p)
  /\ making' = making \cup {p}
  /\ pc' = [pc EXCEPT ![p] = "registered"]
  /\ UNCHANGED <<incarnation, main, stopping, measured, info, status, network,
                 peer, historyVars>>

(* register_plugin.  For a networking plugin a task is spawned that        *)
(* creates the default network.                                            *)
register_plugin(p) ==
  /\ pc[p] = "registering"
  /\ Answers(p)
  /\ slot[KindOf[p]] = None
  /\ slot' = [slot EXCEPT ![KindOf[p]] = p]
  /\ add_plugin(p)
  /\ making' = IF KindOf[p] = Networking THEN making \cup {p} ELSE making
  /\ pc' = [pc EXCEPT ![p] = "registered"]
  /\ UNCHANGED <<incarnation, main, stopping, measured, info, status, network,
                 peer, historyVars>>

(* Mutant: the plugin asks again.                                          *)
MutAlreadyPresent(p) ==
  /\ pc[p] = "registering"
  /\ Answers(p)
  /\ slot[KindOf[p]] # None
  /\ UNCHANGED vars

(* register_plugin answers AlreadyPresent: the process ends.               *)
AlreadyPresent(p) ==
  /\ pc[p] = "registering"
  /\ Answers(p)
  /\ slot[KindOf[p]] # None
  /\ pc' = [pc EXCEPT ![p] = "dead"]
  /\ UNCHANGED <<agentVars, storeVars, peer, historyVars>>

(* The plugin's own server is registered and started.                      *)
Serve(p) ==
  /\ pc[p] = "registered"
  /\ pc' = [pc EXCEPT ![p] = "serving"]
  /\ UNCHANGED <<agentVars, storeVars, peer, historyVars>>

PluginStop(p) ==
  /\ pc[p] = "serving"
  /\ pc' = [pc EXCEPT ![p] = "unregistering"]
  /\ UNCHANGED <<agentVars, storeVars, peer, historyVars>>

(* unregister_plugin removes whatever plugin has the kind of p's record;   *)
(* without a record it answers NotFound.  The process ends either way.     *)
unregister_plugin(p) ==
  /\ pc[p] = "unregistering"
  /\ Answers(p)
  /\ slot' = IF get_plugin(p) THEN [slot EXCEPT ![KindOf[p]] = None] ELSE slot
  /\ remove_plugin(p)
  /\ pc' = [pc EXCEPT ![p] = "dead"]
  /\ UNCHANGED <<incarnation, main, stopping, measured, making, info, status,
                 network, peer, historyVars>>

(* The call is not answered.                                               *)
CallFails(p) ==
  /\ pc[p] \in {"registering", "unregistering"}
  /\ Unreachable(p)
  /\ pc' = [pc EXCEPT ![p] = "dead"]
  /\ UNCHANGED <<agentVars, storeVars, peer, historyVars>>

PluginCrash(p) ==
  /\ pc[p] \notin {"new", "dead"}
  /\ pc' = [pc EXCEPT ![p] = "dead"]
  /\ UNCHANGED <<agentVars, storeVars, peer, historyVars>>

(* The agent's task has found the plugin's server and calls                *)
(* create_default_virtual_network, which puts the network.                 *)
DefaultNetwork(p) ==
  /\ p \in making
  /\ pc[p] \in {"serving", "unregistering"}
  /\ network' = TRUE
  /\ making' = making \ {p}
  /\ UNCHANGED <<incarnation, main, stopping, slot, measured, info, status,
                 records, pluginVars, historyVars>>

(* The task unwraps what verify_server and the call answer: an error, or   *)
(* no answer in time, ends it, nobody hears of that, and it is not tried   *)
(* again.  That the answer to a call that has put the network is lost      *)
(* makes no difference.                                                    *)
DefaultNetworkFails(p) ==
  /\ p \in making
  /\ making' = making \ {p}
  /\ lost' = lost \cup {p}
  /\ UNCHANGED <<incarnation, main, stopping, slot, measured, storeVars,
                 pluginVars, withdrawn>>

-----------------------------------------------------------------------------

Stop == StopSend \/ StopStatus \/ StopInfo

(* What plugin p and the agent do about its registration.                  *)
Registration(p) == register_plugin(p) \/ AlreadyPresent(p) \/ CallFails(p)

Next ==
  \/ Start \/ advertise \/ Measure \/ Publish
  \/ Stop \/ EndLoop \/ Exit \/ Crash
  \/ \E p \in Plugins :
       \/ PluginStart(p) \/ Registration(p) \/ Serve(p)
       \/ PluginStop(p) \/ unregister_plugin(p) \/ PluginCrash(p)
       \/ DefaultNetwork(p) \/ DefaultNetworkFails(p)

Spec == Init /\ [][Next]_vars

(* Running tasks are polled: the one that creates the default network gets *)
(* done once the plugin serves, unless it fails.  A registration waits for *)
(* the write lock that the monitoring loop gives back in every round.      *)
FairSpec ==
  /\ Spec
  /\ WF_vars(advertise) /\ WF_vars(Measure) /\ WF_vars(Publish)
  /\ WF_vars(StopStatus) /\ WF_vars(StopInfo) /\ WF_vars(EndLoop \/ Exit)
  /\ \A p \in Plugins :
       /\ SF_vars(Registration(p))
       /\ WF_vars(Serve(p))
       /\ WF_vars(DefaultNetwork(p))

-----------------------------------------------------------------------------
(* Properties                                                              *)

(* Plugin p has registered with the agent that runs now and has not asked  *)
(* to leave.                                                               *)
Registered(p) ==
  /\ pc[p] \in {"registered", "serving", "unregistering"}
  /\ peer[p] = incarnation
  /\ main # "down"

(* A plugin that has registered with the running agent stays the agent's   *)
(* plugin of its kind, and keeps the record by which it can unregister,    *)
(* until it unregisters itself: although unregister_plugin removes by kind *)
(* (agent.rs:660) and records outlive their agent, no plugin left over     *)
(* from an earlier agent takes away its successor's registration.          *)
RegistrationKept ==
  \A p \in Plugins : Registered(p) => slot[KindOf[p]] = p /\ get_plugin(p)

(* The global store tells the truth in the end: if from some time on the   *)
(* agent runs with a plugin of either kind, its node becomes and stays     *)
(* READY, and if one is missing for good it becomes and stays NOTREADY,    *)
(* whatever an earlier agent that crashed has left there.                  *)
Running == main \notin {"down", "ending"} /\ stopping = "no"

Complete ==
  /\ slot[Networking] # None
  /\ \E k \in Hypervisors : slot[k] # None

StatusSettles ==
  /\ <>[](Running /\ Complete) => <>[](status = "READY")
  /\ <>[](Running /\ ~Complete) => <>[](status = "NOTREADY")

(* A node whose agent has been stopped is not offered any more: once stop  *)
(* has removed what the agent had advertised, its node_info does not come  *)
(* back, although the main loop goes on for a while and may write a status *)
(* after stop has removed it.  An agent that is stopped while it starts is *)
(* the exception: it advertises itself after stop has been there.          *)
Withdrawn == withdrawn => info = None

(* A networking plugin that stays with the agent it registered with gets   *)
(* the default network created, although its server starts only after it   *)
(* has registered, unless the one task that its registration has spawned   *)
(* fails (agent.rs:635): then nothing creates the network for it.          *)
DefaultNetworkMade ==
  \A p \in Plugins :
    KindOf[p] = Networking =>
      (<>[](Registered(p) /\ Running) => <>(network \/ p \in lost))

(* A plugin that has found an agent does not hang: it serves, or its       *)
(* process ends, with the agent running, stopped, crashed or restarted.    *)
PluginSettles ==
  \A p \in Plugins :
    pc[p] = "registering" ~> pc[p] \in {"serving", "dead"}
=============================================================================
