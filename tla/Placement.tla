------------------------------ MODULE Placement ------------------------------
(***************************************************************************)
(* Where an FDU is placed: schedule_fdu of an agent asks every agent that  *)
(* it finds in the global store whether its node is compatible, then       *)
(* itself, picks one that said yes and has it define the FDU.              *)
(*                                                                         *)
(* Agents call each other by the uuid of a server, which is new with every *)
(* start: <<n, k>> is that of node n's k-th start.  An agent's own answer  *)
(* goes by the uuid of its node, <<n, 0>>.                                 *)
(*                                                                         *)
(* The architecture, the frequency and the image are the same for all the  *)
(* time and looked at alone: they are one relation here.  Positions and    *)
(* accelerators are in the descriptor and no code reads them.              *)
(***************************************************************************)
EXTENDS Integers

CONSTANTS
  Nodes,
  Clients,      \* who calls schedule_fdu
  Fdus,
  Descriptor,   \* what an FDU requires
  NodeInfo,     \* what a node is
  Suited,       \* pairs of a node and an FDU: architecture, frequency, image
  Statuses,     \* what a monitoring round may measure
  MaxStarts,    \* a bound: how often the agent of each node is started
  None          \* "no value"

VirtualInterfaceKind == {"VIRTIO", "BRIDGED", "PHYSICAL"}

ASSUME PlacementAssumption ==
  /\ \A f \in Fdus :
       /\ Descriptor[f].cpu_min_count \in 0 .. 255
       /\ Descriptor[f].ram_size_mb \in Nat
       /\ Descriptor[f].storage_size_mb \in Nat
       /\ DOMAIN Descriptor[f].interfaces \subseteq Nat
       /\ \A i \in DOMAIN Descriptor[f].interfaces :
            Descriptor[f].interfaces[i].vif_kind \in VirtualInterfaceKind
  /\ \A n \in Nodes : NodeInfo[n].cpu \in Nat \ {0}
  /\ \A s \in Statuses : s.ram \in Nat /\ s.disk \in Nat
  /\ Suited \subseteq Nodes \X Fdus
  /\ MaxStarts \in [Nodes -> Nat]
  /\ None \notin Statuses \cup Nodes

VARIABLES
  service,  \* how often each node's agent has been started
  up,       \* the nodes whose agent runs
  plugin,   \* the nodes whose agent has the hypervisor plugin
  info,     \* node_info in the global store: the start it is of, 0 if none
  status,   \* node_status in the global store
  catalog,  \* the descriptors in the global store
  task,     \* the request of each client
  ever,     \* history: nodes that met the request at some time
  steady    \* history: nodes that could have been found all the time

agentVars == <<service, up, plugin, info, status>>
vars == <<agentVars, catalog, task, ever, steady>>

Servers == Nodes \X Nat

(* asked: the checks in flight; met: those that have read the stores and   *)
(* still look for the plugin.                                              *)
Asking(n, f, servers) ==
  [pc |-> "asking", at |-> n, fdu |-> f, asked |-> servers, met |-> {},
   compatibles |-> {}, selected |-> None]

NoRequest == [Asking(None, None, {}) EXCEPT !.pc = "idle"]

Task ==
  [pc : {"idle", "asking", "self", "chosen", "defined", "notfound", "failed"},
   at : Nodes \cup {None}, fdu : Fdus \cup {None},
   asked : SUBSET Servers, met : SUBSET Servers, compatibles : SUBSET Servers,
   selected : Servers \cup {None}]

TypeOK ==
  /\ service \in [Nodes -> Nat]
  /\ \A n \in Nodes : service[n] <= MaxStarts[n]
  /\ up \subseteq {n \in Nodes : service[n] > 0}
  /\ plugin \subseteq up
  /\ info \in [Nodes -> Nat]
  /\ \A n \in Nodes : info[n] <= service[n]
  /\ status \in [Nodes -> Statuses \cup {None}]
  /\ catalog \subseteq Fdus
  /\ task \in [Clients -> Task]
  /\ \A c \in Clients :
       LET t == task[c]
       IN /\ t.pc # "idle" =>
               /\ t.at \in up
               /\ t.fdu \in Fdus
               /\ <<t.at, service[t.at]>> \notin t.asked \cup t.met
          /\ t.pc \in {"chosen", "defined"} => t.selected \in t.compatibles
  /\ ever \in [Clients -> SUBSET Nodes]
  /\ steady \in [Clients -> SUBSET Nodes]

Init ==
  /\ service = [n \in Nodes |-> 0] /\ up = {} /\ plugin = {}
  /\ info = [n \in Nodes |-> 0] /\ status = [n \in Nodes |-> None]
  /\ catalog = {}
  /\ task = [c \in Clients |-> NoRequest]
  /\ ever = [c \in Clients |-> {}] /\ steady = [c \in Clients |-> {}]

-----------------------------------------------------------------------------
(* The check of one node                                                   *)

(* Only BRIDGED and PHYSICAL interfaces need one of the node's: where they *)
(* are in the descriptor.                                                  *)
Constrained(f) ==
  {i \in DOMAIN Descriptor[f].interfaces :
     Descriptor[f].interfaces[i].vif_kind \in {"BRIDGED", "PHYSICAL"}}

(* One that names no parent is content with any.                           *)
HasParent(n, x) ==
  \E y \in NodeInfo[n].interfaces : x.parent \in {None, y}

(* The fold over the interfaces drops its accumulator: it says what the    *)
(* last of them says (MCPlacement has the fold).                           *)
Faces(n, f) ==
  \A i \in Constrained(f) :
    (\A j \in Constrained(f) : j <= i)
      => HasParent(n, Descriptor[f].interfaces[i])

(* Mutant: the memory is not looked at.                                    *)
MutCompatible(n, f, s) ==
  LET d == Descriptor[f]
  IN /\ <<n, f>> \in Suited
     /\ NodeInfo[n].cpu % 2^8 >= d.cpu_min_count
     /\ 1024 * s.disk >= d.storage_size_mb
     /\ Faces(n, f)

(* The comparison of a node whose status is s with a descriptor.  The      *)
(* number of processors is cast to u8; the free space of the disk is in    *)
(* megabytes and multiplied by 1024 all the same.                          *)
Compatible(n, f, s) ==
  LET d == Descriptor[f]
  IN /\ <<n, f>> \in Suited
     /\ NodeInfo[n].cpu % 2^8 >= d.cpu_min_count
     /\ s.ram >= d.ram_size_mb
     /\ 1024 * s.disk >= d.storage_size_mb
     /\ Faces(n, f)

-----------------------------------------------------------------------------
(* The request                                                             *)

Host(s) == s[1]

(* There is a server with uuid s.                                          *)
Live(s) == Host(s) \in up /\ s[2] \in {0, service[Host(s)]}

(* What the global store has.                                              *)
get_all_nodes == {n \in Nodes : info[n] > 0}
get_fdu(f) == f \in catalog
get_node_info(n) == info[n] > 0
get_node_status(n) == status[n] # None

(* Mutant: an agent finds itself among the others.                         *)
MutScheduleFdu(c, n, f) ==
  /\ task[c].pc = "idle"
  /\ n \in up
  /\ task' = [task EXCEPT ![c] =
       Asking(n, f, {<<m, info[m]>> : m \in get_all_nodes})]
  /\ UNCHANGED <<agentVars, catalog>>

(* get_compatible_nodes calls every server in the store but its own.       *)
schedule_fdu(c, n, f) ==
  /\ task[c].pc = "idle"
  /\ n \in up
  /\ task' = [task EXCEPT ![c] =
       Asking(n, f, {<<m, info[m]>> : m \in get_all_nodes}
                      \ {<<n, service[n]>>})]
  /\ UNCHANGED <<agentVars, catalog>>

(* check_fdu_compatibility at s up to the agent's lock: the descriptor,    *)
(* node_info and node_status; the first that is missing is an error, which *)
(* counts as no.                                                           *)
ReadRecords(c, s) ==
  LET t == task[c]
      n == Host(s)
      yes == /\ get_fdu(t.fdu)
             /\ get_node_info(n)
             /\ get_node_status(n)
             /\ Compatible(n, t.fdu, status[n])
  IN /\ s \in t.asked
     /\ Live(s)
     /\ task' = [task EXCEPT ![c].asked = @ \ {s},
                             ![c].met = IF yes THEN @ \cup {s} ELSE @]
     /\ UNCHANGED <<agentVars, catalog>>

(* The rest of it: is there a plugin?                                      *)
CheckPlugin(c, s) ==
  /\ s \in task[c].met
  /\ Live(s)
  /\ task' = [task EXCEPT ![c].met = @ \ {s},
                          ![c].compatibles =
                             IF Host(s) \in plugin THEN @ \cup {s} ELSE @]
  /\ UNCHANGED <<agentVars, catalog>>

(* Mutant: the call of a server that is gone is waited for.                *)
MutUnanswered(c, s) ==
  /\ s \in task[c].asked \cup task[c].met
  /\ ~Live(s)
  /\ UNCHANGED <<agentVars, catalog, task>>

(* A call that gets no answer times out and counts as no.                  *)
Unanswered(c, s) ==
  /\ s \in task[c].asked \cup task[c].met
  /\ ~Live(s)
  /\ task' = [task EXCEPT ![c].asked = @ \ {s}, ![c].met = @ \ {s}]
  /\ UNCHANGED <<agentVars, catalog>>

Answered(c) == task[c].asked \cup task[c].met = {}

(* Mutant: only the others are asked.                                      *)
MutSelfCheck(c) ==
  /\ task[c].pc = "asking" /\ Answered(c)
  /\ task' = [task EXCEPT ![c].pc = "self"]
  /\ UNCHANGED <<agentVars, catalog>>

(* join_all is done, and the agent checks its own node.                    *)
SelfCheck(c) ==
  /\ task[c].pc = "asking" /\ Answered(c)
  /\ task' = [task EXCEPT ![c].pc = "self", 
                          ![c].asked = {<<task[c].at, 0>>}]
  /\ UNCHANGED <<agentVars, catalog>>

(* One of the compatible nodes is picked at random.                        *)
Choose(c) ==
  /\ task[c].pc = "self" /\ Answered(c)
  /\ \/ \E s \in task[c].compatibles :
          task' = [task EXCEPT ![c].pc = "chosen", ![c].selected = s]
     \/ /\ task[c].compatibles = {}
        /\ task' = [task EXCEPT ![c].pc = "notfound"]
  /\ UNCHANGED <<agentVars, catalog>>

(* define_fdu at the picked node, which looks for the descriptor and the   *)
(* plugin again.                                                           *)
define_fdu(c) ==
  LET t == task[c]
      defined == /\ Live(t.selected)
                 /\ get_fdu(t.fdu)
                 /\ Host(t.selected) \in plugin
  IN /\ t.pc = "chosen"
     /\ task' = [task EXCEPT ![c].pc = IF defined THEN "defined" ELSE "failed"]
     /\ UNCHANGED <<agentVars, catalog>>

(* The client has its answer.                                              *)
Return(c) ==
  /\ task[c].pc \in {"defined", "notfound", "failed"}
  /\ task' = [task EXCEPT ![c] = NoRequest]
  /\ UNCHANGED <<agentVars, catalog>>

-----------------------------------------------------------------------------
(* What goes on meanwhile                                                  *)

onboard_fdu(f) ==
  /\ catalog' = catalog \cup {f}
  /\ UNCHANGED <<agentVars, task>>

offload_fdu(f) ==
  /\ f \in catalog
  /\ catalog' = catalog \ {f}
  /\ UNCHANGED <<agentVars, task>>

register_plugin(n) ==
  /\ n \in up \ plugin
  /\ plugin' = plugin \cup {n}
  /\ UNCHANGED <<service, up, info, status, catalog, task>>

unregister_plugin(n) ==
  /\ n \in plugin
  /\ plugin' = plugin \ {n}
  /\ UNCHANGED <<service, up, info, status, catalog, task>>

(* A round of monitoring_hw.                                               *)
Monitor(n) ==
  /\ n \in up
  /\ \E s \in Statuses : status' = [status EXCEPT ![n] = s]
  /\ UNCHANGED <<service, up, plugin, info, catalog, task>>

Start(n) ==
  /\ n \notin up
  /\ service[n] < MaxStarts[n]
  /\ service' = [service EXCEPT ![n] = @ + 1]
  /\ up' = up \cup {n}
  /\ UNCHANGED <<plugin, info, status, catalog, task>>

advertise(n) ==
  /\ n \in up
  /\ info' = [info EXCEPT ![n] = service[n]]
  /\ UNCHANGED <<service, up, plugin, status, catalog, task>>

(* The agent is gone, with the requests it was handling.                   *)
Crash(n) ==
  /\ n \in up
  /\ up' = up \ {n}
  /\ plugin' = plugin \ {n}
  /\ task' = [c \in Clients |->
                IF task[c].at = n THEN NoRequest ELSE task[c]]
  /\ UNCHANGED <<service, info, status, catalog>>

-----------------------------------------------------------------------------

Request(c) ==
  \/ \E s \in task[c].asked : ReadRecords(c, s)
  \/ \E s \in task[c].met : CheckPlugin(c, s)
  \/ \E s \in task[c].asked \cup task[c].met : Unanswered(c, s)
  \/ SelfCheck(c) \/ Choose(c) \/ define_fdu(c) \/ Return(c)

Step ==
  \/ \E c \in Clients : Request(c)
  \/ \E c \in Clients, n \in Nodes, f \in Fdus : schedule_fdu(c, n, f)
  \/ \E f \in Fdus : onboard_fdu(f) \/ offload_fdu(f)
  \/ \E n \in Nodes :
       \/ register_plugin(n) \/ unregister_plugin(n) \/ Monitor(n)
       \/ Start(n) \/ advertise(n) \/ Crash(n)

(* The reference: a node meets a descriptor when it has what every single  *)
(* requirement and every single interface asks for.                        *)
Meets(n, f) ==
  LET d == Descriptor[f]
  IN /\ <<n, f>> \in Suited
     /\ NodeInfo[n].cpu >= d.cpu_min_count
     /\ status[n] # None
     /\ status[n].ram >= d.ram_size_mb
     /\ status[n].disk >= d.storage_size_mb
     /\ \A i \in Constrained(f) : HasParent(n, Descriptor[f].interfaces[i])

(* It can be found: it is advertised as it runs, and has the plugin.       *)
Findable(n, f) ==
  /\ Meets(n, f)
  /\ f \in catalog
  /\ n \in plugin
  /\ info[n] = service[n]

(* The nodes that meet the request of c, and those that it could find.     *)
Meeting(c) == {n \in Nodes : Meets(n, task[c].fdu)}
Found(c) == {n \in Nodes : Findable(n, task[c].fdu)}

(* The history variables.                                                  *)
Watch ==
  LET Busy(c) == task'[c].pc # "idle"
      New(c) == task[c].pc = "idle"
  IN /\ ever' = [c \in Clients |->
                   IF Busy(c) THEN ever[c] \cup Meeting(c)' ELSE {}]
     /\ steady' = [c \in Clients |->
                   IF ~Busy(c) THEN {}
                   ELSE IF New(c) THEN Found(c)' ELSE steady[c] \cap Found(c)']

Next == Step /\ Watch

Spec == Init /\ [][Next]_vars

(* The tasks of a request are polled, and calls time out.                  *)
FairSpec == Spec /\ \A c \in Clients : WF_vars(Request(c) /\ Watch)

-----------------------------------------------------------------------------
(* Properties                                                              *)

(* The check is weaker than the requirements in two places: the fold over  *)
(* the interfaces, and the unit of the disk's free space.                  *)
Decidable(f) ==
  /\ \A i, j \in Constrained(f) : i = j
  /\ Descriptor[f].storage_size_mb <= 1

(* An FDU is only defined at a node that met its requirements, as the      *)
(* node's published status was at some time since the request began:       *)
(* answers and uuids are not mixed up on the way through                   *)
(* get_compatible_nodes, although agents come, go and come back.           *)
PlacedWhereMet ==
  \A c \in Clients :
    task[c].pc = "defined" /\ Decidable(task[c].fdu) =>
      Host(task[c].selected) \in ever[c]

(* schedule_fdu answers NotFound only when there is nothing to find: no    *)
(* node, its own included, met the requirements, was advertised and had    *)
(* the plugin throughout the request.  The check refuses nothing it should *)
(* accept, but where the u8 has too few processors left.                   *)
FoundWhenThere ==
  \A c \in Clients :
    task[c].pc = "notfound" =>
      \A n \in steady[c] :
        NodeInfo[n].cpu % 2^8 < Descriptor[task[c].fdu].cpu_min_count

(* A request ends, whichever of the agents it asks have gone.              *)
RequestEnds == \A c \in Clients : task[c].pc # "idle" ~> task[c].pc = "idle"
=============================================================================
