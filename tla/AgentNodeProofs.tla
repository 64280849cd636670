--------------------------- MODULE AgentNodeProofs ---------------------------
(***************************************************************************)
(* Type correctness of AgentNode, and its two safety properties, for any   *)
(* set of plugin processes, any kinds and any number of starts.            *)
(***************************************************************************)
EXTENDS AgentNode, TLAPS

(* Once withdrawn, the agent does not come by its advertisement again.     *)
PastAdvertise == withdrawn => main # "serving"

Inv == TypeOK /\ RegistrationKept /\ PastAdvertise /\ Withdrawn

LEMMA InvInit == Init => Inv
<1> SUFFICES ASSUME Init PROVE Inv
  OBVIOUS
<1>1. 0 \in 0 .. 0 /\ 0 \in 0 .. MaxStarts
  BY NodeAssumption
<1>2. /\ slot \in [Kinds -> Plugins \cup {None}]
      /\ \A k \in Kinds : slot[k] = None
  BY DEF Init, NoPlugin
<1>3. TypeOK
  BY <1>1, <1>2 DEF Init, TypeOK, NodeStatusEnum
<1>4. RegistrationKept /\ PastAdvertise /\ Withdrawn
  BY DEF Init, RegistrationKept, Registered, PastAdvertise, Withdrawn
<1>5. QED BY <1>3, <1>4 DEF Inv

-----------------------------------------------------------------------------
(* Type correctness                                                        *)

LEMMA AgentTypes ==
  ASSUME TypeOK,
         Start \/ advertise \/ Measure \/ Publish \/ Stop \/ EndLoop \/ Exit
           \/ Crash
  PROVE  TypeOK'
<1> USE NodeAssumption DEF TypeOK, historyVars
<1>1. CASE Start
  <2>1. \A x \in 0 .. incarnation : x \in 0 .. incarnation + 1
    OBVIOUS
  <2>2. peer \in [Plugins -> 0 .. incarnation + 1]
    BY <2>1
  <2>3. /\ slot' \in [Kinds -> Plugins \cup {None}]
        /\ \A k \in Kinds : slot'[k] = None
    BY <1>1 DEF Start, NoPlugin
  <2>4. incarnation' = incarnation + 1 /\ incarnation' \in 0 .. MaxStarts
    BY <1>1 DEF Start
  <2>5. peer' \in [Plugins -> 0 .. incarnation']
    BY <1>1, <2>2, <2>4 DEF Start, pluginVars
  <2>6. info' \in 0 .. incarnation' \cup {None}
    BY <1>1, <2>1, <2>4 DEF Start, storeVars
  <2>7. QED BY <1>1, <2>3, <2>4, <2>5, <2>6 DEF Start, storeVars, pluginVars
<1>2. CASE advertise
  BY <1>2 DEF advertise, add_node_info, pluginVars
<1>3. CASE Measure
  BY <1>3 DEF Measure, NodeStatusEnum, storeVars, pluginVars
<1>4. CASE Publish
  BY <1>4 DEF Publish, add_node_status, pluginVars
<1>5. CASE StopSend
  BY <1>5 DEF StopSend, storeVars, pluginVars
<1>6. CASE StopStatus
  BY <1>6 DEF StopStatus, remove_node_status, pluginVars
<1>7. CASE StopInfo
  BY <1>7 DEF StopInfo, remove_node_info, pluginVars
<1>8. CASE EndLoop
  BY <1>8 DEF EndLoop, storeVars, pluginVars
<1>9. CASE Gone
  BY <1>9 DEF Gone, NoPlugin, storeVars, pluginVars
<1>10. QED
  BY <1>1, <1>2, <1>3, <1>4, <1>5, <1>6, <1>7, <1>8, <1>9 DEF Stop, Exit, Crash

LEMMA PluginTypes ==
  ASSUME TypeOK, NEW p \in Plugins,
         \/ PluginStart(p) \/ Registration(p) \/ Serve(p)
         \/ PluginStop(p) \/ unregister_plugin(p) \/ PluginCrash(p)
         \/ DefaultNetwork(p) \/ DefaultNetworkFails(p)
  PROVE  TypeOK'
<1> USE NodeAssumption DEF TypeOK, historyVars
<1>1. CASE PluginStart(p)
  BY <1>1 DEF PluginStart, agentVars, storeVars
<1>2. CASE register_plugin(p)
  <2>1. slot' \in [Kinds -> Plugins \cup {None}]
    BY <1>2 DEF register_plugin
  <2>2. \A k \in Kinds : slot'[k] # None => KindOf[slot'[k]] = k
    BY <1>2 DEF register_plugin
  <2>3. making' \cup lost' \subseteq {q \in Plugins : KindOf[q] = Networking}
    BY <1>2 DEF register_plugin
  <2>4. QED BY <1>2, <2>1, <2>2, <2>3 DEF register_plugin, add_plugin
<1>3. CASE AlreadyPresent(p)
  BY <1>3 DEF AlreadyPresent, agentVars, storeVars
<1>4. CASE CallFails(p)
  BY <1>4 DEF CallFails, agentVars, storeVars
<1>5. CASE Serve(p)
  BY <1>5 DEF Serve, agentVars, storeVars
<1>6. CASE PluginStop(p)
  BY <1>6 DEF PluginStop, agentVars, storeVars
<1>7. CASE unregister_plugin(p)
  <2>1. slot' \in [Kinds -> Plugins \cup {None}]
    BY <1>7 DEF unregister_plugin
  <2>2. \A k \in Kinds : slot'[k] # None => KindOf[slot'[k]] = k
    BY <1>7 DEF unregister_plugin
  <2>3. QED BY <1>7, <2>1, <2>2 DEF unregister_plugin, remove_plugin
<1>8. CASE PluginCrash(p)
  BY <1>8 DEF PluginCrash, agentVars, storeVars
<1>9. CASE DefaultNetwork(p)
  BY <1>9 DEF DefaultNetwork, pluginVars
<1>10. CASE DefaultNetworkFails(p)
  BY <1>10 DEF DefaultNetworkFails, storeVars, pluginVars
<1>11. QED
  BY <1>1, <1>2, <1>3, <1>4, <1>5, <1>6, <1>7, <1>8, <1>9, <1>10 DEF Registration

LEMMA TypeStep == TypeOK /\ [Next]_vars => TypeOK'
<1> SUFFICES ASSUME TypeOK, [Next]_vars PROVE TypeOK'
  OBVIOUS
<1>1. CASE UNCHANGED vars
  BY <1>1 DEF TypeOK, vars, agentVars, storeVars, pluginVars, historyVars
<1>2. QED BY <1>1, AgentTypes, PluginTypes DEF Next

-----------------------------------------------------------------------------
(* Registrations                                                           *)

(* A step of the agent leaves a registration alone or ends the agent; a    *)
(* new agent has other incarnations than the ones plugins have found.      *)
LEMMA AgentKeeps ==
  ASSUME TypeOK, RegistrationKept,
         Start \/ advertise \/ Measure \/ Publish \/ Stop \/ EndLoop \/ Exit
           \/ Crash
  PROVE  RegistrationKept'
<1>1. CASE Start
  <2>1. \A p \in Plugins : peer'[p] # incarnation'
    <3>1. \A p \in Plugins : peer[p] \in 0 .. incarnation
      BY DEF TypeOK
    <3>2. incarnation \in Nat /\ incarnation' = incarnation + 1 /\ peer' = peer
      BY <1>1, NodeAssumption DEF Start, pluginVars, TypeOK
    <3>3. QED BY <3>1, <3>2
  <2>2. QED BY <2>1 DEF RegistrationKept, Registered
<1>2. CASE Gone
  BY <1>2 DEF Gone, RegistrationKept, Registered
<1>3. CASE advertise \/ Measure \/ Publish \/ Stop \/ EndLoop
  <2>1. /\ UNCHANGED <<incarnation, slot, records, pc, peer>>
        /\ main' # "down" => main # "down"
    BY <1>3 DEF advertise, Measure, Publish, Stop, StopSend, StopStatus,
                StopInfo, EndLoop, storeVars, pluginVars
  <2>2. QED BY <2>1 DEF RegistrationKept, Registered, get_plugin
<1>4. QED BY <1>1, <1>2, <1>3 DEF Exit, Crash

(* A plugin that is admitted finds its slot free; one that leaves, if the  *)
(* running agent hears of it, is the one in the slot.                      *)
LEMMA PluginKeeps ==
  ASSUME TypeOK, RegistrationKept, NEW p \in Plugins,
         \/ PluginStart(p) \/ Registration(p) \/ Serve(p)
         \/ PluginStop(p) \/ unregister_plugin(p) \/ PluginCrash(p)
         \/ DefaultNetwork(p) \/ DefaultNetworkFails(p)
  PROVE  RegistrationKept'
<1> DEFINE Keeps == /\ UNCHANGED <<incarnation, main, slot, records>>
                    /\ \A q \in Plugins : Registered(q)' => Registered(q)
<1>0. Keeps => RegistrationKept'
  BY DEF RegistrationKept, get_plugin
<1> USE DEF TypeOK
<1>1. CASE PluginStart(p)
  BY <1>0, <1>1 DEF PluginStart, agentVars, storeVars, Registered
<1>2. CASE AlreadyPresent(p)
  BY <1>0, <1>2 DEF AlreadyPresent, agentVars, storeVars, Registered
<1>3. CASE CallFails(p)
  BY <1>0, <1>3 DEF CallFails, agentVars, storeVars, Registered
<1>4. CASE Serve(p)
  BY <1>0, <1>4 DEF Serve, agentVars, storeVars, Registered
<1>5. CASE PluginStop(p)
  BY <1>0, <1>5 DEF PluginStop, agentVars, storeVars, Registered
<1>6. CASE PluginCrash(p)
  BY <1>0, <1>6 DEF PluginCrash, agentVars, storeVars, Registered
<1>7. CASE DefaultNetwork(p) \/ DefaultNetworkFails(p)
  BY <1>0, <1>7 DEF DefaultNetwork, DefaultNetworkFails, storeVars, pluginVars,
                    Registered
<1>8. CASE register_plugin(p)
  <2>1. /\ slot[KindOf[p]] = None /\ slot' = [slot EXCEPT ![KindOf[p]] = p]
        /\ records' = records \cup {p} /\ pc' = [pc EXCEPT ![p] = "registered"]
        /\ UNCHANGED <<incarnation, main, peer>>
    BY <1>8 DEF register_plugin, add_plugin
  <2>2. KindOf[p] \in Kinds
    BY NodeAssumption
  <2>3. slot'[KindOf[p]] = p /\ p \in records'
    BY <2>1, <2>2
  <2>4. ASSUME NEW q \in Plugins, q # p, Registered(q)'
        PROVE  slot'[KindOf[q]] = q /\ q \in records'
    <3>1. Registered(q)
      BY <2>1, <2>4 DEF Registered
    <3>2. slot[KindOf[q]] = q /\ q \in records /\ q # None
      BY <3>1, NodeAssumption DEF RegistrationKept, get_plugin
    <3>3. KindOf[q] # KindOf[p] /\ KindOf[q] \in Kinds
      BY <2>1, <3>2, NodeAssumption
    <3>4. slot'[KindOf[q]] = slot[KindOf[q]]
      BY <2>1, <2>2, <3>3
    <3>5. QED BY <2>1, <3>2, <3>4
  <2>5. QED BY <2>3, <2>4 DEF RegistrationKept, get_plugin
<1>9. CASE unregister_plugin(p)
  <2>1. /\ pc' = [pc EXCEPT ![p] = "dead"] /\ records' = records \ {p}
        /\ slot' = [slot EXCEPT ![KindOf[p]] = None] \/ slot' = slot
        /\ UNCHANGED <<incarnation, main, peer>>
    BY <1>9 DEF unregister_plugin, remove_plugin
  <2>2. Registered(p)
    BY <1>9 DEF unregister_plugin, Answers, Registered
  <2>3. KindOf[p] \in Kinds /\ slot[KindOf[p]] = p
    BY <2>2, NodeAssumption DEF RegistrationKept
  <2>4. ASSUME NEW q \in Plugins, Registered(q)'
        PROVE  slot'[KindOf[q]] = q /\ q \in records'
    <3>1. q # p /\ Registered(q)
      BY <2>1, <2>4 DEF Registered
    <3>2. slot[KindOf[q]] = q /\ q \in records /\ KindOf[q] # KindOf[p]
      BY <2>3, <3>1 DEF RegistrationKept, get_plugin
    <3>3. slot'[KindOf[q]] = slot[KindOf[q]]
      BY <2>1, <2>3, <3>2, NodeAssumption
    <3>4. QED BY <2>1, <3>1, <3>2, <3>3
  <2>5. QED BY <2>4 DEF RegistrationKept, get_plugin
<1>10. QED
  BY <1>1, <1>2, <1>3, <1>4, <1>5, <1>6, <1>7, <1>8, <1>9 DEF Registration

-----------------------------------------------------------------------------
(* Withdrawal                                                              *)

LEMMA WithdrawnStep ==
  ASSUME TypeOK, PastAdvertise, Withdrawn, [Next]_vars
  PROVE  PastAdvertise' /\ Withdrawn'
<1> USE DEF PastAdvertise, Withdrawn, historyVars
<1>1. CASE Start
  BY <1>1 DEF Start
<1>2. CASE advertise
  BY <1>2 DEF advertise
<1>3. CASE Measure \/ Publish
  BY <1>3 DEF Measure, Publish, storeVars
<1>4. CASE Stop
  <2>1. CASE StopSend \/ StopStatus
    BY <2>1 DEF StopSend, StopStatus, storeVars
  <2>2. CASE StopInfo
    <3>1. withdrawn' = (main # "serving")
      BY <2>2 DEF StopInfo
    <3>2. info' = None /\ main' = main
      BY <2>2 DEF StopInfo, remove_node_info
    <3>3. Withdrawn'
      BY <3>2
    <3>4. PastAdvertise'
      BY <3>1, <3>2, Zenon
    <3>5. QED BY <3>3, <3>4
  <2>3. QED BY <1>4, <2>1, <2>2 DEF Stop
<1>5. CASE EndLoop
  BY <1>5 DEF EndLoop, storeVars
<1>6. CASE Gone
  BY <1>6 DEF Gone, storeVars
<1>7. ASSUME NEW p \in Plugins,
             \/ PluginStart(p) \/ Registration(p) \/ Serve(p)
             \/ PluginStop(p) \/ unregister_plugin(p) \/ PluginCrash(p)
             \/ DefaultNetwork(p) \/ DefaultNetworkFails(p)
      PROVE  UNCHANGED <<withdrawn, main, info>>
  BY <1>7 DEF PluginStart, Registration, register_plugin, AlreadyPresent,
              CallFails, Serve, PluginStop, unregister_plugin, PluginCrash,
              DefaultNetwork, DefaultNetworkFails, agentVars, storeVars
<1>8. CASE UNCHANGED vars
  BY <1>8 DEF vars, agentVars, storeVars
<1>9. QED
  BY <1>1, <1>2, <1>3, <1>4, <1>5, <1>6, <1>7, <1>8 DEF Next, Exit, Crash

-----------------------------------------------------------------------------
(* The theorems                                                            *)

LEMMA InvAlways == Spec => []Inv
<1>1. Inv /\ [Next]_vars => Inv'
  <2> SUFFICES ASSUME Inv, [Next]_vars PROVE Inv'
    OBVIOUS
  <2>1. TypeOK'
    BY TypeStep DEF Inv
  <2>2. RegistrationKept'
    <3>1. CASE UNCHANGED vars
      BY <3>1 DEF Inv, RegistrationKept, Registered, get_plugin, vars,
                  agentVars, storeVars, pluginVars
    <3>2. QED BY <3>1, AgentKeeps, PluginKeeps DEF Inv, Next
  <2>3. PastAdvertise' /\ Withdrawn'
    BY WithdrawnStep DEF Inv
  <2>4. QED BY <2>1, <2>2, <2>3 DEF Inv
<1>2. QED BY <1>1, InvInit, PTL DEF Spec

(* A node's state is well formed whatever starts, stops and crashes.       *)
THEOREM TypeOKHolds == Spec => []TypeOK
<1>1. Inv => TypeOK
  BY DEF Inv
<1>2. QED BY <1>1, InvAlways, PTL

(* A plugin that has registered with the running agent keeps its slot and  *)
(* its record until it unregisters, for any number of plugin processes and *)
(* of starts: although unregister_plugin removes by kind (agent.rs:660),   *)
(* no other process can take its registration away.                        *)
THEOREM RegistrationKeptHolds == Spec => []RegistrationKept
<1>1. Inv => RegistrationKept
  BY DEF Inv
<1>2. QED BY <1>1, InvAlways, PTL

(* Once stop (agent.rs:324) has removed what the agent had advertised, the *)
(* node_info does not come back while that agent lives.                    *)
THEOREM WithdrawnHolds == Spec => []Withdrawn
<1>1. Inv => Withdrawn
  BY DEF Inv
<1>2. QED BY <1>1, InvAlways, PTL
=============================================================================
